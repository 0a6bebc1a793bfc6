--------------------------- MODULE ReleaseWorkflow ---------------------------
(***************************************************************************)
(* .github/workflows/release.yml: a push of a version tag starts a run that*)
(* validates the commit, builds an archive per platform in parallel jobs,  *)
(* checks that the tag still names the commit, and publishes.  Any step may*)
(* fail, and a run may be repeated, whole or its failed jobs only; what a  *)
(* job uploaded before is used again then.                                 *)
(*                                                                         *)
(* Abstractions: an archive is the build that made it, since two builds of *)
(* a commit are not the same bytes, and the commit it was built from.  The *)
(* checksums file names the archives it was computed over; release notes   *)
(* are those of a commit.  Tests and checks of contents may fail a step.   *)
(* External: git, and what gh does to a release.                           *)
(***************************************************************************)
EXTENDS Naturals, FiniteSets

CONSTANTS
  Runs,        \* runs of the workflow, one per push
  Commits,
  OnMain,      \* the commits reachable from main
  Platforms,   \* archives to build
  NoRelease,   \* nothing there
  MaxPushes,   \* bound: pushes of the tag
  MaxBuilds    \* bound: archives built

ASSUME ReleaseWorkflowAssumption ==
  /\ OnMain \subseteq Commits /\ NoRelease \notin Commits
  /\ "checksums" \notin Platforms
  /\ MaxPushes \in Nat /\ MaxBuilds \in Nat

VARIABLES
  tag,      \* the commit the remote tag names
  job,      \* each run: its stage, its commit, its archives, assets still to upload
  release,  \* the release's assets, by name, and its notes
  pushes,   \* pushes so far
  builds    \* builds so far

vars == <<tag, job, release, pushes, builds>>

Assets == Platforms \cup {"checksums"}

NoArchives == [p \in Platforms |-> NoRelease]

NewRun(c) == [stage |-> "started", commit |-> c, archives |-> NoArchives, left |-> {}]

Goes(r, from, to) == job[r].stage = from /\ job' = [job EXCEPT ![r].stage = to]

Archived(r) == \A p \in Platforms : job[r].archives[p] # NoRelease

\* The files of a run, ready to publish.
assets(r) == [a \in Assets |-> IF a = "checksums" THEN job[r].archives ELSE job[r].archives[a]]

-----------------------------------------------------------------------------
(* What happens to the workflow *)

\* The tag is pushed, at first or to another commit, or again to the same one.
pushTag(r, c) ==
  /\ job[r].stage = "none" /\ pushes < MaxPushes
  /\ tag' = c /\ pushes' = pushes + 1
  /\ job' = [job EXCEPT ![r] = NewRun(c)]
  /\ UNCHANGED <<release, builds>>

Unfinished == {"started", "validated", "checked", "creating", "refreshing"}

stepFails(r) ==
  /\ job[r].stage \in Unfinished
  /\ job' = [job EXCEPT ![r].stage = "failed"]
  /\ UNCHANGED <<tag, release, pushes, builds>>

\* Re-run of all jobs, also after a success, for the commit that was pushed.
rerunAll(r) ==
  /\ job[r].stage \in {"failed", "done"}
  /\ job' = [job EXCEPT ![r] = NewRun(@.commit)]
  /\ UNCHANGED <<tag, release, pushes, builds>>

\* Re-run of the failed jobs: validation has passed if there is an archive.
rerunFailed(r) ==
  /\ job[r].stage = "failed" /\ job[r].archives # NoArchives
  /\ job' = [job EXCEPT ![r].stage = "validated", ![r].left = {}]
  /\ UNCHANGED <<tag, release, pushes, builds>>

-----------------------------------------------------------------------------
(* The jobs *)

Bug_validate(r) ==
  /\ Goes(r, "started", "validated")
  /\ UNCHANGED <<tag, release, pushes, builds>>

validate(r) ==
  /\ job[r].commit \in OnMain
  /\ Goes(r, "started", "validated")
  /\ UNCHANGED <<tag, release, pushes, builds>>

\* One job per platform: build, test, package, upload as an artifact.
buildArchive(r, p) ==
  /\ job[r].stage = "validated" /\ job[r].archives[p] = NoRelease
  /\ builds < MaxBuilds
  /\ builds' = builds + 1
  /\ job' = [job EXCEPT ![r].archives[p] = [build |-> builds', commit |-> job[r].commit]]
  /\ UNCHANGED <<tag, release, pushes>>

\* The publishing job begins when every archive is there, with a look at the tag.
requireTag(r) ==
  /\ Archived(r) /\ tag = job[r].commit
  /\ Goes(r, "validated", "checked")
  /\ UNCHANGED <<tag, release, pushes, builds>>

\* gh release view.  A failed view counts as "no such release".
viewRelease(r) ==
  /\ job[r].stage = "checked"
  /\ \/ /\ release # NoRelease
        /\ job' = [job EXCEPT ![r].stage = "refreshing", ![r].left = Assets]
     \/ job' = [job EXCEPT ![r].stage = "creating"]
  /\ UNCHANGED <<tag, release, pushes, builds>>

\* gh release create refuses a release that exists: stepFails.
createRelease(r) ==
  /\ release = NoRelease
  /\ Goes(r, "creating", "done")
  /\ release' = [assets |-> assets(r), notes |-> job[r].commit]
  /\ UNCHANGED <<tag, pushes, builds>>

\* gh release upload --clobber replaces the assets one by one, in any order.
uploadAsset(r, a) ==
  /\ job[r].stage = "refreshing" /\ a \in job[r].left
  /\ job' = [job EXCEPT ![r].left = @ \ {a}]
  /\ release' = [release EXCEPT !.assets[a] = assets(r)[a]]
  /\ UNCHANGED <<tag, pushes, builds>>

Bug_editRelease(r) ==
  /\ Goes(r, "refreshing", "done")
  /\ release' = [release EXCEPT !.notes = job[r].commit]
  /\ UNCHANGED <<tag, pushes, builds>>

editRelease(r) ==
  /\ job[r].left = {}
  /\ Goes(r, "refreshing", "done")
  /\ release' = [release EXCEPT !.notes = job[r].commit]
  /\ UNCHANGED <<tag, pushes, builds>>

Init ==
  /\ tag = NoRelease /\ release = NoRelease
  /\ job = [r \in Runs |-> [NewRun(NoRelease) EXCEPT !.stage = "none"]]
  /\ pushes = 0 /\ builds = 0

Step(r) ==
  \/ \E c \in Commits : pushTag(r, c)
  \/ stepFails(r) \/ rerunAll(r) \/ rerunFailed(r)
  \/ validate(r) \/ requireTag(r)
  \/ \E p \in Platforms : buildArchive(r, p)
  \/ viewRelease(r) \/ createRelease(r) \/ editRelease(r)
  \/ \E a \in Assets : uploadAsset(r, a)

Next == \E r \in Runs : Step(r)

Spec == Init /\ [][Next]_vars

-----------------------------------------------------------------------------
(* Properties *)

\* Whatever fails, is repeated or overtakes, and wherever the tag is moved, users
\* never download an archive of a commit outside main.
OnlyFromMain ==
  release # NoRelease =>
    /\ \A p \in Platforms : release.assets[p].commit \in OnMain
    /\ release.notes \in OnMain

\* While the tag has been pushed once only, as CONTRIBUTING.md demands, the last
\* run to succeed leaves a release of one piece: its own archives, the checksums
\* of these very archives, the notes of their commit; even if an earlier attempt
\* failed between two uploads.
WholeWhenDone ==
  \A r \in Runs :
    pushes = 1 /\ job[r].stage = "done" =>
      /\ release.assets = assets(r)
      /\ release.notes = job[r].commit /\ tag = job[r].commit
=============================================================================
