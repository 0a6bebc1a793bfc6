--------------------------- MODULE ReleaseProofs ---------------------------
(***************************************************************************)
(* What a published release may hold, for any runs, commits, platforms and *)
(* bounds.                                                                 *)
(***************************************************************************)
EXTENDS ReleaseWorkflow, TLAPS

\* Everything a run has built is of its own commit, and a run that went on from
\* validation has a commit of main; past the look at the tag it has all archives.
JobSound(r) ==
  /\ \A p \in Platforms :
       job[r].archives[p] # NoRelease =>
         /\ job[r].archives[p].commit = job[r].commit
         /\ job[r].commit \in OnMain
  /\ job[r].stage \in {"validated", "checked", "creating", "refreshing", "done"} =>
       job[r].commit \in OnMain
  /\ job[r].stage \in {"checked", "creating", "refreshing", "done"} => Archived(r)

Published ==
  /\ release = [assets |-> release.assets, notes |-> release.notes]
  /\ release.assets = [a \in Assets |-> release.assets[a]]
  /\ \A p \in Platforms : release.assets[p].commit \in OnMain
  /\ release.notes \in OnMain

\* What a run has uploaded is on the release while the tag was pushed once.
Uploaded(r) ==
  /\ job[r].stage = "refreshing" =>
       \A a \in Assets \ job[r].left : release.assets[a] = assets(r)[a]
  /\ job[r].stage = "done" =>
       release.assets = assets(r) /\ release.notes = job[r].commit

Stages == {"none"} \cup Unfinished \cup {"failed", "done"}

Archives == [build : Nat, commit : Commits]

Jobs ==
  [stage : Stages, commit : Commits \cup {NoRelease},
   archives : [Platforms -> Archives \cup {NoRelease}], left : SUBSET Assets]

RTypeOK ==
  /\ job \in [Runs -> Jobs]
  /\ pushes \in Nat /\ builds \in Nat

\* One push: one run, for the commit the tag names.
OnePush ==
  /\ pushes = 0 => \A r \in Runs : job[r].stage = "none"
  /\ pushes = 1 =>
       \A r \in Runs : job[r].stage # "none" =>
         /\ tag = job[r].commit
         /\ \A s \in Runs : job[s].stage # "none" => s = r

RInv ==
  /\ RTypeOK
  /\ \A r \in Runs : JobSound(r)
  /\ release # NoRelease => Published
  /\ \A r \in Runs : job[r].stage = "refreshing" => Published
  /\ OnePush
  /\ pushes = 1 => \A r \in Runs : Uploaded(r)

\* Before the first push there is nothing to go wrong.
LEMMA RInit == Init => RInv
<1> SUFFICES ASSUME Init PROVE RInv
  OBVIOUS
<1>1. \A r \in Runs : job[r] = [stage |-> "none", commit |-> NoRelease,
                               archives |-> NoArchives, left |-> {}]
  BY DEF Init, NewRun
<1>2. NoArchives \in [Platforms -> Archives \cup {NoRelease}]
  BY DEF NoArchives
<1>3. RTypeOK
  <2>1. job \in [Runs -> Jobs]
    BY <1>2 DEF Init, NewRun, Jobs, Stages
  <2>2. QED
    BY <2>1 DEF Init, RTypeOK
<1>4. QED
  BY <1>1, <1>3 DEF Init, RInv, NoArchives, JobSound, OnePush, Uploaded

\* A step of a run that pushes no tag and keeps its commit leaves the push alone.
LEMMA OnePushKeeps ==
  ASSUME RInv, NEW r \in Runs, UNCHANGED <<tag, pushes>>,
         job[r].stage # "none", job'[r].stage # "none", job'[r].commit = job[r].commit,
         \A s \in Runs \ {r} : job'[s] = job[s]
  PROVE  OnePush'
<1>1. \A s \in Runs : /\ job'[s].stage # "none" <=> job[s].stage # "none"
                      /\ job'[s].commit = job[s].commit
  OBVIOUS
<1>2. QED
  BY <1>1 DEF RInv, OnePush

\* Every step of every run, failures and repetitions included, keeps the invariant.
LEMMA RStep ==
  ASSUME RInv, NEW r \in Runs, Step(r)
  PROVE  RInv'
<1> USE ReleaseWorkflowAssumption
<1>1. ASSUME NEW c \in Commits, pushTag(r, c)
      PROVE  RInv'
  <2>1. RTypeOK'
    BY <1>1 DEF RInv, RTypeOK, pushTag, Goes, NewRun, NoArchives, Jobs, Stages, Unfinished, Archives
  <2>2. \A s \in Runs : JobSound(s)'
    BY <1>1 DEF RInv, RTypeOK, pushTag, Goes, NewRun, NoArchives, Jobs, JobSound, Archived, Archives
  <2>3. /\ (release # NoRelease => Published)'
        /\ \A s \in Runs : (job[s].stage = "refreshing" => Published)'
    <3>1. Published' = Published
      BY <1>1 DEF pushTag, Published
    <3>2. QED
      BY <1>1, <3>1 DEF RInv, RTypeOK, pushTag, Goes, NewRun, Jobs
  <2>4. OnePush'
    <3>1. /\ pushes \in Nat /\ pushes' = pushes + 1 /\ tag' = c /\ job'[r].commit = c
          /\ \A s \in Runs \ {r} : job'[s] = job[s]
      BY <1>1 DEF RInv, RTypeOK, pushTag, NewRun, Jobs
    <3>2. pushes' = 1 => \A s \in Runs \ {r} : job'[s].stage = "none"
      BY <3>1 DEF RInv, OnePush
    <3>3. pushes' # 0
      BY <3>1
    <3>4. QED
      BY <3>1, <3>2, <3>3 DEF OnePush
  <2>5. (pushes = 1 => \A s \in Runs : Uploaded(s))'
    <3>1. \A s \in Runs : job'[s].stage \notin {"refreshing", "done"} \/ pushes # 0
      BY <1>1 DEF RInv, RTypeOK, pushTag, NewRun, Jobs, OnePush
    <3>2. QED
      BY <1>1, <3>1 DEF RInv, RTypeOK, pushTag, Uploaded
  <2>6. QED
    BY <2>1, <2>2, <2>3, <2>4, <2>5 DEF RInv
<1>2. ASSUME stepFails(r)
      PROVE  RInv'
  <2>1. RTypeOK'
    BY <1>2 DEF RInv, RTypeOK, stepFails, Goes, NewRun, NoArchives, Jobs, Stages, Unfinished, Archives
  <2>2. \A s \in Runs : JobSound(s)'
    BY <1>2 DEF RInv, RTypeOK, stepFails, Goes, NewRun, NoArchives, Jobs, JobSound, Archived, Archives
  <2>3. /\ (release # NoRelease => Published)'
        /\ \A s \in Runs : (job[s].stage = "refreshing" => Published)'
    <3>1. Published' = Published
      BY <1>2 DEF stepFails, Published
    <3>2. QED
      BY <1>2, <3>1 DEF RInv, RTypeOK, stepFails, Goes, NewRun, Jobs
  <2>4. OnePush'
    <3>1. /\ UNCHANGED <<tag, pushes>>
          /\ job[r].stage # "none" /\ job'[r].stage # "none" /\ job'[r].commit = job[r].commit
          /\ \A s \in Runs \ {r} : job'[s] = job[s]
      BY <1>2 DEF RInv, RTypeOK, stepFails, Goes, NewRun, Jobs, Unfinished
    <3>2. QED
      BY <3>1, OnePushKeeps
  <2>5. (pushes = 1 => \A s \in Runs : Uploaded(s))'
    BY <1>2 DEF RInv, RTypeOK, stepFails, Goes, NewRun, Jobs, OnePush, Uploaded, assets, Published, Unfinished
  <2>6. QED
    BY <2>1, <2>2, <2>3, <2>4, <2>5 DEF RInv
<1>3. ASSUME rerunAll(r)
      PROVE  RInv'
  <2>1. RTypeOK'
    BY <1>3 DEF RInv, RTypeOK, rerunAll, Goes, NewRun, NoArchives, Jobs, Stages, Unfinished, Archives
  <2>2. \A s \in Runs : JobSound(s)'
    BY <1>3 DEF RInv, RTypeOK, rerunAll, Goes, NewRun, NoArchives, Jobs, JobSound, Archived, Archives
  <2>3. /\ (release # NoRelease => Published)'
        /\ \A s \in Runs : (job[s].stage = "refreshing" => Published)'
    <3>1. Published' = Published
      BY <1>3 DEF rerunAll, Published
    <3>2. QED
      BY <1>3, <3>1 DEF RInv, RTypeOK, rerunAll, Goes, NewRun, Jobs
  <2>4. OnePush'
    <3>1. /\ UNCHANGED <<tag, pushes>>
          /\ job[r].stage # "none" /\ job'[r].stage # "none" /\ job'[r].commit = job[r].commit
          /\ \A s \in Runs \ {r} : job'[s] = job[s]
      BY <1>3 DEF RInv, RTypeOK, rerunAll, Goes, NewRun, Jobs, Unfinished
    <3>2. QED
      BY <3>1, OnePushKeeps
  <2>5. (pushes = 1 => \A s \in Runs : Uploaded(s))'
    BY <1>3 DEF RInv, RTypeOK, rerunAll, Goes, NewRun, Jobs, OnePush, Uploaded, assets, Published, Unfinished
  <2>6. QED
    BY <2>1, <2>2, <2>3, <2>4, <2>5 DEF RInv
<1>4. ASSUME rerunFailed(r)
      PROVE  RInv'
  <2>1. RTypeOK'
    <3>1. job[r] \in Jobs /\ "validated" \in Stages
      BY <1>4 DEF RInv, RTypeOK, Stages, Unfinished
    <3>2. [job[r] EXCEPT !.stage = "validated", !.left = {}] \in Jobs
      BY <3>1 DEF Jobs
    <3>3. job' = [job EXCEPT ![r] = [job[r] EXCEPT !.stage = "validated", !.left = {}]]
      BY <1>4 DEF RInv, RTypeOK, rerunFailed
    <3>4. QED
      BY <1>4, <3>2, <3>3 DEF RInv, RTypeOK, rerunFailed
  <2>2. \A s \in Runs : JobSound(s)'
    BY <1>4 DEF RInv, RTypeOK, rerunFailed, Goes, NewRun, NoArchives, Jobs, JobSound, Archived, Archives
  <2>3. /\ (release # NoRelease => Published)'
        /\ \A s \in Runs : (job[s].stage = "refreshing" => Published)'
    <3>1. Published' = Published
      BY <1>4 DEF rerunFailed, Published
    <3>2. QED
      BY <1>4, <3>1 DEF RInv, RTypeOK, rerunFailed, Goes, NewRun, Jobs
  <2>4. OnePush'
    <3>1. /\ UNCHANGED <<tag, pushes>>
          /\ job[r].stage # "none" /\ job'[r].stage # "none" /\ job'[r].commit = job[r].commit
          /\ \A s \in Runs \ {r} : job'[s] = job[s]
      BY <1>4 DEF RInv, RTypeOK, rerunFailed, Goes, NewRun, Jobs, Unfinished
    <3>2. QED
      BY <3>1, OnePushKeeps
  <2>5. (pushes = 1 => \A s \in Runs : Uploaded(s))'
    BY <1>4 DEF RInv, RTypeOK, rerunFailed, Goes, NewRun, Jobs, OnePush, Uploaded, assets, Published, Unfinished
  <2>6. QED
    BY <2>1, <2>2, <2>3, <2>4, <2>5 DEF RInv
<1>5. ASSUME validate(r)
      PROVE  RInv'
  <2>1. RTypeOK'
    BY <1>5 DEF RInv, RTypeOK, validate, Goes, NewRun, NoArchives, Jobs, Stages, Unfinished, Archives
  <2>2. \A s \in Runs : JobSound(s)'
    BY <1>5 DEF RInv, RTypeOK, validate, Goes, NewRun, NoArchives, Jobs, JobSound, Archived, Archives
  <2>3. /\ (release # NoRelease => Published)'
        /\ \A s \in Runs : (job[s].stage = "refreshing" => Published)'
    <3>1. Published' = Published
      BY <1>5 DEF validate, Published
    <3>2. QED
      BY <1>5, <3>1 DEF RInv, RTypeOK, validate, Goes, NewRun, Jobs
  <2>4. OnePush'
    <3>1. /\ UNCHANGED <<tag, pushes>>
          /\ job[r].stage # "none" /\ job'[r].stage # "none" /\ job'[r].commit = job[r].commit
          /\ \A s \in Runs \ {r} : job'[s] = job[s]
      BY <1>5 DEF RInv, RTypeOK, validate, Goes, NewRun, Jobs, Unfinished
    <3>2. QED
      BY <3>1, OnePushKeeps
  <2>5. (pushes = 1 => \A s \in Runs : Uploaded(s))'
    BY <1>5 DEF RInv, RTypeOK, validate, Goes, NewRun, Jobs, OnePush, Uploaded, assets, Published, Unfinished
  <2>6. QED
    BY <2>1, <2>2, <2>3, <2>4, <2>5 DEF RInv
<1>6. ASSUME requireTag(r)
      PROVE  RInv'
  <2>1. RTypeOK'
    BY <1>6 DEF RInv, RTypeOK, requireTag, Goes, NewRun, NoArchives, Jobs, Stages, Unfinished, Archives
  <2>2. \A s \in Runs : JobSound(s)'
    BY <1>6 DEF RInv, RTypeOK, requireTag, Goes, NewRun, NoArchives, Jobs, JobSound, Archived, Archives
  <2>3. /\ (release # NoRelease => Published)'
        /\ \A s \in Runs : (job[s].stage = "refreshing" => Published)'
    <3>1. Published' = Published
      BY <1>6 DEF requireTag, Published
    <3>2. QED
      BY <1>6, <3>1 DEF RInv, RTypeOK, requireTag, Goes, NewRun, Jobs
  <2>4. OnePush'
    <3>1. /\ UNCHANGED <<tag, pushes>>
          /\ job[r].stage # "none" /\ job'[r].stage # "none" /\ job'[r].commit = job[r].commit
          /\ \A s \in Runs \ {r} : job'[s] = job[s]
      BY <1>6 DEF RInv, RTypeOK, requireTag, Goes, NewRun, Jobs, Unfinished
    <3>2. QED
      BY <3>1, OnePushKeeps
  <2>5. (pushes = 1 => \A s \in Runs : Uploaded(s))'
    BY <1>6 DEF RInv, RTypeOK, requireTag, Goes, NewRun, Jobs, OnePush, Uploaded, assets, Published, Unfinished
  <2>6. QED
    BY <2>1, <2>2, <2>3, <2>4, <2>5 DEF RInv
<1>7. ASSUME NEW p \in Platforms, buildArchive(r, p)
      PROVE  RInv'
  <2>1. RTypeOK'
    <3>1. job[r].commit \in Commits
      BY <1>7 DEF RInv, JobSound, buildArchive
    <3>2. [build |-> builds', commit |-> job[r].commit] \in Archives
      BY <1>7, <3>1 DEF RInv, RTypeOK, buildArchive, Archives
    <3>3. job[r] \in Jobs /\ job'[r] = [job[r] EXCEPT !.archives =
             [@ EXCEPT ![p] = [build |-> builds', commit |-> job[r].commit]]]
      BY <1>7 DEF RInv, RTypeOK, buildArchive
    <3>4. job'[r] \in Jobs
      BY <3>2, <3>3 DEF Jobs
    <3>5. QED
      BY <1>7, <3>4 DEF RInv, RTypeOK, buildArchive
  <2>2. \A s \in Runs : JobSound(s)'
    BY <1>7 DEF RInv, RTypeOK, buildArchive, Goes, NewRun, NoArchives, Jobs, JobSound, Archived, Archives
  <2>3. /\ (release # NoRelease => Published)'
        /\ \A s \in Runs : (job[s].stage = "refreshing" => Published)'
    <3>1. Published' = Published
      BY <1>7 DEF buildArchive, Published
    <3>2. QED
      BY <1>7, <3>1 DEF RInv, RTypeOK, buildArchive, Goes, NewRun, Jobs
  <2>4. OnePush'
    <3>1. /\ UNCHANGED <<tag, pushes>>
          /\ job[r].stage # "none" /\ job'[r].stage # "none" /\ job'[r].commit = job[r].commit
          /\ \A s \in Runs \ {r} : job'[s] = job[s]
      BY <1>7 DEF RInv, RTypeOK, buildArchive, Goes, NewRun, Jobs, Unfinished
    <3>2. QED
      BY <3>1, OnePushKeeps
  <2>5. (pushes = 1 => \A s \in Runs : Uploaded(s))'
    BY <1>7 DEF RInv, RTypeOK, buildArchive, Goes, NewRun, Jobs, OnePush, Uploaded, assets, Published, Unfinished
  <2>6. QED
    BY <2>1, <2>2, <2>3, <2>4, <2>5 DEF RInv
<1>8. ASSUME viewRelease(r)
      PROVE  RInv'
  <2>1. RTypeOK'
    BY <1>8 DEF RInv, RTypeOK, viewRelease, Goes, NewRun, NoArchives, Jobs, Stages, Unfinished, Archives
  <2>2. \A s \in Runs : JobSound(s)'
    <3>1. \A s \in Runs : /\ job'[s].commit = job[s].commit /\ job'[s].archives = job[s].archives
                           /\ \/ job'[s].stage = job[s].stage
                              \/ job[s].stage = "checked"
      <4> SUFFICES ASSUME NEW s \in Runs
                   PROVE  /\ job'[s].commit = job[s].commit /\ job'[s].archives = job[s].archives
                          /\ job'[s].stage = job[s].stage \/ job[s].stage = "checked"
        OBVIOUS
      <4>1. CASE job' = [job EXCEPT ![r].stage = "refreshing", ![r].left = Assets]
        BY <1>8, <4>1 DEF RInv, RTypeOK, viewRelease, Jobs
      <4>2. CASE job' = [job EXCEPT ![r].stage = "creating"]
        BY <1>8, <4>2 DEF RInv, RTypeOK, viewRelease, Jobs
      <4>3. QED
        BY <1>8, <4>1, <4>2 DEF viewRelease
    <3>2. QED
      BY <3>1 DEF RInv, JobSound, Archived
  <2>3. /\ (release # NoRelease => Published)'
        /\ \A s \in Runs : (job[s].stage = "refreshing" => Published)'
    <3>1. Published' = Published
      BY <1>8 DEF viewRelease, Published
    <3>2. QED
      BY <1>8, <3>1 DEF RInv, RTypeOK, viewRelease, Goes, NewRun, Jobs
  <2>4. OnePush'
    <3>1. /\ UNCHANGED <<tag, pushes>>
          /\ job[r].stage # "none" /\ job'[r].stage # "none" /\ job'[r].commit = job[r].commit
          /\ \A s \in Runs \ {r} : job'[s] = job[s]
      BY <1>8 DEF RInv, RTypeOK, viewRelease, Goes, NewRun, Jobs, Unfinished
    <3>2. QED
      BY <3>1, OnePushKeeps
  <2>5. (pushes = 1 => \A s \in Runs : Uploaded(s))'
    BY <1>8 DEF RInv, RTypeOK, viewRelease, Goes, NewRun, Jobs, OnePush, Uploaded, assets, Published, Unfinished
  <2>6. QED
    BY <2>1, <2>2, <2>3, <2>4, <2>5 DEF RInv
<1>9. ASSUME createRelease(r)
      PROVE  RInv'
  <2>1. RTypeOK'
    BY <1>9 DEF RInv, RTypeOK, createRelease, Goes, NewRun, NoArchives, Jobs, Stages, Unfinished, Archives
  <2>2. \A s \in Runs : JobSound(s)'
    BY <1>9 DEF RInv, RTypeOK, createRelease, Goes, NewRun, NoArchives, Jobs, JobSound, Archived, Archives
  <2>3. /\ (release # NoRelease => Published)'
        /\ \A s \in Runs : (job[s].stage = "refreshing" => Published)'
    BY <1>9 DEF RInv, RTypeOK, createRelease, Goes, NewRun, Jobs, JobSound, Archived, Published, assets, Assets, Archives
  <2>4. OnePush'
    <3>1. /\ UNCHANGED <<tag, pushes>>
          /\ job[r].stage # "none" /\ job'[r].stage # "none" /\ job'[r].commit = job[r].commit
          /\ \A s \in Runs \ {r} : job'[s] = job[s]
      BY <1>9 DEF RInv, RTypeOK, createRelease, Goes, NewRun, Jobs, Unfinished
    <3>2. QED
      BY <3>1, OnePushKeeps
  <2>5. (pushes = 1 => \A s \in Runs : Uploaded(s))'
    BY <1>9 DEF RInv, RTypeOK, createRelease, Goes, NewRun, Jobs, OnePush, Uploaded, assets, Published, Unfinished
  <2>6. QED
    BY <2>1, <2>2, <2>3, <2>4, <2>5 DEF RInv
<1>10. ASSUME editRelease(r)
      PROVE  RInv'
  <2>1. RTypeOK'
    BY <1>10 DEF RInv, RTypeOK, editRelease, Goes, NewRun, NoArchives, Jobs, Stages, Unfinished, Archives
  <2>2. \A s \in Runs : JobSound(s)'
    BY <1>10 DEF RInv, RTypeOK, editRelease, Goes, NewRun, NoArchives, Jobs, JobSound, Archived, Archives
  <2>3. /\ (release # NoRelease => Published)'
        /\ \A s \in Runs : (job[s].stage = "refreshing" => Published)'
    BY <1>10 DEF RInv, RTypeOK, editRelease, Goes, NewRun, Jobs, JobSound, Archived, Published, assets, Assets, Archives
  <2>4. OnePush'
    <3>1. /\ UNCHANGED <<tag, pushes>>
          /\ job[r].stage # "none" /\ job'[r].stage # "none" /\ job'[r].commit = job[r].commit
          /\ \A s \in Runs \ {r} : job'[s] = job[s]
      BY <1>10 DEF RInv, RTypeOK, editRelease, Goes, NewRun, Jobs, Unfinished
    <3>2. QED
      BY <3>1, OnePushKeeps
  <2>5. (pushes = 1 => \A s \in Runs : Uploaded(s))'
    <3> SUFFICES ASSUME pushes' = 1, NEW s \in Runs PROVE Uploaded(s)'
      OBVIOUS
    <3>1. Published /\ Uploaded(r) /\ pushes = 1
      BY <1>10 DEF RInv, editRelease, Goes
    <3>2. CASE s = r
      <4>1. \A a \in Assets : release.assets[a] = assets(r)[a]
        BY <1>10, <3>1 DEF editRelease, Goes, Uploaded
      <4>2. release.assets = assets(r)
        BY <3>1, <4>1 DEF Published, assets
      <4>3. /\ job'[r].stage = "done" /\ job'[r].commit = job[r].commit
            /\ job'[r].archives = job[r].archives
        BY <1>10 DEF RInv, RTypeOK, Jobs, editRelease, Goes
      <4>4. release'.assets = release.assets /\ release'.notes = job[r].commit
        BY <1>10, <3>1 DEF editRelease, Published
      <4>5. QED
        BY <3>2, <4>2, <4>3, <4>4 DEF Uploaded, assets
    <3>3. CASE s # r
      <4>1. job[s].stage = "none" /\ job'[s] = job[s]
        BY <1>10, <3>1, <3>3 DEF RInv, RTypeOK, OnePush, editRelease, Goes
      <4>2. QED
        BY <4>1 DEF Uploaded
    <3>4. QED
      BY <3>2, <3>3
  <2>6. QED
    BY <2>1, <2>2, <2>3, <2>4, <2>5 DEF RInv
<1>11. ASSUME NEW a \in Assets, uploadAsset(r, a)
      PROVE  RInv'
  <2>1. RTypeOK'
    BY <1>11 DEF RInv, RTypeOK, uploadAsset, Goes, NewRun, NoArchives, Jobs, Stages, Unfinished, Archives
  <2>2. \A s \in Runs : JobSound(s)'
    BY <1>11 DEF RInv, RTypeOK, uploadAsset, Goes, NewRun, NoArchives, Jobs, JobSound, Archived, Archives
  <2>3. /\ (release # NoRelease => Published)'
        /\ \A s \in Runs : (job[s].stage = "refreshing" => Published)'
    <3>1. /\ job[r].stage = "refreshing" /\ Published
          /\ release' = [release EXCEPT !.assets[a] = assets(r)[a]]
          /\ \A p \in Platforms : job[r].archives[p].commit \in OnMain
      BY <1>11 DEF RInv, RTypeOK, uploadAsset, Jobs, JobSound, Archived
    <3>2. release'.notes = release.notes /\ release'.assets = [release.assets EXCEPT ![a] = assets(r)[a]]
      BY <3>1 DEF Published
    <3>3. release' = [assets |-> release'.assets, notes |-> release'.notes]
      BY <3>1 DEF Published
    <3>4. release'.assets = [b \in Assets |-> release'.assets[b]]
      BY <3>1, <3>2 DEF Published
    <3>5. \A p \in Platforms : release'.assets[p].commit \in OnMain
      <4>1. \A p \in Platforms : p \in Assets /\ p # "checksums"
        BY DEF Assets
      <4>2. \A p \in Platforms : assets(r)[p] = job[r].archives[p]
        BY <4>1 DEF assets
      <4>3. QED
        BY <3>1, <3>2, <4>1, <4>2 DEF Published
    <3>6. QED
      BY <3>1, <3>2, <3>3, <3>4, <3>5 DEF Published
  <2>4. OnePush'
    <3>1. /\ UNCHANGED <<tag, pushes>>
          /\ job[r].stage # "none" /\ job'[r].stage # "none" /\ job'[r].commit = job[r].commit
          /\ \A s \in Runs \ {r} : job'[s] = job[s]
      BY <1>11 DEF RInv, RTypeOK, uploadAsset, Goes, NewRun, Jobs, Unfinished
    <3>2. QED
      BY <3>1, OnePushKeeps
  <2>5. (pushes = 1 => \A s \in Runs : Uploaded(s))'
    BY <1>11 DEF RInv, RTypeOK, uploadAsset, Goes, NewRun, Jobs, OnePush, Uploaded, assets, Published, Unfinished
  <2>6. QED
    BY <2>1, <2>2, <2>3, <2>4, <2>5 DEF RInv
<1>12. QED
  BY <1>1, <1>2, <1>3, <1>4, <1>5, <1>6, <1>7, <1>8, <1>9, <1>10, <1>11 DEF Step

\* The invariant holds in every state of the workflow.
LEMMA RInductive == Spec => []RInv
<1>1. RInv /\ UNCHANGED vars => RInv'
  BY DEF RInv, RTypeOK, JobSound, Archived, Published, OnePush, Uploaded, assets, vars
<1>2. RInv /\ [Next]_vars => RInv'
  BY <1>1, RStep DEF Next
<1>3. QED
  BY RInit, <1>2, PTL DEF Spec

\* No archive and no notes of a commit outside main are ever on the release,
\* wherever the tag moves, whatever fails and is repeated (validate, and the jobs
\* that need it).
THEOREM NothingFromElsewhere == Spec => []OnlyFromMain
<1>1. RInv => OnlyFromMain
  BY DEF RInv, Published, OnlyFromMain
<1>2. QED
  BY RInductive, <1>1, PTL

\* With the tag pushed once, a run that succeeds leaves a release of one piece,
\* also after attempts that failed half-way (viewRelease to editRelease).
THEOREM ReleaseIsWhole == Spec => []WholeWhenDone
<1>1. RInv => WholeWhenDone
  BY DEF RInv, OnePush, Uploaded, WholeWhenDone
<1>2. QED
  BY RInductive, <1>1, PTL

=============================================================================
