---------------------------- MODULE FailureCount ----------------------------
(***************************************************************************)
(* One run of scripts/compact-failure-count.sh: it selects the logs to     *)
(* read, then counts the lines of one failure marker after another, each   *)
(* in a pass of its own over all of them, and reports two of its rows as   *)
(* differences of passes.  CPA goes on writing the logs, and may remove    *)
(* one, between any two passes and while one goes from log to log.         *)
(*                                                                         *)
(* Abstractions: a line is the marker it holds, the log it is in and when  *)
(* it was written.  The rows that are a plain count of one marker are two  *)
(* here: upstream_failed, between the passes of the differences, and       *)
(* compact_bridge_failed, the last.  The names the logs are sorted by, the *)
(* output file and the words of a row are left out.                        *)
(***************************************************************************)
EXTENDS Integers, Sequences, FiniteSets

CONSTANTS
  Logs,      \* log files: the main log and the request logs
  MaxLines   \* bound: lines ever written

ASSUME FailureCountAssumption == MaxLines \in Nat

VARIABLES
  lines,     \* the lines now in the logs
  selected,  \* the logs chosen for this run
  pass,      \* the passes done; Unselected before the choice
  unread,    \* the logs the next pass has yet to read
  found,     \* the lines each pass has counted
  late,      \* lines written to the chosen logs after the choice
  removed,   \* a chosen log was removed after the choice
  written    \* lines ever written

vars == <<lines, selected, pass, unread, found, late, removed, written>>

Unselected == -1

Markers == {"failed", "encode", "status", "incomplete", "tokens", "filter", "finish", "code"}

\* The markers a pass finds: "bridged compaction failed" and "summary upstream
\* incomplete" are prefixes of longer ones.
patterns ==
  [bridge_all |-> {"failed", "encode"}, bridge_encode |-> {"encode"},
   upstream_failed |-> {"status"},
   upstream_incomplete_all |-> {"incomplete", "tokens", "filter", "finish"},
   max_output_tokens |-> {"tokens"}, content_filter |-> {"filter"},
   finish_content_filter |-> {"finish"}, total |-> {"code"}]

Bug_passes ==
  <<"bridge_encode", "bridge_all", "upstream_failed", "upstream_incomplete_all",
    "max_output_tokens", "content_filter", "finish_content_filter", "total">>

\* In the order of the script.
passes ==
  <<"bridge_all", "bridge_encode", "upstream_failed", "upstream_incomplete_all",
    "max_output_tokens", "content_filter", "finish_content_filter", "total">>

Running == pass < Len(passes)

-----------------------------------------------------------------------------
(* The logs *)

\* CPA writes a line.  What it does when the script has ended does not matter.
logged(log, m) ==
  /\ Running /\ written < MaxLines
  /\ LET line == [number |-> written + 1, log |-> log, marker |-> m]
     IN /\ lines' = lines \cup {line}
        /\ late' = IF log \in selected THEN late \cup {line} ELSE late
  /\ written' = written + 1
  /\ UNCHANGED <<selected, pass, unread, found, removed>>

\* A log is rotated away.  A pass goes on without it.
rotated(log) ==
  /\ Running /\ \E line \in lines : line.log = log
  /\ lines' = {line \in lines : line.log # log}
  /\ removed' = (removed \/ log \in selected)
  /\ UNCHANGED <<selected, pass, unread, found, late, written>>

-----------------------------------------------------------------------------
(* The script *)

\* Without --since every log, otherwise those written to lately.
add_file ==
  /\ pass = Unselected
  /\ selected' \in SUBSET Logs
  /\ pass' = 0 /\ unread' = selected'
  /\ UNCHANGED <<lines, found, late, removed, written>>

\* The grep of a pass reads one log to its end.
grep(log) ==
  /\ Running /\ log \in unread
  /\ LET p == passes[pass + 1]
     IN found' = [found EXCEPT ![p] =
                    @ \cup {line \in lines : line.log = log /\ line.marker \in patterns[p]}]
  /\ unread' = unread \ {log}
  /\ UNCHANGED <<lines, selected, pass, late, removed, written>>

\* A pass has read every log.
count_pattern ==
  /\ pass # Unselected /\ Running /\ unread = {}
  /\ pass' = pass + 1 /\ unread' = selected
  /\ UNCHANGED <<lines, selected, found, late, removed, written>>

count(p) == Cardinality(found[p])

count_bridge_generic == count("bridge_all") - count("bridge_encode")

Bug_count_upstream_incomplete ==
  count("upstream_incomplete_all") - count("max_output_tokens") - count("content_filter")

count_upstream_incomplete ==
  count("upstream_incomplete_all") - count("max_output_tokens") - count("content_filter")
    - count("finish_content_filter")

\* What the run reports, by the marker a row is for.
rows ==
  [failed |-> count_bridge_generic, encode |-> count("bridge_encode"),
   status |-> count("upstream_failed"), incomplete |-> count_upstream_incomplete,
   tokens |-> count("max_output_tokens"), filter |-> count("content_filter"),
   finish |-> count("finish_content_filter"), code |-> count("total")]

\* The script has appended its rows and exits.
finished == pass = Len(passes) /\ UNCHANGED vars

Init ==
  /\ lines = {} /\ selected = {} /\ unread = {}
  /\ pass = Unselected
  /\ found = [p \in DOMAIN patterns |-> {}]
  /\ late = {} /\ removed = FALSE /\ written = 0

Next ==
  \/ \E log \in Logs, m \in Markers : logged(log, m)
  \/ \E log \in Logs : rotated(log) \/ grep(log)
  \/ add_file
  \/ count_pattern
  \/ finished

Spec == Init /\ [][Next]_vars

-----------------------------------------------------------------------------
(* Properties *)

Done == pass = Len(passes) /\ ~removed

Inside == {line \in lines : line.log \in selected}

\* The lines of a row that are in the logs of the run.
Truth(m) == Cardinality({line \in Inside : line.marker = m})

\* No failure is invented: a row never exceeds the lines of its own, however many
\* arrive during and between the passes, because what is subtracted is counted
\* after what it is subtracted from.  (A log removed meanwhile breaks this.)
NeverInflated == Done => \A m \in Markers : rows[m] <= Truth(m)

\* A row is wrong by no more than the lines that arrived while the script ran; over
\* quiet logs it is exact.  A difference can be wrong downwards, below zero even.
ErrorIsBounded ==
  Done => \A m \in Markers : Truth(m) - rows[m] \in -Cardinality(late)..Cardinality(late)
=============================================================================
