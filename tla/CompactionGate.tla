--------------------------- MODULE CompactionGate ---------------------------
(***************************************************************************)
(* What a client and the models behind CPA may rely on, with everything    *)
(* inside left out: no rules, no handlers, no transports.  A question is   *)
(* asked; it is refused without a model hearing of it, or put to one model *)
(* once; then it is answered.  CompactBridge implements this whatever      *)
(* plugin.reconfigure does meanwhile (BridgeProperties, GateKept).         *)
(***************************************************************************)
EXTENDS CompactionPolicy

CONSTANT Requests

VARIABLES
  stage,   \* how far each request has come
  asked,   \* its input items, and whether it is a Responses request
  calls,   \* the items of the model calls made for it
  given    \* its answer

gateVars == <<stage, asked, calls, given>>

Questions == [items : Seq(Items), responses : BOOLEAN]

\* State no route may continue: a summary that cannot be read, or both kinds of
\* state in one request.
Unreadable(q) ==
  \/ "corrupt" \in RecordsOf(q.items)
  \/ {"plaintext", "opaque"} \subseteq RecordsOf(q.items)

\* Some route may refuse it: it carries more than readable summaries.
Refusable(q) == RecordsOf(q.items) \cap {"corrupt", "opaque"} # {}

\* What a model may be sent: the history with its summaries restored, without
\* the triggers if a summary is what it is asked for.  A request in another
\* protocol may pass as it is.
Sendable(q) ==
  {rewriteCompactionItems(q.items), rewriteCompactionItems(nonTriggers(q.items))}
    \cup (IF q.responses THEN {} ELSE {q.items})

\* What may be installed: messages of the history and one readable summary.
Installs(q, w) ==
  \E kept \in {<<>>, retainedItems(q.items), retainedItems(rewriteCompactionItems(q.items))} :
    /\ w = Append(kept, w[Len(w)])
    /\ compactionRecordOf(w[Len(w)]) = "plaintext"

Only(r, f, g) == \A s \in Requests : s # r => f[s] = g[s]

Stands(r, from, to) == stage[r] = from /\ stage' = [stage EXCEPT ![r] = to]

Ask(r) ==
  /\ Stands(r, "idle", "open")
  /\ asked'[r] \in Questions /\ Only(r, asked, asked')
  /\ UNCHANGED <<calls, given>>

Call(r) ==
  /\ Stands(r, "open", "called")
  /\ asked[r].responses => ~Unreadable(asked[r])
  /\ \E items \in Sendable(asked[r]) : calls' = [calls EXCEPT ![r] = {items}]
  /\ UNCHANGED <<asked, given>>

\* A refusal or a failure before any call.
Refuse(r) ==
  /\ Stands(r, "open", "closed")
  /\ given'[r].kind \in {"invalid_state", "bridge_failed", "stream_failed"}
  /\ given'[r].kind = "invalid_state" => Refusable(asked[r])
  /\ given'[r].items = <<>> /\ Only(r, given, given')
  /\ UNCHANGED <<asked, calls>>

\* The model's own answer, a failure, or a window to install.
Deliver(r) ==
  /\ Stands(r, "called", "closed")
  /\ \/ given'[r].kind \in {"upstream", "bridge_failed", "stream_failed"}
        /\ given'[r].items = <<>>
     \/ given'[r].kind \in {"compact_window", "compact_stream"}
        /\ Installs(asked[r], given'[r].items)
  /\ Only(r, given, given')
  /\ UNCHANGED <<asked, calls>>

Init ==
  /\ stage = [r \in Requests |-> "idle"]
  /\ asked \in [Requests -> Questions]
  /\ calls = [r \in Requests |-> {}]
  /\ given = [r \in Requests |-> [kind |-> "none", items |-> <<>>]]

Next == \E r \in Requests : Ask(r) \/ Call(r) \/ Refuse(r) \/ Deliver(r)

Spec == Init /\ [][Next]_gateVars
=============================================================================
