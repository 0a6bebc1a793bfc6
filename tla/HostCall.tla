------------------------------ MODULE HostCall ------------------------------
(***************************************************************************)
(* host.model.execute as the executor calls it (plugin/host.go): the host  *)
(* answers with a code and a buffer of its own memory, which the plugin    *)
(* copies, gives back, and only then decodes.  Several handlers may be     *)
(* calling at once, and the host uses again the memory it was given back.  *)
(*                                                                         *)
(* Abstractions: the request is left out, the C copies of it are freed by  *)
(* defer on every return; a buffer holds one payload, the empty one being  *)
(* a buffer of length 0; lengths fit a C.int.  External: which code and    *)
(* payload the host answers with, and which memory it takes.               *)
(***************************************************************************)
EXTENDS Naturals

CONSTANTS
  Callers,     \* handlers that call the host
  Addresses,   \* cells of host memory
  Null,        \* the nil pointer
  Free,        \* what a cell holds that is not in use
  Bodies       \* bodies of a model's response

\* What the bytes of a buffer decode to.  envelope: an RPC envelope; result: its
\* "result" is a model response; hasError: its "error" is present.
Payloads ==
  [size : {"empty", "some"}, envelope : BOOLEAN, ok : BOOLEAN, hasError : BOOLEAN,
   result : BOOLEAN, status : Nat, body : Bodies]

CONSTANT HostReplies   \* payloads the host may answer with

ASSUME HostCallAssumption ==
  /\ Null \notin Addresses
  /\ Free \notin Payloads
  /\ HostReplies \subseteq Payloads

VARIABLES
  pc,       \* where each caller stands in callHost
  heap,     \* host memory
  ptr,      \* response.ptr of the latest call
  code,     \* callCode of the latest call
  raw,      \* rawResponse, Free while there is none
  result,   \* what callHostModelExecute returned
  sent      \* the payload the host answered with, Free if no buffer

vars == <<pc, heap, ptr, code, raw, result, sent>>

Phases == {"idle", "calling", "copying", "freeing", "decoding", "returned"}

Errors == {"pending", "host_no_response", "host_decode_failed", "host_callback_error",
           "host_call_failed", "model_error"}

\* error "none" comes with a body.
Results == [error : Errors] \cup [error : {"none"}, body : Bodies]

TypeOK ==
  /\ pc \in [Callers -> Phases]
  /\ heap \in [Addresses -> Payloads \cup {Free}]
  /\ ptr \in [Callers -> Addresses \cup {Null}]
  /\ code \in [Callers -> {0, 1}]
  /\ raw \in [Callers -> Payloads \cup {Free}]
  /\ sent \in [Callers -> Payloads \cup {Free}]
  /\ result \in [Callers -> Results]

Goto(c, from, to) == pc[c] = from /\ pc' = [pc EXCEPT ![c] = to]

-----------------------------------------------------------------------------
(* The call *)

Failed(error) == [error |-> error]

beginCall(c) ==
  /\ pc[c] \in {"idle", "returned"}
  /\ pc' = [pc EXCEPT ![c] = "calling"]
  /\ ptr' = [ptr EXCEPT ![c] = Null]
  /\ raw' = [raw EXCEPT ![c] = Free]
  /\ sent' = [sent EXCEPT ![c] = Free]
  /\ result' = [result EXCEPT ![c] = Failed("pending")]
  /\ UNCHANGED <<heap, code>>

\* The host leaves the buffer alone, or fills it from memory it has free.
hostAnswers(c, k) ==
  /\ Goto(c, "calling", "copying")
  /\ code' = [code EXCEPT ![c] = k]
  /\ \/ UNCHANGED <<heap, ptr, sent>>
     \/ \E a \in Addresses, p \in HostReplies :
          /\ heap[a] = Free
          /\ heap' = [heap EXCEPT ![a] = p]
          /\ ptr' = [ptr EXCEPT ![c] = a]
          /\ sent' = [sent EXCEPT ![c] = p]
  /\ UNCHANGED <<raw, result>>

holdsBytes(p) == p # Free /\ p.size = "some"

\* C.GoBytes
copyResponse(c) ==
  /\ Goto(c, "copying", "freeing")
  /\ raw' = [raw EXCEPT ![c] =
       IF ptr[c] # Null /\ holdsBytes(heap[ptr[c]]) THEN heap[ptr[c]] ELSE Free]
  /\ UNCHANGED <<heap, ptr, code, result, sent>>

Bug_freeResponse(c) ==
  /\ Goto(c, "freeing", "decoding")
  /\ heap' = IF raw[c] # Free THEN [heap EXCEPT ![ptr[c]] = Free] ELSE heap
  /\ UNCHANGED <<ptr, code, raw, result, sent>>

\* A buffer of length 0 is given back too.
freeResponse(c) ==
  /\ Goto(c, "freeing", "decoding")
  /\ heap' = IF ptr[c] # Null THEN [heap EXCEPT ![ptr[c]] = Free] ELSE heap
  /\ UNCHANGED <<ptr, code, raw, result, sent>>

\* callHost, then callHostModelExecute.  The envelope is looked at before the
\* call code, so that the host's own error is the one reported.
outcome(p, k) ==
  IF p = Free              THEN Failed("host_no_response")
  ELSE IF ~p.envelope      THEN Failed("host_decode_failed")
  ELSE IF ~p.ok            THEN Failed(IF p.hasError THEN "host_callback_error"
                                       ELSE "host_call_failed")
  ELSE IF k # 0            THEN Failed("host_call_failed")
  ELSE IF ~p.result        THEN Failed("host_decode_failed")
  ELSE IF p.status >= 400  THEN Failed("model_error")
  ELSE [error |-> "none", body |-> p.body]

Bug_decodeResponse(c) ==
  /\ Goto(c, "decoding", "returned")
  /\ result' = [result EXCEPT ![c] =
       outcome(IF raw[c] = Free THEN Free ELSE heap[ptr[c]], code[c])]
  /\ UNCHANGED <<heap, ptr, code, raw, sent>>

decodeResponse(c) ==
  /\ Goto(c, "decoding", "returned")
  /\ result' = [result EXCEPT ![c] = outcome(raw[c], code[c])]
  /\ UNCHANGED <<heap, ptr, code, raw, sent>>

Init ==
  /\ pc = [c \in Callers |-> "idle"]
  /\ heap = [a \in Addresses |-> Free]
  /\ ptr = [c \in Callers |-> Null]
  /\ code = [c \in Callers |-> 0]
  /\ raw = [c \in Callers |-> Free]
  /\ result = [c \in Callers |-> Failed("pending")]
  /\ sent = [c \in Callers |-> Free]

CallStep(c) ==
  \/ beginCall(c)
  \/ \E k \in {0, 1} : hostAnswers(c, k)
  \/ copyResponse(c)
  \/ freeResponse(c)
  \/ decodeResponse(c)

Next == \E c \in Callers : CallStep(c)

Spec == Init /\ [][Next]_vars

-----------------------------------------------------------------------------
(* Properties *)

Holds(c, a) == ptr[c] = a /\ pc[c] \in {"copying", "freeing"}

\* Host memory is in use exactly while one caller holds it: no buffer is lost on
\* any path, none is given back twice, and no two callers share one (callHost).
BuffersReturned ==
  /\ \A a \in Addresses : heap[a] # Free <=> \E c \in Callers : Holds(c, a)
  /\ \A a \in Addresses, c, d \in Callers : Holds(c, a) /\ Holds(d, a) => c = d

\* A caller gets a body exactly when the host answered this very call with a
\* success at every level (code, envelope, result, status), and then the body of
\* that answer, whatever other calls do with the memory meanwhile.
ReplyIsOwn ==
  \A c \in Callers :
    pc[c] = "returned" =>
      LET p == sent[c]
          succeeded == /\ holdsBytes(p) /\ code[c] = 0
                       /\ p.envelope /\ p.ok /\ p.result /\ p.status < 400
      IN /\ result[c].error = "none" <=> succeeded
         /\ succeeded => result[c].body = p.body
=============================================================================
