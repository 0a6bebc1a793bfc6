----------------------------- MODULE PluginCall -----------------------------
(***************************************************************************)
(* The plugin's side of the C ABI (plugin/main.go, cliproxyPluginCall and  *)
(* cliproxyPluginFree): CPA calls a method with a request in its own       *)
(* memory, the plugin copies it, runs the handler, which may call back     *)
(* into the host (HostCall), copies the answer into C memory and returns;  *)
(* CPA reads the answer and gives the memory back.  Go's collector does    *)
(* not see C memory: what is not given back is lost.                       *)
(*                                                                         *)
(* Abstractions: a request is its length, an answer is whose it is and     *)
(* what it says.  A length is narrowed to a C.int of Word values, as the   *)
(* code does; a stream that reports a failure is one answer; memory is a   *)
(* set of cells.  External: when CPA calls, reads and frees, and what a    *)
(* handler decides (CompactBridge).                                        *)
(***************************************************************************)
EXTENDS HostCall, Integers

CONSTANTS
  Cells,     \* cells of C memory the plugin may take
  Word,      \* the number of values of a C.int, 2^32 on the platforms built
  Lengths    \* lengths of a request

ASSUME PluginCallAssumption ==
  /\ Null \notin Cells
  /\ Word \in Nat \ {0}
  /\ Lengths \subseteq Nat
  /\ Bodies \cap {"none", "response_failed"} = {}

VARIABLES
  stage,     \* where each call of the plugin stands
  call,      \* its method, the length of its request, whether it has a response buffer
  got,       \* the length of the request its handler saw
  cells,     \* the plugin's C memory: Null, or what is written there
  payload,   \* the C copy of the request of its host call
  response,  \* the pointer in its response buffer
  answered,  \* the answer its handler returned
  read,      \* the answer CPA read
  returned,  \* the code it returned
  crashed    \* a Go panic has ended the process

abiVars == <<stage, call, got, cells, payload, response, answered, read, returned, crashed>>

allVars == <<vars, abiVars>>

\* "nil": no method; "plain" stands for the methods that do not call back.
Methods == {"nil", "unknown", "plain", "execute", "execute_stream"}

Executing == {"execute", "execute_stream"}

PluginCalls == [method : Methods, length : Lengths, buffer : BOOLEAN]

NoCall == [method |-> "nil", length |-> 0, buffer |-> FALSE]

Stages == {"idle", "entered", "handling", "calling", "handled", "returned", "read"}

\* error "none" for an ok envelope.  body: of the model call it reports on, or
\* "response_failed" for the one frame of a compact stream that failed.
Envelopes == [caller : Callers, error : {"none", "failed"},
              body : Bodies \cup {"none", "response_failed"}]

\* What is written in a cell: the request of a host call, or an answer.
Written == [caller : Callers] \cup Envelopes

ASSUME WrittenAssumption == Null \notin Written

StageGoes(c, from, to) == stage[c] = from /\ stage' = [stage EXCEPT ![c] = to]

Envelope(c, error, body) == [caller |-> c, error |-> error, body |-> body]

-----------------------------------------------------------------------------
(* Memory *)

\* C.int(n), as a signed number.
Bug_CInt(n) == n % (Word \div 2)

CInt(n) ==
  LET low == n % Word
  IN IF low < Word \div 2 THEN low ELSE low - Word

Bug_CBytes(a, bytes) == cells' = [cells EXCEPT ![a] = bytes]

\* C.CBytes takes a cell, C.free gives one back.
CBytes(a, bytes) == cells[a] = Null /\ cells' = [cells EXCEPT ![a] = bytes]

CFree(a) == cells' = [cells EXCEPT ![a] = Null]

-----------------------------------------------------------------------------
(* The call *)

\* CPA calls the plugin.
callPlugin(c, request) ==
  /\ StageGoes(c, "idle", "entered")
  /\ call' = [call EXCEPT ![c] = request]
  /\ UNCHANGED <<vars, got, cells, payload, response, answered, read, returned, crashed>>

\* Without a method, the error envelope is written at once and the code is 1.
\* C.GoBytes panics on a negative length.
copyRequest(c) ==
  LET length == CInt(call[c].length)
  IN /\ IF call[c].method = "nil"
        THEN /\ StageGoes(c, "entered", "handled")
             /\ answered' = [answered EXCEPT ![c] = Envelope(c, "failed", "none")]
             /\ UNCHANGED <<got, crashed>>
        ELSE /\ StageGoes(c, "entered", "handling")
             /\ crashed' = (length < 0)
             /\ got' = [got EXCEPT ![c] = length]
             /\ UNCHANGED answered
     /\ UNCHANGED <<vars, call, cells, payload, response, read, returned>>

\* The executor calls back: the payload is copied into C memory for the host.
callHost(c) ==
  /\ StageGoes(c, "handling", "calling")
  /\ call[c].method \in Executing
  /\ \E a \in Cells :
       /\ CBytes(a, [caller |-> c])
       /\ payload' = [payload EXCEPT ![c] = a]
  /\ beginCall(c)
  /\ UNCHANGED <<call, got, response, answered, read, returned, crashed>>

hostCallSteps(c) ==
  /\ stage[c] = "calling"
  /\ (\E k \in {0, 1} : hostAnswers(c, k)) \/ copyResponse(c) \/ freeResponse(c) \/ decodeResponse(c)
  /\ UNCHANGED abiVars

Bug_hostCallReturns(c) ==
  /\ StageGoes(c, "calling", "handled")
  /\ pc[c] = "returned"
  /\ \/ /\ result[c].error = "none"
        /\ answered' = [answered EXCEPT ![c] = Envelope(c, "none", result[c].body)]
        /\ CFree(payload[c]) /\ payload' = [payload EXCEPT ![c] = Null]
     \/ /\ result[c].error # "none"
        /\ answered' = [answered EXCEPT ![c] = Envelope(c, "failed", "none")]
        /\ UNCHANGED <<cells, payload>>
  /\ UNCHANGED <<vars, call, got, response, read, returned, crashed>>

\* What a handler may answer when it has no model response to pass on: an error,
\* or, of a compact stream, an ok envelope around response.failed.
Failures(c) ==
  {Envelope(c, "failed", "none")} \cup
    IF call[c].method = "execute_stream" THEN {Envelope(c, "none", "response_failed")} ELSE {}

\* The deferred free runs on every return of callHost.  A body that came back may
\* still be refused.
hostCallReturns(c) ==
  /\ StageGoes(c, "calling", "handled")
  /\ pc[c] = "returned"
  /\ CFree(payload[c]) /\ payload' = [payload EXCEPT ![c] = Null]
  /\ \/ /\ result[c].error = "none"
        /\ answered' = [answered EXCEPT ![c] = Envelope(c, "none", result[c].body)]
     \/ \E e \in Failures(c) : answered' = [answered EXCEPT ![c] = e]
  /\ UNCHANGED <<vars, call, got, response, read, returned, crashed>>

\* handleMethod without a callback, which an executor leaves only by failing.
handleMethod(c) ==
  /\ StageGoes(c, "handling", "handled")
  /\ \/ \E e \in Failures(c) : answered' = [answered EXCEPT ![c] = e]
     \/ /\ call[c].method = "plain"
        /\ answered' = [answered EXCEPT ![c] = Envelope(c, "none", "none")]
  /\ UNCHANGED <<vars, call, got, cells, payload, response, read, returned, crashed>>

\* Every error of a handler travels in its envelope, with code 0.
writeResponse(c) ==
  /\ StageGoes(c, "handled", "returned")
  /\ returned' = [returned EXCEPT ![c] = IF call[c].method = "nil" THEN 1 ELSE 0]
  /\ IF call[c].buffer
     THEN \E a \in Cells :
            /\ CBytes(a, answered[c])
            /\ response' = [response EXCEPT ![c] = a]
     ELSE UNCHANGED <<cells, response>>
  /\ UNCHANGED <<vars, call, got, payload, answered, read, crashed>>

readResponse(c) ==
  /\ StageGoes(c, "returned", "read")
  /\ read' = [read EXCEPT ![c] = IF response[c] = Null THEN Null ELSE cells[response[c]]]
  /\ UNCHANGED <<vars, call, got, cells, payload, response, answered, returned, crashed>>

\* The variables of a callback are gone with the call that made it.
forgetCallback(c) ==
  /\ pc' = [pc EXCEPT ![c] = "idle"]
  /\ ptr' = [ptr EXCEPT ![c] = Null] /\ code' = [code EXCEPT ![c] = 0]
  /\ raw' = [raw EXCEPT ![c] = Free] /\ sent' = [sent EXCEPT ![c] = Free]
  /\ result' = [result EXCEPT ![c] = Failed("pending")]
  /\ UNCHANGED heap

\* No pointer, nothing to free.  What CPA knew of the call is forgotten.
cliproxyPluginFree(c) ==
  /\ StageGoes(c, "read", "idle")
  /\ IF response[c] # Null THEN CFree(response[c]) ELSE UNCHANGED cells
  /\ call' = [call EXCEPT ![c] = NoCall]
  /\ got' = [got EXCEPT ![c] = 0] /\ returned' = [returned EXCEPT ![c] = 0]
  /\ response' = [response EXCEPT ![c] = Null]
  /\ answered' = [answered EXCEPT ![c] = Null] /\ read' = [read EXCEPT ![c] = Null]
  /\ forgetCallback(c)
  /\ UNCHANGED <<payload, crashed>>

AbiInit ==
  /\ Init
  /\ stage = [c \in Callers |-> "idle"]
  /\ call = [c \in Callers |-> NoCall]
  /\ got = [c \in Callers |-> 0]
  /\ cells = [a \in Cells |-> Null]
  /\ payload = [c \in Callers |-> Null]
  /\ response = [c \in Callers |-> Null]
  /\ answered = [c \in Callers |-> Null]
  /\ read = [c \in Callers |-> Null]
  /\ returned = [c \in Callers |-> 0]
  /\ crashed = FALSE

AbiStep(c) ==
  \/ \E request \in PluginCalls : callPlugin(c, request)
  \/ copyRequest(c)
  \/ callHost(c)
  \/ hostCallSteps(c)
  \/ hostCallReturns(c)
  \/ handleMethod(c)
  \/ writeResponse(c)
  \/ readResponse(c)
  \/ cliproxyPluginFree(c)

\* A crash ends every call in the process.
AbiNext ==
  \/ ~crashed /\ \E c \in Callers : AbiStep(c)
  \/ crashed /\ UNCHANGED allVars

AbiSpec == AbiInit /\ [][AbiNext]_allVars

-----------------------------------------------------------------------------
(* Properties *)

\* What a call holds of the plugin's memory.
HeldBy(c) ==
  {a \in Cells : \/ stage[c] = "calling" /\ a = payload[c]
                 \/ stage[c] \in {"returned", "read"} /\ a = response[c]}

\* Between calls nothing is held on either side: a cell of C memory is in use
\* exactly while one call needs it, and a buffer of the host's only inside a
\* callback, on every path through handler, callback and errors.
NothingLeaks ==
  /\ \A a \in Cells : cells[a] # Null <=> \E c \in Callers : a \in HeldBy(c)
  /\ \A c, d \in Callers : c # d => HeldBy(c) \cap HeldBy(d) = {}
  /\ \A c \in Callers, a \in Addresses : Holds(c, a) => stage[c] = "calling"

\* CPA reads the envelope its own call was answered with.  What an executor
\* answers in an ok envelope is the body of its own callback, which succeeded at
\* every level, or, of a stream only, the one response.failed frame; an error
\* code comes with an error envelope.  Neither the callbacks of other calls nor
\* their frees reach any of it.
AnswerIsOwn ==
  \A c \in Callers :
    stage[c] = "read" /\ call[c].buffer =>
      /\ read[c] # Null /\ read[c].caller = c
      /\ read[c].error = "none" /\ call[c].method \in Executing =>
           \/ result[c].error = "none" /\ read[c].body = result[c].body
           \/ call[c].method = "execute_stream" /\ read[c].body = "response_failed"
      /\ returned[c] # 0 => read[c].error = "failed"

\* A handler never reads past the request, and while the length is below Word it
\* works on all of it: one that a C.int cannot hold ends the process.  From Word
\* on (4 GiB) the length is narrowed modulo Word and the handler may see a part.
RequestIsWhole ==
  \A c \in Callers :
    stage[c] \notin {"idle", "entered"} /\ call[c].method # "nil" =>
      /\ got[c] <= call[c].length
      /\ call[c].length < Word => got[c] = call[c].length \/ crashed
=============================================================================
