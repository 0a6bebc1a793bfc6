-------------------------- MODULE PluginCallProofs --------------------------
(***************************************************************************)
(* Whatever CPA calls at once, whatever the handlers decide and however    *)
(* their callbacks end, every call is answered with its own answer, works  *)
(* on its own request, and no memory is lost on either side.  The          *)
(* callbacks keep the invariant of HostCall alone, from which what a call  *)
(* answers about its callback follows.                                     *)
(***************************************************************************)
EXTENDS PluginCall, TLAPS

-----------------------------------------------------------------------------
(* Callbacks: each reads its own answer and gives every buffer back *)

\* What callHost has read of an answer: nothing of an empty one.
Read(p) == IF holdsBytes(p) THEN p ELSE Free

\* What a caller knows at each of its steps.
CallerInv(c) ==
  /\ pc[c] = "calling" => ptr[c] = Null /\ sent[c] = Free
  /\ pc[c] \in {"copying", "freeing"} =>
       sent[c] = IF ptr[c] = Null THEN Free ELSE heap[ptr[c]]
  /\ pc[c] \in {"freeing", "decoding"} => raw[c] = Read(sent[c])
  /\ pc[c] = "returned" => result[c] = outcome(Read(sent[c]), code[c])

IInv == TypeOK /\ BuffersReturned /\ \A c \in Callers : CallerInv(c)

\* A decoded answer is a result.
LEMMA OutcomeType ==
  ASSUME NEW p \in Payloads \cup {Free}, NEW k \in {0, 1}
  PROVE  outcome(p, k) \in Results
<1>1. CASE p = Free
  BY <1>1 DEF outcome, Failed, Results, Errors
<1>2. CASE p # Free
  <2>1. p \in Payloads /\ p.body \in Bodies
    BY <1>2 DEF Payloads
  <2> QED BY <1>2, <2>1 DEF outcome, Failed, Results, Errors
<1> QED BY <1>1, <1>2

\* Before any call nothing is held.
LEMMA InitInv == Init => IInv
<1> SUFFICES ASSUME Init PROVE IInv
  OBVIOUS
<1>1. TypeOK
  BY DEF Init, TypeOK, Phases, Results, Errors, Failed
<1>2. BuffersReturned
  BY DEF Init, BuffersReturned, Holds
<1>3. \A c \in Callers : CallerInv(c)
  BY DEF Init, CallerInv
<1> QED BY <1>1, <1>2, <1>3 DEF IInv

\* Every variable keeps its type.
LEMMA TypeStep ==
  ASSUME TypeOK, NEW c \in Callers, CallStep(c)
  PROVE  TypeOK'
<1> USE DEF TypeOK, Phases, Goto
<1>1. CASE beginCall(c)
  <2>1. Failed("pending") \in Results
    BY DEF Failed, Results, Errors
  <2> QED BY <1>1, <2>1 DEF beginCall
<1>2. ASSUME NEW k \in {0, 1}, hostAnswers(c, k)
      PROVE  TypeOK'
  BY <1>2, HostCallAssumption DEF hostAnswers
<1>3. CASE copyResponse(c)
  BY <1>3 DEF copyResponse
<1>4. CASE freeResponse(c)
  BY <1>4 DEF freeResponse
<1>5. CASE decodeResponse(c)
  <2>1. outcome(raw[c], code[c]) \in Results
    BY OutcomeType
  <2> QED BY <1>5, <2>1 DEF decodeResponse
<1> QED BY <1>1, <1>2, <1>3, <1>4, <1>5 DEF CallStep

\* Taking and giving back keep memory in use exactly while it is held.
LEMMA BuffersStep ==
  ASSUME IInv, NEW c \in Callers, CallStep(c)
  PROVE  BuffersReturned'
<1> USE DEF IInv, TypeOK, Goto
<1>1. CASE beginCall(c) \/ decodeResponse(c)
  <2>1. heap' = heap /\ \A d \in Callers, a \in Addresses : Holds(d, a)' <=> Holds(d, a)
    BY <1>1, HostCallAssumption DEF beginCall, decodeResponse, Holds
  <2> QED BY <2>1 DEF BuffersReturned
<1>2. ASSUME NEW k \in {0, 1}, hostAnswers(c, k)
      PROVE  BuffersReturned'
  <2>1. ptr[c] = Null /\ pc[c] = "calling" /\ pc'[c] = "copying"
    BY <1>2 DEF hostAnswers, CallerInv
  <2>2. \A d \in Callers \ {c}, a \in Addresses : Holds(d, a)' <=> Holds(d, a)
    BY <1>2 DEF hostAnswers, Holds
  <2>3. \A a \in Addresses : ~Holds(c, a)
    BY <2>1 DEF Holds
  <2>4. CASE heap' = heap /\ ptr' = ptr
    <3>1. \A a \in Addresses : ~Holds(c, a)'
      BY <2>1, <2>4, HostCallAssumption DEF Holds
    <3> QED BY <2>2, <2>3, <2>4, <3>1 DEF BuffersReturned
  <2>5. ASSUME NEW a \in Addresses, NEW p \in HostReplies, heap[a] = Free,
               heap' = [heap EXCEPT ![a] = p], ptr' = [ptr EXCEPT ![c] = a]
        PROVE  BuffersReturned'
    <3>1. p # Free /\ heap'[a] = p /\ \A b \in Addresses \ {a} : heap'[b] = heap[b]
      BY <2>5, HostCallAssumption
    <3>2. \A b \in Addresses : Holds(c, b)' <=> b = a
      BY <2>1, <2>5 DEF Holds
    <3>3. \A d \in Callers : ~Holds(d, a)
      BY <2>5 DEF BuffersReturned
    <3> QED BY <2>2, <2>3, <3>1, <3>2, <3>3 DEF BuffersReturned
  <2> QED BY <1>2, <2>4, <2>5 DEF hostAnswers
<1>3. CASE copyResponse(c)
  <2>1. heap' = heap /\ \A d \in Callers, a \in Addresses : Holds(d, a)' <=> Holds(d, a)
    BY <1>3 DEF copyResponse, Holds
  <2> QED BY <2>1 DEF BuffersReturned
<1>4. CASE freeResponse(c)
  <2>1. \A d \in Callers \ {c}, a \in Addresses : Holds(d, a)' <=> Holds(d, a)
    BY <1>4 DEF freeResponse, Holds
  <2>2. \A a \in Addresses : ~Holds(c, a)' /\ (Holds(c, a) <=> ptr[c] = a)
    BY <1>4 DEF freeResponse, Holds
  <2>3. \A a \in Addresses : heap'[a] = IF ptr[c] = a THEN Free ELSE heap[a]
    BY <1>4, HostCallAssumption DEF freeResponse
  <2> QED BY <2>1, <2>2, <2>3 DEF BuffersReturned
<1> QED BY <1>1, <1>2, <1>3, <1>4 DEF CallStep

\* A caller's own step brings it from what it knows to what it knows next.
LEMMA OwnStep ==
  ASSUME IInv, NEW c \in Callers, CallStep(c)
  PROVE  CallerInv(c)'
<1> USE DEF IInv, TypeOK, Goto, CallerInv
<1>1. CASE beginCall(c)
  BY <1>1 DEF beginCall
<1>2. ASSUME NEW k \in {0, 1}, hostAnswers(c, k)
      PROVE  CallerInv(c)'
  BY <1>2, HostCallAssumption DEF hostAnswers
<1>3. CASE copyResponse(c)
  BY <1>3 DEF copyResponse, Read, holdsBytes
<1>4. CASE freeResponse(c)
  BY <1>4 DEF freeResponse
<1>5. CASE decodeResponse(c)
  BY <1>5 DEF decodeResponse
<1> QED BY <1>1, <1>2, <1>3, <1>4, <1>5 DEF CallStep

\* A step of one caller changes nothing another one knows: the memory it takes
\* is free and the memory it gives back is its own.
LEMMA OthersStep ==
  ASSUME IInv, NEW c \in Callers, CallStep(c), NEW d \in Callers \ {c}
  PROVE  CallerInv(d)'
<1> USE DEF IInv, TypeOK
<1>1. /\ pc'[d] = pc[d] /\ ptr'[d] = ptr[d] /\ code'[d] = code[d]
      /\ raw'[d] = raw[d] /\ result'[d] = result[d] /\ sent'[d] = sent[d]
  BY DEF CallStep, beginCall, hostAnswers, copyResponse, freeResponse, decodeResponse, Goto
<1>2. ASSUME pc[d] \in {"copying", "freeing"}, ptr[d] # Null
      PROVE  heap'[ptr[d]] = heap[ptr[d]]
  <2>1. Holds(d, ptr[d]) /\ ptr[d] \in Addresses /\ heap[ptr[d]] # Free
    BY <1>2 DEF Holds, BuffersReturned
  <2>2. CASE freeResponse(c)
    <3>1. ptr[c] # Null => Holds(c, ptr[c]) /\ ptr[c] \in Addresses
      BY <2>2 DEF freeResponse, Goto, Holds
    <3>2. ptr[c] # ptr[d]
      BY <1>2, <2>1, <3>1 DEF BuffersReturned
    <3> QED BY <2>1, <2>2, <3>2 DEF freeResponse
  <2>3. CASE \E k \in {0, 1} : hostAnswers(c, k)
    BY <2>1, <2>3 DEF hostAnswers
  <2>4. CASE beginCall(c) \/ copyResponse(c) \/ decodeResponse(c)
    BY <2>4 DEF beginCall, copyResponse, decodeResponse
  <2> QED BY <2>2, <2>3, <2>4 DEF CallStep
<1> QED BY <1>1, <1>2 DEF CallerInv

\* The invariant holds in every reachable state.
THEOREM CallInductive == Spec => []IInv
<1>1. Init => IInv
  BY InitInv
<1>2. IInv /\ [Next]_vars => IInv'
  <2> SUFFICES ASSUME IInv, [Next]_vars PROVE IInv'
    OBVIOUS
  <2>1. CASE UNCHANGED vars
    BY <2>1 DEF vars, IInv, TypeOK, BuffersReturned, Holds, CallerInv
  <2>2. ASSUME NEW c \in Callers, CallStep(c)
        PROVE  IInv'
    <3>1. TypeOK'
      BY <2>2, TypeStep DEF IInv
    <3>2. BuffersReturned'
      BY <2>2, BuffersStep
    <3>3. ASSUME NEW d \in Callers
          PROVE  CallerInv(d)'
      BY <2>2, OwnStep, OthersStep
    <3> QED BY <3>1, <3>2, <3>3 DEF IInv
  <2> QED BY <2>1, <2>2 DEF Next
<1> QED BY <1>1, <1>2, PTL DEF Spec

\* No buffer is lost, shared, or given back twice (callHost).
THEOREM MemoryReturned == Spec => []BuffersReturned
<1>1. IInv => BuffersReturned
  BY DEF IInv
<1> QED BY <1>1, CallInductive, PTL

\* A decoded reply is the answer to its own call.
LEMMA InvReply == IInv => ReplyIsOwn
<1> SUFFICES ASSUME IInv, NEW c \in Callers, pc[c] = "returned"
    PROVE  LET p == sent[c]
               succeeded == /\ holdsBytes(p) /\ code[c] = 0
                            /\ p.envelope /\ p.ok /\ p.result /\ p.status < 400
           IN /\ result[c].error = "none" <=> succeeded
              /\ succeeded => result[c].body = p.body
  BY DEF ReplyIsOwn
<1>1. result[c] = outcome(Read(sent[c]), code[c])
  BY DEF IInv, CallerInv
<1>2. CASE ~holdsBytes(sent[c])
  BY <1>1, <1>2 DEF Read, outcome, Failed
<1>3. CASE holdsBytes(sent[c])
  <2>1. /\ Read(sent[c]) = sent[c] /\ sent[c] # Free
        /\ sent[c].status \in Nat
    BY <1>3 DEF Read, holdsBytes, IInv, TypeOK, Payloads
  <2> QED BY <1>1, <1>3, <2>1 DEF outcome, Failed
<1> QED BY <1>2, <1>3

\* The body a caller gets is that of the answer to its own call, and only of an
\* answer that succeeded at every level (callHostModelExecute).
THEOREM OwnReply == Spec => []ReplyIsOwn
BY InvReply, CallInductive, PTL
-----------------------------------------------------------------------------
(* Calls of the plugin, and the callbacks inside them *)

AbiTypeOK ==
  /\ stage \in [Callers -> Stages]
  /\ call \in [Callers -> [method : Methods, length : Nat, buffer : BOOLEAN]]
  /\ got \in [Callers -> Int]
  /\ cells \in [Cells -> Written \cup {Null}]
  /\ payload \in [Callers -> Cells \cup {Null}]
  /\ response \in [Callers -> Cells \cup {Null}]
  /\ answered \in [Callers -> Envelopes \cup {Null}]
  /\ read \in [Callers -> Written \cup {Null}]
  /\ returned \in [Callers -> {0, 1}]

\* The cells in use are those held, each by one call.
Owned ==
  /\ \A a \in Cells : cells[a] # Null <=> \E c \in Callers : a \in HeldBy(c)
  /\ \A c, d \in Callers : c # d => HeldBy(c) \cap HeldBy(d) = {}

\* A callback runs inside the stage that makes it, and its request with it.
CallbackInv(c) ==
  /\ stage[c] \in {"idle", "entered", "handling"} => pc[c] = "idle"
  /\ stage[c] # "calling" => pc[c] \in {"idle", "returned"}
  /\ stage[c] = "calling" <=> payload[c] # Null

\* An answer is its own call's, and an executor's ok envelope its own callback's
\* body or the failure of a stream.
AnswerInv(c) ==
  stage[c] \in {"handled", "returned", "read"} =>
    /\ answered[c] \in Envelopes /\ answered[c].caller = c
    /\ answered[c].error = "none" /\ call[c].method \in Executing =>
         \/ result[c].error = "none" /\ answered[c].body = result[c].body
         \/ call[c].method = "execute_stream" /\ answered[c].body = "response_failed"
    /\ call[c].method = "nil" => answered[c].error = "failed"

\* What CPA finds behind the pointer is that answer, until it frees it.
ResponseInv(c) ==
  /\ response[c] # Null <=> stage[c] \in {"returned", "read"} /\ call[c].buffer
  /\ response[c] # Null => cells[response[c]] = answered[c]
  /\ stage[c] = "read" /\ call[c].buffer => read[c] = answered[c]
  /\ returned[c] # 0 => stage[c] \in {"returned", "read"} /\ call[c].method = "nil"

\* A handler runs for a method, on nothing beyond the request, and on all of one
\* shorter than Word or not for long.
RequestInv(c) ==
  /\ stage[c] \in {"handling", "calling"} => call[c].method # "nil"
  /\ stage[c] \notin {"idle", "entered"} /\ call[c].method # "nil" =>
       /\ got[c] <= call[c].length
       /\ call[c].length < Word => got[c] = call[c].length \/ crashed

OneCall(c) == CallbackInv(c) /\ AnswerInv(c) /\ ResponseInv(c) /\ RequestInv(c)

AbiInv == IInv /\ AbiTypeOK /\ Owned /\ \A c \in Callers : OneCall(c)

-----------------------------------------------------------------------------
(* The callbacks *)

\* A step of callHost keeps what is shown of it alone.
LEMMA CallKeeps ==
  ASSUME IInv, NEW c \in Callers, CallStep(c)
  PROVE  IInv'
<1>1. TypeOK'
  BY TypeStep DEF IInv
<1>2. BuffersReturned'
  BY BuffersStep
<1>3. ASSUME NEW d \in Callers
      PROVE  CallerInv(d)'
  BY OwnStep, OthersStep
<1> QED BY <1>1, <1>2, <1>3 DEF IInv

\* What changes no variable of callHost keeps it too.
LEMMA CallUntouched ==
  ASSUME IInv, UNCHANGED vars
  PROVE  IInv'
BY DEF vars, IInv, TypeOK, BuffersReturned, Holds, CallerInv

\* So does forgetting a callback that holds no buffer of the host's.
LEMMA ForgetKeeps ==
  ASSUME IInv, NEW c \in Callers, pc[c] \in {"idle", "returned"}, forgetCallback(c)
  PROVE  IInv'
<1> USE DEF IInv, TypeOK, forgetCallback
<1>1. TypeOK'
  BY DEF Phases, Failed, Results, Errors
<1>2. heap' = heap /\ \A d \in Callers, a \in Addresses : Holds(d, a)' <=> Holds(d, a)
  BY DEF Holds
<1>3. BuffersReturned'
  BY <1>2 DEF BuffersReturned
<1>4. ASSUME NEW d \in Callers
      PROVE  CallerInv(d)'
  <2>1. CASE d = c
    BY <2>1 DEF CallerInv
  <2>2. CASE d # c
    BY <2>2 DEF CallerInv
  <2> QED BY <2>1, <2>2
<1> QED BY <1>1, <1>3, <1>4

\* The callback a call makes is no other call's.
LEMMA CallbackAlone ==
  ASSUME IInv, NEW c \in Callers, CallStep(c), NEW d \in Callers \ {c}
  PROVE  pc'[d] = pc[d] /\ result'[d] = result[d]
BY DEF IInv, TypeOK, CallStep, beginCall, hostAnswers, copyResponse, freeResponse,
       decodeResponse, Goto

-----------------------------------------------------------------------------
(* The memory *)

\* A call that takes a free cell holds it alone.
LEMMA Takes ==
  ASSUME Owned, cells \in [Cells -> Written \cup {Null}], NEW c \in Callers, NEW a \in Cells,
         NEW w \in Written, CBytes(a, w), HeldBy(c) = {}, HeldBy(c)' = {a},
         \A d \in Callers \ {c} : HeldBy(d)' = HeldBy(d)
  PROVE  Owned'
<1>1. \A d \in Callers : a \notin HeldBy(d)
  BY DEF Owned, CBytes
<1>2. \A b \in Cells : cells'[b] # Null <=> b = a \/ cells[b] # Null
  BY WrittenAssumption DEF CBytes
<1> QED BY <1>1, <1>2 DEF Owned

\* A call that gives back the cell it held leaves it free.
LEMMA GivesBack ==
  ASSUME Owned, cells \in [Cells -> Written \cup {Null}], NEW c \in Callers, NEW a \in Cells,
         CFree(a), HeldBy(c) = {a}, HeldBy(c)' = {},
         \A d \in Callers \ {c} : HeldBy(d)' = HeldBy(d)
  PROVE  Owned'
<1>1. \A b \in Cells : cells'[b] # Null <=> b # a /\ cells[b] # Null
  BY DEF CFree
<1> QED BY <1>1 DEF Owned

\* Memory stays owned when no cell is written and none changes hands.
LEMMA Keeps ==
  ASSUME Owned, cells' = cells, \A d \in Callers : HeldBy(d)' = HeldBy(d)
  PROVE  Owned'
BY DEF Owned

\* A length never comes out longer; one below Word that fits no C.int comes out
\* negative (C.GoBytes panics on it), never short.
LEMMA Narrowed ==
  ASSUME NEW n \in Nat
  PROVE  /\ CInt(n) \in Int /\ CInt(n) <= n
         /\ n < Word => CInt(n) = n \/ CInt(n) < 0
<1> DEFINE low == n % Word
<1>1. Word \in Nat /\ Word > 0
  BY PluginCallAssumption
<1>2. low \in 0..(Word - 1) /\ (n < Word => low = n)
  BY <1>1
<1>3. low <= n
  BY <1>1, <1>2
<1>4. CInt(n) = IF low < Word \div 2 THEN low ELSE low - Word
  BY DEF CInt
<1> HIDE DEF low
<1>5. Word \div 2 \in Nat
  BY <1>1
<1> QED BY <1>1, <1>2, <1>3, <1>4, <1>5

-----------------------------------------------------------------------------
(* The steps *)

\* What a step of another call leaves alone.
Untouched(d) ==
  /\ stage'[d] = stage[d] /\ call'[d] = call[d] /\ got'[d] = got[d]
  /\ payload'[d] = payload[d] /\ response'[d] = response[d]
  /\ answered'[d] = answered[d] /\ read'[d] = read[d] /\ returned'[d] = returned[d]

\* A step of one call leaves what is known of the others.
LEMMA OthersKeep ==
  ASSUME AbiInv, NEW c \in Callers, NEW d \in Callers \ {c}, Untouched(d),
         pc'[d] = pc[d], result'[d] = result[d], crashed => crashed',
         response[d] # Null => cells'[response[d]] = cells[response[d]]
  PROVE  OneCall(d)' /\ HeldBy(d)' = HeldBy(d)
BY DEF AbiInv, AbiTypeOK, OneCall, CallbackInv, AnswerInv, ResponseInv, RequestInv, Untouched, HeldBy

\* Another call's answer stays where it is: the memory taken is free, the memory
\* given back is held by the call that gives it back.
LEMMA AnswerStays ==
  ASSUME AbiInv, NEW c \in Callers, NEW d \in Callers \ {c}, NEW a \in Cells, NEW w,
         cells' = [cells EXCEPT ![a] = w], cells[a] = Null \/ a \in HeldBy(c),
         response[d] # Null
  PROVE  cells'[response[d]] = cells[response[d]]
<1>1. response[d] \in HeldBy(d) /\ response[d] \in Cells
  BY DEF AbiInv, AbiTypeOK, OneCall, ResponseInv, HeldBy
<1>2. cells[response[d]] # Null /\ response[d] \notin HeldBy(c)
  BY <1>1 DEF AbiInv, Owned
<1> QED BY <1>1, <1>2 DEF AbiInv, AbiTypeOK

\* With no call under way, no memory is in use.
LEMMA AbiInitInv == AbiInit => AbiInv
<1> SUFFICES ASSUME AbiInit PROVE AbiInv
  OBVIOUS
<1>1. IInv
  BY InitInv DEF AbiInit
<1>2. AbiTypeOK
  <2>1. NoCall \in [method : Methods, length : Nat, buffer : BOOLEAN]
    BY PluginCallAssumption DEF NoCall, Methods
  <2> QED BY <2>1 DEF AbiInit, AbiTypeOK, Stages
<1>3. Owned
  BY DEF AbiInit, Owned, HeldBy
<1>4. \A c \in Callers : OneCall(c)
  BY DEF AbiInit, Init, NoCall, OneCall, CallbackInv, AnswerInv, ResponseInv, RequestInv
<1> QED BY <1>1, <1>2, <1>3, <1>4 DEF AbiInv

\* CPA's call (cliproxyPluginCall) begins with nothing held.
LEMMA CallPluginKeeps ==
  ASSUME AbiInv, NEW c \in Callers, NEW request \in PluginCalls, callPlugin(c, request)
  PROVE  AbiInv'
<1> USE DEF callPlugin, StageGoes
<1>1. IInv'
  BY CallUntouched DEF AbiInv
<1>2. AbiTypeOK'
  <2>1. request \in [method : Methods, length : Nat, buffer : BOOLEAN]
    BY PluginCallAssumption DEF PluginCalls
  <2> QED BY <2>1 DEF AbiInv, AbiTypeOK, Stages
<1>3. ASSUME NEW d \in Callers \ {c}
      PROVE  OneCall(d)' /\ HeldBy(d)' = HeldBy(d)
  BY OthersKeep DEF Untouched, AbiInv, AbiTypeOK, vars
<1>4. OneCall(c)'
  BY DEF AbiInv, AbiTypeOK, OneCall, CallbackInv, AnswerInv, ResponseInv, RequestInv, vars
<1>5. HeldBy(c)' = HeldBy(c)
  BY DEF AbiInv, AbiTypeOK, HeldBy
<1>6. Owned'
  BY <1>3, <1>5, Keeps DEF AbiInv
<1> QED BY <1>1, <1>2, <1>3, <1>4, <1>6 DEF AbiInv

\* The copy of the request (C.GoBytes) keeps it whole, or ends the process.
LEMMA CopyRequestKeeps ==
  ASSUME AbiInv, ~crashed, NEW c \in Callers, copyRequest(c)
  PROVE  AbiInv'
<1> DEFINE n == CInt(call[c].length)
<1> USE DEF StageGoes
<1>n. /\ n \in Int /\ call[c].length \in Nat /\ n <= call[c].length
      /\ call[c].length < Word => n = call[c].length \/ n < 0
  BY Narrowed DEF AbiInv, AbiTypeOK
<1>g. \/ /\ call[c].method = "nil" /\ stage' = [stage EXCEPT ![c] = "handled"]
         /\ answered' = [answered EXCEPT ![c] = Envelope(c, "failed", "none")]
         /\ UNCHANGED <<got, crashed>>
      \/ /\ call[c].method # "nil" /\ stage' = [stage EXCEPT ![c] = "handling"]
         /\ crashed' = (n < 0) /\ got' = [got EXCEPT ![c] = n] /\ UNCHANGED answered
  BY DEF copyRequest
<1>u. UNCHANGED <<vars, call, cells, payload, response, read, returned>> /\ stage[c] = "entered"
  BY DEF copyRequest
<1> HIDE DEF n
<1>e. Envelope(c, "failed", "none") \in Envelopes
  BY DEF Envelope, Envelopes
<1>1. IInv'
  BY <1>u, CallUntouched DEF AbiInv
<1>2. AbiTypeOK'
  <2> USE DEF AbiInv, AbiTypeOK
  <2>1. stage' \in [Callers -> Stages]
    BY <1>g, <1>u DEF Stages
  <2>2. got' \in [Callers -> Int]
    BY <1>n, <1>g, <1>u
  <2>3. answered' \in [Callers -> Envelopes \cup {Null}]
    BY <1>g, <1>u, <1>e
  <2> QED BY <1>u, <2>1, <2>2, <2>3
<1>3. ASSUME NEW d \in Callers \ {c}
      PROVE  OneCall(d)' /\ HeldBy(d)' = HeldBy(d)
  BY <1>g, <1>u, OthersKeep DEF Untouched, AbiInv, AbiTypeOK, vars
<1>4. OneCall(c)'
  <2> USE DEF AbiInv, AbiTypeOK, OneCall, vars
  <2>1. CallbackInv(c)' /\ ResponseInv(c)'
    BY <1>g, <1>u DEF CallbackInv, ResponseInv
  <2>2. AnswerInv(c)'
    BY <1>g, <1>u, <1>e DEF AnswerInv, Envelope
  <2>3. RequestInv(c)'
    BY <1>n, <1>g, <1>u DEF RequestInv
  <2> QED BY <2>1, <2>2, <2>3
<1>5. HeldBy(c)' = HeldBy(c)
  BY <1>g, <1>u DEF AbiInv, AbiTypeOK, HeldBy
<1>6. Owned'
  BY <1>3, <1>5, <1>u, Keeps DEF AbiInv
<1> QED BY <1>1, <1>2, <1>3, <1>4, <1>6 DEF AbiInv

\* A callback takes one cell for its payload.
LEMMA CallHostKeeps ==
  ASSUME AbiInv, NEW c \in Callers, callHost(c)
  PROVE  AbiInv'
<1> USE DEF StageGoes
<1>p. PICK a \in Cells : CBytes(a, [caller |-> c]) /\ payload' = [payload EXCEPT ![c] = a]
  BY DEF callHost
<1>u. /\ stage[c] = "handling" /\ stage' = [stage EXCEPT ![c] = "calling"] /\ beginCall(c)
      /\ UNCHANGED <<call, got, response, answered, read, returned, crashed>>
  BY DEF callHost
<1>w. [caller |-> c] \in Written
  BY DEF Written
<1>s. CallStep(c)
  BY <1>u DEF CallStep
<1>1. IInv'
  BY <1>s, CallKeeps DEF AbiInv
<1>2. AbiTypeOK'
  BY <1>p, <1>u, <1>w DEF AbiInv, AbiTypeOK, Stages, CBytes
<1>3. ASSUME NEW d \in Callers \ {c}
      PROVE  OneCall(d)' /\ HeldBy(d)' = HeldBy(d)
  <2>1. pc'[d] = pc[d] /\ result'[d] = result[d]
    BY <1>s, CallbackAlone DEF AbiInv
  <2>2. response[d] # Null => cells'[response[d]] = cells[response[d]]
    BY <1>p, AnswerStays DEF CBytes
  <2>3. Untouched(d)
    BY <1>p, <1>u DEF Untouched, AbiInv, AbiTypeOK
  <2> QED BY <1>u, <2>1, <2>2, <2>3, OthersKeep
<1>4. OneCall(c)'
  <2>1. pc'[c] = "calling"
    BY <1>u DEF beginCall, AbiInv, IInv, TypeOK
  <2> QED BY <1>p, <1>u, <2>1, PluginCallAssumption DEF AbiInv, AbiTypeOK, OneCall, CallbackInv,
             AnswerInv, ResponseInv, RequestInv
<1>5. HeldBy(c) = {} /\ HeldBy(c)' = {a}
  BY <1>p, <1>u DEF AbiInv, AbiTypeOK, HeldBy
<1>6. Owned'
  BY <1>p, <1>w, <1>3, <1>5, Takes DEF AbiInv, AbiTypeOK
<1> QED BY <1>1, <1>2, <1>3, <1>4, <1>6 DEF AbiInv

\* What goes on inside a callback is HostCall's.
LEMMA HostCallStepsKeep ==
  ASSUME AbiInv, NEW c \in Callers, hostCallSteps(c)
  PROVE  AbiInv'
<1>u. stage[c] = "calling" /\ UNCHANGED abiVars
  BY DEF hostCallSteps
<1>s. CallStep(c)
  BY DEF CallStep, hostCallSteps
<1>1. IInv'
  BY <1>s, CallKeeps DEF AbiInv
<1>2. AbiTypeOK'
  BY <1>u DEF AbiInv, AbiTypeOK, abiVars
<1>3. ASSUME NEW d \in Callers \ {c}
      PROVE  OneCall(d)' /\ HeldBy(d)' = HeldBy(d)
  <2>1. pc'[d] = pc[d] /\ result'[d] = result[d]
    BY <1>s, CallbackAlone DEF AbiInv
  <2> QED BY <1>u, <2>1, OthersKeep DEF Untouched, abiVars
<1>4. OneCall(c)'
  BY <1>u DEF abiVars, AbiInv, AbiTypeOK, OneCall, CallbackInv, AnswerInv, ResponseInv, RequestInv
<1>5. HeldBy(c)' = HeldBy(c)
  BY <1>u DEF abiVars, HeldBy
<1>6. Owned'
  BY <1>u, <1>3, <1>5, Keeps DEF AbiInv, abiVars
<1> QED BY <1>1, <1>2, <1>3, <1>4, <1>6 DEF AbiInv

\* A failure is an envelope of the call's own, and an ok one only for a stream.
LEMMA FailuresType ==
  ASSUME NEW c \in Callers
  PROVE  \A e \in Failures(c) :
           /\ e \in Envelopes /\ e.caller = c
           /\ e.error = "none" => call[c].method = "execute_stream" /\ e.body = "response_failed"
BY DEF Failures, Envelope, Envelopes

\* Every return of a callback gives the payload back.
LEMMA HostCallReturnsKeep ==
  ASSUME AbiInv, NEW c \in Callers, hostCallReturns(c)
  PROVE  AbiInv'
<1> USE DEF StageGoes
<1>u. /\ stage[c] = "calling" /\ stage' = [stage EXCEPT ![c] = "handled"] /\ pc[c] = "returned"
      /\ CFree(payload[c]) /\ payload' = [payload EXCEPT ![c] = Null]
      /\ UNCHANGED <<vars, call, got, response, read, returned, crashed>>
  BY DEF hostCallReturns
<1>p. payload[c] \in Cells /\ HeldBy(c) = {payload[c]}
  BY <1>u DEF AbiInv, AbiTypeOK, OneCall, CallbackInv, HeldBy
<1>f. \A e \in Failures(c) :
        /\ e \in Envelopes /\ e.caller = c
        /\ e.error = "none" => call[c].method = "execute_stream" /\ e.body = "response_failed"
  BY FailuresType
<1>a. PICK e \in Envelopes :
        /\ answered' = [answered EXCEPT ![c] = e] /\ e.caller = c
        /\ e.error = "none" =>
             \/ result[c].error = "none" /\ e.body = result[c].body
             \/ call[c].method = "execute_stream" /\ e.body = "response_failed"
  <2>1. CASE /\ result[c].error = "none"
             /\ answered' = [answered EXCEPT ![c] = Envelope(c, "none", result[c].body)]
    <3>1. result[c].body \in Bodies
      BY <2>1 DEF AbiInv, IInv, TypeOK, Results, Errors
    <3>2. Envelope(c, "none", result[c].body) \in Envelopes
      BY <3>1 DEF Envelope, Envelopes
    <3> QED BY <2>1, <3>2 DEF Envelope
  <2>2. CASE \E e \in Failures(c) : answered' = [answered EXCEPT ![c] = e]
    BY <1>f, <2>2
  <2> QED BY <2>1, <2>2 DEF hostCallReturns
<1>1. IInv'
  BY <1>u, CallUntouched DEF AbiInv
<1>2. AbiTypeOK'
  BY <1>u, <1>p, <1>a DEF AbiInv, AbiTypeOK, Stages, CFree
<1>3. ASSUME NEW d \in Callers \ {c}
      PROVE  OneCall(d)' /\ HeldBy(d)' = HeldBy(d)
  <2>1. response[d] # Null => cells'[response[d]] = cells[response[d]]
    BY <1>u, <1>p, AnswerStays DEF CFree
  <2>2. Untouched(d)
    BY <1>u, <1>a DEF Untouched, AbiInv, AbiTypeOK
  <2> QED BY <1>u, <2>1, <2>2, OthersKeep DEF vars
<1>4. OneCall(c)'
  <2> USE DEF AbiInv, AbiTypeOK, OneCall
  <2>1. CallbackInv(c)' /\ ResponseInv(c)' /\ RequestInv(c)'
    BY <1>u, <1>a DEF CallbackInv, ResponseInv, RequestInv, vars
  <2>2. AnswerInv(c)'
    <3>1. call[c].method # "nil"
      BY <1>u DEF RequestInv
    <3> QED BY <1>u, <1>a, <3>1 DEF AnswerInv, vars
  <2> QED BY <2>1, <2>2
<1>5. HeldBy(c)' = {}
  BY <1>u DEF AbiInv, AbiTypeOK, OneCall, ResponseInv, HeldBy
<1>6. Owned'
  BY <1>u, <1>p, <1>3, <1>5, GivesBack DEF AbiInv, AbiTypeOK
<1> QED BY <1>1, <1>2, <1>3, <1>4, <1>6 DEF AbiInv

\* A handler that does not call back takes no memory.
LEMMA HandleMethodKeeps ==
  ASSUME AbiInv, NEW c \in Callers, handleMethod(c)
  PROVE  AbiInv'
<1> USE DEF StageGoes
<1>u. /\ stage[c] = "handling" /\ stage' = [stage EXCEPT ![c] = "handled"]
      /\ UNCHANGED <<vars, call, got, cells, payload, response, read, returned, crashed>>
  BY DEF handleMethod
<1>f. \A e \in Failures(c) :
        /\ e \in Envelopes /\ e.caller = c
        /\ e.error = "none" => call[c].method = "execute_stream" /\ e.body = "response_failed"
  BY FailuresType
<1>a. PICK e \in Envelopes :
        /\ answered' = [answered EXCEPT ![c] = e] /\ e.caller = c
        /\ e.error = "none" /\ call[c].method \in Executing =>
             call[c].method = "execute_stream" /\ e.body = "response_failed"
  <2>1. CASE \E e \in Failures(c) : answered' = [answered EXCEPT ![c] = e]
    BY <1>f, <2>1
  <2>2. CASE /\ call[c].method = "plain"
             /\ answered' = [answered EXCEPT ![c] = Envelope(c, "none", "none")]
    <3>1. Envelope(c, "none", "none") \in Envelopes
      BY DEF Envelope, Envelopes
    <3> QED BY <2>2, <3>1 DEF Envelope, Executing
  <2> QED BY <2>1, <2>2 DEF handleMethod
<1>1. IInv'
  BY <1>u, CallUntouched DEF AbiInv
<1>2. AbiTypeOK'
  BY <1>u, <1>a DEF AbiInv, AbiTypeOK, Stages
<1>3. ASSUME NEW d \in Callers \ {c}
      PROVE  OneCall(d)' /\ HeldBy(d)' = HeldBy(d)
  BY <1>u, <1>a, OthersKeep DEF Untouched, AbiInv, AbiTypeOK, vars
<1>4. OneCall(c)'
  BY <1>u, <1>a DEF AbiInv, AbiTypeOK, OneCall, CallbackInv, AnswerInv, ResponseInv, RequestInv, vars
<1>5. HeldBy(c)' = HeldBy(c)
  BY <1>u DEF AbiInv, AbiTypeOK, HeldBy
<1>6. Owned'
  BY <1>u, <1>3, <1>5, Keeps DEF AbiInv
<1> QED BY <1>1, <1>2, <1>3, <1>4, <1>6 DEF AbiInv

\* The answer of a call goes to a cell of its own (writeResponse).
LEMMA WriteResponseKeeps ==
  ASSUME AbiInv, NEW c \in Callers, writeResponse(c)
  PROVE  AbiInv'
<1> USE DEF StageGoes
<1>u. /\ stage[c] = "handled" /\ stage' = [stage EXCEPT ![c] = "returned"]
      /\ returned' = [returned EXCEPT ![c] = IF call[c].method = "nil" THEN 1 ELSE 0]
      /\ UNCHANGED <<vars, call, got, payload, answered, read, crashed>>
  BY DEF writeResponse
<1>e. answered[c] \in Envelopes /\ answered[c] \in Written /\ response[c] = Null /\ HeldBy(c) = {}
  BY <1>u DEF AbiInv, OneCall, AnswerInv, ResponseInv, HeldBy, Written
<1>1. IInv'
  BY <1>u, CallUntouched DEF AbiInv
<1>c. \A d \in Callers \ {c} : pc'[d] = pc[d] /\ result'[d] = result[d]
  BY <1>u DEF vars
<1>4. ASSUME /\ response'[c] # Null <=> call[c].buffer
             /\ response'[c] # Null => cells'[response'[c]] = answered[c]
      PROVE  OneCall(c)'
  BY <1>u, <1>4 DEF AbiInv, AbiTypeOK, OneCall, CallbackInv, AnswerInv, ResponseInv, RequestInv, vars
<1>5. CASE call[c].buffer
  <2>p. PICK a \in Cells : CBytes(a, answered[c]) /\ response' = [response EXCEPT ![c] = a]
    BY <1>5 DEF writeResponse
  <2>2. AbiTypeOK'
    BY <1>u, <1>e, <2>p DEF AbiInv, AbiTypeOK, Stages, CBytes
  <2>3. ASSUME NEW d \in Callers \ {c}
        PROVE  OneCall(d)' /\ HeldBy(d)' = HeldBy(d)
    <3>1. response[d] # Null => cells'[response[d]] = cells[response[d]]
      BY <2>p, AnswerStays DEF CBytes
    <3>2. Untouched(d)
      BY <1>u, <2>p DEF Untouched, AbiInv, AbiTypeOK
    <3> QED BY <1>u, <1>c, <3>1, <3>2, OthersKeep
  <2>4. OneCall(c)'
    BY <1>4, <1>5, <2>p, PluginCallAssumption DEF AbiInv, AbiTypeOK, CBytes
  <2>5. HeldBy(c)' = {a}
    BY <1>u, <2>p DEF AbiInv, AbiTypeOK, HeldBy
  <2>6. Owned'
    BY <1>e, <2>p, <2>3, <2>5, Takes DEF AbiInv, AbiTypeOK
  <2> QED BY <1>1, <2>2, <2>3, <2>4, <2>6 DEF AbiInv
<1>6. CASE ~call[c].buffer
  <2>p. UNCHANGED <<cells, response>>
    BY <1>6 DEF writeResponse
  <2>2. AbiTypeOK'
    BY <1>u, <2>p DEF AbiInv, AbiTypeOK, Stages
  <2>3. ASSUME NEW d \in Callers \ {c}
        PROVE  OneCall(d)' /\ HeldBy(d)' = HeldBy(d)
    BY <1>u, <1>c, <2>p, OthersKeep DEF Untouched, AbiInv, AbiTypeOK
  <2>4. OneCall(c)'
    BY <1>e, <1>4, <1>6, <2>p
  <2>5. HeldBy(c)' = HeldBy(c)
    BY <1>u, <1>e, <2>p, PluginCallAssumption DEF AbiInv, AbiTypeOK, HeldBy
  <2>6. Owned'
    BY <2>p, <2>3, <2>5, Keeps DEF AbiInv
  <2> QED BY <1>1, <2>2, <2>3, <2>4, <2>6 DEF AbiInv
<1> QED BY <1>5, <1>6

\* CPA reads the answer of the call it made.
LEMMA ReadResponseKeeps ==
  ASSUME AbiInv, NEW c \in Callers, readResponse(c)
  PROVE  AbiInv'
<1> USE DEF StageGoes
<1>u. /\ stage[c] = "returned" /\ stage' = [stage EXCEPT ![c] = "read"]
      /\ read' = [read EXCEPT ![c] = IF response[c] = Null THEN Null ELSE cells[response[c]]]
      /\ UNCHANGED <<vars, call, got, cells, payload, response, answered, returned, crashed>>
  BY DEF readResponse
<1>1. IInv'
  BY <1>u, CallUntouched DEF AbiInv
<1>2. AbiTypeOK'
  <2>1. response[c] # Null => cells[response[c]] \in Written \cup {Null}
    BY DEF AbiInv, AbiTypeOK
  <2> QED BY <1>u, <2>1 DEF AbiInv, AbiTypeOK, Stages
<1>3. ASSUME NEW d \in Callers \ {c}
      PROVE  OneCall(d)' /\ HeldBy(d)' = HeldBy(d)
  BY <1>u, OthersKeep DEF Untouched, AbiInv, AbiTypeOK, vars
<1>4. OneCall(c)'
  BY <1>u DEF AbiInv, AbiTypeOK, OneCall, CallbackInv, AnswerInv, ResponseInv, RequestInv, vars
<1>5. HeldBy(c)' = HeldBy(c)
  BY <1>u DEF AbiInv, AbiTypeOK, HeldBy
<1>6. Owned'
  BY <1>u, <1>3, <1>5, Keeps DEF AbiInv
<1> QED BY <1>1, <1>2, <1>3, <1>4, <1>6 DEF AbiInv

\* cliproxyPluginFree gives the answer back and nothing else.
LEMMA FreeKeeps ==
  ASSUME AbiInv, NEW c \in Callers, cliproxyPluginFree(c)
  PROVE  AbiInv'
<1> USE DEF StageGoes
<1>u. /\ stage[c] = "read" /\ stage' = [stage EXCEPT ![c] = "idle"]
      /\ call' = [call EXCEPT ![c] = NoCall]
      /\ got' = [got EXCEPT ![c] = 0] /\ returned' = [returned EXCEPT ![c] = 0]
      /\ response' = [response EXCEPT ![c] = Null]
      /\ answered' = [answered EXCEPT ![c] = Null] /\ read' = [read EXCEPT ![c] = Null]
      /\ forgetCallback(c) /\ UNCHANGED <<payload, crashed>>
      /\ IF response[c] # Null THEN CFree(response[c]) ELSE UNCHANGED cells
  BY DEF cliproxyPluginFree
<1>p. pc[c] \in {"idle", "returned"} /\ payload[c] = Null
  BY <1>u DEF AbiInv, OneCall, CallbackInv
<1>1. IInv'
  BY <1>u, <1>p, ForgetKeeps DEF AbiInv
<1>2. AbiTypeOK'
  <2>1. NoCall \in [method : Methods, length : Nat, buffer : BOOLEAN]
    BY PluginCallAssumption DEF NoCall, Methods
  <2> QED BY <1>u, <2>1 DEF AbiInv, AbiTypeOK, Stages, CFree
<1>h. response[c] # Null => response[c] \in Cells /\ HeldBy(c) = {response[c]}
  BY <1>u DEF AbiInv, AbiTypeOK, HeldBy
<1>3. ASSUME NEW d \in Callers \ {c}
      PROVE  OneCall(d)' /\ HeldBy(d)' = HeldBy(d)
  <2>1. response[d] # Null => cells'[response[d]] = cells[response[d]]
    <3>1. CASE response[c] # Null
      <4>1. response[c] \in Cells /\ response[c] \in HeldBy(c) /\ cells' = [cells EXCEPT ![response[c]] = Null]
        BY <1>u, <1>h, <3>1 DEF CFree
      <4> QED BY <4>1, AnswerStays
    <3>2. CASE response[c] = Null
      BY <1>u, <3>2
    <3> QED BY <3>1, <3>2
  <2>2. Untouched(d)
    BY <1>u DEF Untouched, AbiInv, AbiTypeOK
  <2>3. pc'[d] = pc[d] /\ result'[d] = result[d]
    BY <1>u DEF forgetCallback, AbiInv, IInv, TypeOK
  <2> QED BY <1>u, <2>1, <2>2, <2>3, OthersKeep
<1>4. OneCall(c)'
  <2>1. pc'[c] = "idle"
    BY <1>u DEF forgetCallback, AbiInv, IInv, TypeOK
  <2> QED BY <1>u, <1>p, <2>1 DEF AbiInv, AbiTypeOK, OneCall, CallbackInv, AnswerInv, ResponseInv,
             RequestInv, NoCall
<1>5. HeldBy(c)' = {}
  BY <1>u, <1>p DEF AbiInv, AbiTypeOK, HeldBy
<1>6. CASE response[c] # Null
  <2>1. Owned'
    BY <1>u, <1>h, <1>3, <1>5, <1>6, GivesBack DEF AbiInv, AbiTypeOK
  <2> QED BY <1>1, <1>2, <1>3, <1>4, <2>1 DEF AbiInv
<1>7. CASE response[c] = Null
  <2>1. HeldBy(c) = {}
    BY <1>u, <1>7, PluginCallAssumption DEF HeldBy
  <2>2. Owned'
    BY <1>u, <1>3, <1>5, <1>7, <2>1, Keeps DEF AbiInv
  <2> QED BY <1>1, <1>2, <1>3, <1>4, <2>2 DEF AbiInv
<1> QED BY <1>6, <1>7

-----------------------------------------------------------------------------
(* The theorems *)

\* The invariant holds in every reachable state.
THEOREM AbiInductive == AbiSpec => []AbiInv
<1>1. AbiInit => AbiInv
  BY AbiInitInv
<1>2. AbiInv /\ [AbiNext]_allVars => AbiInv'
  <2> SUFFICES ASSUME AbiInv, [AbiNext]_allVars PROVE AbiInv'
    OBVIOUS
  <2>1. CASE UNCHANGED allVars
    <3>1. IInv' /\ AbiTypeOK'
      BY <2>1, CallUntouched DEF allVars, abiVars, AbiInv, AbiTypeOK
    <3>2. Owned'
      BY <2>1, Keeps DEF allVars, abiVars, AbiInv, HeldBy
    <3>3. \A d \in Callers : OneCall(d)'
      BY <2>1 DEF allVars, vars, abiVars, AbiInv, OneCall, CallbackInv, AnswerInv, ResponseInv, RequestInv
    <3> QED BY <3>1, <3>2, <3>3 DEF AbiInv
  <2>2. ASSUME ~crashed, NEW c \in Callers, AbiStep(c)
        PROVE  AbiInv'
    BY <2>2, CallPluginKeeps, CopyRequestKeeps, CallHostKeeps, HostCallStepsKeep, HostCallReturnsKeep,
       HandleMethodKeeps, WriteResponseKeeps, ReadResponseKeeps, FreeKeeps DEF AbiStep
  <2> QED BY <2>1, <2>2 DEF AbiNext
<1> QED BY <1>1, <1>2, PTL DEF AbiSpec

\* No memory is lost, shared or given back twice, on either side of the ABI
\* (cliproxyPluginCall, cliproxyPluginFree, callHost).
THEOREM NoLeak == AbiSpec => []NothingLeaks
<1>1. AbiInv => NothingLeaks
  <2> SUFFICES ASSUME AbiInv PROVE NothingLeaks
    OBVIOUS
  <2>1. \A c \in Callers, a \in Addresses : Holds(c, a) => stage[c] = "calling"
    BY DEF AbiInv, OneCall, CallbackInv, Holds
  <2> QED BY <2>1 DEF NothingLeaks, AbiInv, Owned
<1> QED BY <1>1, AbiInductive, PTL

\* CPA reads the answer to its own call, and an executor's ok envelope carries the
\* body its own callback brought or, of a stream, response.failed (writeResponse,
\* callHost, executeV2Compact).
THEOREM OwnAnswer == AbiSpec => []AnswerIsOwn
<1>1. AbiInv => AnswerIsOwn
  <2> SUFFICES ASSUME AbiInv, NEW c \in Callers, stage[c] = "read", call[c].buffer
      PROVE  /\ read[c] # Null /\ read[c].caller = c
             /\ read[c].error = "none" /\ call[c].method \in Executing =>
                  \/ result[c].error = "none" /\ read[c].body = result[c].body
                  \/ call[c].method = "execute_stream" /\ read[c].body = "response_failed"
             /\ returned[c] # 0 => read[c].error = "failed"
    BY DEF AnswerIsOwn
  <2>1. read[c] = answered[c] /\ answered[c] \in Written /\ AnswerInv(c)
    BY DEF AbiInv, OneCall, AnswerInv, ResponseInv, Written
  <2>2. returned[c] # 0 => call[c].method = "nil"
    BY DEF AbiInv, OneCall, ResponseInv
  <2> QED BY <2>1, <2>2, WrittenAssumption DEF AnswerInv
<1> QED BY <1>1, AbiInductive, PTL

\* No handler reads past its request, and none works on part of one shorter than
\* Word (cliproxyPluginCall).
THEOREM WholeRequest == AbiSpec => []RequestIsWhole
<1>1. AbiInv => RequestIsWhole
  BY DEF AbiInv, OneCall, RequestInv, RequestIsWhole
<1> QED BY <1>1, AbiInductive, PTL

\* Inside the calls the callbacks keep the host's memory and their own replies.
THEOREM CallbacksHold == AbiSpec => [](BuffersReturned /\ ReplyIsOwn)
<1>1. AbiInv => BuffersReturned /\ ReplyIsOwn
  BY InvReply DEF AbiInv, IInv
<1> QED BY <1>1, AbiInductive, PTL
=============================================================================
