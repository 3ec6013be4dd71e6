------------------------- MODULE CANopenSensorProof -------------------------
(***************************************************************************)
(* Proofs about CANopenSensor, for every kind of sensor and every set of   *)
(* requests, clients, bits and queries: the types, that a request the SDO  *)
(* client or a continuation still works for is referenced and not yet      *)
(* released, and that the sensor's verb implements RequestService.  Then   *)
(* the values that a sensor answers and writes.  Reads are fresh: a value  *)
(* on its way to a request, in the queues, in a handler or in m_currentVal, *)
(* is one that this request may be answered with.  Writes of a TPDO land:  *)
(* what m_currentVal is and what the object holds go together from the     *)
(* first write on.                                                         *)
(***************************************************************************)
EXTENDS CANopenSensor, SequenceTheorems, TLAPS

-----------------------------------------------------------------------------
(* Queues of records with an owner.                                        *)

In(q, r) == \E i \in 1..Len(q) : q[i].owner = r

\* No request owns two records of q.
Distinct(q) ==
  \A i, j \in 1..Len(q) :
    q[i].owner = q[j].owner /\ q[i].owner # Nobody => i = j

\* Adding a record whose owner has none yet keeps the owners distinct, and makes
\* that owner the only new one.
LEMMA AppendOwners ==
  ASSUME NEW S, NEW q \in Seq(S), NEW e \in S, Distinct(q),
         e.owner = Nobody \/ ~In(q, e.owner)
  PROVE  /\ Append(q, e) \in Seq(S)
         /\ Distinct(Append(q, e))
         /\ \A r : In(Append(q, e), r) <=> In(q, r) \/ e.owner = r
<1>1. /\ Append(q, e) \in Seq(S)
      /\ Len(Append(q, e)) = Len(q) + 1
      /\ \A i \in 1..Len(q) : Append(q, e)[i] = q[i]
      /\ Append(q, e)[Len(q) + 1] = e
  BY AppendProperties
<1>2. Len(q) \in Nat
  BY LenProperties
<1>3. \A i \in 1..Len(Append(q, e)) : i \in 1..Len(q) \/ i = Len(q) + 1
  BY <1>1, <1>2
<1>4. \A i \in 1..Len(q) : i \in 1..Len(Append(q, e))
  BY <1>1, <1>2
<1>5. Len(q) + 1 \in 1..Len(Append(q, e))
  BY <1>1, <1>2
<1>6. Distinct(Append(q, e))
  BY <1>1, <1>3 DEF Distinct, In
<1>7. \A r : In(Append(q, e), r) <=> In(q, r) \/ e.owner = r
  BY <1>1, <1>3, <1>4, <1>5 DEF In
<1>. QED  BY <1>1, <1>6, <1>7

\* Taking the head away keeps the owners distinct, and takes its owner away.
LEMMA TailOwners ==
  ASSUME NEW S, NEW q \in Seq(S), q # <<>>, Distinct(q)
  PROVE  /\ Tail(q) \in Seq(S)
         /\ Head(q) \in S
         /\ In(q, Head(q).owner)
         /\ Distinct(Tail(q))
         /\ \A r : r # Nobody => (In(Tail(q), r) <=> In(q, r) /\ Head(q).owner # r)
<1>1. /\ Tail(q) \in Seq(S)
      /\ Head(q) = q[1] /\ Head(q) \in S
      /\ Len(q) \in Nat \ {0}
      /\ Len(Tail(q)) = Len(q) - 1
      /\ \A i \in 1..Len(Tail(q)) : Tail(q)[i] = q[i + 1]
  BY HeadTailProperties, LenProperties, EmptySeq
<1>2. \A i \in 1..Len(Tail(q)) : i + 1 \in 1..Len(q) /\ i + 1 # 1
  BY <1>1
<1>3. \A i \in 1..Len(q) : i = 1 \/ (i - 1 \in 1..Len(Tail(q)) /\ i = (i - 1) + 1)
  BY <1>1
<1>4. 1 \in 1..Len(q)
  BY <1>1
<1>5. In(q, Head(q).owner)
  BY <1>1, <1>4 DEF In
<1>6. Distinct(Tail(q))
  <2>. SUFFICES ASSUME NEW i \in 1..Len(Tail(q)), NEW j \in 1..Len(Tail(q)),
                       Tail(q)[i].owner = Tail(q)[j].owner,
                       Tail(q)[i].owner # Nobody
                PROVE  i = j
    BY DEF Distinct
  <2>1. i + 1 = j + 1
    BY <1>1, <1>2 DEF Distinct
  <2>. QED  BY <2>1, <1>1
<1>7. ASSUME NEW r, r # Nobody
      PROVE  In(Tail(q), r) <=> In(q, r) /\ Head(q).owner # r
  <2>1. ASSUME In(Tail(q), r)
        PROVE  In(q, r) /\ Head(q).owner # r
    <3>1. PICK i \in 1..Len(Tail(q)) : Tail(q)[i].owner = r
      BY <2>1 DEF In
    <3>2. i + 1 \in 1..Len(q) /\ q[i + 1].owner = r /\ i + 1 # 1
      BY <3>1, <1>1, <1>2
    <3>. QED  BY <3>2, <1>1, <1>4, <1>7 DEF In, Distinct
  <2>2. ASSUME In(q, r), Head(q).owner # r
        PROVE  In(Tail(q), r)
    <3>1. PICK i \in 1..Len(q) : q[i].owner = r
      BY <2>2 DEF In
    <3>2. i # 1
      BY <3>1, <2>2, <1>1
    <3>3. i - 1 \in 1..Len(Tail(q)) /\ Tail(q)[i - 1] = q[i]
      BY <3>1, <3>2, <1>1, <1>3
    <3>. QED  BY <3>1, <3>3 DEF In
  <2>. QED  BY <2>1, <2>2
<1>. QED  BY <1>1, <1>5, <1>6, <1>7

-----------------------------------------------------------------------------
(***************************************************************************)
(* The inductive invariant.  An open request is held by the API thread, by *)
(* one SDO operation, continuation or loop handler, or by both for as long *)
(* as the handler that submitted the operation has not returned; its       *)
(* references count exactly these holders.                                 *)
(***************************************************************************)
OnApi(r) == api.pc # "idle" /\ api.req = r
OnLoop(r) == loop.pc # "idle" /\ loop.owner = r
Async(r) == In(sdoq, r) \/ In(done, r) \/ OnLoop(r)

Shape ==
  /\ api.pc # "idle" => api.req \in Requests
  /\ loop.pc \in {"reply", "unref"} => loop.owner \in Requests
  /\ loop.pc \in {"push", "pushed", "idle"} => loop.owner = Nobody
  /\ \A i \in 1..Len(sdoq) : sdoq[i].op = "write" => sdoq[i].owner = Nobody

\* A request is in one place at most of the asynchronous part.
OnePlace ==
  /\ Distinct(sdoq) /\ Distinct(done)
  /\ \A r \in Requests : /\ ~(In(sdoq, r) /\ In(done, r))
                         /\ ~(In(sdoq, r) /\ OnLoop(r))
                         /\ ~(In(done, r) /\ OnLoop(r))

Counted(r) ==
  refs[r] = (IF OnApi(r) THEN 1 ELSE 0) + (IF Async(r) THEN 1 ELSE 0)

Phased(r) ==
  /\ phase[r] = "new"  => ~OnApi(r) /\ ~Async(r) /\ replies[r] = 0
  /\ phase[r] = "open" => OnApi(r) \/ Async(r)
  /\ phase[r] = "gone" => ~OnApi(r) /\ ~Async(r) /\ replies[r] = 1

\* Who holds the request tells whether it was answered.
Answered(r) ==
  /\ Async(r) => replies[r] = IF OnLoop(r) /\ loop.pc = "unref" THEN 1 ELSE 0
  /\ Async(r) /\ OnApi(r) => api.pc = "return"
  /\ OnApi(r) /\ ~Async(r) => replies[r] = IF api.pc = "return" THEN 1 ELSE 0

Books == \A r \in Requests : Counted(r) /\ Phased(r) /\ Answered(r)

Inv == TypeOK /\ Shape /\ OnePlace /\ Books

-----------------------------------------------------------------------------
(* The invariant is inductive: one lemma per action.                       *)

\* The constants of the types.
LEMMA Constants ==
  /\ ApiIdle \in ApiType /\ LoopIdle \in LoopType /\ NoAnswer \in AnswerType
  /\ \A q \in Queries : q.data.bits \in Values
BY QueriesAssumption
DEF ApiIdle, ApiType, LoopIdle, LoopType, NoAnswer, AnswerType, NoQuery, Values,
    QueryType, DataType

\* The encoders return values of the register.
LEMMA EncodeType ==
  ASSUME NEW d \in DataType, NEW v \in Values, d.how # "bad"
  PROVE  Encode(d, v) \in Values
BY DEF Encode, Cleared, ClearedEach, DataType, Values

\* The history of a request is made of values of the register.
LEMMA SawType ==
  ASSUME TypeOK, NEW v \in Values, Saw(v)
  PROVE  seen' \in [Requests -> SUBSET Values]
BY DEF Saw, TypeOK

\* The initial states satisfy the invariant.
LEMMA InitInv ==
  ASSUME Init
  PROVE  Inv
<1>1. TypeOK
  <2>1. /\ currentVal \in Values /\ sdoq \in Seq(OpType) /\ done \in Seq(DoneType)
        /\ seen \in [Requests -> SUBSET Values]
    BY DEF Init, Values
  <2>. QED  BY <2>1, Constants DEF Init, TypeOK
<1>2. Shape /\ OnePlace /\ Books
  BY NobodyAssumption
  DEF Init, Shape, OnePlace, Books, Distinct, In, OnApi, OnLoop, Async, Counted,
      Phased, Answered, ApiIdle, LoopIdle
<1>. QED  BY <1>1, <1>2 DEF Inv

\* A step that leaves the queues and the loop alone leaves every request where it
\* is in the asynchronous part.
LEMMA AsyncSame ==
  ASSUME UNCHANGED <<sdoq, done, loop>>
  PROVE  /\ OnePlace => OnePlace'
         /\ \A r : (Async(r)' <=> Async(r)) /\ (OnLoop(r)' <=> OnLoop(r))
BY DEF OnePlace, Async, OnLoop, In, Distinct

LEMMA AcceptInv ==
  ASSUME Inv, NEW r \in Requests, NEW q \in Queries, Accept(r, q)
  PROVE  Inv'
<1>. USE DEF Inv
<1>1. TypeOK'
  <2>1. api' \in ApiType
    BY Constants DEF Accept, ApiType, ApiIdle
  <2>2. seen' \in [Requests -> SUBSET Values]
    BY DEF Accept, TypeOK
  <2>. QED  BY <2>1, <2>2 DEF Accept, TypeOK
<1>2. Shape'
  BY DEF Accept, Shape, ApiIdle
<1>3. OnePlace'
  BY AsyncSame DEF Accept
<1>4. Books'
  BY AsyncSame, NobodyAssumption
  DEF Accept, ApiIdle, Books, Counted, Phased, Answered, OnApi, TypeOK
<1>. QED  BY <1>1, <1>2, <1>3, <1>4

\* The steps of a handler that neither answers nor touches a reference.
LEMMA HandlerInv ==
  ASSUME Inv, EncodeWrite \/ EncodeThrows \/ FetchRpdo \/ Store \/ SubscribeMark
  PROVE  Inv'
<1>. USE DEF Inv
<1>1. /\ api.pc \in {"dispatch", "store"}
      /\ api'.pc \in {"store", "use", "subscribe", "terminated"}
      /\ api' \in ApiType /\ api'.req = api.req
  <2>1. api.query.data \in DataType /\ api.query.data.bits \in Values
    BY QueriesAssumption DEF TypeOK, ApiType, QueryType, DataType
  <2>2. CASE EncodeWrite
    BY <2>1, <2>2, EncodeType DEF EncodeWrite, Dispatching, TypeOK, ApiType
  <2>3. CASE FetchRpdo
    BY <2>3 DEF FetchRpdo, Dispatching, ReadCB, TypeOK, ApiType
  <2>4. CASE Store
    BY <2>4 DEF Store, TypeOK, ApiType
  <2>5. CASE SubscribeMark
    BY <2>5 DEF SubscribeMark, Dispatching, TypeOK, ApiType
  <2>6. CASE EncodeThrows
    BY <2>6 DEF EncodeThrows, Dispatching, TypeOK, ApiType
  <2>. QED  BY <2>2, <2>3, <2>4, <2>5, <2>6
<1>2. UNCHANGED <<sdoq, done, loop, phase, refs, replies>>
  BY DEF EncodeWrite, EncodeThrows, FetchRpdo, Store, SubscribeMark, requestState
<1>3. TypeOK'
  <2>1. currentVal' \in Values /\ eventActive' \in BOOLEAN
    BY DEF EncodeWrite, EncodeThrows, FetchRpdo, Store, SubscribeMark, TypeOK, ApiType
  <2>2. seen' \in [Requests -> SUBSET Values]
    <3>1. CASE Store
      BY <3>1, SawType DEF Store, TypeOK, ApiType
    <3>2. CASE EncodeWrite \/ EncodeThrows \/ FetchRpdo \/ SubscribeMark
      BY <3>2 DEF EncodeWrite, EncodeThrows, FetchRpdo, SubscribeMark, requestState,
                  TypeOK
    <3>. QED  BY <3>1, <3>2
  <2>3. UNCHANGED <<kind, connected, listeners, reg, answer, failed, written>>
    BY DEF EncodeWrite, EncodeThrows, FetchRpdo, Store, SubscribeMark, requestState
  <2>. QED  BY <1>1, <1>2, <2>1, <2>2, <2>3 DEF TypeOK
<1>4. Shape'
  BY <1>1, <1>2 DEF Shape
<1>5. OnePlace'
  BY <1>2, AsyncSame
<1>6. Books'
  BY <1>1, <1>2, AsyncSame DEF Books, Counted, Phased, Answered, OnApi
<1>. QED  BY <1>3, <1>4, <1>5, <1>6

\* A write submitted to the SDO client belongs to no request.
LEMMA WriteSubmitted ==
  ASSUME Inv, NEW e \in OpType, e.op = "write", e.owner = Nobody,
         sdoq' = Append(sdoq, e), UNCHANGED <<done, loop>>
  PROVE  /\ sdoq' \in Seq(OpType)
         /\ OnePlace'
         /\ \A i \in 1..Len(sdoq') : sdoq'[i].op = "write" => sdoq'[i].owner = Nobody
         /\ \A r \in Requests : (Async(r)' <=> Async(r)) /\ (OnLoop(r)' <=> OnLoop(r))
<1>1. sdoq \in Seq(OpType) /\ OnePlace /\ Distinct(sdoq)
  BY DEF Inv, TypeOK, OnePlace
<1>2. /\ sdoq' \in Seq(OpType) /\ Distinct(sdoq')
      /\ \A r : In(sdoq', r) <=> In(sdoq, r) \/ e.owner = r
  BY <1>1, AppendOwners
<1>3. \A r \in Requests : In(sdoq', r) <=> In(sdoq, r)
  BY <1>2, NobodyAssumption
<1>4. Distinct(sdoq)' /\ \A r \in Requests : In(sdoq, r)' <=> In(sdoq, r)
  BY <1>2, <1>3 DEF Distinct, In
<1>5. \A r : (In(done, r)' <=> In(done, r)) /\ (OnLoop(r)' <=> OnLoop(r))
  BY DEF In, OnLoop
<1>6. OnePlace'
  BY <1>1, <1>4, <1>5 DEF OnePlace, Distinct
<1>7. \A i \in 1..Len(sdoq') : sdoq'[i].op = "write" => sdoq'[i].owner = Nobody
  <2>1. /\ Len(sdoq') = Len(sdoq) + 1 /\ Len(sdoq) \in Nat
        /\ \A i \in 1..Len(sdoq) : sdoq'[i] = sdoq[i]
        /\ sdoq'[Len(sdoq) + 1] = e
    BY <1>1, AppendProperties, LenProperties
  <2>2. \A i \in 1..Len(sdoq') : i \in 1..Len(sdoq) \/ i = Len(sdoq) + 1
    BY <2>1
  <2>. QED  BY <2>1, <2>2 DEF Inv, Shape
<1>. QED  BY <1>2, <1>4, <1>5, <1>6, <1>7 DEF Async

\* The steps of a handler that answer its request.
LEMMA AnswerInv ==
  ASSUME Inv, Refuse \/ EmitWrite \/ ReplyRead \/ SubscribeAdd \/ Unsubscribe
  PROVE  Inv'
<1>. USE DEF Inv
<1>1. /\ api.pc \in {"dispatch", "use", "subscribe"}
      /\ api' = [api EXCEPT !.pc = "return"]
      /\ \E status \in {"ok", "error", "value"}, val \in Values :
           Reply(api.req, status, val)
      /\ UNCHANGED <<done, loop, phase, refs, seen, failed, connected, eventActive,
                     currentVal, kind>>
  BY DEF Refuse, EmitWrite, ReplyRead, SubscribeAdd, Unsubscribe, Dispatching, TypeOK,
         Values
<1>2. /\ api.req \in Requests
      /\ replies' = [replies EXCEPT ![api.req] = @ + 1]
      /\ answer' \in [Requests -> AnswerType]
  BY <1>1 DEF Shape, Reply, TypeOK, AnswerType
<1>3. api' \in ApiType /\ api'.pc = "return" /\ api'.req = api.req
  BY <1>1 DEF TypeOK, ApiType
<1>4. /\ sdoq' \in Seq(OpType)
      /\ OnePlace'
      /\ \A i \in 1..Len(sdoq') : sdoq'[i].op = "write" => sdoq'[i].owner = Nobody
      /\ \A r \in Requests : (Async(r)' <=> Async(r)) /\ (OnLoop(r)' <=> OnLoop(r))
  <2>1. CASE UNCHANGED sdoq
    BY <2>1, <1>1, AsyncSame DEF TypeOK, Shape
  <2>2. CASE EmitWrite /\ ~UNCHANGED sdoq
    <3>. DEFINE e == [op |-> "write", owner |-> Nobody, val |-> currentVal]
    <3>1. sdoq' = Append(sdoq, e)
      BY <2>2 DEF EmitWrite
    <3>2. e \in OpType
      BY DEF OpType, TypeOK
    <3>3. e.op = "write" /\ e.owner = Nobody
      OBVIOUS
    <3>. HIDE DEF e
    <3>. QED  BY <3>1, <3>2, <3>3, <1>1, WriteSubmitted
  <2>. QED  BY <2>1, <2>2 DEF Refuse, ReplyRead, SubscribeAdd, Unsubscribe
<1>5. TypeOK'
  <2>1. listeners' \subseteq Clients
    BY QueriesAssumption DEF Refuse, EmitWrite, ReplyRead, SubscribeAdd, Unsubscribe,
       TypeOK, ApiType, QueryType
  <2>2. reg' \in Values /\ written' \in BOOLEAN
    BY DEF Refuse, EmitWrite, ReplyRead, SubscribeAdd, Unsubscribe, TypeOK
  <2>. QED  BY <1>1, <1>2, <1>3, <1>4, <2>1, <2>2 DEF TypeOK
<1>6. Shape'
  BY <1>1, <1>3, <1>4 DEF Shape
<1>7. Books'
  <2>. SUFFICES ASSUME NEW r \in Requests
                PROVE  Counted(r)' /\ Phased(r)' /\ Answered(r)'
    BY DEF Books
  <2>1. Counted(r) /\ Phased(r) /\ Answered(r)
    BY DEF Books
  <2>2. OnApi(r)' <=> OnApi(r)
    BY <1>1, <1>3 DEF OnApi
  <2>3. OnApi(r) => r = api.req /\ ~Async(r) /\ replies[r] = 0 /\ replies'[r] = 1
    BY <2>1, <1>1, <1>2 DEF OnApi, Answered, TypeOK
  <2>4. ~OnApi(r) => replies'[r] = replies[r]
    BY <1>1, <1>2 DEF OnApi, TypeOK
  <2>. QED  BY <1>1, <1>3, <1>4, <2>1, <2>2, <2>3, <2>4 DEF Counted, Phased, Answered
<1>. QED  BY <1>4, <1>5, <1>6, <1>7

\* The asynchronous read gives its request to the SDO client.
LEMMA ReadSdoInv ==
  ASSUME Inv, ReadSdo
  PROVE  Inv'
<1>. USE DEF Inv
<1>. DEFINE e == [op |-> "read", owner |-> api.req, val |-> {}]
<1>1. /\ api.pc = "dispatch" /\ api.req \in Requests
      /\ sdoq' = Append(sdoq, e)
      /\ api' = [api EXCEPT !.pc = "return"]
      /\ refs' = [refs EXCEPT ![api.req] = @ + 1]
  BY DEF ReadSdo, Dispatching, Addref, Shape
<1>2. e \in OpType /\ e.op = "read" /\ e.owner = api.req
  BY <1>1 DEF OpType, Values
<1>. HIDE DEF e
<1>3. OnApi(api.req) /\ ~Async(api.req) /\ api.req # Nobody
  BY <1>1, NobodyAssumption DEF OnApi, Books, Answered
<1>4. sdoq \in Seq(OpType) /\ Distinct(sdoq) /\ ~In(sdoq, api.req)
  BY <1>3 DEF TypeOK, OnePlace, Async
<1>5. /\ sdoq' \in Seq(OpType) /\ Distinct(sdoq')
      /\ \A r : In(sdoq', r) <=> In(sdoq, r) \/ api.req = r
  BY <1>1, <1>2, <1>4, AppendOwners
<1>6. /\ UNCHANGED <<done, loop, phase, replies>>
      /\ \A r : (In(done, r)' <=> In(done, r)) /\ (OnLoop(r)' <=> OnLoop(r))
  BY DEF ReadSdo, In, OnLoop
<1>7. \A r : In(sdoq, r)' <=> In(sdoq, r) \/ api.req = r
  BY <1>5 DEF In
<1>8. api' \in ApiType /\ api'.pc = "return" /\ api'.req = api.req
  BY <1>1 DEF TypeOK, ApiType
<1>9. TypeOK'
  BY <1>1, <1>5, <1>8 DEF ReadSdo, TypeOK
<1>10. Shape'
  <2>1. /\ Len(sdoq') = Len(sdoq) + 1 /\ Len(sdoq) \in Nat
        /\ \A i \in 1..Len(sdoq) : sdoq'[i] = sdoq[i]
        /\ sdoq'[Len(sdoq) + 1] = e
    BY <1>1, <1>2, <1>4, AppendProperties, LenProperties
  <2>2. \A i \in 1..Len(sdoq') : i \in 1..Len(sdoq) \/ i = Len(sdoq) + 1
    BY <2>1
  <2>3. \A i \in 1..Len(sdoq') : sdoq'[i].op = "write" => sdoq'[i].owner = Nobody
    BY <2>1, <2>2, <1>2 DEF Shape
  <2>. QED  BY <1>1, <1>6, <1>8, <2>3 DEF Shape
<1>11. OnePlace'
  BY <1>3, <1>5, <1>6, <1>7 DEF OnePlace, Async, Distinct
<1>12. Books'
  <2>. SUFFICES ASSUME NEW r \in Requests
                PROVE  Counted(r)' /\ Phased(r)' /\ Answered(r)'
    BY DEF Books
  <2>1. Counted(r) /\ Phased(r) /\ Answered(r)
    BY DEF Books
  <2>2. /\ OnApi(r)' <=> OnApi(r)
        /\ OnApi(r) <=> r = api.req
        /\ Async(r)' <=> Async(r) \/ r = api.req
        /\ OnLoop(r)' <=> OnLoop(r)
    BY <1>1, <1>6, <1>7, <1>8 DEF OnApi, Async
  <2>3. refs'[r] = IF r = api.req THEN refs[r] + 1 ELSE refs[r]
    BY <1>1 DEF TypeOK
  <2>4. OnLoop(r) => Async(r)
    BY DEF Async
  <2>. QED  BY <1>1, <1>3, <1>6, <1>8, <2>1, <2>2, <2>3, <2>4
            DEF Counted, Phased, Answered
<1>. QED  BY <1>9, <1>10, <1>11, <1>12

\* The handler returns its reference.
LEMMA ReturnInv ==
  ASSUME Inv, Return
  PROVE  Inv'
<1>. USE DEF Inv
<1>1. /\ api.pc = "return" /\ api.req \in Requests /\ api' = ApiIdle
      /\ refs' = [refs EXCEPT ![api.req] = @ - 1]
      /\ phase' = [phase EXCEPT ![api.req] = IF refs[api.req] = 1 THEN "gone" ELSE @]
      /\ UNCHANGED <<sdoq, done, loop, replies>>
  BY DEF Return, Unref, Shape
<1>2. \A r \in Requests : (Async(r)' <=> Async(r)) /\ (OnLoop(r)' <=> OnLoop(r))
  BY <1>1, AsyncSame
<1>3. OnApi(api.req) /\ refs[api.req] = 1 + (IF Async(api.req) THEN 1 ELSE 0)
  BY <1>1 DEF OnApi, Books, Counted
<1>4. TypeOK'
  <2>1. refs' \in [Requests -> Nat]
    BY <1>1, <1>3 DEF TypeOK
  <2>2. phase' \in [Requests -> {"new", "open", "gone"}]
    BY <1>1 DEF TypeOK
  <2>. QED  BY <1>1, <2>1, <2>2, Constants DEF Return, TypeOK
<1>5. Shape'
  BY <1>1 DEF Shape, ApiIdle
<1>6. OnePlace'
  BY <1>1, AsyncSame
<1>7. Books'
  <2>. SUFFICES ASSUME NEW r \in Requests
                PROVE  Counted(r)' /\ Phased(r)' /\ Answered(r)'
    BY DEF Books
  <2>1. Counted(r) /\ Phased(r) /\ Answered(r)
    BY DEF Books
  <2>2. ~OnApi(r)' /\ (OnApi(r) <=> r = api.req)
    BY <1>1 DEF OnApi, ApiIdle
  <2>3. refs'[r] = IF r = api.req THEN refs[r] - 1 ELSE refs[r]
    BY <1>1 DEF TypeOK
  <2>4. phase'[r] = IF r = api.req /\ refs[r] = 1 THEN "gone" ELSE phase[r]
    BY <1>1 DEF TypeOK
  <2>5. loop' = loop /\ replies' = replies
    BY <1>1
  <2>6. Counted(r)' /\ Answered(r)'
    BY <1>1, <1>2, <2>1, <2>2, <2>3, <2>5 DEF Counted, Answered, TypeOK
  <2>7. Phased(r)'
    BY <1>1, <1>2, <2>1, <2>2, <2>4, <2>5 DEF Counted, Phased, Answered, TypeOK
  <2>. QED  BY <2>6, <2>7
<1>. QED  BY <1>4, <1>5, <1>6, <1>7

\* Steps of the loop that answer nothing: they serve the same request, or none.
LEMMA LoopMoveInv ==
  ASSUME Inv,
         \/ \E v \in Values : OnRpdoWrite(v) \/ DeviceChange(v)
         \/ \E occurred \in BOOLEAN : OnHeartbeat(occurred)
         \/ LoopStore \/ Push \/ Pushed
  PROVE  Inv'
<1>. USE DEF Inv
<1>1. /\ UNCHANGED <<sdoq, done, api, phase, refs, replies, answer, failed, listeners,
                     written, kind>>
      /\ connected' \in BOOLEAN /\ currentVal' \in Values
      /\ eventActive' \in BOOLEAN /\ reg' \in Values
      /\ seen' \in [Requests -> SUBSET Values]
  <2>1. UNCHANGED <<sdoq, done, api, phase, refs, replies, answer, failed, listeners,
                    written, kind>>
    BY DEF OnRpdoWrite, DeviceChange, OnHeartbeat, LoopStore, Push, Pushed, threads,
           requestState
  <2>2. connected' \in BOOLEAN
    BY DEF OnRpdoWrite, DeviceChange, OnHeartbeat, LoopStore, Push, Pushed, TypeOK
  <2>3. currentVal' \in Values /\ reg' \in Values
    BY DEF OnRpdoWrite, DeviceChange, OnHeartbeat, LoopStore, Push, Pushed, TypeOK,
           LoopType
  <2>4. eventActive' \in BOOLEAN
    <3>1. CASE Pushed
      BY <3>1, Zenon DEF Pushed
    <3>. QED  BY <3>1 DEF OnRpdoWrite, DeviceChange, OnHeartbeat, LoopStore, Push, TypeOK
  <2>5. seen' \in [Requests -> SUBSET Values]
    <3>1. ASSUME NEW v \in Values, OnRpdoWrite(v) \/ DeviceChange(v)
          PROVE  seen' \in [Requests -> SUBSET Values]
      BY <3>1, SawType DEF OnRpdoWrite, DeviceChange
    <3>2. CASE UNCHANGED seen
      BY <3>2 DEF TypeOK
    <3>. QED  BY <3>1, <3>2 DEF OnHeartbeat, LoopStore, Push, Pushed, requestState
  <2>. QED  BY <2>1, <2>2, <2>3, <2>4, <2>5
<1>2. /\ loop' \in LoopType
      /\ loop'.owner = loop.owner
      /\ \/ loop' = loop
         \/ loop.owner = Nobody /\ loop'.pc \in {"idle", "store", "push", "pushed"}
         \/ loop.pc = "store" /\ loop.owner \in Requests /\ loop'.pc = "reply"
  <2>1. CASE \E v \in Values : OnRpdoWrite(v) \/ DeviceChange(v)
    <3>1. PICK v \in Values : OnRpdoWrite(v) \/ DeviceChange(v)
      BY <2>1
    <3>2. loop.pc = "idle" /\ loop.owner = Nobody
      BY <3>1 DEF OnRpdoWrite, DeviceChange, Shape
    <3>3. loop' = loop \/ loop' = [LoopIdle EXCEPT !.pc = "store", !.val = v]
      BY <3>1 DEF OnRpdoWrite, DeviceChange, threads
    <3>4. [LoopIdle EXCEPT !.pc = "store", !.val = v] \in LoopType
      BY Constants DEF LoopType
    <3>. QED  BY <3>2, <3>3, <3>4 DEF TypeOK, LoopIdle
  <2>2. CASE \E occurred \in BOOLEAN : OnHeartbeat(occurred)
    BY <2>2 DEF OnHeartbeat, threads, TypeOK
  <2>3. CASE LoopStore
    BY <2>3 DEF LoopStore, TypeOK, LoopType
  <2>4. CASE Push
    <3>1. (listeners # {}) \in BOOLEAN
      OBVIOUS
    <3>2. loop' \in LoopType /\ loop'.pc = "pushed" /\ loop'.owner = loop.owner
      BY <2>4, <3>1 DEF Push, TypeOK, LoopType
    <3>. QED  BY <2>4, <3>2 DEF Push, Shape
  <2>5. CASE Pushed
    BY <2>5, Constants DEF Pushed, Shape, LoopIdle
  <2>. QED  BY <2>1, <2>2, <2>3, <2>4, <2>5
<1>3. TypeOK'
  BY <1>1, <1>2 DEF TypeOK
<1>4. Shape'
  BY <1>1, <1>2 DEF Shape
<1>5. \A r \in Requests : /\ In(sdoq, r)' <=> In(sdoq, r)
                          /\ In(done, r)' <=> In(done, r)
                          /\ OnLoop(r)' <=> OnLoop(r)
                          /\ OnApi(r)' <=> OnApi(r)
                          /\ OnLoop(r)' /\ loop'.pc = "unref"
                               <=> OnLoop(r) /\ loop.pc = "unref"
  BY <1>1, <1>2, NobodyAssumption DEF In, OnLoop, OnApi
<1>6. OnePlace'
  BY <1>1, <1>5 DEF OnePlace, Distinct
<1>7. Books'
  BY <1>1, <1>5 DEF Books, Counted, Phased, Answered, Async
<1>. QED  BY <1>3, <1>4, <1>6, <1>7

\* The continuation answers its request ...
LEMMA LoopReplyInv ==
  ASSUME Inv, LoopReply
  PROVE  Inv'
<1>. USE DEF Inv
<1>1. /\ loop.pc = "reply" /\ loop.owner \in Requests
      /\ loop' = [loop EXCEPT !.pc = "unref"]
      /\ replies' = [replies EXCEPT ![loop.owner] = @ + 1]
      /\ answer' \in [Requests -> AnswerType]
      /\ UNCHANGED <<sdoq, done, api, phase, refs>>
  BY DEF LoopReply, Reply, Shape, TypeOK, AnswerType
<1>2. loop' \in LoopType /\ loop'.pc = "unref" /\ loop'.owner = loop.owner
  BY <1>1 DEF TypeOK, LoopType
<1>3. TypeOK'
  BY <1>1, <1>2 DEF LoopReply, TypeOK
<1>4. Shape'
  BY <1>1, <1>2 DEF Shape
<1>5. \A r : /\ In(sdoq, r)' <=> In(sdoq, r)
             /\ In(done, r)' <=> In(done, r)
             /\ OnLoop(r)' <=> OnLoop(r)
             /\ OnApi(r)' <=> OnApi(r)
             /\ Async(r)' <=> Async(r)
  BY <1>1, <1>2 DEF In, OnLoop, OnApi, Async
<1>6. OnePlace'
  BY <1>1, <1>5 DEF OnePlace, Distinct
<1>7. Books'
  <2>. SUFFICES ASSUME NEW r \in Requests
                PROVE  Counted(r)' /\ Phased(r)' /\ Answered(r)'
    BY DEF Books
  <2>1. Counted(r) /\ Phased(r) /\ Answered(r)
    BY DEF Books
  <2>2. OnLoop(r) <=> r = loop.owner
    BY <1>1 DEF OnLoop
  <2>3. OnLoop(r) => Async(r)
    BY DEF Async
  <2>4. replies'[r] = IF r = loop.owner THEN replies[r] + 1 ELSE replies[r]
    BY <1>1 DEF TypeOK
  <2>. QED  BY <1>1, <1>2, <1>5, <2>1, <2>2, <2>3, <2>4 DEF Counted, Phased, Answered
<1>. QED  BY <1>3, <1>4, <1>6, <1>7

\* ... and drops its reference.
LEMMA LoopUnrefInv ==
  ASSUME Inv, LoopUnref
  PROVE  Inv'
<1>. USE DEF Inv
<1>1. /\ loop.pc = "unref" /\ loop.owner \in Requests /\ loop' = LoopIdle
      /\ refs' = [refs EXCEPT ![loop.owner] = @ - 1]
      /\ phase' = [phase EXCEPT ![loop.owner] =
                                  IF refs[loop.owner] = 1 THEN "gone" ELSE @]
      /\ UNCHANGED <<sdoq, done, api, replies>>
  BY DEF LoopUnref, Unref, Shape
<1>2. /\ OnLoop(loop.owner) /\ Async(loop.owner)
      /\ refs[loop.owner] = 1 + (IF OnApi(loop.owner) THEN 1 ELSE 0)
  BY <1>1 DEF OnLoop, Async, Books, Counted
<1>3. TypeOK'
  <2>1. refs' \in [Requests -> Nat]
    BY <1>1, <1>2 DEF TypeOK
  <2>2. phase' \in [Requests -> {"new", "open", "gone"}]
    BY <1>1 DEF TypeOK
  <2>. QED  BY <1>1, <2>1, <2>2, Constants DEF LoopUnref, TypeOK
<1>4. Shape'
  BY <1>1 DEF Shape, LoopIdle
<1>5. \A r : /\ In(sdoq, r)' <=> In(sdoq, r)
             /\ In(done, r)' <=> In(done, r)
             /\ OnApi(r)' <=> OnApi(r)
             /\ ~OnLoop(r)'
             /\ OnLoop(r) <=> r = loop.owner
  BY <1>1 DEF In, OnLoop, OnApi, LoopIdle
<1>6. OnePlace'
  BY <1>1, <1>5 DEF OnePlace, Distinct
<1>7. \A r \in Requests : Async(r)' <=> Async(r) /\ r # loop.owner
  BY <1>1, <1>2, <1>5 DEF Async, OnePlace
<1>8. Books'
  <2>. SUFFICES ASSUME NEW r \in Requests
                PROVE  Counted(r)' /\ Phased(r)' /\ Answered(r)'
    BY DEF Books
  <2>1. Counted(r) /\ Phased(r) /\ Answered(r)
    BY DEF Books
  <2>2. refs'[r] = IF r = loop.owner THEN refs[r] - 1 ELSE refs[r]
    BY <1>1 DEF TypeOK
  <2>3. phase'[r] = IF r = loop.owner /\ refs[r] = 1 THEN "gone" ELSE phase[r]
    BY <1>1 DEF TypeOK
  <2>4. api' = api /\ replies' = replies
    BY <1>1
  <2>5. Counted(r)'
    BY <1>2, <1>5, <1>7, <2>1, <2>2 DEF Counted, TypeOK
  <2>6. Answered(r)'
    BY <1>1, <1>2, <1>5, <1>7, <2>1, <2>4 DEF Answered
  <2>7. Phased(r)'
    BY <1>1, <1>2, <1>5, <1>7, <2>1, <2>3, <2>4 DEF Phased, Counted, Answered, TypeOK
  <2>. QED  BY <2>5, <2>6, <2>7
<1>. QED  BY <1>3, <1>4, <1>6, <1>8

\* A notified SDO sensor submits a read no request waits for.
LEMMA OnRpdoWriteSdoInv ==
  ASSUME Inv, OnRpdoWriteSdo
  PROVE  Inv'
<1>. USE DEF Inv
<1>. DEFINE e == [op |-> "read", owner |-> Nobody, val |-> {}]
<1>1. /\ sdoq' = Append(sdoq, e)
      /\ UNCHANGED <<done, api, loop, phase, refs, replies>>
  BY DEF OnRpdoWriteSdo, threads, requestState
<1>2. e \in OpType /\ e.op = "read" /\ e.owner = Nobody
  BY DEF OpType, Values
<1>. HIDE DEF e
<1>3. sdoq \in Seq(OpType) /\ Distinct(sdoq)
  BY DEF TypeOK, OnePlace
<1>4. /\ sdoq' \in Seq(OpType) /\ Distinct(sdoq')
      /\ \A r : In(sdoq', r) <=> In(sdoq, r) \/ Nobody = r
  BY <1>1, <1>2, <1>3, AppendOwners
<1>5. \A r \in Requests : /\ In(sdoq, r)' <=> In(sdoq, r)
                          /\ In(done, r)' <=> In(done, r)
                          /\ OnLoop(r)' <=> OnLoop(r)
                          /\ OnApi(r)' <=> OnApi(r)
  BY <1>1, <1>4, NobodyAssumption DEF In, OnLoop, OnApi
<1>6. TypeOK'
  BY <1>1, <1>4 DEF OnRpdoWriteSdo, TypeOK, requestState
<1>7. Shape'
  <2>1. /\ Len(sdoq') = Len(sdoq) + 1 /\ Len(sdoq) \in Nat
        /\ \A i \in 1..Len(sdoq) : sdoq'[i] = sdoq[i]
        /\ sdoq'[Len(sdoq) + 1] = e
    BY <1>1, <1>2, <1>3, AppendProperties, LenProperties
  <2>2. \A i \in 1..Len(sdoq') : i \in 1..Len(sdoq) \/ i = Len(sdoq) + 1
    BY <2>1
  <2>3. \A i \in 1..Len(sdoq') : sdoq'[i].op = "write" => sdoq'[i].owner = Nobody
    BY <2>1, <2>2, <1>2 DEF Shape
  <2>. QED  BY <1>1, <2>3 DEF Shape
<1>8. OnePlace'
  BY <1>1, <1>4, <1>5 DEF OnePlace, Distinct
<1>9. Books'
  BY <1>1, <1>5 DEF Books, Counted, Phased, Answered, Async
<1>. QED  BY <1>6, <1>7, <1>8, <1>9

\* The head of the SDO operations leaves the queue.
LEMMA HeadLeaves ==
  ASSUME Inv, sdoq # <<>>, sdoq' = Tail(sdoq)
  PROVE  /\ sdoq' \in Seq(OpType)
         /\ Head(sdoq) \in OpType
         /\ In(sdoq, Head(sdoq).owner)
         /\ Head(sdoq).op = "write" => Head(sdoq).owner = Nobody
         /\ Distinct(sdoq)'
         /\ \A i \in 1..Len(sdoq') : sdoq'[i].op = "write" => sdoq'[i].owner = Nobody
         /\ \A r \in Requests : In(sdoq, r)' <=> In(sdoq, r) /\ Head(sdoq).owner # r
<1>1. sdoq \in Seq(OpType) /\ Distinct(sdoq)
  BY DEF Inv, TypeOK, OnePlace
<1>2. /\ Tail(sdoq) \in Seq(OpType)
      /\ Head(sdoq) \in OpType
      /\ In(sdoq, Head(sdoq).owner)
      /\ Distinct(Tail(sdoq))
      /\ \A r : r # Nobody =>
           (In(Tail(sdoq), r) <=> In(sdoq, r) /\ Head(sdoq).owner # r)
  BY <1>1, TailOwners
<1>3. /\ Head(sdoq) = sdoq[1] /\ Len(sdoq) \in Nat \ {0}
      /\ Len(Tail(sdoq)) = Len(sdoq) - 1
      /\ \A i \in 1..Len(Tail(sdoq)) : Tail(sdoq)[i] = sdoq[i + 1]
  BY <1>1, HeadTailProperties, LenProperties, EmptySeq
<1>4. \A i \in 1..Len(Tail(sdoq)) : i + 1 \in 1..Len(sdoq)
  BY <1>3
<1>5. 1 \in 1..Len(sdoq)
  BY <1>3
<1>6. Head(sdoq).op = "write" => Head(sdoq).owner = Nobody
  BY <1>3, <1>5 DEF Inv, Shape
<1>7. \A i \in 1..Len(sdoq') : sdoq'[i].op = "write" => sdoq'[i].owner = Nobody
  BY <1>3, <1>4 DEF Inv, Shape
<1>8. Distinct(sdoq)'
  BY <1>2 DEF Distinct
<1>9. \A r \in Requests : In(sdoq, r)' <=> In(sdoq, r) /\ Head(sdoq).owner # r
  BY <1>2, NobodyAssumption DEF In
<1>. QED  BY <1>2, <1>6, <1>7, <1>8, <1>9

LEMMA SdoWriteInv ==
  ASSUME Inv, NEW ok \in BOOLEAN, SdoWrite(ok)
  PROVE  Inv'
<1>. USE DEF Inv
<1>1. /\ sdoq # <<>> /\ sdoq' = Tail(sdoq) /\ Head(sdoq).op = "write"
      /\ UNCHANGED <<done, api, loop, phase, refs, replies>>
  BY DEF SdoWrite, threads
<1>2. Head(sdoq).owner = Nobody /\ Head(sdoq).val \in Values
  BY <1>1, HeadLeaves DEF OpType
<1>3. \A r \in Requests : /\ In(sdoq, r)' <=> In(sdoq, r)
                          /\ In(done, r)' <=> In(done, r)
                          /\ OnLoop(r)' <=> OnLoop(r)
                          /\ OnApi(r)' <=> OnApi(r)
  BY <1>1, <1>2, HeadLeaves, NobodyAssumption DEF In, OnLoop, OnApi
<1>4. TypeOK'
  <2>1. reg' \in Values
    BY <1>2 DEF SdoWrite, TypeOK
  <2>2. seen' \in [Requests -> SUBSET Values]
    BY <2>1, SawType DEF SdoWrite
  <2>. QED  BY <1>1, <2>1, <2>2, HeadLeaves DEF SdoWrite, TypeOK
<1>5. Shape'
  BY <1>1, HeadLeaves DEF Shape
<1>6. OnePlace'
  BY <1>1, <1>3, HeadLeaves DEF OnePlace, Distinct
<1>7. Books'
  BY <1>1, <1>3 DEF Books, Counted, Phased, Answered, Async
<1>. QED  BY <1>4, <1>5, <1>6, <1>7

\* A read that ended takes its owner from the queue to the continuations.
LEMMA SdoReadInv ==
  ASSUME Inv, NEW ok \in BOOLEAN, SdoRead(ok)
  PROVE  Inv'
<1>. USE DEF Inv
<1>. DEFINE o == Head(sdoq).owner
            e == [owner |-> o, ok |-> ok, val |-> IF ok THEN reg ELSE {}]
<1>1. /\ sdoq # <<>> /\ sdoq' = Tail(sdoq)
      /\ done' = Append(done, e)
      /\ UNCHANGED <<api, loop, phase, refs, replies>>
  BY DEF SdoRead, threads
<1>2. o \in Requests \cup {Nobody} /\ In(sdoq, o)
  BY <1>1, HeadLeaves DEF OpType
<1>3. e \in DoneType /\ e.owner = o
  BY <1>2 DEF DoneType, TypeOK, Values
<1>. HIDE DEF e
<1>4. done \in Seq(DoneType) /\ Distinct(done) /\ (o = Nobody \/ ~In(done, o))
  BY <1>2 DEF TypeOK, OnePlace
<1>5. /\ done' \in Seq(DoneType) /\ Distinct(done')
      /\ \A r : In(done', r) <=> In(done, r) \/ o = r
  BY <1>1, <1>3, <1>4, AppendOwners
<1>6. \A r \in Requests : /\ In(sdoq, r)' <=> In(sdoq, r) /\ o # r
                          /\ In(done, r)' <=> In(done, r) \/ o = r
                          /\ OnLoop(r)' <=> OnLoop(r)
                          /\ OnApi(r)' <=> OnApi(r)
                          /\ o = r => In(sdoq, r)
  <2>1. \A r \in Requests : /\ OnLoop(r)' <=> OnLoop(r)
                            /\ OnApi(r)' <=> OnApi(r)
    BY <1>1 DEF OnLoop, OnApi
  <2>2. \A r \in Requests : In(sdoq, r)' <=> In(sdoq, r) /\ o # r
    BY <1>1, HeadLeaves
  <2>3. \A r \in Requests : In(done, r)' <=> In(done, r) \/ o = r
    BY <1>5 DEF In
  <2>. QED  BY <1>2, <2>1, <2>2, <2>3
<1>7. TypeOK'
  <2>1. failed' \subseteq Requests
    BY <1>2 DEF SdoRead, TypeOK
  <2>. QED  BY <1>1, <1>5, <2>1, HeadLeaves DEF SdoRead, TypeOK, threads
<1>8. Shape'
  BY <1>1, HeadLeaves DEF Shape
<1>9. OnePlace'
  <2>1. Distinct(sdoq)' /\ Distinct(done)'
    BY <1>1, <1>5, HeadLeaves DEF Distinct
  <2>. QED  BY <1>6, <2>1 DEF OnePlace
<1>10. \A r \in Requests : Async(r)' <=> Async(r)
  BY <1>6 DEF Async
<1>11. Books'
  BY <1>1, <1>6, <1>10 DEF Books, Counted, Phased, Answered
<1>. QED  BY <1>7, <1>8, <1>9, <1>11

\* The continuation takes its owner from the queue to the loop.
LEMMA ContinueInv ==
  ASSUME Inv, Continue
  PROVE  Inv'
<1>. USE DEF Inv
<1>. DEFINE o == Head(done).owner
<1>1. /\ done # <<>> /\ done' = Tail(done)
      /\ loop.pc = "idle"
      /\ UNCHANGED <<sdoq, api, phase, refs, replies>>
  BY DEF Continue, requestState
<1>2. /\ Tail(done) \in Seq(DoneType)
      /\ Head(done) \in DoneType
      /\ In(done, o)
      /\ Distinct(Tail(done))
      /\ \A r : r # Nobody => (In(Tail(done), r) <=> In(done, r) /\ o # r)
  BY <1>1, TailOwners DEF TypeOK, OnePlace
<1>3. PICK v \in Values :
        loop' = [LoopIdle EXCEPT !.pc = "store", !.val = v, !.owner = o]
  BY DEF Continue
<1>4. loop' \in LoopType /\ loop'.pc = "store" /\ loop'.owner = o
  BY <1>2, <1>3 DEF LoopIdle, LoopType, DoneType
<1>5. \A r \in Requests : /\ In(sdoq, r)' <=> In(sdoq, r)
                          /\ In(done, r)' <=> In(done, r) /\ o # r
                          /\ ~OnLoop(r)
                          /\ OnLoop(r)' <=> o = r
                          /\ OnApi(r)' <=> OnApi(r)
                          /\ o = r => In(done, r)
  BY <1>1, <1>2, <1>4, NobodyAssumption DEF In, OnLoop, OnApi
<1>6. TypeOK'
  BY <1>1, <1>2, <1>4 DEF Continue, TypeOK, requestState
<1>7. Shape'
  BY <1>1, <1>4 DEF Shape
<1>8. OnePlace'
  <2>1. Distinct(sdoq)' /\ Distinct(done)'
    BY <1>1, <1>2 DEF OnePlace, Distinct
  <2>. QED  BY <1>5, <2>1 DEF OnePlace
<1>9. \A r \in Requests : Async(r)' <=> Async(r)
  BY <1>5 DEF Async
<1>10. Books'
  BY <1>1, <1>4, <1>5, <1>9 DEF Books, Counted, Phased, Answered
<1>. QED  BY <1>6, <1>7, <1>8, <1>10

LEMMA StutterInv ==
  ASSUME Inv, UNCHANGED vars
  PROVE  Inv'
<1>. USE DEF Inv, vars
<1>1. TypeOK' /\ Shape'
  BY DEF TypeOK, Shape
<1>2. OnePlace' /\ \A r : (Async(r)' <=> Async(r)) /\ (OnLoop(r)' <=> OnLoop(r))
  BY AsyncSame
<1>3. Books'
  BY <1>2 DEF Books, Counted, Phased, Answered, OnApi
<1>. QED  BY <1>1, <1>2, <1>3

\* Every step preserves the invariant.
LEMMA NextInv ==
  ASSUME Inv, [Next]_vars
  PROVE  Inv'
<1>1. ASSUME NEW r \in Requests, NEW q \in Queries, Accept(r, q) PROVE Inv'
  BY <1>1, AcceptInv
<1>2. CASE ApiStep
  BY <1>2, HandlerInv, AnswerInv, ReadSdoInv, ReturnInv DEF ApiStep
<1>3. CASE LoopStep
  BY <1>3, LoopMoveInv, LoopReplyInv, LoopUnrefInv, ContinueInv DEF LoopStep
<1>4. CASE Sdo
  BY <1>4, SdoReadInv, SdoWriteInv DEF Sdo
<1>5. CASE OnRpdoWriteSdo
  BY <1>5, OnRpdoWriteSdoInv
<1>6. CASE \E v \in Values : OnRpdoWrite(v) \/ DeviceChange(v)
  BY <1>6, LoopMoveInv
<1>7. CASE \E occurred \in BOOLEAN : OnHeartbeat(occurred)
  BY <1>7, LoopMoveInv
<1>8. CASE UNCHANGED vars
  BY <1>8, StutterInv
<1>. QED  BY <1>1, <1>2, <1>3, <1>4, <1>5, <1>6, <1>7, <1>8 DEF Next

\* At every moment the state of the sensor satisfies the invariant.
THEOREM Invariance == Spec => []Inv
<1>1. Init => Inv
  BY InitInv
<1>2. Inv /\ [Next]_vars => Inv'
  BY NextInv
<1>. QED  BY <1>1, <1>2, PTL DEF Spec

-----------------------------------------------------------------------------
(* What follows from it.                                                   *)

\* The variables keep their types; the counts of references never go below zero
\* (an afb_req_unref more than there are references).
THEOREM TypeCorrect == Spec => []TypeOK
<1>1. Inv => TypeOK
  BY DEF Inv
<1>. QED  BY <1>1, Invariance, PTL

\* A request in the hands of the SDO client or of a continuation is referenced.
THEOREM RequestsHeld == Spec => []RequestHeld
<1>1. ASSUME Inv, NEW r \in Requests, InFlight(r)
      PROVE  refs[r] > 0 /\ replies[r] <= 1
  <2>1. Async(r)
    BY <1>1, NobodyAssumption DEF InFlight, Async, In, OnLoop, Inv, Shape
  <2>. QED  BY <1>1, <2>1 DEF Inv, Books, Counted, Answered
<1>2. Inv => RequestHeld
  BY <1>1 DEF RequestHeld
<1>. QED  BY <1>2, Invariance, PTL

\* The steps of the sensor as steps of the request service.
LEMMA InitService ==
  ASSUME Init
  PROVE  Service!Init
BY DEF Init, Service!Init

\* An answer: the request is accepted, held and was not answered before.
LEMMA AnswerStep ==
  ASSUME Inv, NEW r \in Requests, OnApi(r) \/ OnLoop(r), replies[r] = 0,
         replies' = [replies EXCEPT ![r] = @ + 1], UNCHANGED phase
  PROVE  Service!Answer(r)
<1>1. phase[r] \notin {"new", "gone"}
  BY DEF Inv, Books, Phased, Async
<1>2. replies' = [replies EXCEPT ![r] = 1]
  BY DEF Inv, TypeOK
<1>. QED  BY <1>1, <1>2 DEF Service!Answer

\* A reference dropped by a holder that answered: the last one releases.
LEMMA UnrefStep ==
  ASSUME Inv, NEW r \in Requests, OnApi(r) \/ OnLoop(r), Unref(r),
         refs[r] = 1 => replies[r] = 1, UNCHANGED replies
  PROVE  Service!Release(r) \/ UNCHANGED Service!rsvars
<1>1. phase[r] \notin {"new", "gone"} /\ phase \in [Requests -> {"new", "open", "gone"}]
  BY DEF Inv, Books, Phased, Async, TypeOK
<1>2. phase' = [phase EXCEPT ![r] = IF refs[r] = 1 THEN "gone" ELSE @]
  BY DEF Unref
<1>3. {x \in Requests : phase[x] # "new"}' = {x \in Requests : phase[x] # "new"}
  BY <1>1, <1>2
<1>4. CASE refs[r] = 1
  <2>1. {x \in Requests : phase[x] = "gone"}'
          = {x \in Requests : phase[x] = "gone"} \cup {r}
    BY <1>1, <1>2, <1>4
  <2>. QED  BY <1>1, <1>3, <1>4, <2>1 DEF Service!Release
<1>5. CASE refs[r] # 1
  <2>1. phase' = phase
    BY <1>1, <1>2, <1>5
  <2>. QED  BY <2>1 DEF Service!rsvars
<1>. QED  BY <1>4, <1>5

LEMMA StepService ==
  ASSUME Inv, [Next]_vars
  PROVE  [Service!Next]_Service!rsvars
<1>. USE DEF Inv
<1>1. ASSUME NEW r \in Requests, NEW q \in Queries, Accept(r, q)
      PROVE  Service!Accept(r)
  <2>1. phase[r] = "new" /\ phase' = [phase EXCEPT ![r] = "open"]
    BY <1>1 DEF Accept
  <2>2. {x \in Requests : phase[x] # "new"}'
          = {x \in Requests : phase[x] # "new"} \cup {r}
    BY <2>1 DEF TypeOK
  <2>3. {x \in Requests : phase[x] = "gone"}' = {x \in Requests : phase[x] = "gone"}
    BY <2>1 DEF TypeOK
  <2>. QED  BY <1>1, <2>1, <2>2, <2>3 DEF Accept, Service!Accept
<1>2. CASE Refuse \/ EmitWrite \/ ReplyRead \/ SubscribeAdd \/ Unsubscribe
  <2>1. /\ api.pc \in {"dispatch", "use", "subscribe"} /\ api.req \in Requests
        /\ replies' = [replies EXCEPT ![api.req] = @ + 1] /\ UNCHANGED phase
    BY <1>2 DEF Refuse, EmitWrite, ReplyRead, SubscribeAdd, Unsubscribe, Dispatching,
                Reply, Shape
  <2>2. OnApi(api.req) /\ replies[api.req] = 0
    BY <2>1 DEF OnApi, Books, Answered
  <2>. QED  BY <2>1, <2>2, AnswerStep DEF Service!Next
<1>3. CASE EncodeWrite \/ EncodeThrows \/ FetchRpdo \/ Store \/ ReadSdo \/ SubscribeMark
  <2>1. UNCHANGED <<phase, replies>>
    BY <1>3 DEF EncodeWrite, EncodeThrows, FetchRpdo, Store, ReadSdo, SubscribeMark,
                requestState
  <2>. QED  BY <2>1 DEF Service!rsvars
<1>4. CASE Return
  <2>1. /\ api.pc = "return" /\ api.req \in Requests /\ OnApi(api.req)
        /\ Unref(api.req) /\ UNCHANGED replies
    BY <1>4 DEF Return, OnApi, Shape
  <2>2. refs[api.req] = 1 => replies[api.req] = 1
    BY <2>1 DEF Books, Counted, Answered
  <2>. QED  BY <2>1, <2>2, UnrefStep DEF Service!Next
<1>5. CASE LoopReply
  <2>1. /\ loop.pc = "reply" /\ loop.owner \in Requests /\ OnLoop(loop.owner)
        /\ replies' = [replies EXCEPT ![loop.owner] = @ + 1] /\ UNCHANGED phase
    BY <1>5 DEF LoopReply, Reply, OnLoop, Shape
  <2>2. replies[loop.owner] = 0
    BY <2>1 DEF Books, Answered, Async
  <2>. QED  BY <2>1, <2>2, AnswerStep DEF Service!Next
<1>6. CASE LoopUnref
  <2>1. /\ loop.pc = "unref" /\ loop.owner \in Requests /\ OnLoop(loop.owner)
        /\ Unref(loop.owner) /\ UNCHANGED replies
    BY <1>6 DEF LoopUnref, OnLoop, Shape
  <2>2. replies[loop.owner] = 1
    BY <2>1 DEF Books, Answered, Async
  <2>. QED  BY <2>1, <2>2, UnrefStep DEF Service!Next
<1>7. CASE \/ Continue \/ LoopStore \/ Push \/ Pushed \/ Sdo \/ OnRpdoWriteSdo
           \/ \E v \in Values : OnRpdoWrite(v) \/ DeviceChange(v)
           \/ \E occurred \in BOOLEAN : OnHeartbeat(occurred)
           \/ UNCHANGED vars
  <2>1. UNCHANGED <<phase, replies>>
    BY <1>7 DEF Continue, LoopStore, Push, Pushed, Sdo, SdoRead, SdoWrite,
      OnRpdoWriteSdo, OnRpdoWrite, DeviceChange, OnHeartbeat, requestState, vars
  <2>. QED  BY <2>1 DEF Service!rsvars
<1>. QED  BY <1>1, <1>2, <1>3, <1>4, <1>5, <1>6, <1>7
          DEF Next, ApiStep, LoopStep, Service!Next

\* The sensor's verb implements the request service: one answer per request, the
\* last reference dropped after it, for every kind of sensor.
THEOREM Refinement == Spec => Service!SafeSpec
<1>1. Init => Service!Init
  BY InitService
<1>2. Inv /\ [Next]_vars => [Service!Next]_Service!rsvars
  BY StepService
<1>. QED  BY <1>1, <1>2, Invariance, PTL DEF Spec, Service!SafeSpec

-----------------------------------------------------------------------------
(* The inductive invariant, on top of Inv.                                 *)

\* What depends on the kind of the sensor: only SDO sensors submit operations; the
\* event of an RPDO sensor carries what the object holds, as long as it is not
\* stored; a handler that stores a value writes, or reads an RPDO.
Kindly ==
  /\ kind # "SDO" => sdoq = <<>> /\ done = <<>> /\ loop.owner = Nobody
  /\ kind = "RPDO" /\ loop.pc = "store" => loop.val = reg
  /\ api.pc \in {"store", "use"} =>
       \/ api.query.action = "write" /\ kind # "RPDO"
       \/ api.query.action = "read" /\ kind = "RPDO"

\* A write that will end before the read of r, submitted or not yet.
Ahead(r) ==
  \E i \in 1..Len(sdoq) :
    sdoq[i].op = "write" /\ \A j \in 1..i : sdoq[j].owner # r

\* What the register holds may answer a request that waits, unless a write is to
\* end first.
RegSeen(r) == kind # "TPDO" /\ Waiting(r) => reg \in seen[r] \/ Ahead(r)

DoneSeen(r) ==
  \A i \in 1..Len(done) :
    done[i].owner = r => r \in failed \/ (done[i].ok /\ done[i].val \in seen[r])

LoopSeen(r) ==
  loop.owner = r /\ r \notin failed =>
    /\ loop.pc = "store" => loop.val \in seen[r]
    /\ loop.pc = "reply" => currentVal \in seen[r]

\* The synchronous read.
ApiSeen(r) ==
  api.req = r /\ api.query.action = "read" /\ api.pc \in {"store", "use"} =>
    /\ api.pc = "store" => api.tmp \in seen[r]
    /\ api.pc = "use" => currentVal \in seen[r]

AnswerSeen(r) ==
  /\ replies[r] = 0 => answer[r].status = "none"
  /\ answer[r].status = "value" /\ r \notin failed => answer[r].val \in seen[r]

Fresh ==
  /\ Kindly
  /\ \A r \in Requests :
       RegSeen(r) /\ DoneSeen(r) /\ LoopSeen(r) /\ ApiSeen(r) /\ AnswerSeen(r)

-----------------------------------------------------------------------------
(* What the books say of the requests on their way.                        *)

\* A request that is in the asynchronous part, or that its handler has not
\* answered, waits.
LEMMA OnWay ==
  ASSUME Inv, NEW r \in Requests
  PROVE  /\ Async(r) /\ ~(loop.owner = r /\ loop.pc = "unref") => Waiting(r)
         /\ OnApi(r) /\ api.pc # "return" => Waiting(r) /\ ~Async(r)
<1>1. Counted(r) /\ Phased(r) /\ Answered(r) BY DEF Inv, Books
<1>2. phase[r] \in {"new", "open", "gone"} BY DEF Inv, TypeOK
<1>3. ASSUME Async(r), ~(loop.owner = r /\ loop.pc = "unref")
      PROVE  Waiting(r)
  <2>1. phase[r] = "open" BY <1>1, <1>2, <1>3 DEF Phased
  <2>2. replies[r] = 0 BY <1>1, <1>3 DEF Answered, OnLoop
  <2> QED BY <2>1, <2>2 DEF Waiting
<1>4. ASSUME OnApi(r), api.pc # "return"
      PROVE  Waiting(r) /\ ~Async(r)
  <2>1. ~Async(r) BY <1>1, <1>4 DEF Answered
  <2>2. phase[r] = "open" BY <1>1, <1>2, <1>4 DEF Phased
  <2>3. replies[r] = 0 BY <1>1, <1>4, <2>1 DEF Answered
  <2> QED BY <2>1, <2>2, <2>3 DEF Waiting
<1> QED BY <1>3, <1>4

\* Only SDO sensors let requests into the asynchronous part.
LEMMA OwnerIsSdo ==
  ASSUME Inv, Kindly, NEW r \in Requests, Async(r)
  PROVE  kind = "SDO"
<1>1. r # Nobody BY NobodyAssumption
<1>2. ~In(<<>>, r) BY DEF In
<1> QED BY <1>1, <1>2 DEF Async, OnLoop, Kindly

\* A value that is seen may answer all that waits; nothing seen is forgotten.
LEMMA SawMeans ==
  ASSUME TypeOK, NEW v, Saw(v), NEW r \in Requests
  PROVE  /\ seen[r] \subseteq seen'[r]
         /\ Waiting(r) => v \in seen'[r]
BY DEF Saw, TypeOK

LEMMA AheadSame ==
  ASSUME UNCHANGED sdoq, NEW r
  PROVE  Ahead(r)' <=> Ahead(r)
BY DEF Ahead

LEMMA InitFresh ==
  ASSUME Init
  PROVE  Fresh
<1>1. Len(done) = 0 /\ \A i \in 1..Len(done) : FALSE BY DEF Init
<1>2. Kindly BY DEF Init, Kindly, LoopIdle, ApiIdle
<1>3. ASSUME NEW r \in Requests
      PROVE  RegSeen(r) /\ DoneSeen(r) /\ LoopSeen(r) /\ ApiSeen(r) /\ AnswerSeen(r)
  <2>1. RegSeen(r) BY DEF Init, RegSeen, Waiting
  <2>2. DoneSeen(r) BY <1>1 DEF DoneSeen
  <2>3. LoopSeen(r) /\ ApiSeen(r) BY DEF Init, LoopSeen, ApiSeen, LoopIdle, ApiIdle
  <2>4. AnswerSeen(r) BY DEF Init, AnswerSeen, NoAnswer
  <2> QED BY <2>1, <2>2, <2>3, <2>4
<1> QED BY <1>2, <1>3 DEF Fresh

-----------------------------------------------------------------------------
(* The API thread.                                                         *)

LEMMA AcceptFresh ==
  ASSUME Inv, Fresh, NEW a \in Requests, NEW q \in Queries, Accept(a, q)
  PROVE  Fresh'
<1>1. /\ phase[a] = "new" /\ api'.pc = "dispatch" /\ api'.req = a
      /\ phase' = [phase EXCEPT ![a] = "open"]
      /\ seen' = [seen EXCEPT ![a] = IF WritePending THEN {} ELSE {reg}]
      /\ UNCHANGED <<kind, currentVal, reg, sdoq, done, loop, replies, answer, failed>>
  BY DEF Accept, ApiIdle
<1>2. ~Async(a) /\ replies[a] = 0 BY <1>1 DEF Inv, Books, Phased
<1>3. Kindly' BY <1>1 DEF Fresh, Kindly
<1>4. ASSUME NEW r \in Requests
      PROVE  (RegSeen(r) /\ DoneSeen(r) /\ LoopSeen(r) /\ ApiSeen(r) /\ AnswerSeen(r))'
  <2>1. RegSeen(r) /\ DoneSeen(r) /\ LoopSeen(r) /\ AnswerSeen(r) BY DEF Fresh
  <2>2. ApiSeen(r)' BY <1>1 DEF ApiSeen
  <2>3. Ahead(r)' <=> Ahead(r) BY <1>1, AheadSame
  <2>4. CASE r # a
    <3>1. seen'[r] = seen[r] /\ phase'[r] = phase[r] /\ replies'[r] = replies[r]
      BY <1>1, <2>4 DEF Inv, TypeOK
    <3>2. RegSeen(r)' BY <1>1, <2>1, <2>3, <3>1 DEF RegSeen, Waiting
    <3>3. DoneSeen(r)' BY <1>1, <2>1, <3>1 DEF DoneSeen
    <3>4. LoopSeen(r)' BY <1>1, <2>1, <3>1 DEF LoopSeen
    <3>5. AnswerSeen(r)' BY <1>1, <2>1, <3>1 DEF AnswerSeen
    <3> QED BY <2>2, <3>2, <3>3, <3>4, <3>5
  <2>5. CASE r = a
    <3>1. seen'[r] = IF WritePending THEN {} ELSE {reg}
      BY <1>1, <2>5 DEF Inv, TypeOK
    <3>2. ~In(sdoq, r) /\ ~In(done, r) /\ ~OnLoop(r) BY <1>2, <2>5 DEF Async
    <3>3. WritePending => Ahead(r)
      <4>1. sdoq \in Seq(OpType) BY DEF Inv, TypeOK
      <4>2. Len(sdoq) \in Nat BY <4>1, LenProperties
      <4>3. \A i \in 1..Len(sdoq) : \A j \in 1..i : sdoq[j].owner # r
        BY <3>2, <4>2 DEF In
      <4> QED BY <4>3 DEF WritePending, Ahead
    <3>4. RegSeen(r)' BY <1>1, <2>3, <3>1, <3>3 DEF RegSeen
    <3>5. DoneSeen(r)' BY <1>1, <3>2 DEF DoneSeen, In
    <3>6. LoopSeen(r)' BY <1>1, <3>2 DEF LoopSeen, OnLoop
    <3>7. AnswerSeen(r)' BY <1>1, <1>2, <2>1, <2>5 DEF AnswerSeen
    <3> QED BY <2>2, <3>4, <3>5, <3>6, <3>7
  <2> QED BY <2>4, <2>5
<1> QED BY <1>3, <1>4 DEF Fresh

\* What an answer changes.
LEMMA ReplyMeans ==
  ASSUME TypeOK, NEW a \in Requests, NEW status, NEW val, Reply(a, status, val),
         NEW r \in Requests
  PROVE  /\ replies'[r] = IF r = a THEN replies[r] + 1 ELSE replies[r]
         /\ answer'[r] = IF r = a THEN [status |-> status, val |-> val] ELSE answer[r]
         /\ replies[r] \in Nat
BY DEF Reply, TypeOK

\* A step of a handler that writes none of the values, and gives none.
LEMMA QuietFresh ==
  ASSUME Inv, Fresh,
         UNCHANGED <<kind, currentVal, reg, sdoq, done, loop, seen, failed>>,
         \A r \in Requests : Waiting(r)' => Waiting(r),
         \A r \in Requests :
           \/ replies'[r] = replies[r] /\ answer'[r] = answer[r]
           \/ replies'[r] # 0 /\ answer'[r].status # "value",
         api'.pc \in {"store", "use"} => api'.query.action = "write" /\ kind # "RPDO"
  PROVE  Fresh'
<1>1. Kindly' BY DEF Fresh, Kindly
<1>2. ASSUME NEW r \in Requests
      PROVE  (RegSeen(r) /\ DoneSeen(r) /\ LoopSeen(r) /\ ApiSeen(r) /\ AnswerSeen(r))'
  <2>1. RegSeen(r) /\ DoneSeen(r) /\ LoopSeen(r) /\ AnswerSeen(r) BY DEF Fresh
  <2>2. ApiSeen(r)' BY DEF ApiSeen
  <2>3. RegSeen(r)' BY <2>1, AheadSame DEF RegSeen
  <2>4. DoneSeen(r)' BY <2>1 DEF DoneSeen
  <2>5. LoopSeen(r)' BY <2>1 DEF LoopSeen
  <2>6. AnswerSeen(r)' BY <2>1 DEF AnswerSeen
  <2> QED BY <2>2, <2>3, <2>4, <2>5, <2>6
<1> QED BY <1>1, <1>2 DEF Fresh

LEMMA HandlerFresh ==
  ASSUME Inv, Fresh,
         \/ Refuse \/ EncodeWrite \/ EncodeThrows
         \/ SubscribeMark \/ SubscribeAdd \/ Unsubscribe \/ Return
  PROVE  Fresh'
<1>1. TypeOK /\ api.pc # "idle" /\ api.req \in Requests
  BY DEF Inv, Shape, Refuse, EncodeWrite, EncodeThrows, Dispatching, SubscribeMark,
         SubscribeAdd, Unsubscribe, Return
<1>2. UNCHANGED <<kind, currentVal, reg, sdoq, done, loop, seen, failed>>
  BY DEF Refuse, EncodeWrite, EncodeThrows, SubscribeMark, SubscribeAdd, Unsubscribe,
         Return, requestState
<1>3. api'.pc \in {"store", "use"} => api'.query.action = "write" /\ kind # "RPDO"
  <2>1. api \in ApiType BY <1>1 DEF TypeOK
  <2>2. CASE EncodeWrite
    BY <2>1, <2>2 DEF EncodeWrite, Dispatching, Refused, CanEncode, ApiType
  <2>3. CASE Refuse \/ EncodeThrows \/ SubscribeMark \/ SubscribeAdd \/ Unsubscribe
    BY <2>1, <2>3 DEF Refuse, EncodeThrows, SubscribeMark, SubscribeAdd, Unsubscribe,
                      ApiType
  <2>4. CASE Return BY <2>4 DEF Return, ApiIdle
  <2> QED BY <2>2, <2>3, <2>4
<1>4. CASE Refuse \/ SubscribeAdd \/ Unsubscribe
  <2>1. UNCHANGED phase BY <1>4 DEF Refuse, SubscribeAdd, Unsubscribe
  <2>2. PICK status \in {"ok", "error"} : Reply(api.req, status, {})
    BY <1>4 DEF Refuse, SubscribeAdd, Unsubscribe
  <2>3. ASSUME NEW r \in Requests
        PROVE  /\ Waiting(r)' => Waiting(r)
               /\ \/ replies'[r] = replies[r] /\ answer'[r] = answer[r]
                  \/ replies'[r] # 0 /\ answer'[r].status # "value"
    <3>1. /\ replies'[r] = IF r = api.req THEN replies[r] + 1 ELSE replies[r]
          /\ answer'[r] = IF r = api.req THEN [status |-> status, val |-> {}] ELSE answer[r]
          /\ replies[r] \in Nat
      BY <1>1, <2>2, ReplyMeans
    <3>2. replies'[r] = 0 => replies[r] = 0 BY <3>1
    <3> QED BY <2>1, <3>1, <3>2 DEF Waiting
  <2> QED BY <1>2, <1>3, <2>3, QuietFresh
<1>5. CASE EncodeWrite \/ EncodeThrows \/ SubscribeMark
  <2>1. UNCHANGED <<phase, replies, answer>>
    BY <1>5 DEF EncodeWrite, EncodeThrows, SubscribeMark, requestState
  <2> QED BY <1>2, <1>3, <2>1, QuietFresh DEF Waiting
<1>6. CASE Return
  <2>1. /\ UNCHANGED <<replies, answer>>
        /\ \A r \in Requests : phase'[r] = phase[r] \/ phase'[r] = "gone"
    BY <1>1, <1>6 DEF Return, Unref, TypeOK
  <2> QED BY <1>2, <1>3, <2>1, QuietFresh DEF Waiting
<1> QED BY <1>4, <1>5, <1>6

LEMMA FetchRpdoFresh ==
  ASSUME Inv, Fresh, FetchRpdo
  PROVE  Fresh'
<1>1. /\ api.pc = "dispatch" /\ kind = "RPDO" /\ api'.pc = "store" /\ api'.tmp = reg
      /\ api'.req = api.req /\ api'.query.action = "read"
      /\ UNCHANGED <<kind, currentVal, reg, sdoq, done, loop, seen, failed, phase,
                     replies, answer>>
  BY DEF FetchRpdo, Dispatching, ReadCB, Inv, TypeOK, ApiType, requestState
<1>2. Kindly' BY <1>1 DEF Fresh, Kindly
<1>3. ASSUME NEW r \in Requests
      PROVE  (RegSeen(r) /\ DoneSeen(r) /\ LoopSeen(r) /\ ApiSeen(r) /\ AnswerSeen(r))'
  <2>1. RegSeen(r) /\ DoneSeen(r) /\ LoopSeen(r) /\ AnswerSeen(r) BY DEF Fresh
  <2>2. ApiSeen(r)'
    <3>1. ASSUME api.req = r PROVE reg \in seen[r]
      <4>1. Waiting(r) BY <1>1, <3>1, OnWay DEF OnApi
      <4>2. sdoq = <<>> BY <1>1 DEF Fresh, Kindly
      <4>3. ~Ahead(r) BY <4>2 DEF Ahead
      <4> QED BY <1>1, <2>1, <4>1, <4>3 DEF RegSeen
    <3> QED BY <1>1, <3>1 DEF ApiSeen
  <2>3. RegSeen(r)' BY <1>1, <2>1, AheadSame DEF RegSeen, Waiting
  <2>4. DoneSeen(r)' BY <1>1, <2>1 DEF DoneSeen
  <2>5. LoopSeen(r)' BY <1>1, <2>1 DEF LoopSeen
  <2>6. AnswerSeen(r)' BY <1>1, <2>1 DEF AnswerSeen
  <2> QED BY <2>2, <2>3, <2>4, <2>5, <2>6
<1> QED BY <1>2, <1>3 DEF Fresh

LEMMA StoreFresh ==
  ASSUME Inv, Fresh, Store
  PROVE  Fresh'
<1>1. /\ api.pc = "store" /\ currentVal' = api.tmp /\ api'.pc = "use"
      /\ api'.req = api.req /\ api'.query = api.query
      /\ UNCHANGED <<kind, reg, sdoq, done, loop, failed, phase, replies, answer>>
  BY DEF Store, Inv, TypeOK, ApiType
<1>2. Kindly' BY <1>1 DEF Fresh, Kindly
<1>3. ASSUME NEW r \in Requests
      PROVE  seen[r] \subseteq seen'[r]
  BY <1>3, SawMeans DEF Store, Inv
<1>4. ASSUME NEW r \in Requests
      PROVE  (RegSeen(r) /\ DoneSeen(r) /\ LoopSeen(r) /\ ApiSeen(r) /\ AnswerSeen(r))'
  <2>1. /\ RegSeen(r) /\ DoneSeen(r) /\ LoopSeen(r) /\ ApiSeen(r) /\ AnswerSeen(r)
        /\ seen[r] \subseteq seen'[r]
    BY <1>3 DEF Fresh
  <2>2. ApiSeen(r)' BY <1>1, <2>1 DEF ApiSeen
  <2>3. RegSeen(r)' BY <1>1, <2>1, AheadSame DEF RegSeen, Waiting
  <2>4. DoneSeen(r)' BY <1>1, <2>1 DEF DoneSeen
  <2>5. LoopSeen(r)'
    <3>1. CASE loop.owner = r /\ loop.pc = "reply"
      <4>1. Async(r) /\ Waiting(r) BY <3>1, OnWay DEF Async, OnLoop
      <4>2. kind = "SDO" BY <4>1, OwnerIsSdo DEF Fresh
      <4>3. api.query.action = "write" BY <1>1, <4>2 DEF Fresh, Kindly
      <4>4. api.tmp \in seen'[r] BY <4>1, <4>3, SawMeans DEF Store, Inv
      <4> QED BY <1>1, <3>1, <4>4 DEF LoopSeen
    <3>2. CASE ~(loop.owner = r /\ loop.pc = "reply")
      BY <1>1, <2>1, <3>2 DEF LoopSeen
    <3> QED BY <3>1, <3>2
  <2>6. AnswerSeen(r)' BY <1>1, <2>1 DEF AnswerSeen
  <2> QED BY <2>2, <2>3, <2>4, <2>5, <2>6
<1> QED BY <1>2, <1>4 DEF Fresh

-----------------------------------------------------------------------------
(* The answers, and the SDO operations that are submitted.                 *)

\* Submitting an operation leaves the writes ahead of r where they are.
LEMMA AheadAppend ==
  ASSUME TypeOK, NEW e \in OpType, sdoq' = Append(sdoq, e), NEW r, Ahead(r)
  PROVE  Ahead(r)'
<1>1. sdoq \in Seq(OpType) /\ Len(sdoq) \in Nat BY LenProperties DEF TypeOK
<1>2. /\ Len(sdoq') = Len(sdoq) + 1
      /\ \A i \in 1..Len(sdoq) : sdoq'[i] = sdoq[i]
  BY <1>1, AppendProperties
<1>3. PICK i \in 1..Len(sdoq) :
        sdoq[i].op = "write" /\ \A j \in 1..i : sdoq[j].owner # r
  BY DEF Ahead
<1>4. i \in 1..Len(sdoq') BY <1>1, <1>2
<1>5. \A j \in 1..i : j \in 1..Len(sdoq) BY <1>1
<1> QED BY <1>2, <1>3, <1>4, <1>5 DEF Ahead

\* A step that only adds operations to the queue, and answers without a value.
LEMMA SubmitFresh ==
  ASSUME Inv, Fresh, NEW e \in OpType, kind = "SDO", sdoq' = Append(sdoq, e),
         UNCHANGED <<kind, currentVal, reg, done, loop, seen, failed>>,
         \A r \in Requests : Waiting(r)' => Waiting(r),
         \A r \in Requests :
           \/ replies'[r] = replies[r] /\ answer'[r] = answer[r]
           \/ replies'[r] # 0 /\ answer'[r].status # "value",
         api' = api \/ api'.pc = "return"
  PROVE  Fresh'
<1>1. Kindly' BY DEF Fresh, Kindly
<1>2. ASSUME NEW r \in Requests
      PROVE  (RegSeen(r) /\ DoneSeen(r) /\ LoopSeen(r) /\ ApiSeen(r) /\ AnswerSeen(r))'
  <2>1. RegSeen(r) /\ DoneSeen(r) /\ LoopSeen(r) /\ ApiSeen(r) /\ AnswerSeen(r)
    BY DEF Fresh
  <2>2. ApiSeen(r)' BY <2>1 DEF ApiSeen
  <2>3. RegSeen(r)'
    <3>1. Ahead(r) => Ahead(r)' BY AheadAppend DEF Inv
    <3> QED BY <2>1, <3>1 DEF RegSeen
  <2>4. DoneSeen(r)' BY <2>1 DEF DoneSeen
  <2>5. LoopSeen(r)' BY <2>1 DEF LoopSeen
  <2>6. AnswerSeen(r)' BY <2>1 DEF AnswerSeen
  <2> QED BY <2>2, <2>3, <2>4, <2>5, <2>6
<1> QED BY <1>1, <1>2 DEF Fresh

LEMMA ReadSdoFresh ==
  ASSUME Inv, Fresh, ReadSdo
  PROVE  Fresh'
<1> DEFINE e == [op |-> "read", owner |-> api.req, val |-> {}]
<1>1. /\ kind = "SDO" /\ sdoq' = Append(sdoq, e) /\ api'.pc = "return"
      /\ UNCHANGED <<kind, currentVal, reg, done, loop, phase, replies, answer, seen,
                     failed>>
      /\ api.req \in Requests
  BY DEF ReadSdo, Dispatching, Inv, Shape, TypeOK, ApiType
<1>2. e \in OpType BY <1>1 DEF OpType, Values
<1> HIDE DEF e
<1> QED BY <1>1, <1>2, SubmitFresh DEF Waiting

LEMMA OnRpdoWriteSdoFresh ==
  ASSUME Inv, Fresh, OnRpdoWriteSdo
  PROVE  Fresh'
<1> DEFINE e == [op |-> "read", owner |-> Nobody, val |-> {}]
<1>1. /\ kind = "SDO" /\ sdoq' = Append(sdoq, e)
      /\ UNCHANGED <<kind, currentVal, reg, done, loop, api, phase, replies, answer,
                     seen, failed>>
  BY DEF OnRpdoWriteSdo, threads, requestState
<1>2. e \in OpType BY DEF OpType, Values
<1> HIDE DEF e
<1> QED BY <1>1, <1>2, SubmitFresh DEF Waiting

LEMMA EmitWriteFresh ==
  ASSUME Inv, Fresh, EmitWrite
  PROVE  Fresh'
<1>1. /\ api.req \in Requests /\ api'.pc = "return"
      /\ Reply(api.req, "ok", {})
      /\ UNCHANGED <<kind, currentVal, done, loop, phase, seen, failed>>
      /\ kind \in {"SDO", "TPDO"}
  BY KindsAssumption DEF EmitWrite, Inv, Shape, TypeOK, ApiType, Fresh, Kindly
<1>2. ASSUME NEW r \in Requests
      PROVE  /\ Waiting(r)' => Waiting(r)
             /\ \/ replies'[r] = replies[r] /\ answer'[r] = answer[r]
                \/ replies'[r] # 0 /\ answer'[r].status # "value"
  <2>1. /\ replies'[r] = IF r = api.req THEN replies[r] + 1 ELSE replies[r]
        /\ answer'[r] = IF r = api.req THEN [status |-> "ok", val |-> {}] ELSE answer[r]
        /\ replies[r] \in Nat
    BY <1>1, ReplyMeans DEF Inv
  <2>2. replies'[r] = 0 => replies[r] = 0 BY <2>1
  <2> QED BY <1>1, <2>1, <2>2 DEF Waiting
<1>3. CASE kind = "SDO"
  <2> DEFINE e == [op |-> "write", owner |-> Nobody, val |-> currentVal]
  <2>1. sdoq' = Append(sdoq, e) /\ UNCHANGED reg BY <1>3 DEF EmitWrite
  <2>2. e \in OpType BY DEF OpType, Inv, TypeOK
  <2> HIDE DEF e
  <2> QED BY <1>1, <1>2, <1>3, <2>1, <2>2, SubmitFresh
<1>4. CASE kind = "TPDO"
  <2>1. UNCHANGED sdoq BY <1>4 DEF EmitWrite
  <2>2. Kindly' BY <1>1, <1>4, <2>1 DEF Fresh, Kindly
  <2>3. ASSUME NEW r \in Requests
        PROVE  (RegSeen(r) /\ DoneSeen(r) /\ LoopSeen(r) /\ ApiSeen(r) /\ AnswerSeen(r))'
    <3>1. DoneSeen(r) /\ LoopSeen(r) /\ AnswerSeen(r) BY DEF Fresh
    <3>2. RegSeen(r)' /\ ApiSeen(r)' BY <1>1, <1>4 DEF RegSeen, ApiSeen
    <3>3. DoneSeen(r)' BY <1>1, <3>1 DEF DoneSeen
    <3>4. LoopSeen(r)' BY <1>1, <3>1 DEF LoopSeen
    <3>5. AnswerSeen(r)' BY <1>1, <1>2, <3>1 DEF AnswerSeen
    <3> QED BY <3>2, <3>3, <3>4, <3>5
  <2> QED BY <2>2, <2>3 DEF Fresh
<1> QED BY <1>1, <1>3, <1>4

\* Answering r with a value that r may be answered with.
LEMMA GiveFresh ==
  ASSUME Inv, Fresh, NEW a \in Requests, NEW val, Reply(a, "value", val),
         a \in failed \/ val \in seen[a],
         UNCHANGED <<kind, currentVal, reg, sdoq, done, seen, failed, phase>>,
         \/ UNCHANGED loop /\ api'.pc = "return"
         \/ UNCHANGED api /\ loop'.pc = "unref" /\ loop'.owner = loop.owner
  PROVE  Fresh'
<1>1. Kindly' BY DEF Fresh, Kindly
<1>2. ASSUME NEW r \in Requests
      PROVE  (RegSeen(r) /\ DoneSeen(r) /\ LoopSeen(r) /\ ApiSeen(r) /\ AnswerSeen(r))'
  <2>1. RegSeen(r) /\ DoneSeen(r) /\ LoopSeen(r) /\ ApiSeen(r) /\ AnswerSeen(r)
    BY DEF Fresh
  <2>2. /\ replies'[r] = IF r = a THEN replies[r] + 1 ELSE replies[r]
        /\ answer'[r] = IF r = a THEN [status |-> "value", val |-> val] ELSE answer[r]
        /\ replies[r] \in Nat
    BY ReplyMeans DEF Inv
  <2>3. replies'[r] = 0 => replies[r] = 0 /\ r # a BY <2>2
  <2>4. RegSeen(r)' BY <2>1, <2>3, AheadSame DEF RegSeen, Waiting
  <2>5. DoneSeen(r)' BY <2>1 DEF DoneSeen
  <2>6. LoopSeen(r)' BY <2>1 DEF LoopSeen
  <2>7. ApiSeen(r)' BY <2>1 DEF ApiSeen
  <2>8. AnswerSeen(r)' BY <2>1, <2>2, <2>3 DEF AnswerSeen
  <2> QED BY <2>4, <2>5, <2>6, <2>7, <2>8
<1> QED BY <1>1, <1>2 DEF Fresh

LEMMA ReplyReadFresh ==
  ASSUME Inv, Fresh, ReplyRead
  PROVE  Fresh'
<1>1. /\ api.req \in Requests /\ api'.pc = "return"
      /\ Reply(api.req, "value", currentVal)
      /\ UNCHANGED <<kind, currentVal, reg, sdoq, done, loop, seen, failed, phase>>
  BY DEF ReplyRead, Inv, Shape, TypeOK, ApiType
<1>2. currentVal \in seen[api.req] BY <1>1 DEF ReplyRead, Fresh, ApiSeen
<1> QED BY <1>1, <1>2, GiveFresh

LEMMA LoopReplyFresh ==
  ASSUME Inv, Fresh, LoopReply
  PROVE  Fresh'
<1>1. /\ loop.owner \in Requests /\ loop'.pc = "unref" /\ loop'.owner = loop.owner
      /\ Reply(loop.owner, "value", currentVal)
      /\ UNCHANGED <<kind, currentVal, reg, sdoq, done, api, seen, failed, phase>>
  BY DEF LoopReply, Inv, Shape, TypeOK, LoopType
<1>2. loop.owner \in failed \/ currentVal \in seen[loop.owner]
  BY <1>1 DEF LoopReply, Fresh, LoopSeen
<1> QED BY <1>1, <1>2, GiveFresh

-----------------------------------------------------------------------------
(* The loop thread, the SDO client and the device.                         *)

\* A step that leaves the queues, the handler and the answers alone, writes v in
\* the register for all that waits to see, and serves nobody with it.
LEMMA WriteRegFresh ==
  ASSUME Inv, Fresh, NEW v, Saw(v), reg' = v, loop.pc = "idle",
         UNCHANGED <<kind, currentVal, sdoq, done, api, failed, phase, replies, answer>>,
         loop' = loop \/ (loop'.owner = Nobody /\ loop'.pc = "store" /\ loop'.val = v)
  PROVE  Fresh'
<1>1. Kindly' BY DEF Fresh, Kindly
<1>2. ASSUME NEW r \in Requests
      PROVE  (RegSeen(r) /\ DoneSeen(r) /\ LoopSeen(r) /\ ApiSeen(r) /\ AnswerSeen(r))'
  <2>1. RegSeen(r) /\ DoneSeen(r) /\ LoopSeen(r) /\ ApiSeen(r) /\ AnswerSeen(r)
    BY DEF Fresh
  <2>2. seen[r] \subseteq seen'[r] /\ (Waiting(r) => v \in seen'[r])
    BY SawMeans DEF Inv
  <2>3. Waiting(r)' <=> Waiting(r) BY DEF Waiting
  <2>4. RegSeen(r)' BY <2>2, <2>3 DEF RegSeen
  <2>5. DoneSeen(r)' BY <2>1, <2>2 DEF DoneSeen
  <2>6. LoopSeen(r)' BY <2>1, <2>2, NobodyAssumption DEF LoopSeen
  <2>7. ApiSeen(r)' BY <2>1, <2>2 DEF ApiSeen
  <2>8. AnswerSeen(r)' BY <2>1, <2>2 DEF AnswerSeen
  <2> QED BY <2>4, <2>5, <2>6, <2>7, <2>8
<1> QED BY <1>1, <1>2 DEF Fresh

LEMMA RegisterFresh ==
  ASSUME Inv, Fresh, NEW v \in Values, OnRpdoWrite(v) \/ DeviceChange(v)
  PROVE  Fresh'
<1>1. /\ loop.pc = "idle" /\ reg' = v /\ Saw(v)
      /\ UNCHANGED <<kind, currentVal, sdoq, done, api, failed, phase, replies, answer>>
  BY DEF OnRpdoWrite, DeviceChange, threads
<1>2. loop' = loop \/ (loop'.owner = Nobody /\ loop'.pc = "store" /\ loop'.val = v)
  BY DEF OnRpdoWrite, DeviceChange, threads, LoopIdle
<1> QED BY <1>1, <1>2, WriteRegFresh

\* A step of the loop that has nothing for a request.
LEMMA IdleFresh ==
  ASSUME Inv, Fresh,
         UNCHANGED <<kind, currentVal, reg, sdoq, done, api, seen, failed, replies,
                     answer>>,
         \A r \in Requests : Waiting(r)' => Waiting(r),
         loop' = loop \/ (loop'.owner = Nobody /\ loop'.pc # "store")
  PROVE  Fresh'
<1>1. Kindly' BY DEF Fresh, Kindly
<1>2. ASSUME NEW r \in Requests
      PROVE  (RegSeen(r) /\ DoneSeen(r) /\ LoopSeen(r) /\ ApiSeen(r) /\ AnswerSeen(r))'
  <2>1. RegSeen(r) /\ DoneSeen(r) /\ LoopSeen(r) /\ ApiSeen(r) /\ AnswerSeen(r)
    BY DEF Fresh
  <2>2. RegSeen(r)' BY <2>1, AheadSame DEF RegSeen
  <2>3. DoneSeen(r)' BY <2>1 DEF DoneSeen
  <2>4. LoopSeen(r)' BY <2>1, NobodyAssumption DEF LoopSeen
  <2>5. ApiSeen(r)' BY <2>1 DEF ApiSeen
  <2>6. AnswerSeen(r)' BY <2>1 DEF AnswerSeen
  <2> QED BY <2>2, <2>3, <2>4, <2>5, <2>6
<1> QED BY <1>1, <1>2 DEF Fresh

LEMMA QuietLoopFresh ==
  ASSUME Inv, Fresh,
         \/ \E occurred \in BOOLEAN : OnHeartbeat(occurred)
         \/ Push \/ Pushed \/ LoopUnref \/ UNCHANGED vars
  PROVE  Fresh'
<1>1. UNCHANGED <<kind, currentVal, reg, sdoq, done, api, seen, failed, replies, answer>>
  BY DEF OnHeartbeat, Push, Pushed, LoopUnref, vars, threads, requestState
<1>2. ASSUME NEW r \in Requests
      PROVE  Waiting(r)' => Waiting(r)
  <2>1. phase'[r] = "open" => phase[r] = "open"
    BY DEF OnHeartbeat, Push, Pushed, LoopUnref, Unref, vars, requestState, Inv, TypeOK
  <2> QED BY <1>1, <2>1 DEF Waiting
<1>3. loop' = loop \/ (loop'.owner = Nobody /\ loop'.pc # "store")
  <2>1. CASE Push
    BY <2>1 DEF Push, Inv, Shape, TypeOK, LoopType
  <2>2. CASE Pushed \/ LoopUnref
    BY <2>2 DEF Pushed, LoopUnref, LoopIdle
  <2> QED BY <2>1, <2>2 DEF OnHeartbeat, vars, threads
<1> QED BY <1>1, <1>2, <1>3, IdleFresh

\* The value that the loop stores is fresh for the request it serves, and for the
\* synchronous read that is about to answer with m_currentVal.
LEMMA LoopStoreFresh ==
  ASSUME Inv, Fresh, LoopStore
  PROVE  Fresh'
<1>1. /\ loop.pc = "store" /\ currentVal' = loop.val
      /\ loop'.pc \in {"reply", "push"} /\ loop'.owner = loop.owner
      /\ UNCHANGED <<kind, reg, sdoq, done, api, seen, failed, phase, replies, answer>>
  BY DEF LoopStore, requestState, Inv, TypeOK, LoopType
<1>2. Kindly' BY <1>1 DEF Fresh, Kindly
<1>3. ASSUME NEW r \in Requests
      PROVE  (RegSeen(r) /\ DoneSeen(r) /\ LoopSeen(r) /\ ApiSeen(r) /\ AnswerSeen(r))'
  <2>1. RegSeen(r) /\ DoneSeen(r) /\ LoopSeen(r) /\ ApiSeen(r) /\ AnswerSeen(r)
    BY DEF Fresh
  <2>2. RegSeen(r)' BY <1>1, <2>1, AheadSame DEF RegSeen, Waiting
  <2>3. DoneSeen(r)' BY <1>1, <2>1 DEF DoneSeen
  <2>4. LoopSeen(r)' BY <1>1, <2>1 DEF LoopSeen
  <2>5. ApiSeen(r)'
    <3>1. CASE api.req = r /\ api.query.action = "read" /\ api.pc = "use"
      <4>1. kind = "RPDO" /\ loop.val = reg /\ sdoq = <<>>
        BY <1>1, <3>1 DEF Fresh, Kindly
      <4>2. ~Ahead(r) BY <4>1 DEF Ahead
      <4>3. Waiting(r) BY <3>1, OnWay DEF OnApi
      <4>4. reg \in seen[r] BY <2>1, <4>1, <4>2, <4>3 DEF RegSeen
      <4> QED BY <1>1, <3>1, <4>1, <4>4 DEF ApiSeen
    <3>2. CASE ~(api.req = r /\ api.query.action = "read" /\ api.pc = "use")
      BY <1>1, <2>1, <3>2 DEF ApiSeen
    <3> QED BY <3>1, <3>2
  <2>6. AnswerSeen(r)' BY <1>1, <2>1 DEF AnswerSeen
  <2> QED BY <2>2, <2>3, <2>4, <2>5, <2>6
<1> QED BY <1>2, <1>3 DEF Fresh

LEMMA ContinueFresh ==
  ASSUME Inv, Fresh, Continue
  PROVE  Fresh'
<1>1. /\ done # <<>> /\ done' = Tail(done)
      /\ loop'.pc = "store" /\ loop'.owner = Head(done).owner
      /\ Head(done).ok => loop'.val = Head(done).val
      /\ UNCHANGED <<kind, currentVal, reg, sdoq, api, seen, failed, phase, replies,
                     answer>>
  BY DEF Continue, LoopIdle, requestState
<1>2. kind = "SDO" BY <1>1 DEF Fresh, Kindly
<1>3. /\ Head(done) = done[1] /\ Len(done) \in Nat \ {0}
      /\ Len(Tail(done)) = Len(done) - 1
      /\ \A i \in 1..Len(Tail(done)) : Tail(done)[i] = done[i + 1]
  BY <1>1, HeadTailProperties, LenProperties, EmptySeq DEF Inv, TypeOK
<1>4. /\ \A i \in 1..Len(done') : i + 1 \in 1..Len(done)
      /\ 1 \in 1..Len(done)
  BY <1>1, <1>3
<1>5. Kindly' BY <1>1, <1>2 DEF Fresh, Kindly
<1>6. ASSUME NEW r \in Requests
      PROVE  (RegSeen(r) /\ DoneSeen(r) /\ LoopSeen(r) /\ ApiSeen(r) /\ AnswerSeen(r))'
  <2>1. RegSeen(r) /\ DoneSeen(r) /\ ApiSeen(r) /\ AnswerSeen(r) BY DEF Fresh
  <2>2. RegSeen(r)' BY <1>1, <2>1, AheadSame DEF RegSeen, Waiting
  <2>3. DoneSeen(r)' BY <1>1, <1>3, <1>4, <2>1 DEF DoneSeen
  <2>4. LoopSeen(r)' BY <1>1, <1>3, <1>4, <2>1 DEF LoopSeen, DoneSeen
  <2>5. ApiSeen(r)' BY <1>1, <2>1 DEF ApiSeen
  <2>6. AnswerSeen(r)' BY <1>1, <2>1 DEF AnswerSeen
  <2> QED BY <2>2, <2>3, <2>4, <2>5, <2>6
<1> QED BY <1>5, <1>6 DEF Fresh

\* The read that ends sees the register after the writes accepted before it: when
\* it is at the head of the queue, no write is ahead of it.
LEMMA SdoReadFresh ==
  ASSUME Inv, Fresh, NEW ok \in BOOLEAN, SdoRead(ok)
  PROVE  Fresh'
<1> DEFINE o == Head(sdoq).owner
           e == [owner |-> o, ok |-> ok, val |-> IF ok THEN reg ELSE {}]
<1>1. /\ sdoq # <<>> /\ Head(sdoq).op = "read" /\ sdoq' = Tail(sdoq)
      /\ done' = Append(done, e)
      /\ failed' = IF ok \/ o = Nobody THEN failed ELSE failed \cup {o}
      /\ UNCHANGED <<kind, currentVal, reg, api, loop, seen, phase, replies, answer>>
  BY DEF SdoRead, threads
<1>2. kind = "SDO" BY <1>1 DEF Fresh, Kindly
<1>3. /\ Head(sdoq) = sdoq[1] /\ Len(sdoq) \in Nat \ {0}
      /\ Len(Tail(sdoq)) = Len(sdoq) - 1
      /\ \A i \in 1..Len(Tail(sdoq)) : Tail(sdoq)[i] = sdoq[i + 1]
  BY <1>1, HeadTailProperties, LenProperties, EmptySeq DEF Inv, TypeOK
<1>4. o \in Requests \cup {Nobody} /\ In(sdoq, o) BY <1>1, HeadLeaves DEF OpType
<1>5. e \in DoneType /\ e.owner = o /\ e.ok = ok /\ (ok => e.val = reg)
  BY <1>4 DEF DoneType, Inv, TypeOK, Values
<1> HIDE DEF e
<1>6. /\ Len(done') = Len(done) + 1 /\ Len(done) \in Nat
      /\ \A i \in 1..Len(done) : done'[i] = done[i]
      /\ done'[Len(done) + 1] = e
  BY <1>1, <1>5, AppendProperties, LenProperties DEF Inv, TypeOK
<1>7. \A i \in 1..Len(done') : i \in 1..Len(done) \/ i = Len(done) + 1 BY <1>6
<1>8. Kindly' BY <1>1, <1>2 DEF Fresh, Kindly
<1>9. failed \subseteq failed' BY <1>1
<1>10. ASSUME NEW r \in Requests
      PROVE  (RegSeen(r) /\ DoneSeen(r) /\ LoopSeen(r) /\ ApiSeen(r) /\ AnswerSeen(r))'
  <2>1. RegSeen(r) /\ DoneSeen(r) /\ LoopSeen(r) /\ ApiSeen(r) /\ AnswerSeen(r)
    BY DEF Fresh
  <2>2. Ahead(r) => Ahead(r)' /\ o # r
    <3>1. SUFFICES ASSUME NEW i \in 1..Len(sdoq), sdoq[i].op = "write",
                          \A j \in 1..i : sdoq[j].owner # r
                   PROVE  Ahead(r)' /\ o # r
      BY DEF Ahead
    <3>2. i # 1 BY <1>1, <1>3, <3>1
    <3>3. i - 1 \in 1..Len(Tail(sdoq)) /\ (i - 1) + 1 = i BY <1>3, <3>2
    <3>4. Tail(sdoq)[i - 1].op = "write" BY <1>3, <3>1, <3>3
    <3>5. \A j \in 1..(i - 1) : j \in 1..Len(Tail(sdoq)) /\ j + 1 \in 1..i
      BY <3>3
    <3>6. \A j \in 1..(i - 1) : Tail(sdoq)[j].owner # r BY <1>3, <3>1, <3>5
    <3>7. Ahead(r)' BY <1>1, <3>3, <3>4, <3>6 DEF Ahead
    <3>8. 1 \in 1..i OBVIOUS
    <3> QED BY <1>3, <3>1, <3>7, <3>8
  <2>3. RegSeen(r)' BY <1>1, <2>1, <2>2 DEF RegSeen, Waiting
  <2>4. DoneSeen(r)'
    <3>1. ASSUME o = r PROVE r \in failed' \/ (e.ok /\ e.val \in seen'[r])
      <4>1. r # Nobody BY NobodyAssumption
      <4>2. CASE ~ok BY <1>1, <3>1, <4>1, <4>2
      <4>3. CASE ok
        <5>1. Async(r) /\ ~OnLoop(r)
          BY <1>4, <3>1 DEF Async, Inv, OnePlace
        <5>2. ~(loop.owner = r /\ loop.pc = "unref") BY <5>1 DEF OnLoop
        <5>3. Waiting(r) BY <5>1, <5>2, OnWay
        <5>4. reg \in seen[r] BY <1>2, <2>1, <2>2, <3>1, <5>3 DEF RegSeen
        <5> QED BY <1>1, <1>5, <4>3, <5>4
      <4> QED BY <4>2, <4>3
    <3>2. ASSUME NEW i \in 1..Len(done'), done'[i].owner = r
          PROVE  r \in failed' \/ (done'[i].ok /\ done'[i].val \in seen'[r])
      <4>1. CASE i \in 1..Len(done)
        BY <1>1, <1>6, <1>9, <2>1, <3>2, <4>1 DEF DoneSeen
      <4>2. CASE i = Len(done) + 1 BY <1>5, <1>6, <3>1, <3>2, <4>2
      <4> QED BY <1>7, <4>1, <4>2
    <3> QED BY <3>2 DEF DoneSeen
  <2>5. LoopSeen(r)' BY <1>1, <1>9, <2>1 DEF LoopSeen
  <2>6. ApiSeen(r)' BY <1>1, <2>1 DEF ApiSeen
  <2>7. AnswerSeen(r)' BY <1>1, <1>9, <2>1 DEF AnswerSeen
  <2> QED BY <2>3, <2>4, <2>5, <2>6, <2>7
<1> QED BY <1>8, <1>10 DEF Fresh

\* The write that ends shows its value to all that waits.
LEMMA SdoWriteFresh ==
  ASSUME Inv, Fresh, NEW ok \in BOOLEAN, SdoWrite(ok)
  PROVE  Fresh'
<1>1. /\ sdoq # <<>> /\ Saw(reg')
      /\ UNCHANGED <<kind, currentVal, done, api, loop, failed, phase, replies, answer>>
  BY DEF SdoWrite, threads
<1>2. kind = "SDO" BY <1>1 DEF Fresh, Kindly
<1>3. Kindly' BY <1>1, <1>2 DEF Fresh, Kindly
<1>4. ASSUME NEW r \in Requests
      PROVE  (RegSeen(r) /\ DoneSeen(r) /\ LoopSeen(r) /\ ApiSeen(r) /\ AnswerSeen(r))'
  <2>1. RegSeen(r) /\ DoneSeen(r) /\ LoopSeen(r) /\ ApiSeen(r) /\ AnswerSeen(r)
    BY DEF Fresh
  <2>2. seen[r] \subseteq seen'[r] /\ (Waiting(r) => reg' \in seen'[r])
    BY <1>1, SawMeans DEF Inv
  <2>3. Waiting(r)' <=> Waiting(r) BY <1>1 DEF Waiting
  <2>4. RegSeen(r)' BY <2>2, <2>3 DEF RegSeen
  <2>5. DoneSeen(r)' BY <1>1, <2>1, <2>2 DEF DoneSeen
  <2>6. LoopSeen(r)' BY <1>1, <2>1, <2>2 DEF LoopSeen
  <2>7. ApiSeen(r)' BY <1>1, <2>1, <2>2 DEF ApiSeen
  <2>8. AnswerSeen(r)' BY <1>1, <2>1, <2>2 DEF AnswerSeen
  <2> QED BY <2>4, <2>5, <2>6, <2>7, <2>8
<1> QED BY <1>3, <1>4 DEF Fresh

-----------------------------------------------------------------------------
\* Every step preserves the invariant.
LEMMA NextFresh ==
  ASSUME Inv, Fresh, [Next]_vars
  PROVE  Fresh'
<1>1. ASSUME NEW r \in Requests, NEW q \in Queries, Accept(r, q) PROVE Fresh'
  BY <1>1, AcceptFresh
<1>2. CASE ApiStep
  BY <1>2, HandlerFresh, FetchRpdoFresh, StoreFresh, EmitWriteFresh, ReplyReadFresh,
     ReadSdoFresh DEF ApiStep
<1>3. CASE LoopStep
  BY <1>3, ContinueFresh, LoopStoreFresh, LoopReplyFresh, QuietLoopFresh DEF LoopStep
<1>4. CASE Sdo
  BY <1>4, SdoReadFresh, SdoWriteFresh DEF Sdo
<1>5. CASE OnRpdoWriteSdo BY <1>5, OnRpdoWriteSdoFresh
<1>6. CASE \E v \in Values : OnRpdoWrite(v) \/ DeviceChange(v) BY <1>6, RegisterFresh
<1>7. CASE (\E occurred \in BOOLEAN : OnHeartbeat(occurred)) \/ UNCHANGED vars
  BY <1>7, QuietLoopFresh
<1> QED BY <1>1, <1>2, <1>3, <1>4, <1>5, <1>6, <1>7 DEF Next

\* At every moment the values on their way are fresh.
THEOREM Freshness == Spec => [](Inv /\ Fresh)
<1>1. Init => Inv /\ Fresh BY InitInv, InitFresh
<1>2. Inv /\ Fresh /\ [Next]_vars => (Inv /\ Fresh)' BY NextInv, NextFresh
<1> QED BY <1>1, <1>2, PTL DEF Spec

\* A read is answered with a value that the register held, or that a write
\* encoded, while the request was open and after the writes accepted before it,
\* unless its SDO read failed: whatever the kind of the sensor, and although the
\* handler and the continuation that answer read m_currentVal, which the other
\* thread overwrites at any time.
THEOREM ReadsFresh == Spec => []ReadFresh
<1>1. Inv /\ Fresh => ReadFresh BY DEF Fresh, AnswerSeen, ReadFresh
<1> QED BY <1>1, Freshness, PTL

-----------------------------------------------------------------------------
(* The writes of a TPDO sensor.                                            *)

\* The loop never touches m_currentVal, and from the first write on it is what
\* the object holds, or what the handler is about to write in the object.
Landed ==
  kind = "TPDO" =>
    /\ loop.pc # "store"
    /\ written /\ api.pc # "use" => currentVal = reg
    /\ api.pc = "store" => api.tmp = Encode(api.query.data, currentVal)
    /\ written /\ api.pc = "use" => currentVal = Encode(api.query.data, reg)

LEMMA InitLanded ==
  ASSUME Init
  PROVE  Landed
BY DEF Init, Landed, LoopIdle, ApiIdle

\* The steps of the other thread, of the bus and of the framework.
LEMMA OtherLanded ==
  ASSUME Inv, Fresh, Landed,
         \/ \E r \in Requests, q \in Queries : Accept(r, q)
         \/ LoopStep \/ Sdo \/ OnRpdoWriteSdo
         \/ \E v \in Values : OnRpdoWrite(v) \/ DeviceChange(v)
         \/ \E occurred \in BOOLEAN : OnHeartbeat(occurred)
         \/ UNCHANGED vars
  PROVE  Landed'
<1> SUFFICES ASSUME kind' = "TPDO"
             PROVE  Landed'
  BY DEF Landed
<1>1. CASE \E r \in Requests, q \in Queries : Accept(r, q)
  <2>1. /\ api.pc = "idle" /\ api'.pc = "dispatch"
        /\ UNCHANGED <<kind, loop, currentVal, reg, written>>
    BY <1>1 DEF Accept, ApiIdle
  <2> QED BY <2>1 DEF Landed
<1>2. CASE LoopStep
  <2>1. UNCHANGED <<kind, api, reg, written>>
    BY <1>2 DEF LoopStep, Continue, LoopStore, LoopReply, LoopUnref, Push, Pushed,
                requestState
  <2>2. loop.pc # "store" /\ done = <<>> BY <2>1 DEF Landed, Fresh, Kindly
  <2>3. UNCHANGED currentVal /\ loop'.pc # "store"
    <3>1. ~Continue /\ ~LoopStore BY <2>2 DEF Continue, LoopStore
    <3>2. loop \in LoopType BY DEF Inv, TypeOK
    <3>3. CASE LoopReply BY <3>2, <3>3 DEF LoopReply, LoopType
    <3>4. CASE LoopUnref BY <3>4 DEF LoopUnref, LoopIdle
    <3>5. CASE Push
      <4>1. loop'.pc = "pushed" BY <3>2, <3>5, Zenon DEF Push, LoopType
      <4> QED BY <3>5, <4>1 DEF Push
    <3>6. CASE Pushed
      <4>1. UNCHANGED currentVal /\ loop' = LoopIdle BY <3>6 DEF Pushed
      <4> QED BY <4>1 DEF LoopIdle
    <3> QED BY <1>2, <3>1, <3>3, <3>4, <3>5, <3>6 DEF LoopStep
  <2> QED BY <2>1, <2>3 DEF Landed
<1>3. CASE Sdo
  <2>1. UNCHANGED kind /\ sdoq # <<>> BY <1>3 DEF Sdo, SdoRead, SdoWrite
  <2> QED BY <2>1 DEF Fresh, Kindly
<1>4. CASE \/ OnRpdoWriteSdo
           \/ \E v \in Values : OnRpdoWrite(v) \/ DeviceChange(v)
  BY <1>4 DEF OnRpdoWriteSdo, OnRpdoWrite, DeviceChange
<1>5. CASE (\E occurred \in BOOLEAN : OnHeartbeat(occurred)) \/ UNCHANGED vars
  <2>1. UNCHANGED <<kind, api, loop, currentVal, reg, written>>
    BY <1>5 DEF OnHeartbeat, vars, threads
  <2> QED BY <2>1 DEF Landed
<1> QED BY <1>1, <1>2, <1>3, <1>4, <1>5

\* The steps of a handler.
LEMMA ApiLanded ==
  ASSUME Inv, Fresh, Landed, ApiStep
  PROVE  Landed'
<1> SUFFICES ASSUME kind' = "TPDO"
             PROVE  Landed'
  BY DEF Landed
<1>1. UNCHANGED <<kind, loop>> /\ kind = "TPDO" /\ api \in ApiType
  BY DEF ApiStep, Refuse, EncodeWrite, EncodeThrows, FetchRpdo, Store, EmitWrite,
         ReplyRead, ReadSdo, SubscribeMark, SubscribeAdd, Unsubscribe, Return, Inv, TypeOK
<1>2. CASE EncodeWrite
  <2>1. /\ api.pc = "dispatch" /\ api'.pc = "store"
        /\ api'.tmp = Encode(api'.query.data, currentVal)
        /\ UNCHANGED <<currentVal, reg, written>>
    BY <1>1, <1>2 DEF EncodeWrite, Dispatching, ApiType
  <2> QED BY <1>1, <2>1 DEF Landed
<1>3. CASE Store
  <2>1. /\ api.pc = "store" /\ api'.pc = "use" /\ api'.query = api.query
        /\ currentVal' = api.tmp /\ UNCHANGED <<reg, written>>
    BY <1>1, <1>3 DEF Store, ApiType
  <2> QED BY <1>1, <2>1 DEF Landed
<1>4. CASE EmitWrite
  <2>1. api'.pc = "return" /\ reg' = currentVal /\ UNCHANGED currentVal
    BY <1>1, <1>4 DEF EmitWrite, ApiType
  <2> QED BY <1>1, <2>1 DEF Landed
<1>5. CASE FetchRpdo \/ ReadSdo \/ ReplyRead
  BY <1>1, <1>5 DEF FetchRpdo, ReadSdo, ReplyRead, Fresh, Kindly
<1>6. CASE \/ Refuse \/ EncodeThrows
           \/ SubscribeMark \/ SubscribeAdd \/ Unsubscribe \/ Return
  <2>1. UNCHANGED <<currentVal, reg, written>>
    BY <1>6 DEF Refuse, EncodeThrows, SubscribeMark, SubscribeAdd, Unsubscribe, Return,
                requestState
  <2>2. api.pc # "use" /\ api'.pc \notin {"store", "use"}
    BY <1>1, <1>6 DEF Refuse, EncodeThrows, SubscribeMark, SubscribeAdd, Unsubscribe,
                      Return, Dispatching, ApiType, ApiIdle
  <2> QED BY <1>1, <2>1, <2>2 DEF Landed
<1> QED BY <1>2, <1>3, <1>4, <1>5, <1>6 DEF ApiStep

\* Under a mask the encoders set the bits that were named, up to the 32nd, and clear
\* those that were named when the value has no bit above the eighth.
LEMMA EncodeMasks ==
  ASSUME NEW d \in DataType, NEW v \in Values
  PROVE  /\ d.how = "on" /\ v \subseteq WordBits =>
              Encode(d, v) = v \cup (d.bits \cap WordBits)
         /\ d.how \in {"off", "clear"} /\ v \subseteq LowBits =>
              Encode(d, v) = v \ d.bits
<1>1. CASE d.how = "on" /\ v \subseteq WordBits
  <2>1. Encode(d, v) = (v \cup d.bits) \cap WordBits BY <1>1 DEF Encode
  <2> QED BY <1>1, <2>1
<1>2. ASSUME v \subseteq LowBits, NEW mask
      PROVE  Cleared(v, mask) = v \ mask
  BY <1>2, BitsAssumption DEF Cleared
<1>3. CASE d.how = "off" /\ v \subseteq LowBits
  <2>1. Encode(d, v) = Cleared(v, d.bits) BY <1>3 DEF Encode
  <2> QED BY <1>2, <1>3, <2>1
<1>4. CASE d.how = "clear" /\ v \subseteq LowBits
  <2>1. Encode(d, v) = ClearedEach(v, d.bits) BY <1>4 DEF Encode
  <2>2. \A i : Cleared(v, {i}) = v \ {i} BY <1>2, <1>4
  <2>3. \A b, i : b \in v => (b \in Cleared(v, {i}) <=> b # i) BY <2>2
  <2>4. v \cap WordBits = v BY <1>4, BitsAssumption
  <2>5. ClearedEach(v, d.bits) = {b \in v : \A i \in d.bits : b # i}
    BY <2>3, <2>4 DEF ClearedEach
  <2>6. {b \in v : \A i \in d.bits : b # i} = v \ d.bits BY Zenon
  <2> QED BY <1>4, <2>1, <2>5, <2>6
<1> QED BY <1>1, <1>3, <1>4

\* One write that reaches the object.
WriteLanded ==
  EmitWrite /\ kind = "TPDO" /\ written => Landing(api.query.data)

LEMMA StepLands ==
  ASSUME Inv, Landed
  PROVE  WriteLanded
<1> SUFFICES ASSUME EmitWrite, kind = "TPDO", written
             PROVE  Landing(api.query.data)
  BY DEF WriteLanded
<1>1. api.pc = "use" /\ reg' = currentVal BY DEF EmitWrite
<1>2. reg' = Encode(api.query.data, reg) BY <1>1 DEF Landed
<1>3. api.query.data \in DataType /\ reg \in Values
  BY QueriesAssumption DEF Inv, TypeOK, ApiType, QueryType
<1> QED BY <1>2, <1>3, EncodeMasks DEF Landing

\* From the second write on, a write of a TPDO sensor encodes its data on the value
\* that the object holds, however the handlers of the two threads interleave: for
\* such a sensor m_currentVal belongs to the API thread.  A mask that sets gives
\* the bits it names, among the 32 low ones, the value asked for, and leaves the
\* others if the object had no more than 32; a mask that clears does so only if it
\* had no bit above the eighth.
THEOREM WritesLand == Spec => WriteLands
<1>1. Init => Landed BY InitLanded
<1>2. Inv /\ Fresh /\ Landed /\ [Next]_vars => Landed'
  BY OtherLanded, ApiLanded DEF Next
<1>3. Inv /\ Landed /\ [Next]_vars => [WriteLanded]_vars BY StepLands
<1>4. [][WriteLanded]_vars => WriteLands BY DEF WriteLands, WriteLanded
<1> QED BY <1>1, <1>2, <1>3, <1>4, Freshness, PTL DEF Spec
=============================================================================
