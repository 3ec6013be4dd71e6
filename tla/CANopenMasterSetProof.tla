----------------------- MODULE CANopenMasterSetProof ------------------------
(***************************************************************************)
(* Proofs about CANopenMasterSet, for every configuration, every set of    *)
(* objects and values and every query: the types, that the start of one    *)
(* bus never does anything undefined, that the binding serves only when    *)
(* every bus is served, and that get is all or nothing and leaks nothing.  *)
(***************************************************************************)
EXTENDS CANopenMasterSet, SequenceTheorems, TLAPS

-----------------------------------------------------------------------------
(***************************************************************************)
(* The inductive invariant, in the order of the life of the program.       *)
(***************************************************************************)

\* Nothing is served, and no thread runs, before every bus is added.
Order ==
  /\ main = "add" => loop = "none" /\ mutex = "none"
  /\ main \in {"wait", "asleep", "woken", "start", "serving"}
       => pos = Len(config) + 1
  /\ main \in {"add", "wait", "asleep", "woken"} => running = {}
  /\ api.pc # "idle" => api.req \in Requests /\ main \in {"serving", "undefined"}

Sound == main \in {"add", "wait", "asleep", "woken", "start", "serving"}

\* While all goes well, the masters added so far are those of the first buses,
\* one of them at most is not deleted, and it is the one of index 0.
Owned ==
  Sound =>
    /\ Len(imasters) = 4
    /\ \A k \in 2..4 : imasters[k] = Null
    /\ imasters[1] < pos
    /\ \A u \in Uids : masters[u] < pos
    /\ \A i \in Masters : i < pos => config[i].add = "ok"
    /\ alive = {imasters[1]} \ {Null}
    /\ imasters[1] = Null => \A u \in Uids : masters[u] = Null
    /\ imasters[1] # Null => \E u \in Uids : masters[u] = imasters[1]
    /\ running \subseteq {masters[u] : u \in Uids} \cap alive
    /\ main = "serving" => \A u \in Uids : masters[u] \in running \cup {Null}

\* The mutex tells where the threads are, and without a spurious wake-up the main
\* thread returns from start() only after the loop thread is done with synchro.
Handshake ==
  "spurious" \notin faults =>
    /\ mutex = "loop" <=> loop \in {"signal", "signalled"}
    /\ main = "wait" => mutex = "main" /\ loop \in {"none", "created"}
    /\ main = "asleep" => loop \in {"none", "created", "signal"}
    /\ main = "woken" => loop \in {"signalled", "running"}
    /\ main \in {"start", "serving"} => loop = "running"
    /\ main \in {"failed", "aborted"} => loop \in {"none", "running"}

\* The master of a single bus is never deleted.
Single == Len(config) <= 1 /\ "spurious" \notin faults =>
  /\ main # "undefined"
  /\ main = "add" /\ pos = 1 => alive = {}

\* What get read so far.
Reads ==
  /\ api.pc # "idle" => \A o \in Objects : <<o, mapped[o]>> \in seen
  /\ api.pc = "dispatch" => api.vals = <<>>
  /\ api.pc = "read" =>
       /\ api.query.items # <<>>
       /\ Len(api.vals) <= Len(api.query.items)
       /\ \A k \in 1..Len(api.vals) :
            /\ Resolves(api.query.items[k].itf)
            /\ IF ReadsOther(api.query.items[k])
               THEN <<api.query.items[k].obj, api.vals[k]>> \in seen
               ELSE api.vals[k] = Zero

Inv == /\ TypeOK /\ Order /\ Owned /\ Handshake /\ Single /\ Reads
       /\ GetAllOrNothing /\ ArrayReleased
-----------------------------------------------------------------------------
(* The steps, by what they leave alone.                                    *)

AddStep == Add \/ AddFails \/ AddThrows

HandshakeStep ==
  ExecStart \/ ExecWait \/ ExecSpurious \/ ExecWoken \/ LoopLock \/ LoopSignal
    \/ LoopUnlock

StartStep == Start \/ Started

GetStep ==
  \/ \E r \in Requests, q \in Queries : Accept(r, q)
  \/ ApiStep
  \/ \E o \in Objects, v \in Values : OnPdo(o, v)

LEMMA Steps == Next => AddStep \/ HandshakeStep \/ StartStep \/ GetStep
BY DEF Next, MainStep, LoopStep, AddStep, HandshakeStep, StartStep, GetStep

LEMMA Frames ==
  /\ AddStep => UNCHANGED <<given, running, mutex, loop, mapped, getState>>
  /\ HandshakeStep => UNCHANGED <<given, setState, mapped, getState>>
  /\ StartStep => UNCHANGED <<given, pos, masters, imasters, alive, mutex, loop,
                              mapped, getState>>
  /\ GetStep => UNCHANGED <<given, main, setState, mutex, loop>>
<1>1. AddStep => UNCHANGED <<given, running, mutex, loop, mapped, getState>>
  BY DEF AddStep, Add, AddFails, AddThrows
<1>2. HandshakeStep => UNCHANGED <<given, setState, mapped, getState>>
  BY DEF HandshakeStep, ExecStart, ExecWait, ExecSpurious, ExecWoken, LoopLock,
         LoopSignal, LoopUnlock
<1>3. StartStep => UNCHANGED <<given, pos, masters, imasters, alive, mutex, loop,
                               mapped, getState>>
  BY DEF StartStep, Start, Started, setState
<1>4. GetStep => UNCHANGED <<given, main, setState, mutex, loop>>
  BY DEF GetStep, Accept, ApiStep, GetInvalid, GetArray, GetItem, GetCatch, GetReply,
         Return, OnPdo, Reply
<1>. QED  BY <1>1, <1>2, <1>3, <1>4

-----------------------------------------------------------------------------
(* Types.                                                                  *)

LEMMA Constants ==
  /\ NoQuery \in Queries
  /\ \A q \in Queries : q.form \in {"invalid", "alloc", "client"}
                        /\ q.items \in Seq(ItemType)
  /\ Queries \subseteq QueryType
BY QueriesAssumption DEF NoQuery, QueryType

\* The configuration, its buses and the numbers that go through them.
LEMMA Buses ==
  ASSUME TypeOK
  PROVE  /\ Len(config) \in Nat /\ Masters = 1..Len(config)
         /\ pos \in Nat /\ pos >= 1
         /\ \A i \in Masters : config[i] \in BusType /\ config[i].uid \in Uids
         /\ \A u \in Uids : masters[u] \in Nat
         /\ Masters \subseteq Nat \ {Null}
<1>1. config \in Seq(BusType)
  BY ConfigsAssumption DEF TypeOK
<1>2. Len(config) \in Nat /\ \A i \in 1..Len(config) : config[i] \in BusType
  BY <1>1, LenProperties, ElementOfSeq
<1>. QED  BY <1>2 DEF TypeOK, Masters, BusType, Null

\* Recording a master.
LEMMA RecordTypes ==
  ASSUME TypeOK, NEW i \in Masters, Record(i)
  PROVE  /\ masters' \in [Uids -> Masters \cup {Null}]
         /\ imasters' \in Seq(Masters \cup {Null})
         /\ alive' \subseteq Masters
         /\ main' \in {main, "undefined"}
<1>1. masters' \in [Uids -> Masters \cup {Null}]
  BY Buses DEF Record, TypeOK
<1>2. DEFINE n == IF Index(i) < Len(imasters) THEN Len(imasters) ELSE Index(i) + 1
<1>3. imasters \in Seq(Masters \cup {Null}) /\ Len(imasters) \in Nat
      /\ \A k \in 1..Len(imasters) : imasters[k] \in Masters \cup {Null}
  BY LenProperties, ElementOfSeq DEF TypeOK
<1>4. n \in Nat
  BY <1>3 DEF Index
<1>5. imasters' \in [1..n -> Masters \cup {Null}]
  BY <1>3, <1>4 DEF Record
<1>6. imasters' \in Seq(Masters \cup {Null})
  BY <1>4, <1>5, SeqDef
<1>7. alive' \subseteq Masters /\ main' \in {main, "undefined"}
  BY DEF Record, TypeOK
<1>. QED  BY <1>1, <1>6, <1>7

\* The part of TypeOK that get touches.
ApiType == [pc : {"idle", "dispatch", "read", "return"}, req : Requests \cup {Nobody},
            query : Queries, vals : Seq(ValueType)]
AnswerType == [status : {"none", "error", "values"}, vals : Seq(ValueType)]
GetTypeOK ==
  /\ api \in ApiType
  /\ answer \in [Requests -> AnswerType]
  /\ dref \in [Requests -> Nat]

LEMMA ReplyTypes ==
  ASSUME GetTypeOK, api.req \in Requests, NEW status \in {"error", "values"},
         NEW vals \in Seq(ValueType), Reply(status, vals)
  PROVE  api' \in ApiType /\ answer' \in [Requests -> AnswerType]
<1>1. [status |-> status, vals |-> vals] \in AnswerType
  BY DEF AnswerType
<1>2. answer' \in [Requests -> AnswerType]
  BY <1>1 DEF Reply, GetTypeOK
<1>3. api' \in ApiType
  BY DEF Reply, GetTypeOK, ApiType
<1>. QED  BY <1>2, <1>3

\* The value that an item gives.
LEMMA ReadOther ==
  ASSUME NEW item \in ItemType
  PROVE  /\ Readable(item) <=> ReadsOther(item)
         /\ Readable(item) => item.obj \in Objects
<1>1. ASSUME item.type \in Scalar
      PROVE  /\ ReadAs(item.type) \in Scalar
             /\ \A t \in Scalar : t.width = item.type.width /\ t.sign # item.type.sign
                                    <=> t = ReadAs(item.type)
  <2>1. PICK s \in {"u", "i"}, w \in {8, 16, 32, 64} : item.type = [sign |-> s, width |-> w]
    BY <1>1 DEF Scalar
  <2>2. item.type.width = w /\ item.type.sign = s
    BY <2>1
  <2>3. PICK o \in {"u", "i"} : o # s /\ ReadAs(item.type) = [sign |-> o, width |-> w]
    BY <2>1, <1>1 DEF ReadAs, Scalar
  <2>4. \A t \in Scalar : t = [sign |-> t.sign, width |-> t.width]
    BY DEF Scalar
  <2>5. \A t \in Scalar : t.sign # s <=> t.sign = o
    BY <2>3 DEF Scalar
  <2>6. \A t \in Scalar : t.width = w /\ t.sign # s <=> t = [sign |-> o, width |-> w]
    BY <2>4, <2>5
  <2>7. ReadAs(item.type) \in Scalar
    BY <2>3 DEF Scalar
  <2>8. \A t \in Scalar : t.width = item.type.width /\ t.sign # item.type.sign
                            <=> t = ReadAs(item.type)
    BY <2>2, <2>3, <2>6
  <2>. QED  BY <2>7, <2>8
<1>2. ASSUME item.type = NoScalar
      PROVE  ~Readable(item) /\ ~ReadsOther(item)
  <2>1. item.type.width = 0
    BY <1>2 DEF NoScalar
  <2>2. \A t \in Scalar : t.width # 0
    BY DEF Scalar
  <2>3. item.type \notin Scalar
    BY <2>1, <2>2
  <2>. QED  BY <2>1, <2>2, <2>3 DEF Readable, ReadsOther
<1>3. item.type \in Scalar \/ item.type = NoScalar
  BY DEF ItemType
<1>4. ASSUME item.type \in Scalar
      PROVE  Readable(item) <=> ReadsOther(item)
  BY <1>1, <1>4 DEF Readable, ReadsOther
<1>5. Readable(item) => item.obj \in Objects
  BY FitsAssumption DEF Readable
<1>. QED  BY <1>2, <1>3, <1>4, <1>5

LEMMA ItemTypes ==
  ASSUME TypeOK, Order, Remains
  PROVE  /\ Len(api.vals) \in Nat /\ Len(api.vals) + 1 \in 1..Len(api.query.items)
         /\ Item \in ItemType
         /\ (IF Readable(Item) THEN mapped[Item.obj] ELSE Zero) \in ValueType
<1>1. api.vals \in Seq(ValueType) /\ api.query \in Queries /\ api.query.items \in Seq(ItemType)
  BY Constants DEF TypeOK
<1>2. Len(api.vals) \in Nat /\ Len(api.query.items) \in Nat
  BY <1>1, LenProperties
<1>3. Len(api.vals) + 1 \in 1..Len(api.query.items)
  BY <1>2 DEF Remains
<1>4. Item \in ItemType
  BY <1>1, <1>3, ElementOfSeq DEF Item
<1>5. Readable(Item) => Item.obj \in Objects
  BY <1>4, ReadOther
<1>. QED  BY <1>2, <1>3, <1>4, <1>5 DEF ValueType, TypeOK

LEMMA GetTypes ==
  ASSUME TypeOK, Order, ArrayReleased, GetStep
  PROVE  GetTypeOK'
<1>1. GetTypeOK
  BY DEF TypeOK, GetTypeOK, ApiType, AnswerType
<1>2. <<>> \in Seq(ValueType)
  BY EmptySeq
<1>3. api.pc # "idle" => api.req \in Requests
  BY DEF Order
<1>4. api.pc = "read" => dref[api.req] = 1
  BY <1>3 DEF ArrayReleased
<1>5. ASSUME NEW r \in Requests, NEW q \in Queries, Accept(r, q)
      PROVE  GetTypeOK'
  BY <1>1, <1>2, <1>5 DEF Accept, GetTypeOK, ApiType
<1>6. ASSUME GetInvalid
      PROVE  GetTypeOK'
  BY <1>1, <1>2, <1>3, <1>6, ReplyTypes DEF GetInvalid, GetTypeOK
<1>7. ASSUME GetArray
      PROVE  GetTypeOK'
  <2>1. api' \in ApiType
    BY <1>1, <1>7 DEF GetArray, GetTypeOK, ApiType
  <2>2. dref' \in [Requests -> Nat] /\ answer' \in [Requests -> AnswerType]
    BY <1>1, <1>3, <1>7 DEF GetArray, GetTypeOK
  <2>. QED  BY <2>1, <2>2 DEF GetTypeOK
<1>8. ASSUME GetItem
      PROVE  GetTypeOK'
  <2>1. Append(api.vals, IF Readable(Item) THEN mapped[Item.obj] ELSE Zero)
          \in Seq(ValueType)
    BY <1>1, <1>8, ItemTypes, AppendProperties DEF GetItem, GetTypeOK, ApiType
  <2>. QED  BY <1>1, <1>8, <2>1 DEF GetItem, GetTypeOK, ApiType
<1>9. ASSUME GetCatch
      PROVE  GetTypeOK'
  <2>1. api' \in ApiType /\ answer' \in [Requests -> AnswerType]
    BY <1>1, <1>2, <1>3, <1>9, ReplyTypes DEF GetCatch, Remains
  <2>2. api.pc = "read" /\ dref' = [dref EXCEPT ![api.req] = @ - 1]
    BY <1>9 DEF GetCatch, Remains
  <2>3. dref' \in [Requests -> Nat]
    BY <1>1, <1>3, <1>4, <2>2 DEF GetTypeOK
  <2>. QED  BY <2>1, <2>3 DEF GetTypeOK
<1>10. ASSUME GetReply
       PROVE  GetTypeOK'
  <2>1. api' \in ApiType /\ answer' \in [Requests -> AnswerType]
    BY <1>1, <1>3, <1>10, ReplyTypes DEF GetReply, GetTypeOK, ApiType
  <2>2. api.pc = "read" /\ dref' = [dref EXCEPT ![api.req] = @ - 1]
    BY <1>10 DEF GetReply
  <2>3. dref' \in [Requests -> Nat]
    BY <1>1, <1>3, <1>4, <2>2 DEF GetTypeOK
  <2>. QED  BY <2>1, <2>3 DEF GetTypeOK
<1>11. ASSUME Return
       PROVE  GetTypeOK'
  BY <1>1, <1>2, <1>11, Constants DEF Return, ApiIdle, GetTypeOK, ApiType
<1>12. ASSUME NEW o \in Objects, NEW v \in Values, OnPdo(o, v)
       PROVE  GetTypeOK'
  BY <1>1, <1>12 DEF OnPdo, GetTypeOK
<1>. QED  BY <1>5, <1>6, <1>7, <1>8, <1>9, <1>10, <1>11, <1>12 DEF GetStep, ApiStep

LEMMA TypeInv ==
  ASSUME Inv, [Next]_vars
  PROVE  TypeOK'
<1>. USE DEF Inv
<1>1. ASSUME AddStep
      PROVE  TypeOK'
  <2>1. UNCHANGED <<given, running, mutex, loop, mapped, getState>>
    BY <1>1, Frames
  <2>2. pos \in Masters /\ pos' = pos + 1 /\ pos' \in 1..(Len(config) + 1)
    BY <1>1, Buses DEF AddStep, Add, AddFails, AddThrows, Adding
  <2>3. /\ masters' \in [Uids -> Masters \cup {Null}]
        /\ imasters' \in Seq(Masters \cup {Null})
        /\ alive' \subseteq Masters
        /\ main' \in {main, "undefined", "failed", "aborted"}
    <3>1. ASSUME Add PROVE <2>3!1 /\ <2>3!2 /\ <2>3!3 /\ <2>3!4
      BY <3>1, <2>2, RecordTypes DEF Add
    <3>2. ASSUME AddFails \/ AddThrows PROVE <2>3!1 /\ <2>3!2 /\ <2>3!3 /\ <2>3!4
      BY <3>2, <2>2 DEF AddFails, AddThrows, TypeOK
    <3>. QED  BY <1>1, <3>1, <3>2 DEF AddStep
  <2>4. /\ UNCHANGED <<config, faults, running, mutex, loop, mapped>>
        /\ UNCHANGED <<api, answer, dref, seen>>
    BY <2>1 DEF given, getState
  <2>5. Masters' = Masters
    BY <2>4 DEF Masters
  <2>. HIDE DEF Inv
  <2>6. TypeOK
    BY DEF Inv
  <2>. QED  BY <2>2, <2>3, <2>4, <2>5, <2>6 DEF TypeOK
<1>2. ASSUME HandshakeStep
      PROVE  TypeOK'
  <2>1. UNCHANGED <<given, setState, mapped, getState>>
    BY <1>2, Frames
  <2>2. /\ main' \in {main, "wait", "asleep", "woken", "start", "undefined"}
        /\ mutex' \in {"none", "main", "loop"}
        /\ loop' \in {"none", "created", "signal", "signalled", "running"}
    BY <1>2 DEF HandshakeStep, ExecStart, ExecWait, ExecSpurious, ExecWoken, LoopLock,
                LoopSignal, LoopUnlock, Synchro, TypeOK
  <2>3. /\ UNCHANGED <<config, faults, mapped, api, answer, dref, seen>>
        /\ UNCHANGED <<pos, masters, imasters, alive, running>>
    BY <2>1 DEF given, setState, getState
  <2>4. Masters' = Masters
    BY <2>3 DEF Masters
  <2>. HIDE DEF Inv
  <2>5. TypeOK
    BY DEF Inv
  <2>. QED  BY <2>2, <2>3, <2>4, <2>5 DEF TypeOK
<1>3. ASSUME StartStep
      PROVE  TypeOK'
  <2>1. UNCHANGED <<given, pos, masters, imasters, alive, mutex, loop, mapped, getState>>
    BY <1>3, Frames
  <2>2. main' \in {main, "aborted", "undefined", "serving"} /\ running' \subseteq Masters
    BY <1>3 DEF StartStep, Start, Started, setState, TypeOK
  <2>3. /\ UNCHANGED <<config, faults, pos, masters, imasters, alive, mutex, loop>>
        /\ UNCHANGED <<mapped, api, answer, dref, seen>>
    BY <2>1 DEF given, getState
  <2>4. Masters' = Masters
    BY <2>3 DEF Masters
  <2>. HIDE DEF Inv
  <2>5. TypeOK
    BY DEF Inv
  <2>. QED  BY <2>2, <2>3, <2>4, <2>5 DEF TypeOK
<1>4. ASSUME GetStep
      PROVE  TypeOK'
  <2>1. UNCHANGED <<given, main, setState, mutex, loop>>
    BY <1>4, Frames
  <2>2. mapped' \in [Objects -> Values] /\ seen' \subseteq Objects \X Values
    <3>1. ASSUME NEW r \in Requests, NEW q \in Queries, Accept(r, q)
          PROVE  <2>2!1 /\ <2>2!2
      BY <3>1 DEF Accept, TypeOK
    <3>2. ASSUME GetInvalid \/ GetArray \/ GetItem \/ GetCatch \/ GetReply
          PROVE  <2>2!1 /\ <2>2!2
      BY <3>2 DEF GetInvalid, GetArray, GetItem, GetCatch, GetReply, TypeOK
    <3>3. ASSUME Return
          PROVE  <2>2!1 /\ <2>2!2
      BY <3>3 DEF Return, TypeOK
    <3>4. ASSUME NEW o \in Objects, NEW v \in Values, OnPdo(o, v)
          PROVE  <2>2!1 /\ <2>2!2
      BY <3>4 DEF OnPdo, TypeOK
    <3>. QED  BY <1>4, <3>1, <3>2, <3>3, <3>4 DEF GetStep, ApiStep
  <2>3. GetTypeOK'
    BY <1>4, GetTypes
  <2>4. /\ UNCHANGED <<config, faults, main, mutex, loop>>
        /\ UNCHANGED <<pos, masters, imasters, alive, running>>
    BY <2>1 DEF given, setState
  <2>5. Masters' = Masters
    BY <2>4 DEF Masters
  <2>. HIDE DEF Inv
  <2>6. TypeOK
    BY DEF Inv
  <2>. QED  BY <2>2, <2>3, <2>4, <2>5, <2>6 DEF TypeOK, GetTypeOK, ApiType, AnswerType
<1>5. ASSUME UNCHANGED vars
      PROVE  TypeOK'
  BY <1>5 DEF vars, given, setState, getState, TypeOK, Masters
<1>. QED  BY <1>1, <1>2, <1>3, <1>4, <1>5, Steps

-----------------------------------------------------------------------------
(* The start.                                                              *)

LEMMA OrderInv ==
  ASSUME Inv, [Next]_vars
  PROVE  Order'
<1>. USE DEF Inv, Order
<1>1. ASSUME AddStep
      PROVE  Order'
  <2>1. UNCHANGED <<given, running, mutex, loop, mapped, getState>>
    BY <1>1, Frames
  <2>2. main = "add" /\ main' \in {"add", "undefined", "failed", "aborted"}
    BY <1>1 DEF AddStep, Add, AddFails, AddThrows, Adding, Record
  <2>. QED  BY <2>1, <2>2 DEF getState, given
<1>2. ASSUME HandshakeStep
      PROVE  Order'
  <2>1. UNCHANGED <<given, setState, mapped, getState>>
    BY <1>2, Frames
  <2>2. ASSUME ExecStart
        PROVE  main' = "wait" /\ main = "add" /\ pos = Len(config) + 1
    BY <2>2, Buses DEF ExecStart, TypeOK
  <2>3. ASSUME ExecWait \/ ExecSpurious \/ ExecWoken
        PROVE  /\ main \in {"wait", "asleep", "woken"}
               /\ main' \in {"asleep", "woken", "start"}
    BY <2>3 DEF ExecWait, ExecSpurious, ExecWoken
  <2>4. ASSUME LoopLock \/ LoopSignal \/ LoopUnlock
        PROVE  /\ main # "add"
               /\ \/ main' = main \/ main' = "undefined"
                  \/ main = "asleep" /\ main' = "woken"
    BY <2>4 DEF LoopLock, LoopSignal, LoopUnlock, Synchro
  <2>. QED  BY <1>2, <2>1, <2>2, <2>3, <2>4 DEF HandshakeStep, getState, setState, given
<1>3. ASSUME StartStep
      PROVE  Order'
  <2>1. UNCHANGED <<given, pos, masters, imasters, alive, mutex, loop, mapped, getState>>
    BY <1>3, Frames
  <2>2. main = "start" /\ main' \in {"start", "aborted", "undefined", "serving"}
    BY <1>3 DEF StartStep, Start, Started
  <2>. QED  BY <2>1, <2>2 DEF getState, given
<1>4. ASSUME GetStep
      PROVE  Order'
  <2>1. UNCHANGED <<given, main, setState, mutex, loop>>
    BY <1>4, Frames
  <2>2. api'.pc # "idle" => api'.req \in Requests /\ main \in {"serving", "undefined"}
    <3>1. ASSUME NEW r \in Requests, NEW q \in Queries, Accept(r, q)
          PROVE  <2>2
      BY <3>1 DEF Accept
    <3>2. ASSUME GetInvalid \/ GetArray \/ GetItem \/ GetCatch \/ GetReply
          PROVE  api.pc # "idle" /\ api'.req = api.req
      BY <3>2 DEF GetInvalid, GetArray, GetItem, GetCatch, GetReply, Reply, Remains, TypeOK
    <3>3. ASSUME Return
          PROVE  <2>2
      BY <3>3 DEF Return, ApiIdle
    <3>4. ASSUME NEW o \in Objects, NEW v \in Values, OnPdo(o, v)
          PROVE  <2>2
      BY <3>4 DEF OnPdo
    <3>. QED  BY <1>4, <3>1, <3>2, <3>3, <3>4 DEF GetStep, ApiStep
  <2>. QED  BY <2>1, <2>2 DEF setState, given
<1>5. ASSUME UNCHANGED vars
      PROVE  Order'
  BY <1>5 DEF vars, given, setState, getState
<1>. QED  BY <1>1, <1>2, <1>3, <1>4, <1>5, Steps

LEMMA HandshakeInv ==
  ASSUME Inv, [Next]_vars
  PROVE  Handshake'
<1>. USE DEF Inv, Handshake
<1>1. ASSUME AddStep
      PROVE  Handshake'
  <2>1. UNCHANGED <<given, running, mutex, loop, mapped, getState>>
    BY <1>1, Frames
  <2>2. main = "add" /\ main' \in {"add", "undefined", "failed", "aborted"}
    BY <1>1 DEF AddStep, Add, AddFails, AddThrows, Adding, Record
  <2>. QED  BY <2>1, <2>2 DEF given, Order
<1>2. ASSUME HandshakeStep
      PROVE  Handshake'
  <2>1. faults' = faults
    BY <1>2, Frames DEF given
  <2>2. ASSUME ExecStart \/ ExecWait \/ ExecSpurious \/ ExecWoken
        PROVE  Handshake'
    BY <2>1, <2>2 DEF ExecStart, ExecWait, ExecSpurious, ExecWoken, Order, TypeOK
  <2>3. ASSUME LoopLock \/ LoopSignal \/ LoopUnlock
        PROVE  Handshake'
    BY <2>1, <2>3 DEF LoopLock, LoopSignal, LoopUnlock, Synchro, Order, TypeOK
  <2>. QED  BY <1>2, <2>2, <2>3 DEF HandshakeStep
<1>3. ASSUME StartStep
      PROVE  Handshake'
  <2>1. UNCHANGED <<given, mutex, loop>>
    BY <1>3, Frames
  <2>2. main = "start" /\ main' \in {"start", "aborted", "undefined", "serving"}
    BY <1>3 DEF StartStep, Start, Started
  <2>. QED  BY <2>1, <2>2 DEF given
<1>4. ASSUME GetStep
      PROVE  Handshake'
  BY <1>4, Frames DEF given
<1>5. ASSUME UNCHANGED vars
      PROVE  Handshake'
  BY <1>5 DEF vars, given
<1>. QED  BY <1>1, <1>2, <1>3, <1>4, <1>5, Steps

-----------------------------------------------------------------------------
(* The masters.                                                            *)

LEMMA SameLength ==
  \A n \in Nat : 1..n = 1..4 => n = 4
<1>. SUFFICES ASSUME NEW n \in Nat, 1..n = 1..4
              PROVE  n = 4
  OBVIOUS
<1>1. 4 \in 1..n /\ (n >= 1 => n \in 1..n)
  OBVIOUS
<1>2. n \in 1..4
  BY <1>1
<1>. QED  BY <1>1, <1>2

LEMMA FirstMaster ==
  ASSUME TypeOK, Len(imasters) = 4
  PROVE  imasters[1] \in Masters \cup {Null} /\ imasters[1] \in Nat
<1>1. imasters \in Seq(Masters \cup {Null}) /\ 1 \in 1..Len(imasters)
  BY DEF TypeOK
<1>2. imasters[1] \in Masters \cup {Null}
  BY <1>1, ElementOfSeq
<1>. QED  BY <1>2, Buses DEF Null

\* What a recorded master does to the two containers and to who is left.
LEMMA RecordOwned ==
  ASSUME Inv, Add, main' # "undefined"
  PROVE  Owned'
<1>. USE DEF Inv
<1>1. /\ main = "add" /\ pos \in Masters /\ config[pos].add = "ok" /\ pos' = pos + 1
      /\ Record(pos) /\ UNCHANGED <<config, running>> /\ main' = "add"
      /\ running = {}
  BY Buses DEF Add, Adding, given, Record, Order, TypeOK
<1>2. /\ Len(imasters) = 4 /\ imasters[1] \in Nat /\ imasters[1] < pos
      /\ \A k \in 2..4 : imasters[k] = Null
      /\ alive = {imasters[1]} \ {Null}
      /\ \A u \in Uids : masters[u] \in Nat /\ masters[u] < pos
      /\ imasters[1] = Null => \A u \in Uids : masters[u] = Null
      /\ pos \in Nat \ {Null} /\ config[pos].uid \in Uids
      /\ \A i \in Masters : i < pos => config[i].add = "ok"
  <2>1. imasters \in Seq(Masters \cup {Null}) /\ Len(imasters) = 4
    BY <1>1 DEF TypeOK, Owned, Sound
  <2>2. imasters[1] \in Nat
    BY <2>1, FirstMaster
  <2>. QED  BY <1>1, <2>1, <2>2, Buses DEF Owned, Sound
<1>3. /\ masters' = [masters EXCEPT ![config[pos].uid] = pos]
      /\ imasters' = [k \in 1..4 |-> IF k = 1 THEN pos ELSE imasters[k]]
      /\ alive' = ((alive \cup {pos}) \ {masters[config[pos].uid]}) \ {imasters[1]}
      /\ masters[config[pos].uid] \in alive \cup {Null}
      /\ imasters[1] \in ((alive \cup {pos}) \ {masters[config[pos].uid]}) \cup {Null}
  BY <1>1, <1>2 DEF Record, Index
<1>4. alive' = {pos}
  BY <1>2, <1>3
<1>5. Len(imasters') = 4 /\ imasters'[1] = pos /\ \A k \in 2..4 : imasters'[k] = Null
  <2>1. imasters' \in [1..4 -> Masters \cup {Null}]
    BY <1>1, <1>2, <1>3, ElementOfSeq DEF TypeOK
  <2>2. imasters' \in Seq(Masters \cup {Null})
    BY <2>1, SeqDef
  <2>3. DOMAIN imasters' = 1..4
    BY <2>1
  <2>4. Len(imasters') \in Nat /\ DOMAIN imasters' = 1..Len(imasters')
    BY <2>2, LenProperties
  <2>5. Len(imasters') = 4
    BY <2>3, <2>4, SameLength, Zenon
  <2>. QED  BY <1>2, <1>3, <2>5
<1>6. /\ \A u \in Uids : masters'[u] < pos'
      /\ masters'[config[pos].uid] = pos
  BY <1>1, <1>2, <1>3 DEF TypeOK
<1>7. Masters' = Masters /\ \A i \in Masters : i < pos' => config'[i].add = "ok"
  BY <1>1, <1>2, Buses DEF Masters
<1>. QED  BY <1>1, <1>2, <1>4, <1>5, <1>6, <1>7 DEF Owned, Null

LEMMA OwnedInv ==
  ASSUME Inv, [Next]_vars
  PROVE  Owned'
<1>. USE DEF Inv
<1>0. ASSUME UNCHANGED <<config, pos, masters, imasters, alive, running>>, Sound,
             main' = "serving" => main = "serving"
      PROVE  Owned'
  BY <1>0 DEF Owned, Masters
<1>1. ASSUME AddStep
      PROVE  Owned'
  <2>1. ASSUME Add, main' # "undefined"
        PROVE  Owned'
    BY <2>1, RecordOwned
  <2>2. ASSUME ~Add \/ main' = "undefined"
        PROVE  ~Sound'
    BY <1>1, <2>2 DEF AddStep, AddFails, AddThrows, Sound
  <2>. QED  BY <2>1, <2>2 DEF Owned
<1>2. ASSUME HandshakeStep
      PROVE  Owned'
  <2>1. UNCHANGED <<config, pos, masters, imasters, alive, running>>
    BY <1>2, Frames DEF given, setState
  <2>2. Sound' => Sound /\ (main' = "serving" => main = "serving")
    BY <1>2 DEF HandshakeStep, ExecStart, ExecWait, ExecSpurious, ExecWoken, LoopLock,
                LoopSignal, LoopUnlock, Synchro, Sound
  <2>. QED  BY <1>0, <2>1, <2>2 DEF Owned
<1>3. ASSUME Start
      PROVE  Owned'
  <2>1. ASSUME Sound'
        PROVE  Owned'
    <3>1. PICK u \in Uids : /\ masters[u] \in alive
                            /\ running' = running \cup {masters[u]}
      BY <1>3, <2>1 DEF Start, Sound
    <3>2. /\ UNCHANGED <<config, pos, masters, imasters, alive>>
          /\ main' = "start" /\ Sound
      BY <1>3, <2>1 DEF Start, Sound, given
    <3>3. running' \subseteq {masters[w] : w \in Uids} \cap alive
      BY <3>1, <3>2 DEF Owned
    <3>. QED  BY <3>2, <3>3 DEF Owned, Masters
  <2>. QED  BY <2>1 DEF Owned
<1>4. ASSUME Started
      PROVE  Owned'
  <2>1. /\ UNCHANGED <<config, pos, masters, imasters, alive, running>>
        /\ Sound /\ \A u \in Uids : masters[u] \in running \cup {Null}
    BY <1>4 DEF Started, Sound, setState, given
  <2>. QED  BY <2>1 DEF Owned, Masters
<1>5. ASSUME GetStep
      PROVE  Owned'
  BY <1>5, Frames DEF given, setState, Owned, Masters, Sound
<1>6. ASSUME UNCHANGED vars
      PROVE  Owned'
  BY <1>6 DEF vars, given, setState, Owned, Masters, Sound
<1>. QED  BY <1>1, <1>2, <1>3, <1>4, <1>5, <1>6, Steps DEF StartStep

LEMMA SingleInv ==
  ASSUME Inv, [Next]_vars
  PROVE  Single'
<1>. USE DEF Inv
<1>. SUFFICES ASSUME Len(config) <= 1, "spurious" \notin faults
              PROVE  main' # "undefined" /\ (main' = "add" /\ pos' = 1 => alive' = {})
  BY Steps, Frames DEF Single, vars, given
<1>0. main # "undefined" /\ (main = "add" /\ pos = 1 => alive = {})
  BY DEF Single
<1>1. ASSUME AddStep
      PROVE  main' # "undefined" /\ pos' # 1
  <2>1. main = "add" /\ pos = 1 /\ pos' = 2 /\ alive = {}
    BY <1>0, <1>1, Buses DEF AddStep, Add, AddFails, AddThrows, Adding
  <2>2. \A u \in Uids : masters[u] = Null
    BY <2>1, Buses DEF Owned, Sound, Null
  <2>3. imasters[1] = Null /\ Len(imasters) = 4
    <3>1. imasters \in Seq(Masters \cup {Null}) /\ Len(imasters) = 4 /\ imasters[1] < 1
      BY <2>1 DEF TypeOK, Owned, Sound
    <3>2. imasters[1] \in Nat
      BY <3>1, FirstMaster
    <3>. QED  BY <3>1, <3>2 DEF Null
  <2>4. Add => config[1].uid \in Uids
    BY <2>1, Buses DEF Add, Adding, Masters
  <2>5. main' # "undefined"
    BY <1>1, <2>1, <2>2, <2>3, <2>4 DEF AddStep, Add, AddFails, AddThrows, Record, Index
  <2>. QED  BY <2>1, <2>5
<1>2. ASSUME HandshakeStep
      PROVE  main' # "undefined" /\ main' # "add"
  <2>1. ASSUME LoopLock \/ LoopSignal \/ LoopUnlock
        PROVE  main \in {"wait", "asleep", "woken"}
    BY <1>0, <2>1 DEF LoopLock, LoopSignal, LoopUnlock, Handshake, Order, TypeOK
  <2>. QED  BY <1>2, <2>1 DEF HandshakeStep, ExecStart, ExecWait, ExecSpurious, ExecWoken,
                LoopLock, LoopSignal, LoopUnlock, Synchro
<1>3. ASSUME StartStep
      PROVE  main' # "undefined" /\ main' # "add"
  <2>1. ASSUME Start
        PROVE  \A u \in Uids : masters[u] \in alive \cup {Null}
    <3>1. main = "start" /\ pos = Len(config) + 1 /\ pos <= 2
      BY <2>1, Buses DEF Start, Order
    <3>2. imasters[1] \in Nat
      <4>1. imasters \in Seq(Masters \cup {Null}) /\ Len(imasters) = 4
        BY <3>1 DEF TypeOK, Owned, Sound
      <4>. QED  BY <4>1, FirstMaster
    <3>. QED  BY <3>1, <3>2, Buses DEF Owned, Sound, Null
  <2>. QED  BY <1>3, <2>1 DEF StartStep, Start, Started
<1>4. ASSUME GetStep
      PROVE  main' # "undefined" /\ (main' = "add" /\ pos' = 1 => alive' = {})
  BY <1>0, <1>4, Frames DEF setState
<1>5. ASSUME UNCHANGED vars
      PROVE  main' # "undefined" /\ (main' = "add" /\ pos' = 1 => alive' = {})
  BY <1>0, <1>5 DEF vars, setState
<1>. QED  BY <1>1, <1>2, <1>3, <1>4, <1>5, Steps

-----------------------------------------------------------------------------
(* The verb get.                                                           *)

\* An item read is one more value of its time, and an item that cannot be is the
\* end of the request.
ReadsGoOn == Reads /\ GetAllOrNothing /\ ArrayReleased

LEMMA AcceptReads ==
  ASSUME Inv, NEW r \in Requests, NEW q \in Queries, Accept(r, q)
  PROVE  ReadsGoOn'
BY DEF Inv, Accept, ReadsGoOn, Reads, GetAllOrNothing, ArrayReleased

LEMMA ItemReads ==
  ASSUME Inv, GetItem
  PROVE  ReadsGoOn'
<1>. USE DEF Inv
<1>. DEFINE n == Len(api.vals)
            v == IF Readable(Item) THEN mapped[Item.obj] ELSE Zero
<1>1. /\ api.pc = "read" /\ Resolves(Item.itf) /\ Item = api.query.items[n + 1]
      /\ api' = [api EXCEPT !.vals = Append(api.vals, v)]
      /\ UNCHANGED <<imasters, mapped, dref, seen, answer>>
  BY DEF GetItem, Remains, Item, setState
<1>2. /\ n \in Nat /\ n + 1 \in 1..Len(api.query.items) /\ Item \in ItemType
      /\ v \in ValueType /\ api.vals \in Seq(ValueType)
  BY ItemTypes DEF GetItem, TypeOK
<1>3. /\ api'.vals = Append(api.vals, v) /\ api'.pc = "read"
      /\ api'.query = api.query /\ api'.req = api.req
  BY <1>1 DEF TypeOK
<1>4. /\ Len(api'.vals) = n + 1 /\ api'.vals[n + 1] = v
      /\ \A k \in 1..n : api'.vals[k] = api.vals[k]
  BY <1>2, <1>3, AppendProperties
<1>5. IF ReadsOther(Item) THEN <<Item.obj, v>> \in seen ELSE v = Zero
  BY <1>1, <1>2, ReadOther DEF Reads
<1>6. ASSUME NEW k \in 1..(n + 1)
      PROVE  /\ Resolves(api.query.items[k].itf)
             /\ IF ReadsOther(api.query.items[k])
                THEN <<api.query.items[k].obj, api'.vals[k]>> \in seen
                ELSE api'.vals[k] = Zero
  <2>1. k \in 1..n \/ k = n + 1
    BY <1>2
  <2>2. ASSUME k \in 1..n
        PROVE  <1>6!2
    BY <1>1, <1>4, <2>2 DEF Reads
  <2>3. ASSUME k = n + 1
        PROVE  <1>6!2
    BY <1>1, <1>4, <1>5, <2>3
  <2>. QED  BY <2>1, <2>2, <2>3
<1>7. Reads'
  <2>1. \A itf : Resolves(itf)' <=> Resolves(itf)
    BY <1>1 DEF Resolves
  <2>2. n + 1 <= Len(api.query.items)
    BY <1>2
  <2>3. \A o \in Objects : <<o, mapped'[o]>> \in seen'
    BY <1>1 DEF Reads
  <2>4. \A k \in 1..(n + 1) :
          /\ Resolves(api.query.items[k].itf)'
          /\ IF ReadsOther(api.query.items[k])
             THEN <<api.query.items[k].obj, api'.vals[k]>> \in seen'
             ELSE api'.vals[k] = Zero
    BY <1>1, <1>3, <1>6, <2>1
  <2>5. api'.query.items # <<>>
    BY <1>1, <1>3 DEF Reads
  <2>6. Len(api'.vals) <= Len(api'.query.items)
    BY <1>3, <1>4, <2>2
  <2>7. \A k \in 1..Len(api'.vals) :
          /\ Resolves(api.query.items[k].itf)'
          /\ IF ReadsOther(api.query.items[k])'
             THEN <<api'.query.items[k].obj, api'.vals[k]>> \in seen'
             ELSE api'.vals[k] = Zero
    BY <1>3, <1>4, <2>4
  <2>. QED  BY <1>3, <2>3, <2>5, <2>6, <2>7 DEF Reads
<1>8. GetAllOrNothing' /\ ArrayReleased'
  BY <1>1, <1>3 DEF GetAllOrNothing, ArrayReleased
<1>. QED  BY <1>7, <1>8 DEF ReadsGoOn

LEMMA ReplyReads ==
  ASSUME Inv, GetInvalid \/ GetCatch \/ GetReply
  PROVE  ReadsGoOn'
<1>. USE DEF Inv
<1>1. /\ api'.pc = "return" /\ api'.req = api.req /\ api'.query = api.query
      /\ api.req \in Requests
      /\ UNCHANGED <<imasters, mapped, seen>>
  BY DEF GetInvalid, GetCatch, GetReply, Reply, Remains, TypeOK, Order, setState
<1>2. \A itf : Resolves(itf)' <=> Resolves(itf)
  BY <1>1 DEF Resolves
<1>3. api.query.items \in Seq(ItemType) /\ Len(api.query.items) \in Nat
      /\ DOMAIN api.query.items = 1..Len(api.query.items)
  BY Constants, LenProperties DEF TypeOK
<1>4. Reads'
  BY <1>1 DEF Reads, GetInvalid, GetCatch, GetReply, Remains
<1>5. ArrayReleased'
  <2>1. ASSUME GetInvalid
        PROVE  ArrayReleased'
    BY <1>1, <2>1 DEF ArrayReleased, GetInvalid
  <2>2. ASSUME GetCatch \/ GetReply
        PROVE  api.pc = "read" /\ dref' = [dref EXCEPT ![api.req] = @ - 1]
    BY <2>2 DEF GetCatch, GetReply, Remains
  <2>3. ASSUME GetCatch \/ GetReply
        PROVE  ArrayReleased'
    BY <1>1, <2>2, <2>3 DEF ArrayReleased, TypeOK
  <2>. QED  BY <2>1, <2>3
<1>6. ASSUME GetInvalid
      PROVE  GetAllOrNothing'
  <2>1. /\ answer'[api.req].status = "error"
        /\ api.query.form # "client" \/ api.query.items = <<>>
    BY <1>1, <1>6 DEF GetInvalid, Reply, TypeOK
  <2>. QED  BY <1>1, <2>1 DEF GetAllOrNothing
<1>7. ASSUME GetCatch
      PROVE  GetAllOrNothing'
  <2>1. answer'[api.req].status = "error" /\ ~Resolves(Item.itf)
    BY <1>1, <1>7 DEF GetCatch, Reply, TypeOK
  <2>2. Len(api.vals) + 1 \in DOMAIN api.query.items
    BY <1>3, <1>7, ItemTypes DEF GetCatch
  <2>3. \E k \in DOMAIN api.query.items : ~Resolves(api.query.items[k].itf)
    BY <2>1, <2>2 DEF Item
  <2>. QED  BY <1>1, <1>2, <2>1, <2>3 DEF GetAllOrNothing
<1>8. ASSUME GetReply
      PROVE  GetAllOrNothing'
  <2>1. /\ answer'[api.req].status = "values" /\ answer'[api.req].vals = api.vals
        /\ api.pc = "read" /\ Len(api.vals) = Len(api.query.items)
    BY <1>1, <1>8 DEF GetReply, Reply, TypeOK
  <2>. QED  BY <1>1, <1>2, <1>3, <2>1 DEF GetAllOrNothing, Reads
<1>. QED  BY <1>4, <1>5, <1>6, <1>7, <1>8 DEF ReadsGoOn

LEMMA ReadsInv ==
  ASSUME Inv, [Next]_vars
  PROVE  ReadsGoOn'
<1>. USE DEF Inv
<1>0. ASSUME UNCHANGED <<imasters, mapped, getState>>
      PROVE  ReadsGoOn'
  BY <1>0 DEF ReadsGoOn, Reads, GetAllOrNothing, ArrayReleased, Resolves, getState
<1>1. ASSUME AddStep
      PROVE  ReadsGoOn'
  <2>1. api.pc = "idle" /\ UNCHANGED <<mapped, getState>>
    BY <1>1, Frames DEF Order, AddStep, Add, AddFails, AddThrows, Adding
  <2>. QED  BY <2>1 DEF ReadsGoOn, Reads, GetAllOrNothing, ArrayReleased, getState
<1>2. ASSUME HandshakeStep \/ StartStep \/ UNCHANGED vars
      PROVE  ReadsGoOn'
  BY <1>0, <1>2, Frames DEF setState, vars
<1>3. ASSUME GetStep
      PROVE  ReadsGoOn'
  <2>1. ASSUME GetArray
        PROVE  ReadsGoOn'
    <3>1. /\ api.pc = "dispatch" /\ api'.pc = "read" /\ api.req \in Requests
          /\ api.query.items # <<>>
          /\ api'.req = api.req /\ api'.query = api.query /\ api'.vals = <<>>
          /\ dref' = [dref EXCEPT ![api.req] = @ + 1]
          /\ UNCHANGED <<mapped, seen, imasters>>
      BY <2>1 DEF GetArray, TypeOK, Order, Reads, setState
    <3>2. api.query.items \in Seq(ItemType) /\ Len(api.query.items) \in Nat
      BY Constants, LenProperties DEF TypeOK
    <3>3. Len(api'.vals) = 0
      BY <3>1, EmptySeq
    <3>4. Reads'
      BY <3>1, <3>2, <3>3 DEF Reads
    <3>5. GetAllOrNothing' /\ ArrayReleased'
      BY <3>1 DEF GetAllOrNothing, ArrayReleased, TypeOK
    <3>. QED  BY <3>4, <3>5 DEF ReadsGoOn
  <2>2. ASSUME Return
        PROVE  ReadsGoOn'
    BY <2>2 DEF Return, ApiIdle, ReadsGoOn, Reads, GetAllOrNothing, ArrayReleased
  <2>3. ASSUME NEW o \in Objects, NEW v \in Values, OnPdo(o, v)
        PROVE  ReadsGoOn'
    <3>1. /\ mapped' = [mapped EXCEPT ![o] = v] /\ UNCHANGED <<imasters, api, answer, dref>>
          /\ seen \subseteq seen' /\ (api.pc # "idle" => <<o, v>> \in seen')
      BY <2>3 DEF OnPdo, setState
    <3>2. \A itf : Resolves(itf)' <=> Resolves(itf)
      BY <3>1 DEF Resolves
    <3>3. Reads'
      BY <3>1, <3>2 DEF Reads, TypeOK
    <3>4. GetAllOrNothing' /\ ArrayReleased'
      BY <3>1, <3>2 DEF GetAllOrNothing, ArrayReleased
    <3>. QED  BY <3>3, <3>4 DEF ReadsGoOn
  <2>. QED  BY <1>3, <2>1, <2>2, <2>3, AcceptReads, ItemReads, ReplyReads DEF GetStep, ApiStep
<1>. QED  BY <1>1, <1>2, <1>3, Steps

-----------------------------------------------------------------------------
(* The theorems.                                                           *)

LEMMA InitInv == Init => Inv
<1>. SUFFICES ASSUME Init
              PROVE  Inv
  OBVIOUS
<1>1. config \in Configs /\ config \in Seq(BusType) /\ Len(config) \in Nat
  BY ConfigsAssumption, LenProperties DEF Init
<1>2. imasters \in [1..4 -> Masters \cup {Null}]
  BY DEF Init
<1>3. imasters \in Seq(Masters \cup {Null})
  BY <1>2, SeqDef
<1>4. Len(imasters) = 4
  <2>1. DOMAIN imasters = 1..4
    BY <1>2
  <2>2. Len(imasters) \in Nat /\ DOMAIN imasters = 1..Len(imasters)
    BY <1>3, LenProperties
  <2>. QED  BY <2>1, <2>2, SameLength, Zenon
<1>5. <<>> \in Seq(ValueType)
  BY EmptySeq
<1>6. TypeOK
  BY <1>1, <1>3, <1>5, Constants DEF Init, TypeOK, ApiIdle, NoAnswer
<1>7. Order /\ Handshake /\ Single
  BY DEF Init, Order, Handshake, Single, ApiIdle
<1>8. Owned
  BY <1>4, <1>6, Buses DEF Init, Owned, Null
<1>9. Reads /\ GetAllOrNothing /\ ArrayReleased
  BY DEF Init, Reads, GetAllOrNothing, ArrayReleased, ApiIdle
<1>. QED  BY <1>6, <1>7, <1>8, <1>9 DEF Inv

LEMMA NextInv == Inv /\ [Next]_vars => Inv'
BY TypeInv, OrderInv, OwnedInv, HandshakeInv, SingleInv, ReadsInv DEF Inv, ReadsGoOn

LEMMA Invariance == Spec => []Inv
BY InitInv, NextInv, PTL DEF Spec

\* The state of the set, of its start and of get is well typed; no count of the
\* references on an array of values is negative.
THEOREM TypeCorrect == Spec => []TypeOK
<1>1. Inv => TypeOK
  BY DEF Inv
<1>. QED  BY <1>1, Invariance, PTL

\* With one bus and a wait that returns on a signal only, the program never uses
\* what it has deleted, and the loop thread is done with synchro_exec_start when
\* CANopenExec::start returns, for every configuration of the bus.
THEOREM NeverUndefined == Spec => []NothingUndefined
<1>1. Inv => NothingUndefined
  BY DEF Inv, Single, NothingUndefined
<1>. QED  BY <1>1, Invariance, PTL

\* Whatever the number of buses, when the binding serves each of them was added,
\* each master started, and the verb get finds no other master.
THEOREM AllServed == Spec => []ServesAll
<1>1. Inv => ServesAll
  <2>. SUFFICES ASSUME Inv, main = "serving"
                PROVE  ServesAll
    BY DEF ServesAll
  <2>1. /\ Len(imasters) = 4 /\ \A k \in 2..4 : imasters[k] = Null
        /\ \A i \in Masters : i < pos => config[i].add = "ok"
        /\ alive = {imasters[1]} \ {Null}
        /\ imasters[1] # Null => \E u \in Uids : masters[u] = imasters[1]
        /\ imasters[1] = Null => \A u \in Uids : masters[u] = Null
        /\ running \subseteq {masters[u] : u \in Uids} \cap alive
        /\ \A u \in Uids : masters[u] \in running \cup {Null}
        /\ pos = Len(config) + 1
    BY DEF Inv, Owned, Sound, Order
  <2>2. \A i \in Masters : config[i].add = "ok"
    BY <2>1, Buses DEF Inv
  <2>3. running = {imasters[1]} \ {Null}
    BY <2>1
  <2>4. {masters[u] : u \in Uids} \ {Null} = running
    BY <2>1, <2>3
  <2>5. DOMAIN imasters = 1..4
    BY <2>1, LenProperties DEF Inv, TypeOK
  <2>6. {imasters[k] : k \in DOMAIN imasters} \ {Null} = running
    BY <2>1, <2>3, <2>5
  <2>. QED  BY <2>2, <2>4, <2>6 DEF ServesAll
<1>. QED  BY <1>1, Invariance, PTL

\* The verb get answers with a value for each item, of its time if lely reads the
\* object as the type that the handler gives it and zero otherwise, or with an error,
\* which a query with a good array gets only for want of items or of an interface,
\* for any query, any PDO in between and whatever types lely reads each object as.
THEOREM AllOrNothing == Spec => []GetAllOrNothing
<1>1. Inv => GetAllOrNothing
  BY DEF Inv
<1>. QED  BY <1>1, Invariance, PTL

\* Whatever the path, the reference on the array of values is released once.
THEOREM NoLeak == Spec => []ArrayReleased
<1>1. Inv => ArrayReleased
  BY DEF Inv
<1>. QED  BY <1>1, Invariance, PTL
=============================================================================
