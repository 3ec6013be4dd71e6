------------------------- MODULE CANopenSlaveProof -------------------------
(***************************************************************************)
(* Proofs about CANopenSlave, for every configuration (any number of       *)
(* sensors, registers that they share or not, any list of items), any set  *)
(* of requests and any number of boots: the types, the order of what is    *)
(* asked during a boot and the first item of the configuration, which      *)
(* sensor of a register is notified, and that a slave with its sensors is  *)
(* still a CANopenSlaveDriver.  That its sensors are still CANopenSensors is *)
(* in CANopenSlaveSensorsProof.                                            *)
(***************************************************************************)
EXTENDS CANopenSlave, SequenceTheorems, WellFoundedInduction, TLAPS

-----------------------------------------------------------------------------
(* Induction over the naturals, for a set of them: by its least element     *)
(* the complement of such a set is empty.                                   *)

LEMMA LessThan == OpToRel(<, Nat) = {p \in Nat \X Nat : p[1] < p[2]}
  BY Zenon DEF OpToRel

LEMMA Least ==
  ASSUME NEW T, T \subseteq Nat, T # {}
  PROVE  \E x \in T : \A y \in T : x <= y
<1>1. PICK x \in T : \A y \in T : <<y, x>> \notin OpToRel(<, Nat)
  BY NatLessThanWellFounded, WFMin
<1>2. \A y \in T : ~(y < x)
  BY <1>1, LessThan
<1>. QED  BY <1>2

\* What holds of 0, and of n + 1 when it holds of n, holds up to N.
LEMMA UpTo ==
  ASSUME NEW N \in Nat, NEW T, 0 \in T,
         \A n \in 0..(N - 1) : n \in T => n + 1 \in T
  PROVE  \A n \in 0..N : n \in T
<1>. DEFINE F == (0..N) \ T
<1>1. SUFFICES ASSUME F # {} PROVE FALSE
  OBVIOUS
<1>2. F \subseteq Nat
  OBVIOUS
<1>. HIDE DEF F
<1>3. PICK x \in F : \A y \in F : x <= y
  BY <1>1, <1>2, Least
<1>4. x \in 0..N /\ x \notin T /\ x # 0
  BY <1>3 DEF F
<1>5. x - 1 \in 0..(N - 1) /\ (x - 1) + 1 = x /\ x - 1 < x
  BY <1>4
<1>6. x - 1 \notin F
  BY <1>2, <1>3, <1>5
<1>7. x - 1 \in T
  BY <1>5, <1>6 DEF F
<1>. QED  BY <1>4, <1>5, <1>7

-----------------------------------------------------------------------------
(***************************************************************************)
(* The inductive invariant.                                                *)
(***************************************************************************)
Holders == Requests \cup {Nobody}
OpType == [op : {"read", "write"}, to : Nat, owner : Holders, id : Ids,
           val : Values, from : Holders]
DoneType == [to : Nat, owner : Holders, ok : BOOLEAN, val : Values]
ApiType == [pc : {"idle", "dispatch", "store", "use", "subscribe", "return",
                  "terminated"},
            to : Nat, req : Holders, query : Queries, tmp : Values]
LoopType == [pc : {"idle", "store", "reply", "unref", "push", "pushed", "config"},
             to : Nat, owner : Holders, val : Values, heard : BOOLEAN]
AnswerType == [status : {"none", "ok", "error", "value"}, val : Values]
ReqType == [to : Nat, phase : {"new", "open", "gone"}, refs : Nat, replies : Nat,
            answer : AnswerType, seen : SUBSET Values, failed : BOOLEAN,
            boot : Nat]
SensType == [val : Values, active : BOOLEAN, listeners : SUBSET Clients,
             written : BOOLEAN]
ConfType == [state : {"none", "started", "ended", "booted"}, next : Nat \ {0},
             res : Nat, tried : Seq(Nat), threw : BOOLEAN]

Types ==
  /\ config \in Slaves /\ connected \in BOOLEAN
  /\ sens \in [Sensors -> SensType]
  /\ cell \in [Kinds \X Ids -> Values]
  /\ sdoq \in Seq(OpType) /\ done \in Seq(DoneType)
  /\ api \in ApiType /\ loop \in LoopType
  /\ req \in [Requests -> ReqType]
  /\ conf \in ConfType /\ boots \in 0..MaxBoots

\* Who an operation, a continuation or a handler is for.
OpFor(o) ==
  /\ o.to = Config => o.op = "write"
  /\ o.to # Config => o.to \in Sensors /\ Kind(o.to) = "SDO" /\ o.id = table[o.to].id
  /\ o.op = "write" => o.owner = Nobody
  /\ o.owner # Nobody => req[o.owner].to = o.to
  /\ o.from # Nobody => req[o.from].phase # "new"

DoneFor(d) ==
  /\ d.to # Config => d.to \in Sensors /\ Kind(d.to) = "SDO"
  /\ d.owner # Nobody => d.to # Config /\ req[d.owner].to = d.to

LoopFor ==
  /\ loop.pc \in {"idle", "config"} <=> loop.to = Config
  /\ loop.to # Config => loop.to \in Sensors
  /\ loop.pc \in {"reply", "unref"} => loop.owner # Nobody
  /\ loop.pc \in {"idle", "config", "push", "pushed"} => loop.owner = Nobody
  /\ loop.owner # Nobody => req[loop.owner].to = loop.to

ApiFor ==
  api.pc # "idle" =>
    /\ api.req # Nobody /\ api.to \in Sensors /\ req[api.req].to = api.to
    /\ api.pc \in {"store", "use"} =>
         /\ api.query.action \in {"read", "write"}
         /\ api.query.action = "write" => Kind(api.to) # "RPDO"

Shape ==
  /\ ApiFor /\ LoopFor
  /\ \A i \in 1..Len(sdoq) : OpFor(sdoq[i])
  /\ \A i \in 1..Len(done) : DoneFor(done[i])

In(q, r) == \E i \in 1..Len(q) : q[i].owner = r
Distinct(q) ==
  \A i, j \in 1..Len(q) :
    q[i].owner = q[j].owner /\ q[i].owner # Nobody => i = j

OnApi(r) == api.pc # "idle" /\ api.req = r
OnLoop(r) == loop.pc # "idle" /\ loop.owner = r
Async(r) == In(sdoq, r) \/ In(done, r) \/ OnLoop(r)

OnePlace ==
  /\ Distinct(sdoq) /\ Distinct(done)
  /\ \A r \in Requests : /\ ~(In(sdoq, r) /\ In(done, r))
                         /\ ~(In(sdoq, r) /\ OnLoop(r))
                         /\ ~(In(done, r) /\ OnLoop(r))

Counted(r) ==
  req[r].refs = (IF OnApi(r) THEN 1 ELSE 0) + (IF Async(r) THEN 1 ELSE 0)

Phased(r) ==
  /\ req[r].phase = "new"  => ~OnApi(r) /\ ~Async(r)
  /\ req[r].phase = "open" => OnApi(r) \/ Async(r)
  /\ req[r].phase = "gone" => ~OnApi(r) /\ ~Async(r)
  /\ IF req[r].phase = "new" THEN req[r].to = Config ELSE req[r].to \in Sensors

Handled(r) == Async(r) /\ OnApi(r) => api.pc = "return"

Books == \A r \in Requests : Counted(r) /\ Phased(r) /\ Handled(r)

\* One operation of the configuration at a time, and none outside of it.
HasItem(q) == \E i \in 1..Len(q) : q[i].to = Config
OneItem(q) == \A i, j \in 1..Len(q) : q[i].to = Config /\ q[j].to = Config => i = j

Configuring ==
  /\ OneItem(sdoq) /\ OneItem(done)
  /\ ~(HasItem(sdoq) /\ HasItem(done))
  /\ HasItem(sdoq) \/ HasItem(done) => conf.state = "started" /\ conf.tried # <<>>
  /\ loop.pc = "config" =>
       /\ ~HasItem(sdoq) /\ ~HasItem(done) /\ ~connected
       /\ conf.state = "started" /\ conf.tried = <<>>

\* Between OnConfig and the first item, no request of this boot passes.
Older(r) == r # Nobody => req[r].boot < boots

Passed ==
  /\ \A r \in Requests : req[r].boot <= boots
  /\ loop.pc = "config" => /\ \A i \in 1..Len(sdoq) : Older(sdoq[i].from)
                           /\ api.pc \in {"store", "use"} => Older(api.req)
  /\ FirstItemFirst

\* The sensor that m_regs has for its register.
Registered(s) == \A t \in Sensors : table[t].id = table[s].id => t <= s

Lasts ==
  /\ \A i \in 1..Len(sdoq) :
       sdoq[i].op = "read" /\ sdoq[i].owner = Nobody => Registered(sdoq[i].to)
  /\ \A i \in 1..Len(done) :
       done[i].owner = Nobody /\ done[i].to # Config => Registered(done[i].to)
  /\ loop.pc \in {"store", "push", "pushed"} /\ loop.owner = Nobody => Registered(loop.to)

Inv == Types /\ Shape /\ OnePlace /\ Books /\ Configuring /\ Passed /\ Lasts

-----------------------------------------------------------------------------
(* The constants, and the parts of a step that come back.                  *)

LEMMA Constants ==
  /\ ApiIdle \in ApiType /\ LoopIdle \in LoopType /\ NoConf \in ConfType
  /\ NoAnswer \in AnswerType /\ {} \in Values
  /\ Config \in Nat
  /\ \A q \in Queries : q \in QueryType
  /\ \A c \in Slaves : c \in SlaveType
BY QueriesAssumption, SlavesAssumption
DEF ApiIdle, ApiType, LoopIdle, LoopType, NoConf, ConfType, NoAnswer, AnswerType,
    NoQuery, Values, Holders, Config

\* The sensors of a slave are numbered from 1 on.
LEMMA SensorNumbers ==
  ASSUME Types
  PROVE  /\ Sensors \subseteq Nat \ {0}
         /\ \A s \in Sensors : table[s].kind \in Kinds /\ table[s].id \in Ids
<1>1. table \in Seq(SensorType)
  BY Constants DEF Types, SlaveType, table
<1>2. Sensors = 1..Len(table) /\ Len(table) \in Nat
  BY <1>1, LenProperties DEF Sensors
<1>3. \A s \in 1..Len(table) : table[s] \in SensorType
  BY <1>1, ElementOfSeq
<1>. QED  BY <1>2, <1>3 DEF SensorType

\* The answers and the histories of the requests do not tell who holds them.
Kept ==
  /\ req' \in [Requests -> ReqType]
  /\ \A r \in Requests : /\ req'[r].to = req[r].to /\ req'[r].phase = req[r].phase
                         /\ req'[r].refs = req[r].refs /\ req'[r].boot = req[r].boot

LEMMA SameKept ==
  ASSUME Types, UNCHANGED req
  PROVE  Kept
BY DEF Types, Kept

LEMMA AnsweredKept ==
  ASSUME Types, NEW r \in Requests, NEW status \in {"ok", "error", "value"},
         NEW val \in Values, req' = Answered(r, status, val)
  PROVE  Kept
<1>1. req[r] \in ReqType /\ req \in [Requests -> ReqType]
  BY DEF Types
<1>. DEFINE a == [status |-> status, val |-> val]
<1>2. a \in AnswerType
  BY DEF AnswerType
<1>. DEFINE new == [req[r] EXCEPT !.replies = @ + 1, !.answer = a]
<1>3. req' = [req EXCEPT ![r] = new]
  BY DEF Answered
<1>. HIDE DEF a
<1>4. /\ new \in ReqType
      /\ new.to = req[r].to /\ new.phase = req[r].phase
      /\ new.refs = req[r].refs /\ new.boot = req[r].boot
  <2>1. req[r].replies + 1 \in Nat
    BY <1>1 DEF ReqType
  <2>. QED  BY <1>1, <1>2, <2>1 DEF ReqType
<1>. HIDE DEF new
<1>. QED  BY <1>1, <1>3, <1>4 DEF Kept

LEMMA SawKept ==
  ASSUME Types, NEW S, NEW v \in Values, Saw(S, v)
  PROVE  Kept
<1>1. req \in [Requests -> ReqType]
  BY DEF Types
<1>2. ASSUME NEW r \in Requests
      PROVE  /\ req'[r] \in ReqType
             /\ req'[r].to = req[r].to /\ req'[r].phase = req[r].phase
             /\ req'[r].refs = req[r].refs /\ req'[r].boot = req[r].boot
  <2>1. req[r] \in ReqType
    BY <1>1
  <2>2. req'[r] = req[r] \/ req'[r] = [req[r] EXCEPT !.seen = @ \cup {v}]
    BY DEF Saw
  <2>. QED  BY <2>1, <2>2 DEF ReqType
<1>3. req' = [r \in Requests |-> req'[r]]
  BY DEF Saw
<1>. QED  BY <1>2, <1>3 DEF Kept

LEMMA FailedKept ==
  ASSUME Types, NEW r \in Requests, req' = [req EXCEPT ![r].failed = TRUE]
  PROVE  Kept
<1>1. req \in [Requests -> ReqType] /\ req[r] \in ReqType
  BY DEF Types
<1>. DEFINE e == [req[r] EXCEPT !.failed = TRUE]
<1>2. /\ e \in ReqType /\ e.to = req[r].to /\ e.phase = req[r].phase
      /\ e.refs = req[r].refs /\ e.boot = req[r].boot
  BY <1>1 DEF ReqType
<1>3. req' = [req EXCEPT ![r] = e]
  OBVIOUS
<1>. HIDE DEF e
<1>. QED  BY <1>1, <1>2, <1>3 DEF Kept

\* A step that leaves the queues and the loop alone leaves every request where it
\* is in the asynchronous part.
LEMMA AsyncSame ==
  ASSUME UNCHANGED <<sdoq, done, loop>>
  PROVE  /\ OnePlace => OnePlace'
         /\ \A r : (Async(r)' <=> Async(r)) /\ (OnLoop(r)' <=> OnLoop(r))
BY DEF OnePlace, Async, OnLoop, In, Distinct

\* The requests in the queues are not new, and stay those of their sensors as
\* long as no request but a new one is given away.
LEMMA ForKept ==
  ASSUME Inv, config' = config,
         \A r \in Requests : req[r].phase # "new" =>
           req'[r].to = req[r].to /\ req'[r].phase # "new"
  PROVE  /\ \A i \in 1..Len(sdoq) : \A o : o = sdoq[i] => OpFor(o)'
         /\ \A i \in 1..Len(done) : \A d : d = done[i] => DoneFor(d)'
         /\ loop.owner # Nobody /\ loop.pc # "idle" =>
              loop.owner \in Requests /\ req'[loop.owner].to = req[loop.owner].to
<1>1. \A r \in Requests : Async(r) => req[r].phase # "new"
  BY DEF Inv, Books, Phased
<1>2. ASSUME NEW i \in 1..Len(sdoq), NEW o, o = sdoq[i]
      PROVE  OpFor(o)'
  <2>1. OpFor(o) /\ o \in OpType
    BY <1>2, ElementOfSeq DEF Inv, Shape, Types
  <2>2. o.owner # Nobody => o.owner \in Requests /\ In(sdoq, o.owner)
    BY <1>2, <2>1 DEF In, OpType, Holders
  <2>3. o.owner # Nobody => req'[o.owner].to = req[o.owner].to
    BY <2>2, <1>1 DEF Async
  <2>4. o.from # Nobody => req'[o.from].phase # "new"
    BY <2>1 DEF OpFor, OpType, Holders
  <2>. QED  BY <2>1, <2>3, <2>4 DEF OpFor, Sensors, Kind, table
<1>3. ASSUME NEW i \in 1..Len(done), NEW d, d = done[i]
      PROVE  DoneFor(d)'
  <2>1. DoneFor(d) /\ d \in DoneType
    BY <1>3, ElementOfSeq DEF Inv, Shape, Types
  <2>2. d.owner # Nobody => d.owner \in Requests /\ In(done, d.owner)
    BY <1>3, <2>1 DEF In, DoneType, Holders
  <2>3. d.owner # Nobody => req'[d.owner].to = req[d.owner].to
    BY <2>2, <1>1 DEF Async
  <2>. QED  BY <2>1, <2>3 DEF DoneFor, Sensors, Kind, table
<1>4. loop.owner # Nobody /\ loop.pc # "idle" =>
        loop.owner \in Requests /\ req'[loop.owner].to = req[loop.owner].to
  <2>1. loop.owner # Nobody => loop.owner \in Requests
    BY DEF Inv, Types, LoopType, Holders
  <2>. QED  BY <2>1, <1>1 DEF Async, OnLoop
<1>. QED  BY <1>2, <1>3, <1>4

-----------------------------------------------------------------------------
(* Queues: what a record put behind the others, or the head taken away,     *)
(* changes.                                                                 *)

LEMMA AppendQueue ==
  ASSUME NEW S, NEW q \in Seq(S), NEW e \in S, NEW p, p = Append(q, e)
  PROVE  /\ p \in Seq(S) /\ Len(q) \in Nat /\ Len(p) = Len(q) + 1
         /\ \A i \in 1..Len(p) : \/ i \in 1..Len(q) /\ p[i] = q[i]
                                 \/ i = Len(q) + 1 /\ p[i] = e
         /\ \A i \in 1..Len(q) : i \in 1..Len(p) /\ p[i] = q[i]
         /\ Len(q) + 1 \in 1..Len(p) /\ p[Len(q) + 1] = e
<1>1. /\ p \in Seq(S)
      /\ Len(p) = Len(q) + 1
      /\ \A i \in 1..Len(q) : p[i] = q[i]
      /\ p[Len(q) + 1] = e
  BY AppendProperties
<1>2. Len(q) \in Nat
  BY LenProperties
<1>3. \A i \in 1..Len(p) : i \in 1..Len(q) \/ i = Len(q) + 1
  BY <1>1, <1>2
<1>4. \A i \in 1..Len(q) : i \in 1..Len(p)
  BY <1>1, <1>2
<1>5. Len(q) + 1 \in 1..Len(p)
  BY <1>1, <1>2
<1>. QED  BY <1>1, <1>2, <1>3, <1>4, <1>5

LEMMA TailQueue ==
  ASSUME NEW S, NEW q \in Seq(S), q # <<>>, NEW p, p = Tail(q)
  PROVE  /\ p \in Seq(S) /\ Head(q) \in S
         /\ Len(q) \in Nat \ {0} /\ Len(p) \in Nat /\ Len(p) = Len(q) - 1
         /\ \A i \in 1..Len(p) : i + 1 \in 1..Len(q) /\ i + 1 # 1 /\ p[i] = q[i + 1]
         /\ \A i \in 1..Len(q) : i = 1 \/ (i - 1 \in 1..Len(p) /\ p[i - 1] = q[i])
         /\ 1 \in 1..Len(q) /\ Head(q) = q[1]
<1>1. /\ p \in Seq(S)
      /\ Head(q) = q[1] /\ Head(q) \in S
      /\ Len(q) \in Nat \ {0}
      /\ Len(p) = Len(q) - 1
      /\ \A i \in 1..Len(p) : p[i] = q[i + 1]
  BY HeadTailProperties, LenProperties, EmptySeq
<1>2. \A i \in 1..Len(p) : i + 1 \in 1..Len(q) /\ i + 1 # 1
  BY <1>1
<1>3. \A i \in 1..Len(q) : i = 1 \/ (i - 1 \in 1..Len(p) /\ (i - 1) + 1 = i)
  BY <1>1
<1>4. 1 \in 1..Len(q) /\ Len(p) \in Nat
  BY <1>1
<1>5. \A i \in 1..Len(q) : i = 1 \/ (i - 1 \in 1..Len(p) /\ p[i - 1] = q[i])
  BY <1>1, <1>3
<1>. QED  BY <1>1, <1>2, <1>4, <1>5

LEMMA AppendOwners ==
  ASSUME NEW S, NEW q \in Seq(S), NEW e \in S, NEW p, p = Append(q, e), Distinct(q),
         e.owner = Nobody \/ ~In(q, e.owner)
  PROVE  /\ Distinct(p)
         /\ \A r : In(p, r) <=> In(q, r) \/ e.owner = r
<1>1. /\ \A i \in 1..Len(p) : \/ i \in 1..Len(q) /\ p[i] = q[i]
                              \/ i = Len(q) + 1 /\ p[i] = e
      /\ \A i \in 1..Len(q) : i \in 1..Len(p) /\ p[i] = q[i]
      /\ Len(q) + 1 \in 1..Len(p) /\ p[Len(q) + 1] = e
  BY AppendQueue
<1>2. Distinct(p)
  BY <1>1 DEF Distinct, In
<1>3. \A r : In(p, r) <=> In(q, r) \/ e.owner = r
  BY <1>1 DEF In
<1>. QED  BY <1>2, <1>3

LEMMA TailOwners ==
  ASSUME NEW S, NEW q \in Seq(S), q # <<>>, NEW p, p = Tail(q), Distinct(q)
  PROVE  /\ In(q, Head(q).owner)
         /\ Distinct(p)
         /\ \A r : r # Nobody => (In(p, r) <=> In(q, r) /\ Head(q).owner # r)
<1>1. /\ \A i \in 1..Len(p) : i + 1 \in 1..Len(q) /\ i + 1 # 1 /\ p[i] = q[i + 1]
      /\ \A i \in 1..Len(q) : i = 1 \/ (i - 1 \in 1..Len(p) /\ p[i - 1] = q[i])
      /\ 1 \in 1..Len(q) /\ Head(q) = q[1]
      /\ Len(p) \in Nat
  BY TailQueue
<1>2. In(q, Head(q).owner)
  BY <1>1 DEF In
<1>3. Distinct(p)
  <2>. SUFFICES ASSUME NEW i \in 1..Len(p), NEW j \in 1..Len(p),
                       p[i].owner = p[j].owner, p[i].owner # Nobody
                PROVE  i = j
    BY DEF Distinct
  <2>1. i + 1 = j + 1
    BY <1>1 DEF Distinct
  <2>. QED  BY <2>1, <1>1
<1>4. ASSUME NEW r, r # Nobody
      PROVE  In(p, r) <=> In(q, r) /\ Head(q).owner # r
  <2>1. ASSUME In(p, r)
        PROVE  In(q, r) /\ Head(q).owner # r
    <3>1. PICK i \in 1..Len(p) : p[i].owner = r
      BY <2>1 DEF In
    <3>2. i + 1 \in 1..Len(q) /\ q[i + 1].owner = r /\ i + 1 # 1
      BY <3>1, <1>1
    <3>. QED  BY <3>2, <1>1, <1>4 DEF In, Distinct
  <2>2. ASSUME In(q, r), Head(q).owner # r
        PROVE  In(p, r)
    <3>1. PICK i \in 1..Len(q) : q[i].owner = r
      BY <2>2 DEF In
    <3>2. i - 1 \in 1..Len(p) /\ p[i - 1] = q[i]
      BY <3>1, <2>2, <1>1
    <3>. QED  BY <3>1, <3>2 DEF In
  <2>. QED  BY <2>1, <2>2
<1>. QED  BY <1>2, <1>3, <1>4

LEMMA AppendItems ==
  ASSUME NEW S, NEW q \in Seq(S), NEW e \in S, NEW p, p = Append(q, e), OneItem(q),
         e.to # Config \/ ~HasItem(q)
  PROVE  /\ OneItem(p)
         /\ HasItem(p) <=> HasItem(q) \/ e.to = Config
<1>1. /\ \A i \in 1..Len(p) : \/ i \in 1..Len(q) /\ p[i] = q[i]
                              \/ i = Len(q) + 1 /\ p[i] = e
      /\ \A i \in 1..Len(q) : i \in 1..Len(p) /\ p[i] = q[i]
      /\ Len(q) + 1 \in 1..Len(p) /\ p[Len(q) + 1] = e
  BY AppendQueue
<1>2. OneItem(p)
  BY <1>1 DEF OneItem, HasItem
<1>3. HasItem(p) <=> HasItem(q) \/ e.to = Config
  BY <1>1 DEF HasItem
<1>. QED  BY <1>2, <1>3

LEMMA TailItems ==
  ASSUME NEW S, NEW q \in Seq(S), q # <<>>, NEW p, p = Tail(q), OneItem(q)
  PROVE  /\ OneItem(p)
         /\ HasItem(p) <=> HasItem(q) /\ Head(q).to # Config
<1>1. /\ \A i \in 1..Len(p) : i + 1 \in 1..Len(q) /\ i + 1 # 1 /\ p[i] = q[i + 1]
      /\ \A i \in 1..Len(q) : i = 1 \/ (i - 1 \in 1..Len(p) /\ p[i - 1] = q[i])
      /\ 1 \in 1..Len(q) /\ Head(q) = q[1]
      /\ Len(p) \in Nat
  BY TailQueue
<1>2. OneItem(p)
  <2>. SUFFICES ASSUME NEW i \in 1..Len(p), NEW j \in 1..Len(p),
                       p[i].to = Config, p[j].to = Config
                PROVE  i = j
    BY DEF OneItem
  <2>1. i + 1 = j + 1
    BY <1>1 DEF OneItem
  <2>. QED  BY <2>1, <1>1
<1>3. ASSUME HasItem(p)
      PROVE  HasItem(q) /\ Head(q).to # Config
  <2>1. PICK i \in 1..Len(p) : p[i].to = Config
    BY <1>3 DEF HasItem
  <2>2. i + 1 \in 1..Len(q) /\ q[i + 1].to = Config /\ i + 1 # 1
    BY <1>1, <2>1
  <2>. QED  BY <1>1, <2>2 DEF HasItem, OneItem
<1>4. ASSUME HasItem(q), Head(q).to # Config
      PROVE  HasItem(p)
  <2>1. PICK i \in 1..Len(q) : q[i].to = Config
    BY <1>4 DEF HasItem
  <2>2. i - 1 \in 1..Len(p) /\ p[i - 1] = q[i]
    BY <1>1, <1>4, <2>1
  <2>. QED  BY <2>1, <2>2 DEF HasItem
<1>. QED  BY <1>2, <1>3, <1>4

-----------------------------------------------------------------------------
(* The invariant holds at first, and the steps of the API thread keep it.  *)

LEMMA InitInv ==
  ASSUME Init
  PROVE  Inv
<1>1. Types
  <2>1. sens \in [Sensors -> SensType]
    BY DEF Init, SensType, Values
  <2>2. req \in [Requests -> ReqType]
    BY Constants DEF Init, ReqType, NewRequest
  <2>3. boots \in 0..MaxBoots
    BY BoundsAssumption DEF Init
  <2>4. sdoq \in Seq(OpType) /\ done \in Seq(DoneType)
    BY EmptySeq DEF Init
  <2>5. api \in ApiType /\ loop \in LoopType /\ conf \in ConfType
    BY Constants DEF Init
  <2>6. config \in Slaves /\ connected \in BOOLEAN /\ cell \in [Kinds \X Ids -> Values]
    BY DEF Init
  <2>. QED  BY <2>1, <2>2, <2>3, <2>4, <2>5, <2>6 DEF Types
<1>2. Len(sdoq) = 0 /\ Len(done) = 0
  BY EmptySeq DEF Init
<1>3. api.pc = "idle" /\ loop = LoopIdle /\ loop.pc = "idle" /\ loop.owner = Nobody
  BY DEF Init, ApiIdle, LoopIdle
<1>4. Shape
  BY <1>2, <1>3 DEF Shape, ApiFor, LoopFor, LoopIdle
<1>5. OnePlace /\ \A r \in Requests : ~OnApi(r) /\ ~Async(r)
  BY <1>2, <1>3 DEF OnePlace, Distinct, In, OnApi, OnLoop, Async
<1>6. Books
  BY <1>5 DEF Init, NewRequest, Books, Counted, Phased, Handled
<1>7. Configuring
  BY <1>2, <1>3 DEF Configuring, OneItem, HasItem
<1>8. Passed
  <2>1. Len(conf.tried) = 0
    BY EmptySeq DEF Init, NoConf
  <2>. QED  BY <1>3, <2>1 DEF Init, NewRequest, Passed, FirstItemFirst
<1>9. Lasts
  BY <1>2, <1>3 DEF Lasts
<1>. QED  BY <1>1, <1>4, <1>5, <1>6, <1>7, <1>8, <1>9 DEF Inv

\* The operations waiting, by their places.
LEMMA SdoqIndexed ==
  ASSUME Types
  PROVE  /\ DOMAIN sdoq = 1..Len(sdoq) /\ Len(sdoq) \in Nat
         /\ \A i \in 1..Len(sdoq) :
              sdoq[i] \in OpType /\ (sdoq[i].from # Nobody => sdoq[i].from \in Requests)
<1>1. sdoq \in Seq(OpType)
  BY DEF Types
<1>2. \A i \in 1..Len(sdoq) : sdoq[i] \in OpType
  BY <1>1, ElementOfSeq
<1>3. DOMAIN sdoq = 1..Len(sdoq) /\ Len(sdoq) \in Nat
  BY <1>1, LenProperties
<1>. QED  BY <1>2, <1>3 DEF OpType, Holders

\* What the handler on the API thread goes on with was not refused.
LEMMA NotRefused ==
  ASSUME Inv, NEW action, Dispatching(action)
  PROVE  /\ api.pc = "dispatch" /\ api.query.action = action
         /\ action \in {"read", "write"} => connected /\ loop.pc # "config"
         /\ action = "write" => Kind(me) # "RPDO"
         /\ action \in {"read", "subscribe", "unsubscribe"} => Kind(me) # "TPDO"
<1>1. api.pc = "dispatch" /\ api.query.action = action /\ ~Sensor(me)!Refused
  BY DEF Dispatching
<1>2. /\ action \in {"read", "write"} => connected
      /\ action = "write" => Kind(me) # "RPDO"
      /\ action \in {"read", "subscribe", "unsubscribe"} => Kind(me) # "TPDO"
  BY <1>1
  DEF Sensor!Refused, Sensor!CanEncode, Sensor!CanDecode, ApiOf, For, me, Kind
<1>3. connected => loop.pc # "config"
  BY DEF Inv, Configuring
<1>. QED  BY <1>1, <1>2, <1>3

\* A step of the handler that leaves the queues alone.
LEMMA HandlerInv ==
  ASSUME Inv, api.pc \notin {"idle", "return"}, Kept,
         api' \in ApiType, api'.to = api.to, api'.req = api.req,
         api'.pc \in {"store", "use", "subscribe", "return", "terminated"},
         api'.pc \in {"store", "use"} =>
           /\ api'.query.action \in {"read", "write"}
           /\ api'.query.action = "write" => Kind(api.to) # "RPDO"
           /\ loop.pc = "config" => api.pc \in {"store", "use"},
         sens' \in [Sensors -> SensType], cell' \in [Kinds \X Ids -> Values],
         UNCHANGED <<config, sdoq, done, loop, slave>>
  PROVE  Inv'
<1>1. Types'
  BY DEF Inv, Types, Kept, slave, Sensors, table
<1>2. /\ \A i \in 1..Len(sdoq) : OpFor(sdoq[i])'
      /\ \A i \in 1..Len(done) : DoneFor(done[i])'
  BY ForKept DEF Kept, OpFor, DoneFor
<1>3. Shape'
  <2>1. ApiFor'
    BY DEF Inv, Shape, ApiFor, Types, ApiType, Holders, Kept, Sensors, Kind, table
  <2>2. LoopFor'
    BY ForKept DEF Inv, Shape, LoopFor, Kept, Sensors, table
  <2>. QED  BY <1>2, <2>1, <2>2 DEF Shape
<1>4. OnePlace'
  BY AsyncSame DEF Inv
<1>5. \A r \in Requests : (OnApi(r)' <=> OnApi(r)) /\ (Async(r)' <=> Async(r))
  BY AsyncSame DEF OnApi
<1>6. Books'
  <2>1. ASSUME NEW r \in Requests
        PROVE  Counted(r)' /\ Phased(r)' /\ Handled(r)'
    <3>1. Counted(r) /\ Phased(r) /\ Handled(r)
      BY DEF Inv, Books
    <3>2. ~(Async(r) /\ OnApi(r))
      BY <3>1 DEF Handled
    <3>3. /\ req'[r].to = req[r].to /\ req'[r].phase = req[r].phase
          /\ req'[r].refs = req[r].refs
      BY DEF Kept
    <3>4. Counted(r)'
      BY <3>1, <3>3, <1>5 DEF Counted
    <3>5. Phased(r)'
      BY <3>1, <3>3, <1>5 DEF Phased, Sensors, table
    <3>6. Handled(r)'
      BY <3>2, <1>5 DEF Handled
    <3>. QED  BY <3>4, <3>5, <3>6
  <2>. QED  BY <2>1 DEF Books
<1>7. Configuring'
  BY DEF Inv, Configuring, slave, OneItem, HasItem
<1>8. Passed'
  <2>1. /\ \A i \in 1..Len(sdoq) : sdoq[i].from # Nobody => sdoq[i].from \in Requests
        /\ DOMAIN sdoq = 1..Len(sdoq)
    BY SdoqIndexed DEF Inv
  <2>2. FirstItemFirst'
    BY <2>1 DEF Inv, Passed, FirstItemFirst, Kept, slave
  <2>3. api.req # Nobody => api.req \in Requests
    BY DEF Inv, Types, ApiType, Holders
  <2>4. loop.pc = "config" => \A i \in 1..Len(sdoq) : Older(sdoq[i].from)'
    BY <2>1 DEF Inv, Passed, Older, Kept, slave
  <2>5. loop.pc = "config" /\ api'.pc \in {"store", "use"} => Older(api.req)'
    BY <2>3 DEF Inv, Passed, Older, Kept, slave
  <2>6. \A r \in Requests : req'[r].boot <= boots'
    BY DEF Inv, Passed, Kept, slave
  <2>. QED  BY <2>2, <2>4, <2>5, <2>6 DEF Passed, Older
<1>9. Lasts'
  BY DEF Inv, Lasts, Registered, Sensors, table
<1>. QED  BY <1>1, <1>3, <1>4, <1>6, <1>7, <1>8, <1>9 DEF Inv

DataType == [how : {"set", "on", "off", "clear", "keep", "bad"}, bits : Values]

LEMMA EncodeValue ==
  ASSUME NEW s, NEW d \in DataType, d.how # "bad", NEW v \in Values
  PROVE  Sensor(s)!Encode(d, v) \in Values
<1>1. d.how \in {"set", "on", "off", "clear", "keep"} /\ d.bits \in Values
  BY DEF DataType
<1>2. (v \cup d.bits) \cap WordBits \in Values
  BY <1>1 DEF Values
<1>3. Sensor(s)!Cleared(v, d.bits) \in Values
  BY DEF Sensor!Cleared, Values
<1>4. Sensor(s)!ClearedEach(v, d.bits) \in Values
  BY DEF Sensor!ClearedEach, Values
<1>. QED  BY <1>1, <1>2, <1>3, <1>4 DEF Sensor!Encode

\* Of the handlers on the API thread, those that submit nothing.
LEMMA ApiMoveInv ==
  ASSUME Inv,
         \/ Refuse \/ EncodeWrite \/ EncodeThrows \/ FetchRpdo \/ Store \/ ReplyRead
         \/ SubscribeMark \/ SubscribeAdd \/ Unsubscribe \/ (EmitWrite /\ UNCHANGED sdoq)
  PROVE  Inv'
<1>1. /\ Types /\ api \in ApiType
      /\ sens \in [Sensors -> SensType] /\ cell \in [Kinds \X Ids -> Values]
      /\ api.tmp \in Values /\ api.query \in QueryType
  BY Constants DEF Inv, Types, ApiType
<1>2. /\ api.pc \notin {"idle", "return"}
      /\ UNCHANGED <<config, sdoq, done, loop, slave>>
  BY DEF Refuse, EncodeWrite, EncodeThrows, FetchRpdo, Store, ReplyRead, SubscribeMark,
         SubscribeAdd, Unsubscribe, EmitWrite, Dispatching
<1>3. /\ api.req \in Requests /\ me \in Sensors
      /\ api.pc \in {"store", "use"} =>
           /\ api.query.action \in {"read", "write"}
           /\ api.query.action = "write" => Kind(me) # "RPDO"
  BY <1>2 DEF Inv, Shape, ApiFor, Types, ApiType, Holders, me
<1>4. /\ sens[me] \in SensType /\ sens[me].val \in Values /\ sens[me].listeners \subseteq Clients
      /\ Cell(me) \in Kinds \X Ids /\ cell[Cell(me)] \in Values
      /\ api.query.client \in Clients
  BY <1>1, <1>3, SensorNumbers DEF SensType, Cell, QueryType
<1>5. Kept
  <2>1. CASE Refuse
    BY <2>1, <1>1, <1>3, AnsweredKept, Constants DEF Refuse
  <2>2. CASE EncodeWrite \/ EncodeThrows \/ FetchRpdo \/ SubscribeMark
    BY <2>2, <1>1, SameKept DEF EncodeWrite, EncodeThrows, FetchRpdo, SubscribeMark
  <2>3. CASE Store
    BY <2>3, <1>1, SameKept, SawKept DEF Store
  <2>4. CASE ReplyRead
    BY <2>4, <1>1, <1>3, <1>4, AnsweredKept DEF ReplyRead
  <2>5. CASE EmitWrite
    BY <2>5, <1>1, <1>3, AnsweredKept, Constants DEF EmitWrite
  <2>6. CASE SubscribeAdd
    BY <2>6, <1>1, <1>3, AnsweredKept, Constants DEF SubscribeAdd
  <2>7. CASE Unsubscribe
    BY <2>7, <1>1, <1>3, AnsweredKept, Constants DEF Unsubscribe
  <2>. QED  BY <2>1, <2>2, <2>3, <2>4, <2>5, <2>6, <2>7
<1>6. cell' \in [Kinds \X Ids -> Values]
  BY <1>1, <1>4
  DEF Refuse, EncodeWrite, EncodeThrows, FetchRpdo, Store, ReplyRead, SubscribeMark,
      SubscribeAdd, Unsubscribe, EmitWrite
<1>7. sens' \in [Sensors -> SensType]
  <2>1. UNCHANGED sens \/ \E new \in SensType : sens' = [sens EXCEPT ![me] = new]
    <3>1. CASE UNCHANGED sens
      BY <3>1
    <3>2. CASE sens' = [sens EXCEPT ![me].val = api.tmp]
      <4>1. [sens[me] EXCEPT !.val = api.tmp] \in SensType
        BY <1>1, <1>4 DEF SensType
      <4>. QED  BY <3>2, <4>1
    <3>3. CASE sens' = [sens EXCEPT ![me].written = TRUE]
      <4>1. [sens[me] EXCEPT !.written = TRUE] \in SensType
        BY <1>4 DEF SensType
      <4>. QED  BY <3>3, <4>1
    <3>4. CASE sens' = [sens EXCEPT ![me].active = TRUE]
      <4>1. [sens[me] EXCEPT !.active = TRUE] \in SensType
        BY <1>4 DEF SensType
      <4>. QED  BY <3>4, <4>1
    <3>5. CASE sens' = [sens EXCEPT ![me].listeners = @ \cup {api.query.client}]
      <4>1. [sens[me] EXCEPT !.listeners = @ \cup {api.query.client}] \in SensType
        BY <1>4 DEF SensType
      <4>. QED  BY <3>5, <4>1
    <3>6. CASE sens' = [sens EXCEPT ![me].listeners = @ \ {api.query.client}]
      <4>1. [sens[me] EXCEPT !.listeners = @ \ {api.query.client}] \in SensType
        BY <1>4 DEF SensType
      <4>. QED  BY <3>6, <4>1
    <3>. QED  BY <3>1, <3>2, <3>3, <3>4, <3>5, <3>6
              DEF Refuse, EncodeWrite, EncodeThrows, FetchRpdo, Store, ReplyRead,
                  SubscribeMark, SubscribeAdd, Unsubscribe, EmitWrite
  <2>. QED  BY <2>1, <1>1
<1>8. /\ api' \in ApiType /\ api'.to = api.to /\ api'.req = api.req
      /\ api'.pc \in {"store", "use", "subscribe", "return", "terminated"}
      /\ api'.pc \in {"store", "use"} =>
           /\ api'.query.action \in {"read", "write"}
           /\ api'.query.action = "write" => Kind(api.to) # "RPDO"
           /\ loop.pc = "config" => api.pc \in {"store", "use"}
  <2>1. CASE EncodeWrite
    <3>. DEFINE new == Sensor(me)!Encode(api.query.data, sens[me].val)
    <3>1. new \in Values
      <4>1. api.query.data.how # "bad"
        BY <2>1 DEF EncodeWrite
      <4>2. api.query.data \in DataType
        BY <1>1 DEF QueryType, DataType
      <4>. QED  BY <4>1, <4>2, <1>4, EncodeValue
    <3>2. api' = [api EXCEPT !.pc = "store", !.tmp = new]
      BY <2>1 DEF EncodeWrite
    <3>. HIDE DEF new
    <3>3. api.query.action = "write" /\ Kind(me) # "RPDO" /\ loop.pc # "config"
      BY <2>1, NotRefused DEF EncodeWrite
    <3>. QED  BY <1>1, <3>1, <3>2, <3>3 DEF ApiType, me
  <2>2. CASE FetchRpdo
    <3>1. api' = [api EXCEPT !.pc = "store", !.tmp = cell[Cell(me)]]
      BY <2>2 DEF FetchRpdo
    <3>2. api.query.action = "read" /\ loop.pc # "config"
      BY <2>2, NotRefused DEF FetchRpdo
    <3>. QED  BY <1>1, <1>4, <3>1, <3>2 DEF ApiType
  <2>3. CASE Store
    BY <2>3, <1>1, <1>3 DEF Store, ApiType, me
  <2>4. CASE SubscribeMark
    BY <2>4, <1>1 DEF SubscribeMark, ApiType
  <2>5. CASE api' = [api EXCEPT !.pc = "return"]
    BY <2>5, <1>1 DEF ApiType
  <2>6. CASE EncodeThrows
    BY <2>6, <1>1 DEF EncodeThrows, ApiType
  <2>. QED  BY <2>1, <2>2, <2>3, <2>4, <2>5, <2>6
            DEF Refuse, ReplyRead, SubscribeAdd, Unsubscribe, EmitWrite
<1>. QED  BY <1>2, <1>5, <1>6, <1>7, <1>8, HandlerInv

\* An operation of a sensor put behind the others.
LEMMA AppendInv ==
  ASSUME Inv, NEW e \in OpType, sdoq' = Append(sdoq, e), e.to # Config, OpFor(e)',
         e.owner # Nobody => ~Async(e.owner),
         e.op = "read" /\ e.owner = Nobody => Registered(e.to),
         loop.pc = "config" => Older(e.from),
         \A r \in Requests : /\ req'[r].to = req[r].to /\ req'[r].phase = req[r].phase
                             /\ req'[r].boot = req[r].boot,
         Types', ApiFor', api' = api \/ api'.pc = "return",
         UNCHANGED <<config, done, loop, slave>>
  PROVE  /\ \A r \in Requests : /\ Async(r)' <=> Async(r) \/ r = e.owner
                                /\ OnLoop(r)' <=> OnLoop(r)
         /\ Books' => Inv'
<1>1. /\ sdoq \in Seq(OpType) /\ Distinct(sdoq) /\ OneItem(sdoq)
      /\ e.owner # Nobody => e.owner \in Requests /\ ~In(sdoq, e.owner)
      /\ e.from # Nobody => e.from \in Requests
  BY DEF Inv, Types, OnePlace, Configuring, Async, OpType, Holders
<1>2. /\ Distinct(sdoq') /\ OneItem(sdoq')
      /\ HasItem(sdoq') <=> HasItem(sdoq)
      /\ \A r : In(sdoq', r) <=> In(sdoq, r) \/ e.owner = r
  <2>1. /\ Distinct(sdoq')
        /\ \A r : In(sdoq', r) <=> In(sdoq, r) \/ e.owner = r
    <3>1. e.owner = Nobody \/ ~In(sdoq, e.owner)
      BY <1>1
    <3>2. \A p : p = Append(sdoq, e) =>
            Distinct(p) /\ \A r : In(p, r) <=> In(sdoq, r) \/ e.owner = r
      BY <3>1, <1>1, AppendOwners
    <3>. QED  BY <3>2
  <2>2. OneItem(sdoq') /\ (HasItem(sdoq') <=> HasItem(sdoq) \/ e.to = Config)
    BY <1>1, AppendItems
  <2>. QED  BY <2>1, <2>2
<1>3. \A r : /\ In(sdoq, r)' <=> In(sdoq, r) \/ e.owner = r
             /\ In(done, r)' <=> In(done, r)
             /\ OnLoop(r)' <=> OnLoop(r)
  BY <1>2 DEF In, OnLoop
<1>4. \A r \in Requests : /\ Async(r)' <=> Async(r) \/ r = e.owner
                          /\ OnLoop(r)' <=> OnLoop(r)
  BY <1>3 DEF Async
<1>5. /\ Len(sdoq) \in Nat /\ Len(sdoq') \in Nat
      /\ DOMAIN sdoq = 1..Len(sdoq) /\ DOMAIN sdoq' = 1..Len(sdoq')
      /\ \A i \in 1..Len(sdoq') : \/ i \in 1..Len(sdoq) /\ sdoq'[i] = sdoq[i]
                                  \/ i = Len(sdoq) + 1 /\ sdoq'[i] = e
  BY <1>1, AppendQueue, LenProperties DEF Types
<1>6. Shape'
  <2>1. \A i \in 1..Len(sdoq) : \A o : o = sdoq[i] => OpFor(o)'
    BY ForKept
  <2>2. \A i \in 1..Len(sdoq') : \A o : o = sdoq'[i] => OpFor(o)'
    BY <1>5, <2>1
  <2>3. \A i \in 1..Len(sdoq') : OpFor(sdoq[i])'
    BY <2>2 DEF OpFor
  <2>4. \A i \in 1..Len(done) : DoneFor(done[i])'
    BY ForKept DEF DoneFor
  <2>5. LoopFor'
    BY ForKept DEF Inv, Shape, LoopFor, Sensors, table
  <2>. QED  BY <2>3, <2>4, <2>5 DEF Shape
<1>7. OnePlace'
  <2>1. /\ Distinct(sdoq)' <=> Distinct(sdoq')
        /\ Distinct(done)' <=> Distinct(done)
    BY DEF Distinct
  <2>2. ASSUME NEW r \in Requests
        PROVE  /\ ~(In(sdoq, r)' /\ In(done, r)')
               /\ ~(In(sdoq, r)' /\ OnLoop(r)')
               /\ ~(In(done, r)' /\ OnLoop(r)')
    BY <1>3, NobodyAssumption DEF Inv, OnePlace, Async
  <2>. QED  BY <1>2, <2>1, <2>2 DEF Inv, OnePlace
<1>8. Configuring'
  <2>1. (OneItem(sdoq)' <=> OneItem(sdoq')) /\ (HasItem(sdoq)' <=> HasItem(sdoq'))
    BY DEF OneItem, HasItem
  <2>2. (OneItem(done)' <=> OneItem(done)) /\ (HasItem(done)' <=> HasItem(done))
    BY DEF OneItem, HasItem
  <2>. QED  BY <1>2, <2>1, <2>2 DEF Inv, Configuring, slave
<1>9. Passed'
  <2>1. \A i \in 1..Len(sdoq) : /\ sdoq[i].from # Nobody => sdoq[i].from \in Requests
                                /\ sdoq[i] \in OpType
    BY SdoqIndexed DEF Inv
  <2>2. FirstItemFirst'
    BY <1>5, <2>1 DEF Inv, Passed, FirstItemFirst, slave
  <2>3. loop.pc = "config" => \A i \in 1..Len(sdoq') : Older(sdoq[i].from)'
    BY <1>1, <1>5, <2>1 DEF Inv, Passed, Older, slave
  <2>4. api.req # Nobody => api.req \in Requests
    BY DEF Inv, Types, ApiType, Holders
  <2>5. loop.pc = "config" /\ api'.pc \in {"store", "use"} => Older(api.req)'
    BY <2>4 DEF Inv, Passed, Older, slave
  <2>6. \A r \in Requests : req'[r].boot <= boots'
    BY DEF Inv, Passed, slave
  <2>. QED  BY <2>2, <2>3, <2>5, <2>6 DEF Passed
<1>10. Lasts'
  <2>1. \A s : Registered(s)' <=> Registered(s)
    BY DEF Registered, Sensors, table
  <2>2. \A i \in 1..Len(sdoq') :
          sdoq'[i].op = "read" /\ sdoq'[i].owner = Nobody => Registered(sdoq'[i].to)
    BY <1>5 DEF Inv, Lasts
  <2>. QED  BY <2>1, <2>2 DEF Inv, Lasts, Registered
<1>. QED  BY <1>4, <1>6, <1>7, <1>8, <1>9, <1>10 DEF Inv

\* The requests of the API thread.
LEMMA ApiRequest ==
  ASSUME Inv, api.pc # "idle"
  PROVE  /\ api.req \in Requests /\ api.req # Nobody
         /\ me \in Sensors /\ me # Config /\ me \in Nat /\ req[api.req].to = me
         /\ req[api.req].phase = "open"
         /\ table[me].id \in Ids /\ Kind(me) \in Kinds
         /\ sens[me].val \in Values
<1>1. /\ api.req \in Requests /\ api.req # Nobody /\ me \in Sensors
      /\ req[api.req].to = me
  BY DEF Inv, Shape, ApiFor, Types, ApiType, Holders, me
<1>2. req[api.req].phase \in {"new", "open", "gone"}
  BY <1>1 DEF Inv, Types, ReqType
<1>3. OnApi(api.req)
  BY DEF OnApi
<1>4. req[api.req].phase = "open"
  BY <1>1, <1>2, <1>3 DEF Inv, Books, Phased
<1>5. me # Config /\ me \in Nat /\ table[me].id \in Ids /\ Kind(me) \in Kinds
  BY <1>1, SensorNumbers DEF Inv, Config, Kind
<1>6. sens[me].val \in Values
  BY <1>1 DEF Inv, Types, SensType
<1>. QED  BY <1>1, <1>4, <1>5, <1>6

\* A write of an SDO sensor joins the queue.
LEMMA EmitWriteInv ==
  ASSUME Inv, EmitWrite
  PROVE  Inv'
<1>1. CASE UNCHANGED sdoq
  BY <1>1, ApiMoveInv
<1>2. CASE ~UNCHANGED sdoq
  <2>1. /\ api.pc = "use" /\ api.query.action = "write" /\ Kind(me) # "TPDO"
        /\ sdoq' = Append(sdoq, SdoOp("write", me, Nobody, sens[me].val, api.req))
        /\ sens' = [sens EXCEPT ![me].written = TRUE]
        /\ req' = Answered(api.req, "ok", {})
        /\ api' = [api EXCEPT !.pc = "return"]
        /\ UNCHANGED <<config, cell, done, loop, slave>>
    BY <1>2 DEF EmitWrite
  <2>2. /\ api.req \in Requests /\ api.req # Nobody
        /\ me \in Sensors /\ me # Config /\ me \in Nat /\ req[api.req].to = me
        /\ req[api.req].phase = "open"
        /\ table[me].id \in Ids /\ Kind(me) \in Kinds
        /\ sens[me].val \in Values
    BY <2>1, ApiRequest
  <2>3. PICK e \in OpType : /\ sdoq' = Append(sdoq, e)
                            /\ e.op = "write" /\ e.to = me /\ e.owner = Nobody
                            /\ e.id = table[me].id /\ e.from = api.req
    BY <2>1, <2>2 DEF OpType, Holders, SdoOp
  <2>4. Kind(me) = "SDO"
    BY <2>1, <2>2 DEF Inv, Shape, ApiFor, Kinds, me
  <2>5. Kept
    BY <2>1, <2>2, AnsweredKept, Constants DEF Inv
  <2>6. OpFor(e)'
    <3>1. Sensors' = Sensors /\ table' = table
      BY <2>1 DEF Sensors, table
    <3>2. req'[api.req].phase # "new"
      BY <2>2, <2>5 DEF Kept
    <3>. QED  BY <2>2, <2>3, <2>4, <3>1, <3>2 DEF OpFor, Kind
  <2>7. api' \in ApiType /\ api'.pc = "return" /\ api'.to = me /\ api'.req = api.req
    BY <2>1 DEF Inv, Types, ApiType, me
  <2>8. Types'
    <3>1. sdoq' \in Seq(OpType)
      BY <2>1, <2>3, AppendProperties DEF Inv, Types
    <3>2. [sens[me] EXCEPT !.written = TRUE] \in SensType
      <4>1. sens[me] \in SensType
        BY <2>2 DEF Inv, Types
      <4>. QED  BY <4>1 DEF SensType
    <3>3. sens' \in [Sensors -> SensType]
      BY <2>1, <2>2, <3>2 DEF Inv, Types
    <3>. QED  BY <2>1, <2>5, <2>7, <3>1, <3>3 DEF Inv, Types, Kept, slave, Sensors, table
  <2>9. ApiFor'
    BY <2>1, <2>2, <2>5, <2>7 DEF ApiFor, Kept, Sensors, Kind, table
  <2>10. loop.pc = "config" => Older(e.from)
    BY <2>1, <2>3 DEF Inv, Passed
  <2>11. /\ \A r \in Requests : /\ Async(r)' <=> Async(r) \/ r = e.owner
                                /\ OnLoop(r)' <=> OnLoop(r)
         /\ Books' => Inv'
    <3>1. /\ e.to # Config
          /\ e.owner # Nobody => ~Async(e.owner)
          /\ e.op = "read" /\ e.owner = Nobody => Registered(e.to)
          /\ api' = api \/ api'.pc = "return"
      BY <2>2, <2>3, <2>7
    <3>2. \A r \in Requests : /\ req'[r].to = req[r].to /\ req'[r].phase = req[r].phase
                             /\ req'[r].boot = req[r].boot
      BY <2>5 DEF Kept
    <3>. QED  BY <2>1, <2>3, <2>6, <2>8, <2>9, <2>10, <3>1, <3>2, AppendInv
  <2>12. Books'
    <3>1. ASSUME NEW r \in Requests
          PROVE  Counted(r)' /\ Phased(r)' /\ Handled(r)'
      <4>1. Counted(r) /\ Phased(r) /\ Handled(r)
        BY DEF Inv, Books
      <4>2. OnApi(r)' <=> OnApi(r)
        BY <2>1, <2>7 DEF OnApi
      <4>3. Async(r)' <=> Async(r)
        BY <2>3, <2>11, NobodyAssumption
      <4>4. /\ req'[r].to = req[r].to /\ req'[r].phase = req[r].phase
            /\ req'[r].refs = req[r].refs
        BY <2>5 DEF Kept
      <4>5. Phased(r)'
        BY <2>1, <4>1, <4>2, <4>3, <4>4 DEF Phased, Sensors, table
      <4>. QED  BY <2>7, <4>1, <4>2, <4>3, <4>4, <4>5 DEF Counted, Handled
    <3>. QED  BY <3>1 DEF Books
  <2>. QED  BY <2>11, <2>12
<1>. QED  BY <1>1, <1>2

\* The asynchronous read gives its request to the SDO client.
LEMMA ReadSdoInv ==
  ASSUME Inv, ReadSdo
  PROVE  Inv'
<1>1. /\ api.pc = "dispatch" /\ Kind(me) = "SDO" /\ loop.pc # "config"
      /\ sdoq' = Append(sdoq, SdoOp("read", me, api.req, {}, api.req))
      /\ req' = [req EXCEPT ![api.req].refs = @ + 1]
      /\ api' = [api EXCEPT !.pc = "return"]
      /\ UNCHANGED <<config, sens, cell, done, loop, slave>>
  BY NotRefused DEF ReadSdo
<1>2. /\ api.req \in Requests /\ api.req # Nobody
      /\ me \in Sensors /\ me # Config /\ me \in Nat /\ req[api.req].to = me
      /\ req[api.req].phase = "open"
      /\ table[me].id \in Ids /\ Kind(me) \in Kinds
  BY <1>1, ApiRequest
<1>3. PICK e \in OpType : /\ sdoq' = Append(sdoq, e)
                          /\ e.op = "read" /\ e.to = me /\ e.owner = api.req
                          /\ e.id = table[me].id /\ e.from = api.req
  <2>1. {} \in Values
    BY Constants
  <2>2. SdoOp("read", me, api.req, {}, api.req) \in OpType
    BY <1>2, <2>1 DEF OpType, Holders, SdoOp
  <2>. QED  BY <1>1, <2>2 DEF SdoOp
<1>4. OnApi(api.req) /\ ~Async(api.req)
  BY <1>1, <1>2 DEF OnApi, Inv, Books, Handled
<1>5. /\ req' \in [Requests -> ReqType]
      /\ \A r \in Requests :
           /\ req'[r].to = req[r].to /\ req'[r].phase = req[r].phase
           /\ req'[r].boot = req[r].boot
           /\ req'[r].refs = IF r = api.req THEN req[r].refs + 1 ELSE req[r].refs
  <2>. DEFINE new == [req[api.req] EXCEPT !.refs = @ + 1]
  <2>1. req \in [Requests -> ReqType] /\ req[api.req] \in ReqType
    BY <1>2 DEF Inv, Types
  <2>2. /\ new \in ReqType /\ new.to = req[api.req].to /\ new.phase = req[api.req].phase
        /\ new.boot = req[api.req].boot /\ new.refs = req[api.req].refs + 1
    BY <2>1 DEF ReqType
  <2>3. req' = [req EXCEPT ![api.req] = new]
    BY <1>1
  <2>. HIDE DEF new
  <2>. QED  BY <2>1, <2>2, <2>3, <1>2
<1>6. OpFor(e)'
  <2>1. Sensors' = Sensors /\ table' = table
    BY <1>1 DEF Sensors, table
  <2>2. req'[api.req].phase # "new" /\ req'[api.req].to = me
    BY <1>2, <1>5
  <2>. QED  BY <1>1, <1>2, <1>3, <2>1, <2>2 DEF OpFor, Kind
<1>7. api' \in ApiType /\ api'.pc = "return" /\ api'.to = me /\ api'.req = api.req
  BY <1>1 DEF Inv, Types, ApiType, me
<1>8. Types'
  <2>1. sdoq' \in Seq(OpType)
    BY <1>1, <1>3, AppendProperties DEF Inv, Types
  <2>. QED  BY <1>1, <1>5, <1>7, <2>1 DEF Inv, Types, slave, Sensors, table
<1>9. ApiFor'
  BY <1>1, <1>2, <1>5, <1>7 DEF ApiFor, Sensors, Kind, table
<1>10. /\ \A r \in Requests : /\ Async(r)' <=> Async(r) \/ r = e.owner
                              /\ OnLoop(r)' <=> OnLoop(r)
       /\ Books' => Inv'
  <2>1. /\ e.to # Config
        /\ e.owner # Nobody => ~Async(e.owner)
        /\ e.op = "read" /\ e.owner = Nobody => Registered(e.to)
        /\ loop.pc = "config" => Older(e.from)
        /\ api' = api \/ api'.pc = "return"
    BY <1>1, <1>2, <1>3, <1>4, <1>7
  <2>2. \A r \in Requests : /\ req'[r].to = req[r].to /\ req'[r].phase = req[r].phase
                           /\ req'[r].boot = req[r].boot
    BY <1>5
  <2>. QED  BY <1>1, <1>3, <1>6, <1>8, <1>9, <2>1, <2>2, AppendInv
<1>11. Books'
  <2>1. ASSUME NEW r \in Requests
        PROVE  Counted(r)' /\ Phased(r)' /\ Handled(r)'
    <3>1. Counted(r) /\ Phased(r) /\ Handled(r) /\ req[r].refs \in Nat
      BY DEF Inv, Books, Types, ReqType
    <3>2. (OnApi(r)' <=> OnApi(r)) /\ (OnApi(r) <=> r = api.req)
      BY <1>1, <1>7 DEF OnApi
    <3>3. Async(r)' <=> Async(r) \/ r = api.req
      BY <1>3, <1>10
    <3>4. Counted(r)'
      BY <1>4, <1>5, <3>1, <3>2, <3>3 DEF Counted
    <3>5. Phased(r)'
      BY <1>1, <1>2, <1>5, <3>1, <3>2, <3>3 DEF Phased, Sensors, table
    <3>6. Handled(r)'
      BY <1>7 DEF Handled
    <3>. QED  BY <3>4, <3>5, <3>6
  <2>. QED  BY <2>1 DEF Books
<1>. QED  BY <1>10, <1>11

\* A reference that is dropped leaves the request to its other holder, if any.
LEMMA UnrefTypes ==
  ASSUME Inv, NEW r \in Requests, req[r].refs # 0, Unref(r)
  PROVE  /\ req' \in [Requests -> ReqType]
         /\ \A x \in Requests :
              /\ req'[x].to = req[x].to /\ req'[x].boot = req[x].boot
              /\ req'[x].refs = IF x = r THEN req[x].refs - 1 ELSE req[x].refs
              /\ req'[x].phase = IF x = r /\ req[x].refs = 1 THEN "gone" ELSE req[x].phase
<1>. DEFINE new == [req[r] EXCEPT !.refs = @ - 1,
                                  !.phase = IF req[r].refs = 1 THEN "gone" ELSE @]
<1>1. req \in [Requests -> ReqType] /\ req[r] \in ReqType
  BY DEF Inv, Types
<1>2. req[r].refs - 1 \in Nat
  BY <1>1 DEF ReqType
<1>3. /\ new \in ReqType /\ new.to = req[r].to /\ new.boot = req[r].boot
      /\ new.refs = req[r].refs - 1
      /\ new.phase = IF req[r].refs = 1 THEN "gone" ELSE req[r].phase
  BY <1>1, <1>2 DEF ReqType
<1>4. req' = [req EXCEPT ![r] = new]
  BY DEF Unref
<1>. HIDE DEF new
<1>. QED  BY <1>1, <1>3, <1>4

\* The handler returns its reference.
LEMMA ReturnInv ==
  ASSUME Inv, Return
  PROVE  Inv'
<1>1. /\ api.pc = "return" /\ Unref(api.req) /\ api' = ApiIdle
      /\ UNCHANGED <<config, sens, cell, sdoq, done, loop, slave>>
  BY DEF Return
<1>2. api.req \in Requests /\ req[api.req].phase = "open"
  BY <1>1, ApiRequest
<1>3. req[api.req].refs = 1 + (IF Async(api.req) THEN 1 ELSE 0)
  BY <1>1, <1>2 DEF Inv, Books, Counted, OnApi
<1>4. /\ req' \in [Requests -> ReqType]
      /\ \A x \in Requests :
           /\ req'[x].to = req[x].to /\ req'[x].boot = req[x].boot
           /\ req'[x].refs = IF x = api.req THEN req[x].refs - 1 ELSE req[x].refs
           /\ req'[x].phase = IF x = api.req /\ req[x].refs = 1 THEN "gone" ELSE req[x].phase
  BY <1>1, <1>2, <1>3, UnrefTypes
<1>5. api' \in ApiType /\ api'.pc = "idle"
  BY <1>1, Constants DEF ApiIdle
<1>6. Types'
  BY <1>1, <1>4, <1>5 DEF Inv, Types, slave, Sensors, table
<1>7. Shape'
  <2>1. \A r \in Requests : req[r].phase # "new" =>
          req'[r].to = req[r].to /\ req'[r].phase # "new"
    BY <1>4
  <2>2. /\ \A i \in 1..Len(sdoq) : OpFor(sdoq[i])'
        /\ \A i \in 1..Len(done) : DoneFor(done[i])'
    BY <1>1, <2>1, ForKept DEF OpFor, DoneFor
  <2>3. LoopFor'
    BY <1>1, <2>1, ForKept DEF Inv, Shape, LoopFor, Sensors, table
  <2>. QED  BY <1>1, <1>5, <2>2, <2>3 DEF Shape, ApiFor
<1>8. OnePlace'
  BY <1>1, AsyncSame DEF Inv
<1>9. Books'
  <2>1. ASSUME NEW r \in Requests
        PROVE  Counted(r)' /\ Phased(r)' /\ Handled(r)'
    <3>1. Counted(r) /\ Phased(r) /\ Handled(r) /\ req[r].refs \in Nat
      BY DEF Inv, Books, Types, ReqType
    <3>2. ~OnApi(r)' /\ (OnApi(r) <=> r = api.req)
      BY <1>1, <1>5 DEF OnApi
    <3>3. Async(r)' <=> Async(r)
      BY <1>1, AsyncSame
    <3>4. Counted(r)'
      BY <1>4, <3>1, <3>2, <3>3 DEF Counted
    <3>5. Phased(r)'
      BY <1>1, <1>2, <1>3, <1>4, <3>1, <3>2, <3>3 DEF Phased, Sensors, table
    <3>. QED  BY <3>2, <3>4, <3>5 DEF Handled
  <2>. QED  BY <2>1 DEF Books
<1>10. Configuring'
  BY <1>1 DEF Inv, Configuring, slave, OneItem, HasItem
<1>11. Passed'
  <2>1. \A i \in 1..Len(sdoq) : sdoq[i].from # Nobody => sdoq[i].from \in Requests
    BY SdoqIndexed DEF Inv
  <2>2. FirstItemFirst'
    BY <1>1, <1>4, <2>1, SdoqIndexed DEF Inv, Passed, FirstItemFirst, slave
  <2>3. loop.pc = "config" => \A i \in 1..Len(sdoq) : Older(sdoq[i].from)'
    BY <1>1, <1>4, <2>1 DEF Inv, Passed, Older, slave
  <2>4. \A r \in Requests : req'[r].boot <= boots'
    BY <1>1, <1>4 DEF Inv, Passed, slave
  <2>. QED  BY <1>1, <1>5, <2>2, <2>3, <2>4 DEF Passed, Older
<1>12. Lasts'
  BY <1>1 DEF Inv, Lasts, Registered, Sensors, table
<1>. QED  BY <1>6, <1>7, <1>8, <1>9, <1>10, <1>11, <1>12 DEF Inv

\* A request is accepted: it is held by the handler alone.
LEMMA AcceptInv ==
  ASSUME Inv, NEW r \in Requests, NEW s \in Sensors, NEW q \in Queries, Accept(r, s, q)
  PROVE  Inv'
<1>1. /\ api.pc = "idle" /\ req[r].phase = "new"
      /\ api' = [ApiIdle EXCEPT !.pc = "dispatch", !.to = s, !.req = r, !.query = q]
      /\ UNCHANGED <<config, sens, cell, sdoq, done, loop, slave>>
  BY DEF Accept
<1>2. s \in Nat \ {0} /\ Cell(s) \in Kinds \X Ids
  BY SensorNumbers DEF Inv, Cell
<1>3. /\ req' \in [Requests -> ReqType]
      /\ req'[r].to = s /\ req'[r].phase = "open" /\ req'[r].refs = 1 /\ req'[r].boot = boots
      /\ \A x \in Requests : x # r => req'[x] = req[x]
  <2>. DEFINE old == IF WritePending(s) THEN {} ELSE {cell[Cell(s)]}
              new == [req[r] EXCEPT !.to = s, !.phase = "open", !.refs = 1, !.seen = old,
                                    !.boot = boots]
  <2>1. req \in [Requests -> ReqType] /\ req[r] \in ReqType /\ boots \in Nat
    BY BoundsAssumption DEF Inv, Types
  <2>2. old \in SUBSET Values
    BY <1>2 DEF Inv, Types
  <2>3. req' = [req EXCEPT ![r] = new]
    BY DEF Accept
  <2>. HIDE DEF old
  <2>4. /\ new \in ReqType /\ new.to = s /\ new.phase = "open" /\ new.refs = 1
        /\ new.boot = boots
    BY <1>2, <2>1, <2>2 DEF ReqType
  <2>. HIDE DEF new
  <2>. QED  BY <2>1, <2>3, <2>4
<1>4. /\ api' \in ApiType /\ api'.pc = "dispatch" /\ api'.to = s /\ api'.req = r
  BY <1>1, <1>2, Constants DEF ApiType, ApiIdle, Holders
<1>5. Types'
  BY <1>1, <1>3, <1>4 DEF Inv, Types, slave, Sensors, table
<1>6. \A x \in Requests : req[x].phase # "new" =>
        req'[x].to = req[x].to /\ req'[x].phase # "new"
  BY <1>1, <1>3
<1>7. Shape'
  <2>1. /\ \A i \in 1..Len(sdoq) : OpFor(sdoq[i])'
        /\ \A i \in 1..Len(done) : DoneFor(done[i])'
    BY <1>1, <1>6, ForKept DEF OpFor, DoneFor
  <2>2. LoopFor'
    BY <1>1, <1>6, ForKept DEF Inv, Shape, LoopFor, Sensors, table
  <2>3. ApiFor'
    BY <1>1, <1>3, <1>4, NobodyAssumption DEF ApiFor, Sensors, table
  <2>. QED  BY <1>1, <2>1, <2>2, <2>3 DEF Shape
<1>8. OnePlace'
  BY <1>1, AsyncSame DEF Inv
<1>9. Books'
  <2>1. ASSUME NEW x \in Requests
        PROVE  Counted(x)' /\ Phased(x)' /\ Handled(x)'
    <3>1. Counted(x) /\ Phased(x) /\ Handled(x)
      BY DEF Inv, Books
    <3>2. (OnApi(x)' <=> x = r) /\ ~OnApi(x)
      BY <1>1, <1>4 DEF OnApi
    <3>3. Async(x)' <=> Async(x)
      BY <1>1, AsyncSame
    <3>4. x = r => ~Async(x)
      BY <1>1, <3>1 DEF Phased
    <3>5. Counted(x)'
      BY <1>3, <3>1, <3>2, <3>3, <3>4 DEF Counted
    <3>6. Phased(x)'
      BY <1>1, <1>3, <3>1, <3>2, <3>3, <3>4 DEF Phased, Sensors, table
    <3>7. Handled(x)'
      BY <3>2, <3>3, <3>4 DEF Handled
    <3>. QED  BY <3>5, <3>6, <3>7
  <2>. QED  BY <2>1 DEF Books
<1>10. Configuring'
  BY <1>1 DEF Inv, Configuring, slave, OneItem, HasItem
<1>11. Passed'
  <2>1. \A i \in 1..Len(sdoq) : sdoq[i].from # Nobody =>
          sdoq[i].from \in Requests /\ req[sdoq[i].from].phase # "new"
    BY SdoqIndexed DEF Inv, Shape, OpFor
  <2>2. \A i \in 1..Len(sdoq) : sdoq[i].from # Nobody => req'[sdoq[i].from] = req[sdoq[i].from]
    BY <1>1, <1>3, <2>1
  <2>3. FirstItemFirst'
    BY <1>1, <2>2, SdoqIndexed DEF Inv, Passed, FirstItemFirst, slave
  <2>4. loop.pc = "config" => \A i \in 1..Len(sdoq) : Older(sdoq[i].from)'
    BY <1>1, <2>2 DEF Inv, Passed, Older, slave
  <2>5. ASSUME NEW x \in Requests
        PROVE  req'[x].boot <= boots'
    BY <1>1, <1>3, BoundsAssumption DEF Inv, Passed, Types, slave
  <2>. QED  BY <1>1, <1>4, <2>3, <2>4, <2>5 DEF Passed, Older
<1>12. Lasts'
  BY <1>1 DEF Inv, Lasts, Registered, Sensors, table
<1>. QED  BY <1>5, <1>7, <1>8, <1>9, <1>10, <1>11, <1>12 DEF Inv

-----------------------------------------------------------------------------
(* The steps of the loop thread that serve the sensors.                    *)

\* The sensor that m_regs has for a register is the last one of that register.
LEMMA RegsIs ==
  ASSUME Types, NEW id
  PROVE  /\ Regs(id) \in Nat
         /\ Regs(id) # 0 => /\ Regs(id) \in Sensors /\ table[Regs(id)].id = id
                            /\ Registered(Regs(id))
         /\ \A s \in Sensors : table[s].id = id => s <= Regs(id) /\ Regs(id) # 0
<1>. DEFINE S == {s \in Sensors : table[s].id = id} \cup {0}
            T == {n \in Nat : \A s \in S : s <= n}
<1>1. table \in Seq(SensorType)
  BY Constants DEF Types, SlaveType, table
<1>2. Sensors = 1..Len(table) /\ Len(table) \in Nat
  BY <1>1, LenProperties DEF Sensors
<1>3. Len(table) \in T /\ T \subseteq Nat /\ S \subseteq Nat
  BY <1>2
<1>4. PICK m \in T : \A n \in T : m <= n
  BY <1>3, Least
<1>5. m \in S
  <2>. SUFFICES ASSUME m \notin S PROVE FALSE
    OBVIOUS
  <2>1. m # 0 /\ m \in Nat
    OBVIOUS
  <2>2. \A s \in S : s <= m - 1
    BY <2>1, <1>3
  <2>3. m - 1 \in T
    BY <2>1, <2>2
  <2>. QED  BY <2>1, <2>3, <1>4
<1>6. \A s \in S : m >= s
  BY <1>3, <1>4
<1>7. Regs(id) = Max(S)
  BY DEF Regs
<1>. HIDE DEF S, T
<1>8. Max(S) \in S /\ \A s \in S : Max(S) >= s
  BY <1>5, <1>6 DEF Max
<1>. USE DEF S
<1>9. \A s \in Sensors : s # 0
  BY <1>2
<1>10. Regs(id) \in Nat
  BY <1>3, <1>7, <1>8
<1>11. \A s \in Sensors : table[s].id = id => s \in Nat /\ s <= Regs(id) /\ Regs(id) # 0
  BY <1>2, <1>3, <1>7, <1>8, <1>9
<1>12. Regs(id) # 0 => Regs(id) \in Sensors /\ table[Regs(id)].id = id
  BY <1>7, <1>8
<1>. QED  BY <1>10, <1>11, <1>12 DEF Registered

\* A step of the loop that leaves the queues and the references alone.
LEMMA LoopInv ==
  ASSUME Inv, Kept, loop' \in LoopType, loop.pc # "config", loop'.pc # "config", LoopFor',
         \A r \in Requests : OnLoop(r)' <=> OnLoop(r),
         loop'.pc \in {"store", "push", "pushed"} /\ loop'.owner = Nobody =>
           Registered(loop'.to),
         sens' \in [Sensors -> SensType], cell' \in [Kinds \X Ids -> Values],
         UNCHANGED <<config, sdoq, done, api, slave>>
  PROVE  Inv'
<1>1. Types'
  BY DEF Inv, Types, Kept, slave, Sensors, table
<1>2. \A r \in Requests : /\ req'[r].to = req[r].to /\ req'[r].phase = req[r].phase
                          /\ req'[r].refs = req[r].refs /\ req'[r].boot = req[r].boot
  BY DEF Kept
<1>3. Shape'
  <2>1. /\ \A i \in 1..Len(sdoq) : OpFor(sdoq[i])'
        /\ \A i \in 1..Len(done) : DoneFor(done[i])'
    BY <1>2, ForKept DEF OpFor, DoneFor
  <2>2. ApiFor'
    BY <1>2 DEF Inv, Shape, ApiFor, Types, ApiType, Holders, Sensors, Kind, table
  <2>. QED  BY <2>1, <2>2 DEF Shape
<1>4. \A r \in Requests : /\ Async(r)' <=> Async(r)
                          /\ OnApi(r)' <=> OnApi(r)
                          /\ In(sdoq, r)' <=> In(sdoq, r)
                          /\ In(done, r)' <=> In(done, r)
  BY DEF Async, In, OnApi
<1>5. OnePlace'
  BY <1>4 DEF Inv, OnePlace, Distinct
<1>6. Books'
  <2>1. ASSUME NEW r \in Requests
        PROVE  Counted(r)' /\ Phased(r)' /\ Handled(r)'
    <3>1. Counted(r) /\ Phased(r) /\ Handled(r)
      BY DEF Inv, Books
    <3>2. Counted(r)'
      BY <3>1, <1>2, <1>4 DEF Counted
    <3>3. Phased(r)'
      BY <3>1, <1>2, <1>4 DEF Phased, Sensors, table
    <3>4. Handled(r)'
      BY <3>1, <1>4 DEF Handled
    <3>. QED  BY <3>2, <3>3, <3>4
  <2>. QED  BY <2>1 DEF Books
<1>7. Configuring'
  BY DEF Inv, Configuring, slave, OneItem, HasItem
<1>8. Passed'
  <2>1. FirstItemFirst'
    BY <1>2, SdoqIndexed DEF Inv, Passed, FirstItemFirst, slave
  <2>2. \A r \in Requests : req'[r].boot <= boots'
    BY <1>2 DEF Inv, Passed, slave
  <2>. QED  BY <2>1, <2>2 DEF Passed
<1>9. Lasts'
  BY DEF Inv, Lasts, Registered, Sensors, table
<1>. QED  BY <1>1, <1>3, <1>5, <1>6, <1>7, <1>8, <1>9 DEF Inv

\* The sensor and the request that the loop serves.
LEMMA LoopServes ==
  ASSUME Inv, loop.pc \notin {"idle", "config"}
  PROVE  /\ loop.to \in Sensors /\ loop.to # Config /\ sens[loop.to] \in SensType
         /\ loop \in LoopType
         /\ loop.owner # Nobody =>
              loop.owner \in Requests /\ req[loop.owner].phase \in {"open"}
         /\ loop.pc \in {"reply", "unref"} => loop.owner # Nobody
         /\ loop.pc \in {"push", "pushed"} => loop.owner = Nobody
<1>1. loop \in LoopType
  BY DEF Inv, Types
<1>2. /\ loop.to \in Sensors /\ loop.to # Config
      /\ loop.pc \in {"reply", "unref"} => loop.owner # Nobody
      /\ loop.pc \in {"push", "pushed"} => loop.owner = Nobody
  BY DEF Inv, Shape, LoopFor
<1>3. sens[loop.to] \in SensType
  BY <1>2 DEF Inv, Types
<1>4. ASSUME loop.owner # Nobody
      PROVE  loop.owner \in Requests /\ req[loop.owner].phase = "open"
  <2>1. loop.owner \in Requests
    BY <1>1, <1>4 DEF LoopType, Holders
  <2>2. OnLoop(loop.owner) /\ Async(loop.owner)
    BY DEF OnLoop, Async
  <2>3. req[loop.owner].phase \in {"new", "open", "gone"}
    BY <2>1 DEF Inv, Types, ReqType
  <2>. QED  BY <2>1, <2>2, <2>3 DEF Inv, Books, Phased
<1>. QED  BY <1>1, <1>2, <1>3, <1>4

LEMMA LoopMoveInv ==
  ASSUME Inv, LoopStore \/ LoopReply \/ Push \/ Pushed
  PROVE  Inv'
<1>1. /\ loop.pc \in {"store", "reply", "push", "pushed"}
      /\ UNCHANGED <<config, cell, sdoq, done, api, slave>>
  BY DEF LoopStore, LoopReply, Push, Pushed
<1>2. /\ loop.to \in Sensors /\ loop.to # Config /\ sens[loop.to] \in SensType
      /\ loop \in LoopType
      /\ loop.owner # Nobody => loop.owner \in Requests
      /\ loop.pc = "reply" => loop.owner # Nobody
      /\ loop.pc \in {"push", "pushed"} => loop.owner = Nobody
  BY <1>1, LoopServes
<1>3. Types
  BY DEF Inv
<1>4. Kept
  <2>1. CASE UNCHANGED req
    BY <2>1, <1>3, SameKept
  <2>2. CASE LoopReply
    <3>1. sens[loop.to].val \in Values /\ loop.owner \in Requests
      BY <2>2, <1>2 DEF SensType, LoopReply
    <3>. QED  BY <2>2, <3>1, <1>3, AnsweredKept DEF LoopReply
  <2>. QED  BY <2>1, <2>2 DEF LoopStore, LoopReply, Push, Pushed
<1>5. sens' \in [Sensors -> SensType]
  <2>1. CASE LoopStore
    <3>1. [sens[loop.to] EXCEPT !.val = loop.val] \in SensType
      BY <1>2 DEF SensType, LoopType
    <3>. QED  BY <2>1, <3>1, <1>2, <1>3 DEF LoopStore, Types
  <2>2. CASE Pushed
    <3>1. [sens[loop.to] EXCEPT !.active = sens[loop.to].active /\ loop.heard] \in SensType
      BY <1>2, Zenon DEF SensType, LoopType
    <3>. QED  BY <2>2, <3>1, <1>2, <1>3 DEF Pushed, Types
  <2>3. CASE UNCHANGED sens
    BY <2>3, <1>3 DEF Types
  <2>. QED  BY <2>1, <2>2, <2>3 DEF LoopReply, Push
<1>6. loop' \in LoopType /\ loop'.pc # "config"
  <2>1. CASE LoopStore
    BY <2>1, <1>2 DEF LoopStore, LoopType
  <2>2. CASE LoopReply
    BY <2>2, <1>2 DEF LoopReply, LoopType
  <2>3. CASE Push
    <3>1. sens[loop.to].val \in Values
      BY <1>2 DEF SensType
    <3>. QED  BY <2>3, <3>1, <1>2 DEF Push, LoopType
  <2>4. CASE Pushed
    BY <2>4, Constants DEF Pushed, LoopIdle
  <2>. QED  BY <2>1, <2>2, <2>3, <2>4
<1>7. \/ /\ loop'.to = loop.to /\ loop'.owner = loop.owner
         /\ loop'.pc = "push" \/ loop'.pc = "pushed" => loop.owner = Nobody
         /\ loop'.pc \in {"reply", "unref"} => loop.owner # Nobody
         /\ loop'.pc \in {"reply", "unref", "push", "pushed"}
      \/ loop' = LoopIdle /\ loop.owner = Nobody
  <2>1. CASE LoopStore
    BY <2>1, <1>2 DEF LoopStore, LoopType
  <2>2. CASE LoopReply
    BY <2>2, <1>2 DEF LoopReply, LoopType
  <2>3. CASE Push
    BY <2>3, <1>2 DEF Push, LoopType
  <2>4. CASE Pushed
    BY <2>4, <1>2 DEF Pushed
  <2>. QED  BY <2>1, <2>2, <2>3, <2>4
<1>8. LoopFor'
  <2>1. loop.owner # Nobody => req'[loop.owner].to = loop.to
    BY <1>1, <1>2, <1>4 DEF Kept, Inv, Shape, LoopFor
  <2>2. Sensors' = Sensors
    BY <1>1 DEF Sensors, table
  <2>. QED  BY <2>1, <2>2, <1>2, <1>7 DEF LoopFor, LoopIdle
<1>9. \A r \in Requests : OnLoop(r)' <=> OnLoop(r)
  BY <1>1, <1>7, NobodyAssumption DEF OnLoop, LoopIdle
<1>10. loop'.pc \in {"store", "push", "pushed"} /\ loop'.owner = Nobody =>
         Registered(loop'.to)
  <2>1. loop.pc \in {"store", "push", "pushed"} /\ loop.owner = Nobody => Registered(loop.to)
    BY DEF Inv, Lasts
  <2>. QED  BY <1>1, <1>2, <1>7, <2>1 DEF LoopIdle
<1>11. cell' \in [Kinds \X Ids -> Values]
  BY <1>1, <1>3 DEF Types
<1>. QED  BY <1>1, <1>4, <1>5, <1>6, <1>8, <1>9, <1>10, <1>11, LoopInv

\* An RPDO: the mapped object, the requests that wait, and the sensor that m_regs
\* has for its register.
LEMMA OnRpdoWriteInv ==
  ASSUME Inv, NEW id \in Ids, NEW v \in Values, OnRpdoWrite(id, v)
  PROVE  Inv'
<1>. DEFINE s == Regs(id)
<1>1. /\ loop.pc = "idle" /\ Saw(On(<<"RPDO", id>>), v)
      /\ UNCHANGED <<config, sens, done, api, slave>>
  BY DEF OnRpdoWrite
<1>2. Kept
  BY <1>1, SawKept DEF Inv
<1>3. cell' \in [Kinds \X Ids -> Values]
  <2>1. <<"RPDO", id>> \in Kinds \X Ids /\ cell \in [Kinds \X Ids -> Values]
    BY DEF Kinds, Inv, Types
  <2>. QED  BY <2>1 DEF OnRpdoWrite
<1>4. sens' \in [Sensors -> SensType]
  BY <1>1 DEF Inv, Types
<1>5. s # 0 => s \in Sensors /\ s # Config /\ s \in Nat /\ Registered(s) /\ table[s].id \in Ids
  BY RegsIs, SensorNumbers DEF Inv, Config
<1>6. Sensors' = Sensors /\ table' = table
  BY <1>1 DEF Sensors, table
<1>. HIDE DEF s
<1>7. loop \in LoopType /\ LoopFor
  BY DEF Inv, Types, Shape
<1>8. CASE UNCHANGED <<sdoq, loop>>
  <2>1. LoopFor' /\ loop' \in LoopType /\ loop'.pc = "idle"
    BY <1>1, <1>7, <1>8 DEF LoopFor
  <2>2. \A r \in Requests : OnLoop(r)' <=> OnLoop(r)
    BY <1>8 DEF OnLoop
  <2>. QED  BY <1>1, <1>2, <1>3, <1>4, <1>8, <2>1, <2>2, LoopInv
<1>9. CASE /\ s # 0 /\ UNCHANGED sdoq
           /\ loop' = [LoopIdle EXCEPT !.pc = "store", !.to = s, !.val = v]
  <2>1. /\ loop' \in LoopType /\ loop'.pc = "store" /\ loop'.to = s
        /\ loop'.owner = Nobody
    BY <1>5, <1>9, Constants DEF LoopIdle, LoopType
  <2>2. LoopFor'
    BY <1>5, <1>6, <1>9, <2>1 DEF LoopFor
  <2>3. \A r \in Requests : OnLoop(r)' <=> OnLoop(r)
    BY <1>1, <2>1, NobodyAssumption DEF OnLoop
  <2>. QED  BY <1>1, <1>2, <1>3, <1>4, <1>5, <1>9, <2>1, <2>2, <2>3, LoopInv
<1>10. CASE /\ s # 0 /\ Kind(s) = "SDO" /\ UNCHANGED loop
            /\ sdoq' = Append(sdoq, SdoOp("read", s, Nobody, {}, Nobody))
  <2>1. PICK e \in OpType : /\ sdoq' = Append(sdoq, e)
                            /\ e.op = "read" /\ e.to = s /\ e.owner = Nobody
                            /\ e.id = table[s].id /\ e.from = Nobody
    <3>1. {} \in Values
      BY Constants
    <3>2. SdoOp("read", s, Nobody, {}, Nobody) \in OpType
      BY <1>5, <1>10, <3>1 DEF OpType, Holders, SdoOp
    <3>. QED  BY <1>10, <3>2 DEF SdoOp
  <2>2. OpFor(e)'
    BY <1>5, <1>6, <1>10, <2>1 DEF OpFor, Kind
  <2>3. Types'
    <3>1. sdoq' \in Seq(OpType)
      BY <2>1, AppendProperties DEF Inv, Types
    <3>. QED  BY <1>1, <1>2, <1>3, <1>6, <1>10, <3>1 DEF Inv, Types, Kept, slave
  <2>4. ApiFor'
    BY <1>1, <1>2, <1>6 DEF Inv, Shape, ApiFor, Types, ApiType, Holders, Kept, Kind
  <2>5. /\ e.to # Config /\ (e.owner # Nobody => ~Async(e.owner))
        /\ e.op = "read" /\ e.owner = Nobody => Registered(e.to)
        /\ loop.pc = "config" => Older(e.from)
        /\ api' = api \/ api'.pc = "return"
    BY <1>1, <1>5, <1>10, <2>1
  <2>6. \A r \in Requests : /\ req'[r].to = req[r].to /\ req'[r].phase = req[r].phase
                            /\ req'[r].boot = req[r].boot
    BY <1>2 DEF Kept
  <2>7. /\ \A r \in Requests : /\ Async(r)' <=> Async(r) \/ r = e.owner
                               /\ OnLoop(r)' <=> OnLoop(r)
        /\ Books' => Inv'
    BY <1>1, <1>10, <2>1, <2>2, <2>3, <2>4, <2>5, <2>6, AppendInv
  <2>8. Books'
    <3>1. ASSUME NEW r \in Requests
          PROVE  Counted(r)' /\ Phased(r)' /\ Handled(r)'
      <4>1. Counted(r) /\ Phased(r) /\ Handled(r)
        BY DEF Inv, Books
      <4>2. (OnApi(r)' <=> OnApi(r)) /\ (Async(r)' <=> Async(r))
        BY <1>1, <2>1, <2>7, NobodyAssumption DEF OnApi
      <4>3. /\ req'[r].to = req[r].to /\ req'[r].phase = req[r].phase
            /\ req'[r].refs = req[r].refs
        BY <1>2 DEF Kept
      <4>4. Counted(r)'
        BY <4>1, <4>2, <4>3 DEF Counted
      <4>5. Phased(r)'
        BY <4>1, <4>2, <4>3, <1>6 DEF Phased
      <4>6. Handled(r)'
        BY <1>1, <4>1, <4>2 DEF Handled
      <4>. QED  BY <4>4, <4>5, <4>6
    <3>. QED  BY <3>1 DEF Books
  <2>. QED  BY <2>7, <2>8
<1>. QED  BY <1>8, <1>9, <1>10 DEF OnRpdoWrite, s

\* The continuation drops its reference.
LEMMA LoopUnrefInv ==
  ASSUME Inv, LoopUnref
  PROVE  Inv'
<1>1. /\ loop.pc = "unref" /\ Unref(loop.owner) /\ loop' = LoopIdle
      /\ UNCHANGED <<config, sens, cell, sdoq, done, api, slave>>
  BY DEF LoopUnref
<1>2. loop.owner \in Requests /\ loop.owner # Nobody /\ req[loop.owner].phase = "open"
  BY <1>1, LoopServes
<1>3. OnLoop(loop.owner) /\ Async(loop.owner)
  BY <1>1 DEF OnLoop, Async
<1>4. req[loop.owner].refs = 1 + (IF OnApi(loop.owner) THEN 1 ELSE 0)
  BY <1>2, <1>3 DEF Inv, Books, Counted
<1>5. /\ req' \in [Requests -> ReqType]
      /\ \A x \in Requests :
           /\ req'[x].to = req[x].to /\ req'[x].boot = req[x].boot
           /\ req'[x].refs = IF x = loop.owner THEN req[x].refs - 1 ELSE req[x].refs
           /\ req'[x].phase = IF x = loop.owner /\ req[x].refs = 1 THEN "gone"
                              ELSE req[x].phase
  BY <1>1, <1>2, <1>4, UnrefTypes
<1>6. Types'
  BY <1>1, <1>5, Constants DEF Inv, Types, slave, Sensors, table
<1>7. loop'.pc = "idle" /\ loop'.to = Config /\ loop'.owner = Nobody
  BY <1>1 DEF LoopIdle
<1>8. \A r \in Requests : /\ In(sdoq, r)' <=> In(sdoq, r)
                          /\ In(done, r)' <=> In(done, r)
                          /\ ~OnLoop(r)'
                          /\ OnLoop(r) <=> r = loop.owner
                          /\ OnApi(r)' <=> OnApi(r)
  BY <1>1, <1>7 DEF In, OnLoop, OnApi
<1>9. \A r \in Requests : Async(r)' <=> Async(r) /\ r # loop.owner
  BY <1>3, <1>8, <1>2 DEF Async, Inv, OnePlace
<1>10. Shape'
  <2>1. \A r \in Requests : req[r].phase # "new" =>
          req'[r].to = req[r].to /\ req'[r].phase # "new"
    BY <1>5
  <2>2. /\ \A i \in 1..Len(sdoq) : OpFor(sdoq[i])'
        /\ \A i \in 1..Len(done) : DoneFor(done[i])'
    BY <1>1, <2>1, ForKept DEF OpFor, DoneFor
  <2>3. ApiFor'
    BY <1>1, <1>5 DEF Inv, Shape, ApiFor, Types, ApiType, Holders, Sensors, Kind, table
  <2>4. LoopFor'
    BY <1>7 DEF LoopFor
  <2>. QED  BY <1>1, <2>2, <2>3, <2>4 DEF Shape
<1>11. OnePlace'
  BY <1>1, <1>8 DEF Inv, OnePlace, Distinct
<1>12. Books'
  <2>1. ASSUME NEW r \in Requests
        PROVE  Counted(r)' /\ Phased(r)' /\ Handled(r)'
    <3>1. Counted(r) /\ Phased(r) /\ Handled(r) /\ req[r].refs \in Nat
      BY DEF Inv, Books, Types, ReqType
    <3>2. Counted(r)'
      BY <1>3, <1>5, <1>8, <1>9, <3>1 DEF Counted
    <3>3. Phased(r)'
      <4>1. Sensors' = Sensors
        BY <1>1 DEF Sensors, table
      <4>2. CASE r = loop.owner
        BY <4>1, <4>2, <1>2, <1>4, <1>5, <1>8, <1>9, <3>1 DEF Phased
      <4>3. CASE r # loop.owner
        BY <4>1, <4>3, <1>5, <1>8, <1>9, <3>1 DEF Phased
      <4>. QED  BY <4>2, <4>3
    <3>4. Handled(r)'
      BY <1>1, <1>8, <1>9, <3>1 DEF Handled
    <3>. QED  BY <3>2, <3>3, <3>4
  <2>. QED  BY <2>1 DEF Books
<1>13. Configuring'
  BY <1>1, <1>7 DEF Inv, Configuring, slave, OneItem, HasItem
<1>14. Passed'
  <2>1. FirstItemFirst'
    BY <1>1, <1>5, SdoqIndexed DEF Inv, Passed, FirstItemFirst, slave
  <2>2. \A r \in Requests : req'[r].boot <= boots'
    BY <1>1, <1>5 DEF Inv, Passed, slave
  <2>. QED  BY <1>7, <2>1, <2>2 DEF Passed
<1>15. Lasts'
  BY <1>1, <1>7 DEF Inv, Lasts, Registered, Sensors, table
<1>. QED  BY <1>6, <1>10, <1>11, <1>12, <1>13, <1>14, <1>15 DEF Inv

\* The continuation at the head of the loop's queue begins.
LEMMA ContinueInv ==
  ASSUME Inv, Continue
  PROVE  Inv'
<1>. DEFINE d == Head(done)
<1>1. /\ loop.pc = "idle" /\ done # <<>> /\ d.to # Config /\ done' = Tail(done)
      /\ UNCHANGED <<config, sens, cell, sdoq, api, req, slave>>
  BY DEF Continue
<1>2. /\ done \in Seq(DoneType) /\ Distinct(done) /\ OneItem(done)
      /\ loop \in LoopType
  BY DEF Inv, Types, OnePlace, Configuring
<1>3. /\ done' \in Seq(DoneType) /\ d \in DoneType
      /\ Len(done') \in Nat
      /\ \A i \in 1..Len(done') : i + 1 \in 1..Len(done) /\ done'[i] = done[i + 1]
      /\ 1 \in 1..Len(done) /\ d = done[1]
  BY <1>1, <1>2, TailQueue
<1>4. /\ In(done, d.owner) /\ Distinct(done')
      /\ \A r : r # Nobody => (In(done', r) <=> In(done, r) /\ d.owner # r)
  BY <1>1, <1>2, TailOwners
<1>5. OneItem(done') /\ (HasItem(done') <=> HasItem(done) /\ d.to # Config)
  BY <1>1, <1>2, TailItems
<1>6. DoneFor(d) /\ (d.owner = Nobody => Registered(d.to))
  BY <1>1, <1>3 DEF Inv, Shape, Lasts
<1>. HIDE DEF d
<1>7. /\ loop' \in LoopType /\ loop'.pc = "store" /\ loop'.to = d.to
      /\ loop'.owner = d.owner
  <2>1. PICK v \in Values : loop' = [LoopIdle EXCEPT !.pc = "store", !.to = d.to, !.val = v,
                                                     !.owner = d.owner]
    BY DEF Continue, d
  <2>. QED  BY <1>3, <2>1, Constants DEF LoopIdle, LoopType, DoneType
<1>8. \A r \in Requests : /\ In(sdoq, r)' <=> In(sdoq, r)
                          /\ In(done, r)' <=> In(done, r) /\ r # d.owner
                          /\ OnLoop(r)' <=> r = d.owner
                          /\ ~OnLoop(r)
                          /\ OnApi(r)' <=> OnApi(r)
  BY <1>1, <1>4, <1>7, NobodyAssumption DEF In, OnLoop, OnApi
<1>9. \A r \in Requests : Async(r)' <=> Async(r)
  BY <1>4, <1>8 DEF Async
<1>10. Sensors' = Sensors /\ table' = table
  BY <1>1 DEF Sensors, table
<1>11. Types'
  BY <1>1, <1>3, <1>7, <1>10 DEF Inv, Types, slave
<1>12. Shape'
  <2>1. /\ \A i \in 1..Len(sdoq) : \A o : o = sdoq[i] => OpFor(o)'
        /\ \A i \in 1..Len(done) : \A x : x = done[i] => DoneFor(x)'
    BY <1>1, ForKept
  <2>2. \A i \in 1..Len(sdoq) : OpFor(sdoq[i])'
    BY <1>1, <2>1 DEF OpFor
  <2>3. \A i \in 1..Len(done') : \A x : x = done'[i] => DoneFor(x)'
    BY <1>3, <2>1
  <2>4. \A i \in 1..Len(done') : DoneFor(done[i])'
    BY <2>3 DEF DoneFor
  <2>5. ApiFor'
    BY <1>1, <1>10 DEF Inv, Shape, ApiFor, Kind
  <2>6. LoopFor'
    BY <1>1, <1>6, <1>7, <1>10 DEF DoneFor, LoopFor
  <2>. QED  BY <1>1, <2>2, <2>4, <2>5, <2>6 DEF Shape
<1>13. OnePlace'
  <2>1. /\ Distinct(sdoq)' <=> Distinct(sdoq)
        /\ Distinct(done)' <=> Distinct(done')
    BY <1>1 DEF Distinct
  <2>2. ASSUME NEW r \in Requests
        PROVE  /\ ~(In(sdoq, r)' /\ In(done, r)')
               /\ ~(In(sdoq, r)' /\ OnLoop(r)')
               /\ ~(In(done, r)' /\ OnLoop(r)')
    BY <1>4, <1>8 DEF Inv, OnePlace
  <2>. QED  BY <1>4, <2>1, <2>2 DEF Inv, OnePlace
<1>14. Books'
  <2>1. ASSUME NEW r \in Requests
        PROVE  Counted(r)' /\ Phased(r)' /\ Handled(r)'
    <3>1. Counted(r) /\ Phased(r) /\ Handled(r)
      BY DEF Inv, Books
    <3>2. Counted(r)'
      BY <1>1, <1>8, <1>9, <3>1 DEF Counted
    <3>3. Phased(r)'
      BY <1>1, <1>8, <1>9, <1>10, <3>1 DEF Phased
    <3>4. Handled(r)'
      BY <1>1, <1>8, <1>9, <3>1 DEF Handled
    <3>. QED  BY <3>2, <3>3, <3>4
  <2>. QED  BY <2>1 DEF Books
<1>15. Configuring'
  <2>1. /\ OneItem(sdoq)' <=> OneItem(sdoq)
        /\ HasItem(sdoq)' <=> HasItem(sdoq)
        /\ OneItem(done)' <=> OneItem(done')
        /\ HasItem(done)' <=> HasItem(done')
    BY <1>1 DEF OneItem, HasItem
  <2>. QED  BY <1>1, <1>5, <1>7, <2>1 DEF Inv, Configuring, slave
<1>16. Passed'
  BY <1>1, <1>7 DEF Inv, Passed, FirstItemFirst, slave
<1>17. Lasts'
  <2>1. \A s : Registered(s)' <=> Registered(s)
    BY <1>10 DEF Registered
  <2>2. \A i \in 1..Len(done') :
          done'[i].owner = Nobody /\ done'[i].to # Config => Registered(done'[i].to)
    BY <1>3 DEF Inv, Lasts
  <2>3. \A i \in 1..Len(sdoq) :
          sdoq[i].op = "read" /\ sdoq[i].owner = Nobody => Registered(sdoq[i].to)
    BY DEF Inv, Lasts
  <2>. QED  BY <1>1, <1>6, <1>7, <1>10, <2>2, <2>3 DEF Lasts, Registered
<1>. QED  BY <1>11, <1>12, <1>13, <1>14, <1>15, <1>16, <1>17 DEF Inv

-----------------------------------------------------------------------------
(* The steps of the configuration.                                         *)

LEMMA ItemsLen ==
  ASSUME onconf \in Seq(ItemType)
  PROVE  Len(Items(onconf)) = Len(onconf) /\ Len(onconf) \in Nat
<1>1. /\ Len(onconf) \in Nat /\ DOMAIN onconf = 1..Len(onconf)
      /\ \A j \in 1..Len(onconf) : onconf[j] \in ItemType
  BY LenProperties, ElementOfSeq
<1>2. Items(onconf) = [j \in 1..Len(onconf) |-> onconf[j].kind]
  BY <1>1 DEF Items
<1>3. Items(onconf) \in Seq({"write", "skip", "size", "null"})
  BY <1>1, <1>2, SeqDef DEF ItemType
<1>. QED  BY <1>1, <1>2, <1>3, LenProperties

\* doStartAction submits one item at most, behind what no request of this boot
\* asked for if it is the first.
LEMMA StartAction ==
  ASSUME Inv, NEW n \in Nat \ {0}, DoStartAction(n), conf.state = "started", ~HasItem(sdoq),
         conf.tried = <<>> => \A k \in 1..Len(sdoq) : Older(sdoq[k].from),
         UNCHANGED <<config, req, boots>>
  PROVE  /\ sdoq' \in Seq(OpType) /\ conf' \in ConfType
         /\ OneItem(sdoq')
         /\ HasItem(sdoq') => conf'.state = "started" /\ conf'.tried # <<>>
         /\ Distinct(sdoq') /\ \A r : r # Nobody => (In(sdoq', r) <=> In(sdoq, r))
         /\ \A k \in 1..Len(sdoq') :
              \/ k \in 1..Len(sdoq) /\ sdoq'[k] = sdoq[k]
              \/ /\ sdoq'[k].to = Config /\ sdoq'[k].op = "write"
                 /\ sdoq'[k].owner = Nobody /\ sdoq'[k].from = Nobody
         /\ FirstItemFirst'
<1>1. /\ sdoq \in Seq(OpType) /\ conf \in ConfType /\ conf.tried \in Seq(Nat)
      /\ Distinct(sdoq) /\ OneItem(sdoq)
      /\ DOMAIN sdoq = 1..Len(sdoq) /\ Len(sdoq) \in Nat
  BY SdoqIndexed DEF Inv, Types, ConfType, OnePlace, Configuring
<1>2. /\ onconf \in Seq(ItemType) /\ Len(onconf) \in Nat
      /\ \A j \in 1..Len(onconf) : onconf[j] \in ItemType
  <2>1. onconf \in Seq(ItemType)
    BY Constants DEF Inv, Types, SlaveType, onconf
  <2>. QED  BY <2>1, LenProperties, ElementOfSeq
<1>3. CASE UNCHANGED sdoq
  <2>1. conf' \in ConfType
    <3>1. ASSUME NEW j \in Nat \ {0}
          PROVE  Driver!Told(j) \in ConfType
      <4>1. conf.res + 1 \in Nat
        BY <1>1 DEF ConfType
      <4>. QED  BY <4>1, <1>1 DEF ConfType, Driver!Told
    <3>4. Driver!Thrown \in ConfType
      <4>. DEFINE t == Driver!Told(Len(Items(onconf)) + 1)
      <4>1. Len(Items(onconf)) + 1 \in Nat \ {0}
        BY <1>2, ItemsLen
      <4>2. t \in ConfType
        BY <4>1, <3>1
      <4>. HIDE DEF t
      <4>3. [t EXCEPT !.threw = TRUE] \in ConfType
        BY <4>2 DEF ConfType
      <4>. QED  BY <4>3 DEF Driver!Thrown, t
    <3>5. ASSUME NEW j \in n..(Len(onconf) + 1), conf' = Driver!Told(j)
          PROVE  conf' \in ConfType
      <4>1. j \in Nat \ {0}
        BY <1>2
      <4>. QED  BY <3>1, <3>5, <4>1
    <3>2. ASSUME NEW j \in n..Len(onconf), conf' = [conf EXCEPT !.next = j + 1]
          PROVE  conf' \in ConfType
      <4>1. j + 1 \in Nat \ {0}
        BY <1>2
      <4>. QED  BY <3>2, <4>1, <1>1 DEF ConfType
    <3>3. ASSUME NEW j \in n..Len(onconf),
                 conf' = [conf EXCEPT !.next = j + 1, !.tried = Append(@, j)]
          PROVE  conf' \in ConfType
      <4>1. Append(conf.tried, j) \in Seq(Nat) /\ j + 1 \in Nat \ {0}
        BY <1>1, AppendProperties
      <4>. QED  BY <3>3, <4>1, <1>1 DEF ConfType
    <3>. QED  BY <3>2, <3>3, <3>4, <3>5 DEF DoStartAction
  <2>2. FirstItemFirst'
    BY <1>1, <1>3 DEF FirstItemFirst, HasItem
  <2>. QED  BY <1>1, <1>3, <2>1, <2>2 DEF OneItem, HasItem, Distinct, In
<1>4. CASE ~UNCHANGED sdoq
  <2>1. PICK j \in n..Len(onconf) :
          /\ onconf[j].kind = "write"
          /\ sdoq' = Append(sdoq, [op |-> "write", to |-> Config, owner |-> Nobody,
                                   id |-> onconf[j].id, val |-> onconf[j].val,
                                   from |-> Nobody])
          /\ conf' = [conf EXCEPT !.next = j + 1, !.tried = Append(@, j)]
    BY <1>4 DEF DoStartAction
  <2>2. j \in Nat \ {0} /\ onconf[j].id \in Ids /\ onconf[j].val \in Values
    BY <1>2 DEF ItemType
  <2>3. PICK e \in OpType : /\ sdoq' = Append(sdoq, e)
                            /\ e.op = "write" /\ e.to = Config
                            /\ e.owner = Nobody /\ e.from = Nobody
    <3>. DEFINE x == [op |-> "write", to |-> Config, owner |-> Nobody,
                      id |-> onconf[j].id, val |-> onconf[j].val, from |-> Nobody]
    <3>1. x \in OpType /\ x.op = "write" /\ x.to = Config /\ x.owner = Nobody /\ x.from = Nobody
      BY <2>2, Constants DEF OpType, Holders
    <3>. QED  BY <2>1, <3>1
  <2>4. /\ conf' \in ConfType /\ conf'.state = "started"
        /\ conf'.tried = Append(conf.tried, j)
    <3>1. Append(conf.tried, j) \in Seq(Nat) /\ j + 1 \in Nat \ {0}
      BY <1>1, <2>2, AppendProperties
    <3>. QED  BY <2>1, <2>2, <3>1, <1>1 DEF ConfType
  <2>5. /\ Len(conf'.tried) = Len(conf.tried) + 1 /\ Len(conf.tried) \in Nat
        /\ conf'.tried # <<>>
        /\ Len(conf.tried) = 0 => conf.tried = <<>>
    <3>. DEFINE t == conf.tried
    <3>1. t \in Seq(Nat) /\ j \in Nat
      BY <1>1, <2>2
    <3>. HIDE DEF t
    <3>2. Len(t) \in Nat /\ Len(Append(t, j)) = Len(t) + 1
      BY <3>1, AppendProperties, LenProperties
    <3>3. Append(t, j) # <<>>
      BY <3>1, AppendProperties
    <3>4. Len(t) = 0 => t = <<>>
      BY <3>1, EmptySeq
    <3>5. conf'.tried = Append(t, j)
      BY <2>4 DEF t
    <3>6. /\ Len(conf'.tried) = Len(t) + 1 /\ Len(t) \in Nat
          /\ conf'.tried # <<>> /\ (Len(t) = 0 => t = <<>>)
      BY <3>2, <3>3, <3>4, <3>5
    <3>. QED  BY <3>6 DEF t
  <2>. DEFINE old == Len(conf.tried)
              new == Len(conf'.tried)
  <2>6. new = 1 => conf.tried = <<>>
    <3>1. new = old + 1 /\ old \in Nat /\ (old = 0 => conf.tried = <<>>)
      BY <2>5
    <3>. HIDE DEF old, new
    <3>. QED  BY <3>1
  <2>7. /\ sdoq' \in Seq(OpType) /\ DOMAIN sdoq' = 1..Len(sdoq')
        /\ \A k \in 1..Len(sdoq') : \/ k \in 1..Len(sdoq) /\ sdoq'[k] = sdoq[k]
                                    \/ k = Len(sdoq) + 1 /\ sdoq'[k] = e
    BY <1>1, <2>3, AppendQueue, LenProperties
  <2>8. OneItem(sdoq')
    BY <1>1, <2>3, AppendItems
  <2>9. /\ Distinct(sdoq')
        /\ \A r : In(sdoq', r) <=> In(sdoq, r) \/ e.owner = r
    BY <1>1, <2>3, AppendOwners
  <2>10. FirstItemFirst'
    <3>. SUFFICES ASSUME NEW k \in 1..Len(sdoq'), NEW l \in 1..Len(sdoq'), k < l,
                         sdoq'[l].to = Config, Len(conf'.tried) = 1,
                         sdoq'[k].from # Nobody
                  PROVE  req'[sdoq'[k].from].boot < boots'
      BY <2>7 DEF FirstItemFirst
    <3>1. k \in 1..Len(sdoq) /\ sdoq'[k] = sdoq[k]
      BY <2>3, <2>7
    <3>2. conf.tried = <<>>
      BY <2>6
    <3>3. Older(sdoq[k].from)
      BY <3>1, <3>2
    <3>. QED  BY <3>1, <3>3 DEF Older
  <2>. QED  BY <2>3, <2>4, <2>5, <2>7, <2>8, <2>9, <2>10
<1>. QED  BY <1>3, <1>4

LEMMA ConfigStepInv ==
  ASSUME Inv, NEW n \in Nat \ {0}, DoStartAction(n), conf.state = "started", ~HasItem(sdoq),
         conf.tried = <<>> => \A k \in 1..Len(sdoq) : Older(sdoq[k].from),
         loop.pc \in {"idle", "config"}, loop'.pc = "idle", loop' \in LoopType,
         loop'.to = Config, loop'.owner = Nobody,
         \/ UNCHANGED done /\ ~HasItem(done)
         \/ done # <<>> /\ Head(done).to = Config /\ done' = Tail(done),
         connected' \in BOOLEAN, UNCHANGED <<config, sens, cell, api, req, boots>>
  PROVE  Inv'
<1>1. /\ sdoq' \in Seq(OpType) /\ conf' \in ConfType
      /\ OneItem(sdoq')
      /\ HasItem(sdoq') => conf'.state = "started" /\ conf'.tried # <<>>
      /\ Distinct(sdoq') /\ \A r : r # Nobody => (In(sdoq', r) <=> In(sdoq, r))
      /\ \A k \in 1..Len(sdoq') :
           \/ k \in 1..Len(sdoq) /\ sdoq'[k] = sdoq[k]
           \/ /\ sdoq'[k].to = Config /\ sdoq'[k].op = "write"
              /\ sdoq'[k].owner = Nobody /\ sdoq'[k].from = Nobody
      /\ FirstItemFirst'
  BY StartAction
<1>2. /\ done \in Seq(DoneType) /\ Distinct(done) /\ OneItem(done)
  BY DEF Inv, Types, OnePlace, Configuring
<1>3. /\ done' \in Seq(DoneType) /\ OneItem(done') /\ ~HasItem(done') /\ Distinct(done')
      /\ \A r : r # Nobody => (In(done', r) <=> In(done, r))
      /\ \A k \in 1..Len(done') : \E i \in 1..Len(done) : done'[k] = done[i]
  <2>1. CASE UNCHANGED done /\ ~HasItem(done)
    BY <2>1, <1>2
  <2>2. CASE done # <<>> /\ Head(done).to = Config /\ done' = Tail(done)
    <3>1. /\ done' \in Seq(DoneType) /\ Head(done) \in DoneType
          /\ \A i \in 1..Len(done') : i + 1 \in 1..Len(done) /\ done'[i] = done[i + 1]
          /\ 1 \in 1..Len(done) /\ Head(done) = done[1]
      BY <1>2, <2>2, TailQueue
    <3>2. OneItem(done') /\ ~HasItem(done')
      BY <1>2, <2>2, TailItems
    <3>3. Distinct(done') /\ \A r : r # Nobody => (In(done', r) <=> In(done, r) /\ Head(done).owner # r)
      BY <1>2, <2>2, TailOwners
    <3>4. Head(done).owner = Nobody
      BY <2>2, <3>1 DEF Inv, Shape, DoneFor
    <3>. QED  BY <3>1, <3>2, <3>3, <3>4
  <2>. QED  BY <2>1, <2>2
<1>4. Sensors' = Sensors /\ table' = table
  BY DEF Sensors, table
<1>5. Types'
  BY <1>1, <1>3, <1>4 DEF Inv, Types
<1>6. \A r \in Requests : ~OnLoop(r)
  BY NobodyAssumption DEF OnLoop, Inv, Shape, LoopFor
<1>7. \A r \in Requests : /\ In(sdoq, r)' <=> In(sdoq, r)
                          /\ In(done, r)' <=> In(done, r)
                          /\ OnLoop(r)' <=> OnLoop(r)
                          /\ OnApi(r)' <=> OnApi(r)
                          /\ Async(r)' <=> Async(r)
  <2>1. ASSUME NEW r \in Requests
        PROVE  /\ In(sdoq, r)' <=> In(sdoq, r)
               /\ In(done, r)' <=> In(done, r)
               /\ ~OnLoop(r)'
               /\ OnApi(r)' <=> OnApi(r)
    BY <1>1, <1>3, NobodyAssumption DEF In, OnLoop, OnApi
  <2>. QED  BY <2>1, <1>6 DEF Async
<1>8. Shape'
  <2>1. /\ \A i \in 1..Len(sdoq) : \A o : o = sdoq[i] => OpFor(o)'
        /\ \A i \in 1..Len(done) : \A d : d = done[i] => DoneFor(d)'
    BY ForKept
  <2>2. \A i \in 1..Len(sdoq') : \A o : o = sdoq'[i] => OpFor(o)'
    <3>. SUFFICES ASSUME NEW i \in 1..Len(sdoq'), NEW o, o = sdoq'[i]
                  PROVE  OpFor(o)'
      OBVIOUS
    <3>1. CASE i \in 1..Len(sdoq) /\ sdoq'[i] = sdoq[i]
      BY <2>1, <3>1
    <3>2. CASE /\ o.to = Config /\ o.op = "write"
               /\ o.owner = Nobody /\ o.from = Nobody
      BY <3>2 DEF OpFor
    <3>. QED  BY <1>1, <3>1, <3>2
  <2>3. \A i \in 1..Len(done') : \A d : d = done'[i] => DoneFor(d)'
    BY <1>3, <2>1
  <2>4. \A i \in 1..Len(sdoq') : OpFor(sdoq[i])'
    BY <2>2 DEF OpFor
  <2>5. \A i \in 1..Len(done') : DoneFor(done[i])'
    BY <2>3 DEF DoneFor
  <2>6. ApiFor'
    BY <1>4 DEF Inv, Shape, ApiFor, Kind
  <2>7. LoopFor'
    BY DEF LoopFor
  <2>. QED  BY <2>4, <2>5, <2>6, <2>7 DEF Shape
<1>9. OnePlace'
  <2>1. /\ Distinct(sdoq)' <=> Distinct(sdoq')
        /\ Distinct(done)' <=> Distinct(done')
    BY DEF Distinct
  <2>. QED  BY <1>1, <1>3, <1>7, <2>1 DEF Inv, OnePlace
<1>10. Books'
  <2>1. ASSUME NEW r \in Requests
        PROVE  Counted(r)' /\ Phased(r)' /\ Handled(r)'
    <3>1. Counted(r) /\ Phased(r) /\ Handled(r)
      BY DEF Inv, Books
    <3>2. Counted(r)'
      BY <1>7, <3>1 DEF Counted
    <3>3. Phased(r)'
      BY <1>7, <1>4, <3>1 DEF Phased
    <3>4. Handled(r)'
      BY <1>7, <3>1 DEF Handled
    <3>. QED  BY <3>2, <3>3, <3>4
  <2>. QED  BY <2>1 DEF Books
<1>11. Configuring'
  <2>1. /\ OneItem(sdoq)' <=> OneItem(sdoq')
        /\ HasItem(sdoq)' <=> HasItem(sdoq')
        /\ OneItem(done)' <=> OneItem(done')
        /\ HasItem(done)' <=> HasItem(done')
    BY DEF OneItem, HasItem
  <2>. QED  BY <1>1, <1>3, <2>1 DEF Configuring
<1>12. Passed'
  BY <1>1 DEF Inv, Passed
<1>13. Lasts'
  <2>1. \A i \in 1..Len(sdoq') :
          sdoq'[i].op = "read" /\ sdoq'[i].owner = Nobody => Registered(sdoq'[i].to)
    BY <1>1 DEF Inv, Lasts
  <2>2. \A i \in 1..Len(done') :
          done'[i].owner = Nobody /\ done'[i].to # Config => Registered(done'[i].to)
    BY <1>3 DEF Inv, Lasts
  <2>. QED  BY <1>4, <2>1, <2>2 DEF Lasts, Registered
<1>. QED  BY <1>5, <1>8, <1>9, <1>10, <1>11, <1>12, <1>13 DEF Inv

\* The first item, submitted while no request of this boot has passed yet.
LEMMA OnConfigActionInv ==
  ASSUME Inv, OnConfigAction
  PROVE  Inv'
<1>1. /\ loop.pc = "config" /\ DoStartAction(1) /\ connected' = TRUE /\ loop' = LoopIdle
      /\ UNCHANGED <<config, sens, cell, done, api, req, boots>>
  BY DEF OnConfigAction
<1>2. /\ conf.state = "started" /\ ~HasItem(sdoq) /\ ~HasItem(done)
      /\ \A k \in 1..Len(sdoq) : Older(sdoq[k].from)
  BY <1>1 DEF Inv, Configuring, Passed
<1>3. loop'.pc = "idle" /\ loop' \in LoopType /\ loop'.to = Config /\ loop'.owner = Nobody
  BY <1>1, Constants DEF LoopIdle
<1>4. connected' \in BOOLEAN /\ 1 \in Nat \ {0}
  BY <1>1
<1>. QED  BY <1>1, <1>2, <1>3, <1>4, ConfigStepInv

\* The next items, one by one.
LEMMA ConfigContinueInv ==
  ASSUME Inv, ConfigContinue
  PROVE  Inv'
<1>1. /\ loop.pc = "idle" /\ done # <<>> /\ Head(done).to = Config
      /\ done' = Tail(done) /\ DoStartAction(conf.next)
      /\ UNCHANGED <<config, sens, cell, api, loop, req, boots>>
  BY DEF ConfigContinue
<1>2. connected' \in BOOLEAN
  BY Zenon DEF ConfigContinue
<1>3. done \in Seq(DoneType) /\ conf.next \in Nat \ {0} /\ loop \in LoopType /\ LoopFor
  BY DEF Inv, Types, ConfType, Shape
<1>4. HasItem(done)
  <2>1. 1 \in 1..Len(done) /\ Head(done) = done[1]
    BY <1>1, <1>3, TailQueue
  <2>. QED  BY <1>1, <2>1 DEF HasItem
<1>5. conf.state = "started" /\ conf.tried # <<>> /\ ~HasItem(sdoq)
  BY <1>4 DEF Inv, Configuring
<1>6. /\ loop'.pc = "idle" /\ loop' \in LoopType /\ loop'.to = Config
      /\ loop'.owner = Nobody
  BY <1>1, <1>3 DEF LoopFor
<1>. QED  BY <1>1, <1>2, <1>3, <1>5, <1>6, ConfigStepInv

\* A boot begins: the requests in the queue are of earlier boots.
LEMMA OnConfigInv ==
  ASSUME Inv, OnConfig
  PROVE  Inv'
<1>1. /\ loop.pc = "idle" /\ conf.state # "started" /\ boots < MaxBoots
      /\ boots' = boots + 1 /\ connected' = FALSE
      /\ conf' = [NoConf EXCEPT !.state = "started"]
      /\ loop' = [LoopIdle EXCEPT !.pc = "config"]
      /\ UNCHANGED <<config, sens, cell, sdoq, done, api, req>>
  BY DEF OnConfig
<1>2. /\ loop' \in LoopType /\ loop'.pc = "config" /\ loop'.to = Config /\ loop'.owner = Nobody
      /\ conf' \in ConfType /\ conf'.state = "started" /\ conf'.tried = <<>>
  BY <1>1, Constants DEF LoopIdle, LoopType, NoConf, ConfType
<1>3. ~HasItem(sdoq) /\ ~HasItem(done) /\ OneItem(sdoq) /\ OneItem(done)
  BY <1>1 DEF Inv, Configuring
<1>4. Sensors' = Sensors /\ table' = table
  BY <1>1 DEF Sensors, table
<1>5. boots \in Nat /\ boots' \in 0..MaxBoots
  BY <1>1, BoundsAssumption DEF Inv, Types
<1>6. Types'
  BY <1>1, <1>2, <1>4, <1>5 DEF Inv, Types
<1>7. Shape'
  <2>1. /\ \A i \in 1..Len(sdoq) : OpFor(sdoq[i])'
        /\ \A i \in 1..Len(done) : DoneFor(done[i])'
    BY <1>1, ForKept DEF OpFor, DoneFor
  <2>2. ApiFor'
    BY <1>1, <1>4 DEF Inv, Shape, ApiFor, Kind
  <2>3. LoopFor'
    BY <1>2 DEF LoopFor
  <2>. QED  BY <1>1, <2>1, <2>2, <2>3 DEF Shape
<1>8. \A r \in Requests : /\ In(sdoq, r)' <=> In(sdoq, r)
                          /\ In(done, r)' <=> In(done, r)
                          /\ ~OnLoop(r)' /\ ~OnLoop(r)
                          /\ OnApi(r)' <=> OnApi(r)
  BY <1>1, <1>2, NobodyAssumption DEF In, OnLoop, OnApi
<1>9. \A r \in Requests : Async(r)' <=> Async(r)
  BY <1>8 DEF Async
<1>10. OnePlace'
  BY <1>1, <1>8 DEF Inv, OnePlace, Distinct
<1>11. Books'
  <2>1. ASSUME NEW r \in Requests
        PROVE  Counted(r)' /\ Phased(r)' /\ Handled(r)'
    <3>1. Counted(r) /\ Phased(r) /\ Handled(r)
      BY DEF Inv, Books
    <3>2. Counted(r)'
      BY <1>1, <1>8, <1>9, <3>1 DEF Counted
    <3>3. Phased(r)'
      BY <1>1, <1>8, <1>9, <1>4, <3>1 DEF Phased
    <3>4. Handled(r)'
      BY <1>1, <1>8, <1>9, <3>1 DEF Handled
    <3>. QED  BY <3>2, <3>3, <3>4
  <2>. QED  BY <2>1 DEF Books
<1>12. Configuring'
  BY <1>1, <1>2, <1>3 DEF Configuring, OneItem, HasItem
<1>13. Passed'
  <2>1. Len(conf'.tried) = 0
    BY <1>2, EmptySeq
  <2>2. \A r \in Requests : req[r].boot \in Nat /\ req[r].boot <= boots
    BY DEF Inv, Passed, Types, ReqType
  <2>3. \A r \in Requests : req'[r].boot < boots'
    BY <1>1, <1>5, <2>2
  <2>4. \A r \in Requests : req'[r].boot <= boots'
    BY <1>1, <1>5, <2>2
  <2>5. \A i \in 1..Len(sdoq') : Older(sdoq[i].from)'
    BY <1>1, <2>3, SdoqIndexed DEF Inv, Older
  <2>6. api.pc # "idle" => Older(api.req)'
    BY <1>1, <2>3, ApiRequest DEF Older
  <2>7. FirstItemFirst'
    <3>1. Len(conf'.tried) # 1
      BY <2>1
    <3>. QED  BY <3>1, Zenon DEF FirstItemFirst
  <2>. QED  BY <1>1, <2>4, <2>5, <2>6, <2>7 DEF Passed
<1>14. Lasts'
  BY <1>1, <1>2, <1>4 DEF Inv, Lasts, Registered
<1>. QED  BY <1>6, <1>7, <1>10, <1>11, <1>12, <1>13, <1>14 DEF Inv

\* The boot ends.
LEMMA OnBootInv ==
  ASSUME Inv, OnBoot
  PROVE  Inv'
<1>1. /\ loop.pc = "idle" /\ conf.state = "ended"
      /\ conf' = [conf EXCEPT !.state = "booted"]
      /\ UNCHANGED <<config, sens, cell, sdoq, done, api, loop, req, connected, boots>>
  BY DEF OnBoot
<1>2. conf' \in ConfType /\ conf'.tried = conf.tried
  BY <1>1 DEF Inv, Types, ConfType
<1>3. ~HasItem(sdoq) /\ ~HasItem(done)
  BY <1>1 DEF Inv, Configuring
<1>4. Types'
  BY <1>1, <1>2 DEF Inv, Types, Sensors, table
<1>5. Shape'
  <2>1. /\ \A i \in 1..Len(sdoq) : OpFor(sdoq[i])'
        /\ \A i \in 1..Len(done) : DoneFor(done[i])'
    BY <1>1, ForKept DEF OpFor, DoneFor
  <2>2. ApiFor' /\ LoopFor'
    BY <1>1 DEF Inv, Shape, ApiFor, LoopFor, Kind, Sensors, table
  <2>. QED  BY <1>1, <2>1, <2>2 DEF Shape
<1>6. OnePlace' /\ \A r : Async(r)' <=> Async(r)
  BY <1>1, AsyncSame DEF Inv
<1>7. Books'
  BY <1>1, <1>6 DEF Inv, Books, Counted, Phased, Handled, OnApi, Sensors, table
<1>8. Configuring'
  BY <1>1, <1>3 DEF Inv, Configuring, OneItem, HasItem
<1>9. Passed'
  BY <1>1, <1>2 DEF Inv, Passed, FirstItemFirst, Older
<1>10. Lasts'
  BY <1>1 DEF Inv, Lasts, Registered, Sensors, table
<1>. QED  BY <1>4, <1>5, <1>6, <1>7, <1>8, <1>9, <1>10 DEF Inv

-----------------------------------------------------------------------------
(* The SDO client, and all the steps together.                             *)

\* An operation ends: a write of a sensor goes away, what has a continuation is
\* posted to the loop.
LEMMA SdoEndInv ==
  ASSUME Inv, NEW ok \in BOOLEAN, SdoEnd(ok)
  PROVE  Inv'
<1>. DEFINE c == <<"SDO", Head(sdoq).id>>
            v == IF Head(sdoq).op = "write" /\ ok THEN Head(sdoq).val ELSE cell[c]
            x == [to |-> Head(sdoq).to, owner |-> Head(sdoq).owner, ok |-> ok,
                  val |-> IF Head(sdoq).op = "read" /\ ok THEN v ELSE {}]
<1>1. /\ loop.pc = "idle" /\ sdoq # <<>> /\ sdoq' = Tail(sdoq)
      /\ cell' = [cell EXCEPT ![c] = v]
      /\ done' = IF Head(sdoq).op = "write" /\ Head(sdoq).to # Config THEN done
                 ELSE Append(done, x)
      /\ \/ Head(sdoq).op = "write" /\ Saw(On(c), v)
         \/ /\ Head(sdoq).owner # Nobody
            /\ req' = [req EXCEPT ![Head(sdoq).owner].failed = TRUE]
         \/ UNCHANGED req
      /\ UNCHANGED <<config, sens, api, loop, slave>>
  BY DEF SdoEnd
<1>2. /\ sdoq \in Seq(OpType) /\ Distinct(sdoq) /\ OneItem(sdoq)
      /\ done \in Seq(DoneType) /\ Distinct(done) /\ OneItem(done)
      /\ loop \in LoopType /\ cell \in [Kinds \X Ids -> Values]
  BY DEF Inv, Types, OnePlace, Configuring
<1>3. /\ sdoq' \in Seq(OpType) /\ Head(sdoq) \in OpType
      /\ Len(sdoq) \in Nat /\ Len(sdoq') \in Nat
      /\ \A i \in 1..Len(sdoq') : i + 1 \in 1..Len(sdoq) /\ sdoq'[i] = sdoq[i + 1]
      /\ 1 \in 1..Len(sdoq) /\ Head(sdoq) = sdoq[1]
  BY <1>1, <1>2, TailQueue
<1>4. /\ In(sdoq, Head(sdoq).owner) /\ Distinct(sdoq')
      /\ \A r : r # Nobody => (In(sdoq', r) <=> In(sdoq, r) /\ Head(sdoq).owner # r)
  BY <1>1, <1>2, TailOwners
<1>5. OneItem(sdoq') /\ (HasItem(sdoq') <=> HasItem(sdoq) /\ Head(sdoq).to # Config)
  BY <1>1, <1>2, TailItems
<1>6. OpFor(Head(sdoq)) /\ (Head(sdoq).to = Config => HasItem(sdoq))
  BY <1>3 DEF Inv, Shape, HasItem
<1>7. PICK o \in OpType : o = Head(sdoq)
  BY <1>3
<1>8. c \in Kinds \X Ids /\ v \in Values
  BY <1>2, <1>3 DEF OpType, Kinds
<1>9. PICK d \in DoneType :
        /\ d.to = o.to /\ d.owner = o.owner
        /\ done' = IF o.op = "write" /\ o.to # Config THEN done ELSE Append(done, d)
  <2>1. x \in DoneType /\ x.to = o.to /\ x.owner = o.owner
    BY <1>7, <1>8, Constants DEF DoneType, OpType
  <2>. QED  BY <1>1, <1>7, <2>1
<1>10. Kept
  <2>1. CASE Saw(On(c), v)
    BY <2>1, <1>8, SawKept DEF Inv
  <2>2. CASE /\ Head(sdoq).owner # Nobody
             /\ req' = [req EXCEPT ![Head(sdoq).owner].failed = TRUE]
    <3>1. Head(sdoq).owner \in Requests
      BY <2>2, <1>3 DEF OpType, Holders
    <3>. QED  BY <2>2, <3>1, FailedKept DEF Inv
  <2>3. CASE UNCHANGED req
    BY <2>3, SameKept DEF Inv
  <2>. QED  BY <1>1, <2>1, <2>2, <2>3
<1>11. cell' \in [Kinds \X Ids -> Values]
  BY <1>1, <1>2, <1>8
<1>. HIDE DEF c, v, x
<1>12. \A r \in Requests : /\ req'[r].to = req[r].to /\ req'[r].phase = req[r].phase
                           /\ req'[r].refs = req[r].refs /\ req'[r].boot = req[r].boot
  BY <1>10 DEF Kept
<1>13. o.owner # Nobody => ~In(done, o.owner) /\ o.owner \in Requests /\ In(sdoq, o.owner)
  BY <1>4, <1>7 DEF Inv, OnePlace, OpType, Holders
<1>14. o.to = Config => ~HasItem(done)
  BY <1>6, <1>7 DEF Inv, Configuring
<1>15. /\ done' \in Seq(DoneType) /\ Distinct(done') /\ OneItem(done')
       /\ HasItem(done') <=> HasItem(done) \/ o.to = Config
       /\ \A r : r # Nobody => (In(done', r) <=> In(done, r) \/ o.owner = r)
       /\ \A i \in 1..Len(done') : \/ i \in 1..Len(done) /\ done'[i] = done[i]
                                   \/ done'[i] = d /\ (o.op = "read" \/ o.to = Config)
  <2>1. CASE o.op = "write" /\ o.to # Config
    <3>1. done' = done /\ o.owner = Nobody
      BY <1>6, <1>7, <1>9, <2>1 DEF OpFor
    <3>. QED  BY <1>2, <2>1, <3>1
  <2>2. CASE ~(o.op = "write" /\ o.to # Config)
    <3>1. done' = Append(done, d)
      BY <1>9, <2>2
    <3>2. d.owner = Nobody \/ ~In(done, d.owner)
      BY <1>9, <1>13
    <3>3. d.to # Config \/ ~HasItem(done)
      BY <1>9, <1>14
    <3>4. /\ done' \in Seq(DoneType)
          /\ \A i \in 1..Len(done') : \/ i \in 1..Len(done) /\ done'[i] = done[i]
                                      \/ i = Len(done) + 1 /\ done'[i] = d
      BY <1>2, <3>1, AppendQueue
    <3>5. Distinct(done') /\ \A r : In(done', r) <=> In(done, r) \/ d.owner = r
      BY <1>2, <3>1, <3>2, AppendOwners
    <3>6. OneItem(done') /\ (HasItem(done') <=> HasItem(done) \/ d.to = Config)
      BY <1>2, <3>1, <3>3, AppendItems
    <3>7. o.op = "read" \/ o.to = Config
      BY <2>2 DEF OpType
    <3>. QED  BY <1>9, <3>4, <3>5, <3>6, <3>7
  <2>. QED  BY <2>1, <2>2
<1>16. \A r \in Requests : /\ In(sdoq, r)' <=> In(sdoq, r) /\ r # o.owner
                           /\ In(done, r)' <=> In(done, r) \/ r = o.owner
                           /\ ~OnLoop(r)' /\ ~OnLoop(r)
                           /\ OnApi(r)' <=> OnApi(r)
  <2>1. ASSUME NEW r \in Requests
        PROVE  /\ In(sdoq, r)' <=> In(sdoq, r) /\ r # o.owner
               /\ In(done, r)' <=> In(done, r) \/ r = o.owner
    <3>1. (In(sdoq, r)' <=> In(sdoq', r)) /\ (In(done, r)' <=> In(done', r))
      BY DEF In
    <3>2. r # Nobody
      BY NobodyAssumption
    <3>. QED  BY <1>4, <1>7, <1>15, <3>1, <3>2
  <2>. QED  BY <1>1, <2>1 DEF OnLoop, OnApi
<1>17. \A r \in Requests : Async(r)' <=> Async(r)
  <2>1. \A r \in Requests : r = o.owner => In(sdoq, r)
    BY <1>13, NobodyAssumption
  <2>. QED  BY <1>16, <2>1 DEF Async
<1>18. Sensors' = Sensors /\ table' = table
  BY <1>1 DEF Sensors, table
<1>19. Types'
  BY <1>1, <1>3, <1>10, <1>11, <1>15, <1>18 DEF Inv, Types, Kept, slave
<1>20. Shape'
  <2>1. /\ \A i \in 1..Len(sdoq) : \A y : y = sdoq[i] => OpFor(y)'
        /\ \A i \in 1..Len(done) : \A y : y = done[i] => DoneFor(y)'
        /\ loop.owner # Nobody /\ loop.pc # "idle" =>
              loop.owner \in Requests /\ req'[loop.owner].to = req[loop.owner].to
    BY <1>1, <1>12, ForKept
  <2>2. OpFor(o)'
    BY <1>3, <1>7, <2>1
  <2>3. \A i \in 1..Len(sdoq') : \A y : y = sdoq'[i] => OpFor(y)'
    BY <1>3, <2>1
  <2>4. \A i \in 1..Len(done') : \A y : y = done'[i] => DoneFor(y)'
    <3>. SUFFICES ASSUME NEW i \in 1..Len(done'), NEW y, y = done'[i]
                  PROVE  DoneFor(y)'
      OBVIOUS
    <3>1. CASE i \in 1..Len(done) /\ done'[i] = done[i]
      BY <2>1, <3>1
    <3>2. CASE y = d /\ (o.op = "read" \/ o.to = Config)
      BY <1>9, <2>2, <3>2 DEF OpFor, DoneFor
    <3>. QED  BY <1>15, <3>1, <3>2
  <2>5. \A i \in 1..Len(sdoq') : OpFor(sdoq[i])'
    BY <2>3 DEF OpFor
  <2>6. \A i \in 1..Len(done') : DoneFor(done[i])'
    BY <2>4 DEF DoneFor
  <2>7. ApiFor'
    BY <1>1, <1>12, <1>18 DEF Inv, Shape, ApiFor, Types, ApiType, Holders, Kind
  <2>8. LoopFor'
    BY <1>1, <2>1, <1>18 DEF Inv, Shape, LoopFor
  <2>. QED  BY <2>5, <2>6, <2>7, <2>8 DEF Shape
<1>21. OnePlace'
  <2>1. /\ Distinct(sdoq)' <=> Distinct(sdoq')
        /\ Distinct(done)' <=> Distinct(done')
    BY DEF Distinct
  <2>2. ASSUME NEW r \in Requests
        PROVE  /\ ~(In(sdoq, r)' /\ In(done, r)')
               /\ ~(In(sdoq, r)' /\ OnLoop(r)')
               /\ ~(In(done, r)' /\ OnLoop(r)')
    BY <1>16 DEF Inv, OnePlace
  <2>. QED  BY <1>4, <1>15, <2>1, <2>2 DEF OnePlace
<1>22. Books'
  <2>1. ASSUME NEW r \in Requests
        PROVE  Counted(r)' /\ Phased(r)' /\ Handled(r)'
    <3>1. Counted(r) /\ Phased(r) /\ Handled(r)
      BY DEF Inv, Books
    <3>2. Counted(r)'
      BY <1>12, <1>16, <1>17, <3>1 DEF Counted
    <3>3. Phased(r)'
      BY <1>12, <1>16, <1>17, <1>18, <3>1 DEF Phased
    <3>4. Handled(r)'
      BY <1>1, <1>16, <1>17, <3>1 DEF Handled
    <3>. QED  BY <3>2, <3>3, <3>4
  <2>. QED  BY <2>1 DEF Books
<1>23. Configuring'
  <2>1. /\ OneItem(sdoq)' <=> OneItem(sdoq')
        /\ HasItem(sdoq)' <=> HasItem(sdoq')
        /\ OneItem(done)' <=> OneItem(done')
        /\ HasItem(done)' <=> HasItem(done')
    BY DEF OneItem, HasItem
  <2>. QED  BY <1>1, <1>5, <1>6, <1>7, <1>14, <1>15, <2>1 DEF Inv, Configuring, slave
<1>24. Passed'
  <2>1. FirstItemFirst'
    <3>. SUFFICES ASSUME NEW i \in 1..Len(sdoq'), NEW j \in 1..Len(sdoq'), i < j,
                         sdoq'[j].to = Config, Len(conf'.tried) = 1,
                         sdoq'[i].from # Nobody
                  PROVE  req'[sdoq'[i].from].boot < boots'
      BY <1>3, LenProperties DEF FirstItemFirst
    <3>1. /\ i + 1 \in 1..Len(sdoq) /\ j + 1 \in 1..Len(sdoq) /\ i + 1 < j + 1
          /\ sdoq'[i] = sdoq[i + 1] /\ sdoq'[j] = sdoq[j + 1]
      BY <1>3
    <3>2. req[sdoq[i + 1].from].boot < boots
      BY <1>1, <3>1, SdoqIndexed DEF Inv, Passed, FirstItemFirst, slave
    <3>3. sdoq[i + 1].from \in Requests
      BY <3>1, SdoqIndexed DEF Inv
    <3>. QED  BY <1>1, <1>12, <3>1, <3>2, <3>3 DEF slave
  <2>2. \A r \in Requests : req'[r].boot <= boots'
    BY <1>1, <1>12 DEF Inv, Passed, slave
  <2>. QED  BY <1>1, <2>1, <2>2 DEF Passed
<1>25. Lasts'
  <2>1. /\ \A i \in 1..Len(sdoq) :
             sdoq[i].op = "read" /\ sdoq[i].owner = Nobody => Registered(sdoq[i].to)
        /\ \A i \in 1..Len(done) :
             done[i].owner = Nobody /\ done[i].to # Config => Registered(done[i].to)
    BY DEF Inv, Lasts
  <2>2. \A i \in 1..Len(sdoq') :
          sdoq'[i].op = "read" /\ sdoq'[i].owner = Nobody => Registered(sdoq'[i].to)
    BY <1>3, <2>1
  <2>3. \A i \in 1..Len(done') :
          done'[i].owner = Nobody /\ done'[i].to # Config => Registered(done'[i].to)
    BY <1>3, <1>7, <1>9, <1>15, <2>1
  <2>. QED  BY <1>1, <1>18, <2>2, <2>3 DEF Lasts, Registered
<1>. QED  BY <1>19, <1>20, <1>21, <1>22, <1>23, <1>24, <1>25 DEF Inv

LEMMA StutterInv ==
  ASSUME Inv, UNCHANGED vars
  PROVE  Inv'
<1>1. UNCHANGED <<config, connected, sens, cell, sdoq, done, api, loop, req, conf, boots>>
  BY DEF vars
<1>2. Types' /\ Sensors' = Sensors /\ table' = table
  BY <1>1 DEF Inv, Types, Sensors, table
<1>3. Shape'
  <2>1. /\ \A i \in 1..Len(sdoq) : OpFor(sdoq[i])'
        /\ \A i \in 1..Len(done) : DoneFor(done[i])'
    BY <1>1, ForKept DEF OpFor, DoneFor
  <2>2. ApiFor' /\ LoopFor'
    BY <1>1, <1>2 DEF Inv, Shape, ApiFor, LoopFor, Kind
  <2>. QED  BY <1>1, <2>1, <2>2 DEF Shape
<1>4. OnePlace' /\ \A r : Async(r)' <=> Async(r)
  BY <1>1, AsyncSame DEF Inv
<1>5. Books'
  BY <1>1, <1>2, <1>4 DEF Inv, Books, Counted, Phased, Handled, OnApi
<1>6. Configuring'
  BY <1>1 DEF Inv, Configuring, OneItem, HasItem
<1>7. Passed'
  BY <1>1 DEF Inv, Passed, FirstItemFirst, Older
<1>8. Lasts'
  BY <1>1, <1>2 DEF Inv, Lasts, Registered
<1>. QED  BY <1>2, <1>3, <1>4, <1>5, <1>6, <1>7, <1>8 DEF Inv

LEMMA NextInv ==
  ASSUME Inv, [Next]_vars
  PROVE  Inv'
<1>1. CASE UNCHANGED vars
  BY <1>1, StutterInv
<1>2. ASSUME NEW r \in Requests, NEW s \in Sensors, NEW q \in Asks[r], Accept(r, s, q)
      PROVE  Inv'
  <2>1. q \in Queries
    BY DEF Queries
  <2>. QED  BY <1>2, <2>1, AcceptInv
<1>3. CASE ApiStep
  BY <1>3, ApiMoveInv, EmitWriteInv, ReadSdoInv, ReturnInv DEF ApiStep
<1>4. CASE LoopStep
  BY <1>4, ContinueInv, LoopMoveInv, LoopUnrefInv, OnConfigActionInv, ConfigContinueInv
  DEF LoopStep
<1>5. CASE Sdo
  BY <1>5, SdoEndInv DEF Sdo
<1>6. CASE Bus
  BY <1>6, OnConfigInv, OnBootInv, OnRpdoWriteInv DEF Bus
<1>. QED  BY <1>1, <1>2, <1>3, <1>4, <1>5, <1>6 DEF Next

LEMMA Invariance == Spec => []Inv
BY InitInv, NextInv, PTL DEF Spec

-----------------------------------------------------------------------------
(* What follows from it.                                                   *)

\* What a client asks of a sensor of a slave that boots reaches the device after the
\* first item of its configuration: m_connected is false from OnConfig until
\* doStartAction submitted it.  What is asked of its admin verb may come before.
THEOREM FirstItemProtected == Spec => []FirstItemFirst
<1>1. Inv => FirstItemFirst
  BY DEF Inv, Passed
<1>. QED  BY <1>1, Invariance, PTL

\* What push() decodes is the value of the last sensor that the configuration gives
\* a register, the one that m_regs has: the others are never pushed.
THEOREM OnlyTheLast == Spec => LastNotified
<1>. DEFINE A == Push => \A s \in Sensors : table[s].id = table[loop.to].id => s <= loop.to
<1>1. Inv => A
  <2>1. Inv /\ Push => Registered(loop.to)
    BY DEF Push, Inv, Lasts, Shape, LoopFor
  <2>. QED  BY <2>1 DEF Registered
<1>2. [A]_vars => [Push => \A s \in Sensors : table[s].id = table[loop.to].id
                                                => s <= loop.to]_vars
  BY DEF A
<1>. HIDE DEF A
<1>3. Spec => [][A]_vars
  BY <1>1, Invariance, PTL
<1>. QED  BY <1>3 DEF LastNotified, A

-----------------------------------------------------------------------------
(* The operations of one part among those of the slave.                     *)

\* What Mine adds of the n-th operation to what it has of those before.
Add(s, ops, n, before) ==
  IF n = 0 THEN <<>>
  ELSE IF ops[n].to = s THEN Append(before[n - 1], ops[n]) ELSE before[n - 1]

Upto(s, ops) ==
  CHOOSE upto : upto = [n \in 0..Len(ops) |-> Add(s, ops, n, upto)]

LEMMA MineUpto ==
  ASSUME NEW s, NEW ops
  PROVE  Mine(s, ops) = Upto(s, ops)[Len(ops)]
BY DEF Mine, Upto, Add

LEMMA UptoExists ==
  ASSUME NEW s, NEW ops, Len(ops) \in Nat
  PROVE  Upto(s, ops) = [n \in 0..Len(ops) |-> Add(s, ops, n, Upto(s, ops))]
<1>. DEFINE N == Len(ops)
            Fits(m, f) == f = [n \in 0..m |-> Add(s, ops, n, f)]
            T == {m \in 0..N : \E f : Fits(m, f)}
<1>1. 0 \in T
  <2>. DEFINE f == [n \in 0..0 |-> <<>>]
  <2>1. Fits(0, f)
    BY DEF Add
  <2>. QED  BY <2>1
<1>2. ASSUME NEW m \in 0..(N - 1), m \in T
      PROVE  m + 1 \in T
  <2>1. PICK f : Fits(m, f)
    BY <1>2
  <2>. DEFINE g == [n \in 0..(m + 1) |-> IF n = m + 1 THEN Add(s, ops, m + 1, f) ELSE f[n]]
  <2>2. \A n \in 0..(m + 1) : Add(s, ops, n, g) = Add(s, ops, n, f)
    BY DEF Add
  <2>3. \A n \in 0..m : f[n] = Add(s, ops, n, f)
    BY <2>1
  <2>4. \A n \in 0..(m + 1) : g[n] = Add(s, ops, n, g)
    BY <2>2, <2>3
  <2>5. \E h : Fits(m + 1, h)
    BY <2>4
  <2>6. m + 1 \in 0..N
    OBVIOUS
  <2>. QED  BY <2>5, <2>6
<1>3. N \in T
  <2>. HIDE DEF T
  <2>1. \A n \in 0..N : n \in T
    BY <1>1, <1>2, UpTo
  <2>. QED  BY <2>1
<1>4. \E f : f = [n \in 0..N |-> Add(s, ops, n, f)]
  BY <1>3
<1>. QED  BY <1>4 DEF Upto

LEMMA UptoIs ==
  ASSUME NEW s, NEW ops, Len(ops) \in Nat
  PROVE  /\ Upto(s, ops)[0] = <<>>
         /\ \A n \in 1..Len(ops) :
              Upto(s, ops)[n] = IF ops[n].to = s THEN Append(Upto(s, ops)[n - 1], ops[n])
                                ELSE Upto(s, ops)[n - 1]
<1>1. \A n \in 0..Len(ops) : Upto(s, ops)[n] = Add(s, ops, n, Upto(s, ops))
  BY UptoExists
<1>. QED  BY <1>1 DEF Add

\* Operations in common give the same ones of s.
LEMMA UptoSame ==
  ASSUME NEW s, NEW p, NEW q, NEW N \in Nat, Len(p) \in Nat, Len(q) \in Nat,
         N <= Len(p), N <= Len(q), \A n \in 1..N : p[n] = q[n]
  PROVE  Upto(s, p)[N] = Upto(s, q)[N]
<1>. DEFINE T == {n \in 0..N : Upto(s, p)[n] = Upto(s, q)[n]}
<1>1. 0 \in T
  BY UptoIs
<1>2. ASSUME NEW n \in 0..(N - 1), n \in T
      PROVE  n + 1 \in T
  <2>1. /\ n + 1 \in 1..N /\ n + 1 \in 1..Len(p) /\ n + 1 \in 1..Len(q)
        /\ (n + 1) - 1 = n
    OBVIOUS
  <2>2. Upto(s, p)[n] = Upto(s, q)[n]
    BY <1>2
  <2>3. Upto(s, p)[n + 1] = Upto(s, q)[n + 1]
    BY <2>1, <2>2, UptoIs
  <2>. QED  BY <2>1, <2>3
<1>3. N \in T
  <2>. HIDE DEF T
  <2>1. \A n \in 0..N : n \in T
    BY <1>1, <1>2, UpTo
  <2>. QED  BY <2>1
<1>. QED  BY <1>3

LEMMA MineEmpty ==
  ASSUME NEW s
  PROVE  Mine(s, <<>>) = <<>>
<1>1. Len(<<>>) = 0
  BY EmptySeq
<1>. QED  BY <1>1, MineUpto, UptoIs

LEMMA MineAppend ==
  ASSUME NEW S, NEW s, NEW ops \in Seq(S), NEW o \in S
  PROVE  /\ o.to = s => Mine(s, Append(ops, o)) = Append(Mine(s, ops), o)
         /\ o.to # s => Mine(s, Append(ops, o)) = Mine(s, ops)
<1>. DEFINE more == Append(ops, o)
            N    == Len(ops)
<1>1. /\ more \in Seq(S) /\ N \in Nat /\ Len(more) = N + 1
      /\ \A n \in 1..N : more[n] = ops[n]
      /\ more[N + 1] = o
  BY AppendProperties, LenProperties
<1>. HIDE DEF more, N
<1>2. N + 1 \in 1..Len(more) /\ (N + 1) - 1 = N /\ Len(more) \in Nat /\ N <= Len(more)
  BY <1>1
<1>3. Upto(s, more)[N + 1] = IF o.to = s THEN Append(Upto(s, more)[N], o)
                             ELSE Upto(s, more)[N]
  <2>1. \A n \in 1..Len(more) :
          Upto(s, more)[n] = IF more[n].to = s THEN Append(Upto(s, more)[n - 1], more[n])
                             ELSE Upto(s, more)[n - 1]
    BY <1>2, UptoIs
  <2>. QED  BY <1>1, <1>2, <2>1
<1>4. Upto(s, more)[N] = Upto(s, ops)[N]
  <2>1. N <= Len(ops) /\ Len(ops) \in Nat
    BY <1>1 DEF N
  <2>. QED  BY <1>1, <1>2, <2>1, UptoSame
<1>. QED  BY <1>1, <1>3, <1>4, MineUpto DEF more, N

\* What Mine gives is a sequence of operations of s, all of them, and not longer.
Picked(s, ops, n, m) ==
  /\ m \in Seq({ops[i] : i \in 1..n})
  /\ \A k \in 1..Len(m) : m[k].to = s
  /\ Len(m) <= n
  /\ \A i \in 1..n : ops[i].to = s => \E k \in 1..Len(m) : m[k] = ops[i]

LEMMA UptoPicks ==
  ASSUME NEW s, NEW ops, Len(ops) \in Nat
  PROVE  \A n \in 0..Len(ops) : Picked(s, ops, n, Upto(s, ops)[n])
<1>. DEFINE N == Len(ops)
            T == {n \in 0..N : Picked(s, ops, n, Upto(s, ops)[n])}
<1>1. 0 \in T
  <2>1. Picked(s, ops, 0, <<>>)
    BY EmptySeq DEF Picked
  <2>. QED  BY <2>1, UptoIs
<1>2. ASSUME NEW n \in 0..(N - 1), n \in T
      PROVE  n + 1 \in T
  <2>. DEFINE m == Upto(s, ops)[n]
              l == Upto(s, ops)[n + 1]
              o == ops[n + 1]
              A == {ops[i] : i \in 1..n}
              B == {ops[i] : i \in 1..(n + 1)}
  <2>1. n + 1 \in 1..N /\ (n + 1) - 1 = n /\ n \in Nat
    OBVIOUS
  <2>2. Picked(s, ops, n, m)
    BY <1>2
  <2>3. l = IF o.to = s THEN Append(m, o) ELSE m
    BY <2>1, UptoIs
  <2>. HIDE DEF m, l, o
  <2>4. A \subseteq B /\ o \in B
    BY <2>1 DEF o
  <2>5. \A i \in 1..(n + 1) : i \in 1..n \/ i = n + 1
    BY <2>1
  <2>6. m \in Seq(B) /\ Len(m) \in Nat
    <3>1. m \in Seq(A)
      BY <2>2 DEF Picked
    <3>. QED  BY <2>4, <3>1, SeqDef, LenProperties
  <2>7. CASE o.to # s
    <3>1. l = m
      BY <2>3, <2>7
    <3>2. Len(m) <= n + 1
      BY <2>1, <2>2, <2>6 DEF Picked
    <3>3. \A i \in 1..(n + 1) : ops[i].to = s => \E k \in 1..Len(m) : m[k] = ops[i]
      BY <2>2, <2>5, <2>7 DEF Picked, o
    <3>4. Picked(s, ops, n + 1, l)
      BY <2>2, <2>6, <3>1, <3>2, <3>3 DEF Picked
    <3>. QED  BY <2>1, <3>4 DEF l
  <2>8. CASE o.to = s
    <3>1. /\ l \in Seq(B) /\ Len(l) = Len(m) + 1
          /\ \A k \in 1..Len(m) : l[k] = m[k]
          /\ l[Len(m) + 1] = o
      <4>1. l = Append(m, o)
        BY <2>3, <2>8
      <4>. HIDE DEF B
      <4>. QED  BY <2>4, <2>6, <4>1, AppendProperties
    <3>2. \A k \in 1..Len(l) : k \in 1..Len(m) \/ k = Len(m) + 1
      BY <2>6, <3>1
    <3>3. \A k \in 1..Len(l) : l[k].to = s
      BY <2>2, <2>8, <3>1, <3>2 DEF Picked
    <3>4. Len(l) <= n + 1
      BY <2>1, <2>2, <2>6, <3>1 DEF Picked
    <3>5. ASSUME NEW i \in 1..(n + 1), ops[i].to = s
          PROVE  \E k \in 1..Len(l) : l[k] = ops[i]
      <4>1. CASE i = n + 1
        <5>1. Len(m) + 1 \in 1..Len(l)
          BY <2>6, <3>1
        <5>. QED  BY <3>1, <4>1, <5>1 DEF o
      <4>2. CASE i \in 1..n
        <5>1. PICK k \in 1..Len(m) : m[k] = ops[i]
          BY <2>2, <3>5, <4>2 DEF Picked
        <5>2. k \in 1..Len(l)
          BY <2>6, <3>1
        <5>. QED  BY <3>1, <5>1, <5>2
      <4>. QED  BY <2>5, <4>1, <4>2
    <3>6. Picked(s, ops, n + 1, l)
      BY <3>1, <3>3, <3>4, <3>5 DEF Picked
    <3>. QED  BY <2>1, <3>6 DEF l
  <2>. QED  BY <2>7, <2>8
<1>3. \A n \in 0..N : n \in T
  <2>. HIDE DEF T
  <2>. QED  BY <1>1, <1>2, UpTo
<1>. QED  BY <1>3

LEMMA MinePicks ==
  ASSUME NEW S, NEW s, NEW ops \in Seq(S)
  PROVE  /\ Mine(s, ops) \in Seq(S)
         /\ Len(Mine(s, ops)) \in Nat /\ Len(Mine(s, ops)) <= Len(ops)
         /\ \A k \in 1..Len(Mine(s, ops)) :
              /\ Mine(s, ops)[k].to = s
              /\ \E i \in 1..Len(ops) : Mine(s, ops)[k] = ops[i]
         /\ \A i \in 1..Len(ops) : ops[i].to = s =>
              \E k \in 1..Len(Mine(s, ops)) : Mine(s, ops)[k] = ops[i]
<1>. DEFINE N == Len(ops)
            m == Mine(s, ops)
            A == {ops[i] : i \in 1..N}
<1>1. N \in Nat /\ \A i \in 1..N : ops[i] \in S
  BY LenProperties, ElementOfSeq
<1>2. Picked(s, ops, N, m)
  BY <1>1, MineUpto, UptoPicks
<1>. HIDE DEF m
<1>3. m \in Seq(A)
  BY <1>2 DEF Picked
<1>4. Len(m) \in Nat /\ \A k \in 1..Len(m) : m[k] \in A
  BY <1>3, LenProperties, ElementOfSeq
<1>5. A \subseteq S
  BY <1>1
<1>6. m \in Seq(S)
  BY <1>3, <1>5, SeqDef
<1>. QED  BY <1>2, <1>4, <1>6 DEF Picked, m

\* An operation in front: the one of s to end first, if it is of s.
InFront(s, o, m) == IF o.to = s THEN <<o>> \o m ELSE m

LEMMA UptoFront ==
  ASSUME NEW S, NEW s, NEW o \in S, NEW ops \in Seq(S), NEW all \in Seq(S),
         Len(all) = Len(ops) + 1, all[1] = o,
         \A n \in 1..Len(ops) : all[n + 1] = ops[n]
  PROVE  Mine(s, all) = InFront(s, o, Mine(s, ops))
<1>. DEFINE N == Len(ops)
            T == {n \in 0..N : Upto(s, all)[n + 1] = InFront(s, o, Upto(s, ops)[n])}
<1>1. N \in Nat /\ Len(all) \in Nat /\ 1 \in 1..Len(all)
  BY LenProperties
<1>2. \A n \in 0..N : Upto(s, ops)[n] \in Seq(S)
  <2>1. ASSUME NEW n \in 0..N
        PROVE  Upto(s, ops)[n] \in Seq(S)
    <3>. DEFINE A == {ops[i] : i \in 1..n}
    <3>1. A \subseteq S
      BY <1>1, ElementOfSeq
    <3>2. \A k \in 0..Len(ops) : Picked(s, ops, k, Upto(s, ops)[k])
      BY <1>1, UptoPicks
    <3>3. Upto(s, ops)[n] \in Seq(A)
      BY <3>2 DEF Picked
    <3>. HIDE DEF A
    <3>. QED  BY <3>1, <3>3, SeqDef
  <2>. QED  BY <2>1
<1>3. /\ Upto(s, all)[0] = <<>>
      /\ \A k \in 1..Len(all) :
           Upto(s, all)[k] = IF all[k].to = s THEN Append(Upto(s, all)[k - 1], all[k])
                             ELSE Upto(s, all)[k - 1]
  <2>. HIDE DEF N, T
  <2>. QED  BY <1>1, UptoIs
<1>4. 0 \in T
  <2>1. Upto(s, all)[1] = IF o.to = s THEN Append(<<>>, o) ELSE <<>>
    <3>1. 1 - 1 = 0
      OBVIOUS
    <3>. QED  BY <1>1, <1>3, <3>1
  <2>2. Append(<<>>, o) = <<o>> \o <<>>
    BY EmptySeq
  <2>3. Upto(s, ops)[0] = <<>>
    BY <1>1, UptoIs
  <2>4. Upto(s, all)[0 + 1] = InFront(s, o, Upto(s, ops)[0])
    BY <2>1, <2>2, <2>3 DEF InFront
  <2>. QED  BY <1>1, <2>4
<1>5. ASSUME NEW n \in 0..(N - 1), n \in T
      PROVE  n + 1 \in T
  <2>. DEFINE m == Upto(s, ops)[n]
              e == ops[n + 1]
  <2>1. /\ n + 1 \in 1..N /\ n + 1 \in 0..N /\ n \in 0..N /\ (n + 1) - 1 = n
        /\ (n + 1) + 1 \in 1..Len(all) /\ ((n + 1) + 1) - 1 = n + 1
    BY <1>1
  <2>2. all[(n + 1) + 1] = e
    BY <2>1
  <2>3. Upto(s, all)[n + 1] = InFront(s, o, m)
    BY <1>5
  <2>4. Upto(s, all)[(n + 1) + 1] = IF e.to = s THEN Append(InFront(s, o, m), e) ELSE InFront(s, o, m)
    <3>. HIDE DEF m, e
    <3>. QED  BY <2>1, <2>2, <2>3, <1>3
  <2>5. Upto(s, ops)[n + 1] = IF e.to = s THEN Append(m, e) ELSE m
    BY <1>1, <2>1, UptoIs
  <2>6. m \in Seq(S) /\ e \in S /\ <<o>> \in Seq(S)
    BY <1>1, <1>2, <2>1, ElementOfSeq
  <2>. HIDE DEF m, e
  <2>7. Append(<<o>> \o m, e) = <<o>> \o Append(m, e)
    BY <2>6
  <2>8. Upto(s, all)[(n + 1) + 1] = InFront(s, o, Upto(s, ops)[n + 1])
    BY <2>4, <2>5, <2>7 DEF InFront
  <2>. QED  BY <2>1, <2>8
<1>6. N \in T
  <2>. HIDE DEF T
  <2>1. \A n \in 0..N : n \in T
    BY <1>1, <1>4, <1>5, UpTo
  <2>. QED  BY <1>1, <2>1
<1>. QED  BY <1>1, <1>6, MineUpto

LEMMA MineTail ==
  ASSUME NEW S, NEW s, NEW ops \in Seq(S), ops # <<>>
  PROVE  /\ Head(ops).to # s => Mine(s, Tail(ops)) = Mine(s, ops)
         /\ Head(ops).to = s => /\ Mine(s, ops) # <<>>
                                /\ Head(Mine(s, ops)) = Head(ops)
                                /\ Mine(s, Tail(ops)) = Tail(Mine(s, ops))
<1>. DEFINE o == Head(ops)
            q == Tail(ops)
            m == Mine(s, q)
<1>1. /\ q \in Seq(S) /\ o \in S /\ o = ops[1] /\ Len(ops) \in Nat \ {0}
      /\ Len(q) = Len(ops) - 1
      /\ \A n \in 1..Len(q) : q[n] = ops[n + 1]
  BY HeadTailProperties, LenProperties, EmptySeq
<1>. HIDE DEF o, q
<1>2. Len(ops) = Len(q) + 1 /\ ops[1] = o /\ \A n \in 1..Len(q) : ops[n + 1] = q[n]
  BY <1>1
<1>3. Mine(s, ops) = InFront(s, o, m)
  BY <1>1, <1>2, UptoFront
<1>4. m \in Seq(S)
  BY <1>1, MinePicks
<1>. HIDE DEF m
<1>5. /\ <<o>> \o m # <<>> /\ Head(<<o>> \o m) = o /\ Tail(<<o>> \o m) = m
  BY <1>1, <1>4
<1>. QED  BY <1>3, <1>5 DEF InFront, o, q, m

-----------------------------------------------------------------------------
(* What the parts see of the queues: each operation by a function of it.   *)

Mapped(g, m) == [i \in DOMAIN m |-> g[m[i]]]

Maps(g, S, T) == g \in [S -> T]

LEMMA MappedQueue ==
  ASSUME NEW S, NEW T, NEW g, Maps(g, S, T), NEW m \in Seq(S)
  PROVE  /\ Mapped(g, m) \in Seq(T) /\ Len(Mapped(g, m)) = Len(m)
         /\ \A i \in 1..Len(m) : Mapped(g, m)[i] = g[m[i]]
<1>1. Len(m) \in Nat /\ DOMAIN m = 1..Len(m) /\ \A i \in 1..Len(m) : m[i] \in S
  BY LenProperties, ElementOfSeq
<1>2. Mapped(g, m) = [i \in 1..Len(m) |-> g[m[i]]]
  BY <1>1 DEF Mapped
<1>3. Mapped(g, m) \in [1..Len(m) -> T]
  BY <1>1, <1>2 DEF Maps
<1>4. Mapped(g, m) \in Seq(T)
  BY <1>1, <1>3, SeqDef
<1>5. Len(Mapped(g, m)) = Len(m)
  BY <1>1, <1>3, <1>4, LenProperties
<1>. QED  BY <1>2, <1>4, <1>5

LEMMA MappedAppend ==
  ASSUME NEW S, NEW T, NEW g, Maps(g, S, T), NEW m \in Seq(S), NEW e \in S
  PROVE  Mapped(g, Append(m, e)) = Append(Mapped(g, m), g[e])
<1>. DEFINE p == Mapped(g, Append(m, e))
            q == Append(Mapped(g, m), g[e])
            n == Len(m)
<1>M. \A x \in Seq(S) : /\ Mapped(g, x) \in Seq(T) /\ Len(Mapped(g, x)) = Len(x)
                        /\ \A i \in 1..Len(x) : Mapped(g, x)[i] = g[x[i]]
  BY MappedQueue
<1>1. /\ n \in Nat /\ Append(m, e) \in Seq(S) /\ Len(Append(m, e)) = n + 1
      /\ \A i \in 1..n : Append(m, e)[i] = m[i]
      /\ Append(m, e)[n + 1] = e
  BY AppendProperties, LenProperties
<1>2. /\ p \in Seq(T) /\ Len(p) = n + 1
      /\ \A i \in 1..(n + 1) : p[i] = g[Append(m, e)[i]]
  BY <1>1, <1>M
<1>3. /\ Mapped(g, m) \in Seq(T) /\ Len(Mapped(g, m)) = n /\ g[e] \in T
      /\ \A i \in 1..n : Mapped(g, m)[i] = g[m[i]]
  BY <1>M DEF Maps
<1>4. /\ q \in Seq(T) /\ Len(q) = n + 1 /\ q[n + 1] = g[e]
      /\ \A i \in 1..n : q[i] = g[m[i]]
  BY <1>3, AppendProperties
<1>. HIDE DEF p, q, n
<1>5. \A i \in 1..(n + 1) : p[i] = q[i]
  BY <1>1, <1>2, <1>4
<1>6. p = q
  BY <1>2, <1>4, <1>5, SeqEqual
<1>. QED  BY <1>6 DEF p, q

LEMMA MappedTail ==
  ASSUME NEW S, NEW T, NEW g, Maps(g, S, T), NEW m \in Seq(S), m # <<>>
  PROVE  /\ Mapped(g, m) # <<>> /\ Head(Mapped(g, m)) = g[Head(m)]
         /\ Mapped(g, Tail(m)) = Tail(Mapped(g, m))
<1>. DEFINE p == Mapped(g, Tail(m))
            q == Tail(Mapped(g, m))
            n == Len(m)
<1>M. \A x \in Seq(S) : /\ Mapped(g, x) \in Seq(T) /\ Len(Mapped(g, x)) = Len(x)
                        /\ \A i \in 1..Len(x) : Mapped(g, x)[i] = g[x[i]]
  BY MappedQueue
<1>1. /\ n \in Nat \ {0} /\ Tail(m) \in Seq(S) /\ Len(Tail(m)) = n - 1
      /\ \A i \in 1..(n - 1) : Tail(m)[i] = m[i + 1]
      /\ Head(m) = m[1]
  BY HeadTailProperties, LenProperties, EmptySeq
<1>2. /\ Mapped(g, m) \in Seq(T) /\ Len(Mapped(g, m)) = n
      /\ \A i \in 1..n : Mapped(g, m)[i] = g[m[i]]
  BY <1>M
<1>3. Mapped(g, m) # <<>> /\ Head(Mapped(g, m)) = g[Head(m)]
  <2>1. Mapped(g, m) # <<>>
    BY <1>1, <1>2, EmptySeq
  <2>2. Head(Mapped(g, m)) = Mapped(g, m)[1] /\ 1 \in 1..n
    BY <1>1, <1>2, <2>1, HeadTailProperties
  <2>. QED  BY <1>1, <1>2, <2>1, <2>2
<1>4. /\ q \in Seq(T) /\ Len(q) = n - 1
      /\ \A i \in 1..(n - 1) : q[i] = Mapped(g, m)[i + 1]
  BY <1>2, <1>3, HeadTailProperties
<1>5. /\ p \in Seq(T) /\ Len(p) = n - 1
      /\ \A i \in 1..(n - 1) : p[i] = g[Tail(m)[i]]
  BY <1>1, <1>M
<1>. HIDE DEF p, q, n
<1>6. \A i \in 1..(n - 1) : i + 1 \in 1..n
  BY <1>1
<1>7. \A i \in 1..(n - 1) : p[i] = q[i]
  BY <1>1, <1>2, <1>4, <1>5, <1>6
<1>8. p = q
  BY <1>4, <1>5, <1>7, SeqEqual
<1>. QED  BY <1>3, <1>8 DEF p, q

\* The operations of s, each by the function g of it.
View(g, s, ops) == Mapped(g, Mine(s, ops))

LEMMA ViewType ==
  ASSUME NEW S, NEW T, NEW g, Maps(g, S, T), NEW s, NEW ops \in Seq(S)
  PROVE  /\ View(g, s, ops) \in Seq(T)
         /\ View(g, s, ops) = <<>> => Mine(s, ops) = <<>>
<1>. DEFINE m == Mine(s, ops)
<1>1. m \in Seq(S)
  BY MinePicks
<1>. HIDE DEF m
<1>2. Mapped(g, m) \in Seq(T) /\ (m # <<>> => Mapped(g, m) # <<>>)
  BY <1>1, MappedQueue, MappedTail
<1>. QED  BY <1>2 DEF View, m

LEMMA ViewAppend ==
  ASSUME NEW S, NEW T, NEW g, Maps(g, S, T), NEW s, NEW ops \in Seq(S), NEW o \in S
  PROVE  View(g, s, Append(ops, o)) = IF o.to = s THEN Append(View(g, s, ops), g[o])
                                      ELSE View(g, s, ops)
<1>1. Mine(s, ops) \in Seq(S)
  BY MinePicks
<1>2. o.to = s => Mapped(g, Append(Mine(s, ops), o)) = Append(Mapped(g, Mine(s, ops)), g[o])
  BY <1>1, MappedAppend
<1>3. Mine(s, Append(ops, o)) = IF o.to = s THEN Append(Mine(s, ops), o) ELSE Mine(s, ops)
  BY MineAppend
<1>. QED  BY <1>2, <1>3 DEF View

LEMMA ViewTail ==
  ASSUME NEW S, NEW T, NEW g, Maps(g, S, T), NEW s, NEW ops \in Seq(S), ops # <<>>
  PROVE  /\ Head(ops).to # s => View(g, s, Tail(ops)) = View(g, s, ops)
         /\ Head(ops).to = s => /\ View(g, s, ops) # <<>>
                                /\ Head(View(g, s, ops)) = g[Head(ops)]
                                /\ View(g, s, Tail(ops)) = Tail(View(g, s, ops))
<1>1. Mine(s, ops) \in Seq(S)
  BY MinePicks
<1>2. /\ Head(ops).to # s => Mine(s, Tail(ops)) = Mine(s, ops)
      /\ Head(ops).to = s => /\ Mine(s, ops) # <<>>
                             /\ Head(Mine(s, ops)) = Head(ops)
                             /\ Mine(s, Tail(ops)) = Tail(Mine(s, ops))
  BY MineTail
<1>3. Mine(s, ops) # <<>> => /\ Mapped(g, Mine(s, ops)) # <<>>
                             /\ Head(Mapped(g, Mine(s, ops))) = g[Head(Mine(s, ops))]
                             /\ Mapped(g, Tail(Mine(s, ops))) = Tail(Mapped(g, Mine(s, ops)))
  BY <1>1, MappedTail
<1>. QED  BY <1>2, <1>3 DEF View

\* The four functions: a sensor does not see whose its operations are, nor the
\* driver anything but how its own end.
OpSeen(o) == [op |-> o.op, owner |-> o.owner, val |-> o.val]
EndSeen(d) == [owner |-> d.owner, ok |-> d.ok, val |-> d.val]
ItemEndSeen(d) == [owner |-> Config, ok |-> d.ok]

OpView == [o \in OpType |-> OpSeen(o)]
EndView == [d \in DoneType |-> EndSeen(d)]
ItemView == [o \in OpType |-> Config]
ItemEndView == [d \in DoneType |-> ItemEndSeen(d)]

SeenType == [op : {"read", "write"}, owner : Holders, val : Values]
SeenEndType == [owner : Holders, ok : BOOLEAN, val : Values]
ItemEndType == [owner : {Config}, ok : BOOLEAN]

LEMMA ViewsMap ==
  /\ Maps(OpView, OpType, SeenType) /\ Maps(EndView, DoneType, SeenEndType)
  /\ Maps(ItemView, OpType, {Config}) /\ Maps(ItemEndView, DoneType, ItemEndType)
<1>1. \A o \in OpType : OpSeen(o) \in SeenType
  BY DEF OpType, SeenType, OpSeen
<1>2. \A d \in DoneType : EndSeen(d) \in SeenEndType /\ ItemEndSeen(d) \in ItemEndType
  BY DEF DoneType, SeenEndType, ItemEndType, EndSeen, ItemEndSeen
<1>. QED  BY <1>1, <1>2 DEF Maps, OpView, EndView, ItemView, ItemEndView

LEMMA ViewsAre ==
  /\ \A s : \A ops \in Seq(OpType) : OpsOf(s, ops) = View(OpView, s, ops)
  /\ \A s : \A ops \in Seq(DoneType) : EndedOf(s, ops) = View(EndView, s, ops)
  /\ \A ops \in Seq(OpType) : ItemOps(ops) = View(ItemView, Config, ops)
  /\ \A ops \in Seq(DoneType) : ItemsEnded(ops) = View(ItemEndView, Config, ops)
<1>1. ASSUME NEW s, NEW ops \in Seq(OpType)
      PROVE  /\ OpsOf(s, ops) = View(OpView, s, ops)
             /\ [i \in DOMAIN Mine(s, ops) |-> Config] = View(ItemView, s, ops)
  <2>. DEFINE m == Mine(s, ops)
  <2>1. m \in Seq(OpType)
    BY MinePicks
  <2>. HIDE DEF m
  <2>2. \A i \in DOMAIN m : m[i] \in OpType
    BY <2>1, LenProperties, ElementOfSeq
  <2>3. [i \in DOMAIN m |-> OpSeen(m[i])] = Mapped(OpView, m)
    BY <2>2 DEF Mapped, OpView
  <2>4. [i \in DOMAIN m |-> Config] = Mapped(ItemView, m)
    BY <2>2 DEF Mapped, ItemView
  <2>5. OpsOf(s, ops) = [i \in DOMAIN m |-> OpSeen(m[i])]
    BY DEF OpsOf, OpSeen, m
  <2>. QED  BY <2>3, <2>4, <2>5 DEF View, m
<1>2. ASSUME NEW s, NEW ops \in Seq(DoneType)
      PROVE  /\ EndedOf(s, ops) = View(EndView, s, ops)
             /\ [i \in DOMAIN Mine(s, ops) |-> ItemEndSeen(Mine(s, ops)[i])]
                  = View(ItemEndView, s, ops)
  <2>. DEFINE m == Mine(s, ops)
  <2>1. m \in Seq(DoneType)
    BY MinePicks
  <2>. HIDE DEF m
  <2>2. \A i \in DOMAIN m : m[i] \in DoneType
    BY <2>1, LenProperties, ElementOfSeq
  <2>3. [i \in DOMAIN m |-> EndSeen(m[i])] = Mapped(EndView, m)
    BY <2>2 DEF Mapped, EndView
  <2>4. [i \in DOMAIN m |-> ItemEndSeen(m[i])] = Mapped(ItemEndView, m)
    BY <2>2 DEF Mapped, ItemEndView
  <2>5. EndedOf(s, ops) = [i \in DOMAIN m |-> EndSeen(m[i])]
    BY DEF EndedOf, EndSeen, m
  <2>. QED  BY <2>3, <2>4, <2>5 DEF View, m
<1>3. \A ops \in Seq(OpType) : ItemOps(ops) = View(ItemView, Config, ops)
  BY <1>1 DEF ItemOps
<1>4. \A ops \in Seq(DoneType) : ItemsEnded(ops) = View(ItemEndView, Config, ops)
  BY <1>2 DEF ItemsEnded, ItemEndSeen
<1>. QED  BY <1>1, <1>2, <1>3, <1>4

LEMMA ViewTypes ==
  ASSUME Types
  PROVE  /\ \A s : /\ OpsOf(s, sdoq) \in Seq(SeenType)
                   /\ EndedOf(s, done) \in Seq(SeenEndType)
         /\ ItemOps(sdoq) \in Seq({Config}) /\ ItemsEnded(done) \in Seq(ItemEndType)
<1>1. sdoq \in Seq(OpType) /\ done \in Seq(DoneType)
  BY DEF Types
<1>2. /\ \A s : View(OpView, s, sdoq) \in Seq(SeenType)
      /\ View(ItemView, Config, sdoq) \in Seq({Config})
  BY <1>1, ViewsMap, ViewType
<1>3. /\ \A s : View(EndView, s, done) \in Seq(SeenEndType)
      /\ View(ItemEndView, Config, done) \in Seq(ItemEndType)
  BY <1>1, ViewsMap, ViewType
<1>. QED  BY <1>1, <1>2, <1>3, ViewsAre

LEMMA OpsAppend ==
  ASSUME NEW ops \in Seq(OpType), NEW o \in OpType
  PROVE  /\ \A s : OpsOf(s, Append(ops, o)) = IF o.to = s THEN Append(OpsOf(s, ops), OpSeen(o))
                                              ELSE OpsOf(s, ops)
         /\ ItemOps(Append(ops, o)) = IF o.to = Config THEN Append(ItemOps(ops), Config)
                                      ELSE ItemOps(ops)
<1>1. Append(ops, o) \in Seq(OpType)
  BY AppendProperties
<1>2. \A s : View(OpView, s, Append(ops, o)) = IF o.to = s THEN Append(View(OpView, s, ops), OpView[o])
                                               ELSE View(OpView, s, ops)
  BY ViewsMap, ViewAppend
<1>3. View(ItemView, Config, Append(ops, o)) =
        IF o.to = Config THEN Append(View(ItemView, Config, ops), ItemView[o])
        ELSE View(ItemView, Config, ops)
  BY ViewsMap, ViewAppend
<1>4. OpView[o] = OpSeen(o) /\ ItemView[o] = Config
  BY DEF OpView, ItemView
<1>5. /\ \A s : /\ OpsOf(s, ops) = View(OpView, s, ops)
                /\ OpsOf(s, Append(ops, o)) = View(OpView, s, Append(ops, o))
      /\ ItemOps(ops) = View(ItemView, Config, ops)
      /\ ItemOps(Append(ops, o)) = View(ItemView, Config, Append(ops, o))
  BY <1>1, ViewsAre
<1>. QED  BY <1>2, <1>3, <1>4, <1>5

LEMMA EndsAppend ==
  ASSUME NEW ops \in Seq(DoneType), NEW d \in DoneType
  PROVE  /\ \A s : EndedOf(s, Append(ops, d)) =
                     IF d.to = s THEN Append(EndedOf(s, ops), EndSeen(d)) ELSE EndedOf(s, ops)
         /\ ItemsEnded(Append(ops, d)) =
              IF d.to = Config THEN Append(ItemsEnded(ops), ItemEndSeen(d)) ELSE ItemsEnded(ops)
<1>1. Append(ops, d) \in Seq(DoneType)
  BY AppendProperties
<1>2. \A s : View(EndView, s, Append(ops, d)) = IF d.to = s THEN Append(View(EndView, s, ops), EndView[d])
                                                ELSE View(EndView, s, ops)
  BY ViewsMap, ViewAppend
<1>3. View(ItemEndView, Config, Append(ops, d)) =
        IF d.to = Config THEN Append(View(ItemEndView, Config, ops), ItemEndView[d])
        ELSE View(ItemEndView, Config, ops)
  BY ViewsMap, ViewAppend
<1>4. EndView[d] = EndSeen(d) /\ ItemEndView[d] = ItemEndSeen(d)
  BY DEF EndView, ItemEndView
<1>5. /\ \A s : /\ EndedOf(s, ops) = View(EndView, s, ops)
                /\ EndedOf(s, Append(ops, d)) = View(EndView, s, Append(ops, d))
      /\ ItemsEnded(ops) = View(ItemEndView, Config, ops)
      /\ ItemsEnded(Append(ops, d)) = View(ItemEndView, Config, Append(ops, d))
  BY <1>1, ViewsAre
<1>. QED  BY <1>2, <1>3, <1>4, <1>5

LEMMA OpsTail ==
  ASSUME NEW ops \in Seq(OpType), ops # <<>>
  PROVE  /\ \A s : /\ Head(ops).to # s => OpsOf(s, Tail(ops)) = OpsOf(s, ops)
                   /\ Head(ops).to = s => /\ OpsOf(s, ops) # <<>>
                                          /\ Head(OpsOf(s, ops)) = OpSeen(Head(ops))
                                          /\ OpsOf(s, Tail(ops)) = Tail(OpsOf(s, ops))
         /\ Head(ops).to # Config => ItemOps(Tail(ops)) = ItemOps(ops)
         /\ Head(ops).to = Config => /\ ItemOps(ops) # <<>>
                                     /\ Head(ItemOps(ops)) = Config
                                     /\ ItemOps(Tail(ops)) = Tail(ItemOps(ops))
<1>1. Tail(ops) \in Seq(OpType) /\ Head(ops) \in OpType
  BY HeadTailProperties
<1>2. OpView[Head(ops)] = OpSeen(Head(ops)) /\ ItemView[Head(ops)] = Config
  BY <1>1 DEF OpView, ItemView
<1>3. \A s : /\ Head(ops).to # s => View(OpView, s, Tail(ops)) = View(OpView, s, ops)
             /\ Head(ops).to = s => /\ View(OpView, s, ops) # <<>>
                                    /\ Head(View(OpView, s, ops)) = OpView[Head(ops)]
                                    /\ View(OpView, s, Tail(ops)) = Tail(View(OpView, s, ops))
  BY ViewsMap, ViewTail
<1>4. /\ Head(ops).to # Config => View(ItemView, Config, Tail(ops)) = View(ItemView, Config, ops)
      /\ Head(ops).to = Config =>
           /\ View(ItemView, Config, ops) # <<>>
           /\ Head(View(ItemView, Config, ops)) = ItemView[Head(ops)]
           /\ View(ItemView, Config, Tail(ops)) = Tail(View(ItemView, Config, ops))
  BY ViewsMap, ViewTail
<1>5. /\ \A s : OpsOf(s, ops) = View(OpView, s, ops) /\ OpsOf(s, Tail(ops)) = View(OpView, s, Tail(ops))
      /\ ItemOps(ops) = View(ItemView, Config, ops)
      /\ ItemOps(Tail(ops)) = View(ItemView, Config, Tail(ops))
  BY <1>1, ViewsAre
<1>. QED  BY <1>2, <1>3, <1>4, <1>5

LEMMA EndsTail ==
  ASSUME NEW ops \in Seq(DoneType), ops # <<>>
  PROVE  /\ \A s : /\ Head(ops).to # s => EndedOf(s, Tail(ops)) = EndedOf(s, ops)
                   /\ Head(ops).to = s => /\ EndedOf(s, ops) # <<>>
                                          /\ Head(EndedOf(s, ops)) = EndSeen(Head(ops))
                                          /\ EndedOf(s, Tail(ops)) = Tail(EndedOf(s, ops))
         /\ Head(ops).to # Config => ItemsEnded(Tail(ops)) = ItemsEnded(ops)
         /\ Head(ops).to = Config => /\ ItemsEnded(ops) # <<>>
                                     /\ Head(ItemsEnded(ops)) = ItemEndSeen(Head(ops))
                                     /\ ItemsEnded(Tail(ops)) = Tail(ItemsEnded(ops))
<1>1. Tail(ops) \in Seq(DoneType) /\ Head(ops) \in DoneType
  BY HeadTailProperties
<1>2. EndView[Head(ops)] = EndSeen(Head(ops)) /\ ItemEndView[Head(ops)] = ItemEndSeen(Head(ops))
  BY <1>1 DEF EndView, ItemEndView
<1>3. \A s : /\ Head(ops).to # s => View(EndView, s, Tail(ops)) = View(EndView, s, ops)
             /\ Head(ops).to = s => /\ View(EndView, s, ops) # <<>>
                                    /\ Head(View(EndView, s, ops)) = EndView[Head(ops)]
                                    /\ View(EndView, s, Tail(ops)) = Tail(View(EndView, s, ops))
  BY ViewsMap, ViewTail
<1>4. /\ Head(ops).to # Config =>
           View(ItemEndView, Config, Tail(ops)) = View(ItemEndView, Config, ops)
      /\ Head(ops).to = Config =>
           /\ View(ItemEndView, Config, ops) # <<>>
           /\ Head(View(ItemEndView, Config, ops)) = ItemEndView[Head(ops)]
           /\ View(ItemEndView, Config, Tail(ops)) = Tail(View(ItemEndView, Config, ops))
  BY ViewsMap, ViewTail
<1>5. /\ \A s : EndedOf(s, ops) = View(EndView, s, ops) /\ EndedOf(s, Tail(ops)) = View(EndView, s, Tail(ops))
      /\ ItemsEnded(ops) = View(ItemEndView, Config, ops)
      /\ ItemsEnded(Tail(ops)) = View(ItemEndView, Config, Tail(ops))
  BY <1>1, ViewsAre
<1>. QED  BY <1>2, <1>3, <1>4, <1>5

-----------------------------------------------------------------------------
(* The types.                                                              *)

\* A sensor sees the threads and the requests of its own, of its types.
LEMMA HandlerViews ==
  ASSUME Inv, NEW s \in Sensors
  PROVE  /\ ApiOf(s, api) \in Sensor(s)!ApiType
         /\ LoopOf(s, loop) \in Sensor(s)!LoopType
         /\ ReqOf(s, req) \in [Requests -> ReqType]
<1>1. Types /\ LoopFor /\ s # Config
  BY SensorNumbers DEF Inv, Shape, Config
<1>2. For(s, api, ApiIdle) \in ApiType
  BY <1>1, Constants DEF Types, For
<1>3. ApiOf(s, api) \in Sensor(s)!ApiType
  <2>. DEFINE a == For(s, api, ApiIdle)
  <2>. HIDE DEF a
  <2>. QED  BY <1>2 DEF ApiOf, a, ApiType, Holders, Values, Sensor!ApiType, Sensor!Values
<1>4. For(s, loop, LoopIdle) \in LoopType /\ For(s, loop, LoopIdle).pc # "config"
  BY <1>1, Constants DEF Types, For, LoopFor, LoopIdle
<1>5. LoopOf(s, loop) \in Sensor(s)!LoopType
  <2>. DEFINE l == For(s, loop, LoopIdle)
  <2>. HIDE DEF l
  <2>. QED  BY <1>4 DEF LoopOf, l, LoopType, Holders, Values, Sensor!LoopType, Sensor!Values
<1>6. NewRequest \in ReqType
  BY Constants DEF NewRequest, ReqType
<1>7. ReqOf(s, req) \in [Requests -> ReqType]
  BY <1>1, <1>6 DEF ReqOf, For, Types
<1>. QED  BY <1>3, <1>5, <1>7

LEMMA SensorTypes ==
  ASSUME Inv, NEW s \in Sensors
  PROVE  Sensor(s)!TypeOK
<1>1. Types /\ ReqOf(s, req) \in [Requests -> ReqType]
  BY HandlerViews DEF Inv
<1>2. table[s].kind \in Kinds /\ sens[s] \in SensType
      /\ cell[<<table[s].kind, table[s].id>>] \in Values
  BY <1>1, SensorNumbers DEF Types
<1>3. /\ PhaseOf(s, req) \in [Requests -> {"new", "open", "gone"}]
      /\ RefsOf(s, req) \in [Requests -> Nat]
      /\ RepliesOf(s, req) \in [Requests -> Nat]
      /\ SeenOf(s, req) \in [Requests -> SUBSET Values]
      /\ AnswerOf(s, req) \in [Requests -> AnswerType]
      /\ FailedOf(s, req) \subseteq Requests
  BY <1>1 DEF ReqType, PhaseOf, RefsOf, RepliesOf, SeenOf, AnswerOf, FailedOf
<1>4. Sensor(s)!AnswerType = AnswerType /\ Sensor(s)!Values = Values
  BY DEF Sensor!AnswerType, Sensor!Values, AnswerType, Values
<1>5. OpsOf(s, sdoq) \in Seq(Sensor(s)!OpType) /\ EndedOf(s, done) \in Seq(Sensor(s)!DoneType)
  <2>1. Sensor(s)!OpType = SeenType /\ Sensor(s)!DoneType = SeenEndType
    BY <1>4 DEF Sensor!OpType, Sensor!DoneType, SeenType, SeenEndType, Holders
  <2>. QED  BY <1>1, <2>1, ViewTypes
<1>6. ApiOf(s, api) \in Sensor(s)!ApiType /\ LoopOf(s, loop) \in Sensor(s)!LoopType
  BY HandlerViews
<1>. QED  BY <1>1, <1>2, <1>3, <1>4, <1>5, <1>6 DEF Sensor!TypeOK, SensType, Types

LEMMA DriverTypes ==
  ASSUME Inv
  PROVE  Driver!TypeOK
<1>1. Types
  BY DEF Inv
<1>2. Items(onconf) \in {Items(c.onconf) : c \in Slaves}
  BY <1>1 DEF Types, onconf
<1>3. conf \in Driver!ConfType
  BY <1>1 DEF Types, ConfType, Driver!ConfType
<1>4. Driver!Owners = {Config}
  BY DEF Driver!Owners
<1>5. ItemOps(sdoq) \in Seq({Config})
      /\ ItemsEnded(done) \in Seq([owner : {Config}, ok : BOOLEAN])
  BY <1>1, ViewTypes DEF ItemEndType
<1>. QED  BY <1>1, <1>2, <1>3, <1>4, <1>5 DEF Driver!TypeOK, Driver!Queries, Types

\* Every variable, and the views the parts have of them, stay of their types; a
\* request is of a sensor from its acceptance on.
THEOREM TypeCorrect == Spec => []TypeOK
<1>1. Inv => TypeOK
  <2>. SUFFICES ASSUME Inv
                PROVE  TypeOK
    OBVIOUS
  <2>1. config \in Slaves
    BY DEF Inv, Types
  <2>2. \A s \in Sensors : Sensor(s)!TypeOK
    BY SensorTypes
  <2>3. Driver!TypeOK
    BY DriverTypes
  <2>4. \A r \in Requests : req[r].to \in Sensors <=> req[r].phase # "new"
    BY SensorNumbers DEF Inv, Books, Phased, Config
  <2>. QED  BY <2>1, <2>2, <2>3, <2>4 DEF TypeOK
<1>. QED  BY <1>1, Invariance, PTL

-----------------------------------------------------------------------------
(* The slave is a CANopenSlaveDriver.                                      *)

LEMMA DriverSame ==
  ASSUME UNCHANGED <<config, connected, boots, conf>>,
         ItemOps(sdoq') = ItemOps(sdoq), ItemsEnded(done') = ItemsEnded(done),
         loop'.pc = "config" <=> loop.pc = "config"
  PROVE  UNCHANGED Driver!vars
BY DEF Driver!vars, onconf

\* What a handler of a sensor submits is none of the items.
LEMMA ItemOpsSame ==
  ASSUME Types, NEW e \in OpType, e.to # Config, sdoq' = sdoq \/ sdoq' = Append(sdoq, e)
  PROVE  ItemOps(sdoq') = ItemOps(sdoq)
BY OpsAppend DEF Types

LEMMA SubmittedOp ==
  ASSUME Types, NEW op \in {"read", "write"}, NEW s \in Sensors, NEW owner \in Holders,
         NEW val \in Values, NEW from \in Holders
  PROVE  /\ SdoOp(op, s, owner, val, from) \in OpType
         /\ SdoOp(op, s, owner, val, from).to = s /\ s # Config
         /\ OpSeen(SdoOp(op, s, owner, val, from)) = [op |-> op, owner |-> owner, val |-> val]
BY SensorNumbers DEF SdoOp, OpType, OpSeen, Config

\* What the driver sees is left alone by the handlers of the sensors.
LEMMA SensorStepsSame ==
  ASSUME Inv,
         \/ \E r \in Requests, s \in Sensors : \E q \in Queries : Accept(r, s, q)
         \/ ApiStep
         \/ LoopStore \/ LoopReply \/ LoopUnref \/ Push \/ Pushed
         \/ \E id \in Ids, v \in Values : OnRpdoWrite(id, v)
  PROVE  UNCHANGED Driver!vars
<1>1. CASE ApiStep
  <2>1. UNCHANGED <<config, connected, boots, conf, done, loop>>
    BY <1>1 DEF ApiStep, Refuse, EncodeWrite, EncodeThrows, FetchRpdo, Store, EmitWrite,
                ReplyRead, ReadSdo, SubscribeMark, SubscribeAdd, Unsubscribe, Return, slave
  <2>2. ItemOps(sdoq') = ItemOps(sdoq)
    <3>1. CASE EmitWrite \/ ReadSdo
      <4>1. /\ api.pc # "idle"
            /\ \/ UNCHANGED sdoq
               \/ sdoq' = Append(sdoq, SdoOp("write", me, Nobody, sens[me].val, api.req))
               \/ sdoq' = Append(sdoq, SdoOp("read", me, api.req, {}, api.req))
        BY <3>1 DEF EmitWrite, ReadSdo, Dispatching
      <4>2. /\ me \in Sensors /\ api.req \in Holders /\ sens[me].val \in Values
            /\ {} \in Values /\ Nobody \in Holders
        BY <4>1, ApiRequest, Constants DEF Holders
      <4>3. \A val \in Values, owner \in Holders, op \in {"read", "write"} :
              /\ SdoOp(op, me, owner, val, api.req) \in OpType
              /\ SdoOp(op, me, owner, val, api.req).to # Config
        BY <4>2, SubmittedOp DEF Inv
      <4>. QED  BY <4>1, <4>2, <4>3, ItemOpsSame DEF Inv
    <3>2. CASE UNCHANGED sdoq
      BY <3>2
    <3>. QED  BY <1>1, <3>1, <3>2
              DEF ApiStep, Refuse, EncodeWrite, EncodeThrows, FetchRpdo, Store, ReplyRead,
                  SubscribeMark, SubscribeAdd, Unsubscribe, Return
  <2>3. ItemsEnded(done') = ItemsEnded(done)
    BY <2>1
  <2>. QED  BY <2>1, <2>2, <2>3, DriverSame
<1>2. CASE LoopStore \/ LoopReply \/ LoopUnref \/ Push \/ Pushed
  <2>1. UNCHANGED <<config, connected, boots, conf, done, sdoq>>
    BY <1>2 DEF LoopStore, LoopReply, LoopUnref, Push, Pushed, slave
  <2>2. loop \in LoopType
    BY DEF Inv, Types
  <2>3. loop.pc # "config" /\ loop'.pc # "config"
    <3>1. CASE LoopStore
      BY <3>1, <2>2 DEF LoopStore, LoopType
    <3>2. CASE LoopReply
      BY <3>2, <2>2 DEF LoopReply, LoopType
    <3>3. CASE Push
      BY <3>3, <2>2 DEF Push, LoopType
    <3>4. CASE LoopUnref \/ Pushed
      BY <3>4 DEF LoopUnref, Pushed, LoopIdle
    <3>. QED  BY <1>2, <3>1, <3>2, <3>3, <3>4
  <2>4. ItemOps(sdoq') = ItemOps(sdoq) /\ ItemsEnded(done') = ItemsEnded(done)
    BY <2>1
  <2>. QED  BY <2>1, <2>3, <2>4, DriverSame
<1>3. ASSUME NEW id \in Ids, NEW v \in Values, OnRpdoWrite(id, v)
      PROVE  UNCHANGED Driver!vars
  <2>. DEFINE s == Regs(id)
  <2>1. /\ loop.pc = "idle"
        /\ UNCHANGED <<config, connected, boots, conf, done>>
    BY <1>3 DEF OnRpdoWrite, slave
  <2>2. /\ UNCHANGED loop \/ loop' = [LoopIdle EXCEPT !.pc = "store", !.to = s, !.val = v]
        /\ \/ UNCHANGED sdoq
           \/ s # 0 /\ sdoq' = Append(sdoq, SdoOp("read", s, Nobody, {}, Nobody))
    BY <1>3 DEF OnRpdoWrite
  <2>3. s # 0 => s \in Sensors
    BY RegsIs DEF Inv
  <2>. HIDE DEF s
  <2>4. Nobody \in Holders /\ {} \in Values
    BY Constants DEF Holders
  <2>5. s # 0 => /\ SdoOp("read", s, Nobody, {}, Nobody) \in OpType
                 /\ SdoOp("read", s, Nobody, {}, Nobody).to # Config
    BY <2>3, <2>4, SubmittedOp DEF Inv
  <2>6. ItemOps(sdoq') = ItemOps(sdoq)
    BY <2>2, <2>5, ItemOpsSame DEF Inv
  <2>7. loop'.pc # "config"
    BY <2>1, <2>2 DEF LoopIdle
  <2>8. ItemsEnded(done') = ItemsEnded(done)
    BY <2>1
  <2>. QED  BY <2>1, <2>6, <2>7, <2>8, DriverSame
<1>4. ASSUME NEW r \in Requests, NEW s \in Sensors, NEW q \in Queries, Accept(r, s, q)
      PROVE  UNCHANGED Driver!vars
  <2>1. UNCHANGED <<config, connected, boots, conf, done, sdoq, loop>>
    BY <1>4 DEF Accept, slave
  <2>2. ItemOps(sdoq') = ItemOps(sdoq) /\ ItemsEnded(done') = ItemsEnded(done)
    BY <2>1
  <2>. QED  BY <2>1, <2>2, DriverSame
<1>. QED  BY <1>1, <1>2, <1>3, <1>4

LEMMA ContinueSame ==
  ASSUME Inv, Continue
  PROVE  UNCHANGED Driver!vars
<1>1. /\ loop.pc = "idle" /\ loop'.pc # "config" /\ done # <<>> /\ Head(done).to # Config
      /\ done' = Tail(done)
      /\ UNCHANGED <<config, connected, boots, conf, sdoq>>
  BY DEF Continue, LoopIdle, slave
<1>2. ItemsEnded(Tail(done)) = ItemsEnded(done)
  BY <1>1, EndsTail DEF Inv, Types
<1>. QED  BY <1>1, <1>2, DriverSame

\* doStartAction, on the items as on the whole of the queue.
LEMMA StartsAction ==
  ASSUME Inv, NEW i, DoStartAction(i), i \in Nat \ {0}
  PROVE  Driver!DoStartAction(i)
<1>1. /\ Len(Items(onconf)) = Len(onconf)
      /\ \A j \in i..Len(onconf) : /\ j \in 1..Len(onconf) /\ onconf[j] \in ItemType
                                   /\ Items(onconf)[j] = onconf[j].kind
  <2>1. onconf \in Seq(ItemType)
    BY Constants DEF Inv, Types, SlaveType, onconf
  <2>2. /\ Len(onconf) \in Nat /\ DOMAIN onconf = 1..Len(onconf)
        /\ \A j \in 1..Len(onconf) : onconf[j] \in ItemType
    BY <2>1, LenProperties, ElementOfSeq
  <2>3. Items(onconf) = [j \in 1..Len(onconf) |-> onconf[j].kind]
    BY <2>2 DEF Items
  <2>4. Len(Items(onconf)) = Len(onconf)
    BY <2>1, ItemsLen
  <2>. QED  BY <2>2, <2>3, <2>4
<1>2. \A j \in i..Len(onconf) :
        ItemOps(Append(sdoq, [op |-> "write", to |-> Config, owner |-> Nobody,
                              id |-> onconf[j].id, val |-> onconf[j].val, from |-> Nobody]))
          = Append(ItemOps(sdoq), Config)
  <2>1. ASSUME NEW j \in i..Len(onconf)
        PROVE  ItemOps(Append(sdoq, [op |-> "write", to |-> Config, owner |-> Nobody,
                                     id |-> onconf[j].id, val |-> onconf[j].val,
                                     from |-> Nobody]))
                 = Append(ItemOps(sdoq), Config)
    <3>. DEFINE e == [op |-> "write", to |-> Config, owner |-> Nobody,
                      id |-> onconf[j].id, val |-> onconf[j].val, from |-> Nobody]
    <3>1. e \in OpType /\ e.to = Config
      BY <1>1, Constants DEF OpType, Holders, ItemType
    <3>. HIDE DEF e
    <3>2. ItemOps(Append(sdoq, e)) = Append(ItemOps(sdoq), Config)
      BY <3>1, OpsAppend DEF Inv, Types
    <3>. QED  BY <3>2 DEF e
  <2>. QED  BY <2>1
<1>3. CASE /\ \E j \in i..(Len(onconf) + 1) : Driver!EndsAt(i, j) /\ conf' = Driver!Told(j)
           /\ UNCHANGED sdoq
  BY <1>1, <1>3 DEF Driver!DoStartAction
<1>4. CASE \E j \in i..Len(onconf) :
             /\ Driver!NextItem(i, j) /\ onconf[j].kind = "size"
             /\ conf' = [conf EXCEPT !.next = j + 1]
             /\ UNCHANGED sdoq
  BY <1>1, <1>4 DEF Driver!DoStartAction
<1>5. CASE \E j \in i..Len(onconf) :
             /\ Driver!NextItem(i, j) /\ onconf[j].kind = "write"
             /\ sdoq' = Append(sdoq, [op |-> "write", to |-> Config, owner |-> Nobody,
                                      id |-> onconf[j].id, val |-> onconf[j].val,
                                      from |-> Nobody])
             /\ conf' = [conf EXCEPT !.next = j + 1, !.tried = Append(@, j)]
  <2>1. PICK j \in i..Len(onconf) :
             /\ Driver!NextItem(i, j) /\ onconf[j].kind = "write"
             /\ sdoq' = Append(sdoq, [op |-> "write", to |-> Config, owner |-> Nobody,
                                      id |-> onconf[j].id, val |-> onconf[j].val,
                                      from |-> Nobody])
             /\ conf' = [conf EXCEPT !.next = j + 1, !.tried = Append(@, j)]
    BY <1>5
  <2>2. ItemOps(sdoq') = Append(ItemOps(sdoq), Config)
    BY <1>2, <2>1
  <2>. QED  BY <1>1, <2>1, <2>2 DEF Driver!DoStartAction
<1>6. CASE \E j \in i..Len(onconf) :
             /\ Driver!NextItem(i, j) /\ onconf[j].kind = "write"
             /\ conf' = Driver!Thrown /\ UNCHANGED sdoq
  BY <1>1, <1>6 DEF Driver!DoStartAction
<1>. QED  BY <1>3, <1>4, <1>5, <1>6 DEF DoStartAction

LEMMA DriverInit ==
  ASSUME Init
  PROVE  Driver!Init
<1>1. ItemOps(<<>>) = <<>> /\ ItemsEnded(<<>>) = <<>>
  <2>1. Mine(Config, <<>>) = <<>>
    BY MineEmpty
  <2>. QED  BY <2>1 DEF ItemOps, ItemsEnded
<1>2. Items(onconf) \in {Items(c.onconf) : c \in Slaves}
  BY DEF Init, onconf
<1>3. conf = Driver!NoConf
  BY DEF Init, NoConf, Driver!NoConf
<1>. QED  BY <1>1, <1>2, <1>3 DEF Init, Driver!Init, Driver!ApiIdle, Driver!LoopIdle, LoopIdle

LEMMA DriverStep ==
  ASSUME Inv, [Next]_vars
  PROVE  [Driver!Next]_(Driver!vars)
<1>. DEFINE Step == Driver!Next \/ UNCHANGED Driver!vars
<1>1. CASE UNCHANGED vars
  <2>1. UNCHANGED <<config, connected, boots, conf, sdoq, done, loop>>
    BY <1>1 DEF vars
  <2>2. ItemOps(sdoq') = ItemOps(sdoq) /\ ItemsEnded(done') = ItemsEnded(done)
    BY <2>1
  <2>. QED  BY <2>1, <2>2, DriverSame
<1>2. CASE \/ \E r \in Requests, s \in Sensors : \E q \in Asks[r] : Accept(r, s, q)
           \/ ApiStep
           \/ LoopStore \/ LoopReply \/ LoopUnref \/ Push \/ Pushed
           \/ \E id \in Ids, v \in Values : OnRpdoWrite(id, v)
  <2>1. \A r \in Requests : \A q \in Asks[r] : q \in Queries
    BY DEF Queries
  <2>. QED  BY <1>2, <2>1, SensorStepsSame
<1>3. CASE Continue
  BY <1>3, ContinueSame
<1>4. CASE OnConfigAction
  <2>1. Driver!DoStartAction(1)
    BY <1>4, StartsAction DEF OnConfigAction
  <2>2. Driver!OnConfigAction
    BY <1>4, <2>1 DEF OnConfigAction, Driver!OnConfigAction, Driver!LoopIdle, LoopIdle, onconf,
                      Driver!requestState
  <2>. QED  BY <2>2 DEF Driver!Next, Driver!LoopStep
<1>5. CASE ConfigContinue
  <2>1. /\ loop.pc = "idle" /\ done # <<>> /\ Head(done).to = Config /\ done' = Tail(done)
        /\ DoStartAction(conf.next)
        /\ connected' = (connected \/ conf'.state = "ended")
        /\ UNCHANGED <<config, loop, boots>>
    BY <1>5 DEF ConfigContinue
  <2>2. conf.next \in Nat \ {0}
    BY DEF Inv, Types, ConfType
  <2>3. Driver!DoStartAction(conf.next)
    BY <2>1, <2>2, StartsAction
  <2>4. /\ ItemsEnded(done) # <<>> /\ Head(ItemsEnded(done)).owner = Config
        /\ ItemsEnded(done') = Tail(ItemsEnded(done))
    BY <2>1, EndsTail DEF Inv, Types, ItemEndSeen
  <2>5. Driver!ConfigContinue
    BY <2>1, <2>3, <2>4 DEF Driver!ConfigContinue, onconf, Driver!requestState
  <2>. QED  BY <2>5 DEF Driver!Next, Driver!LoopStep
<1>6. CASE OnConfig
  <2>1. /\ loop.pc = "idle" /\ conf.state # "started" /\ boots < MaxBoots /\ boots' = boots + 1
        /\ connected' = FALSE
        /\ conf' = [NoConf EXCEPT !.state = "started"]
        /\ loop' = [LoopIdle EXCEPT !.pc = "config"]
        /\ UNCHANGED <<config, sdoq, done>>
    BY <1>6 DEF OnConfig
  <2>2. loop'.pc = "config"
    BY <2>1 DEF LoopIdle
  <2>3. conf' = [Driver!NoConf EXCEPT !.state = "started"]
    BY <2>1 DEF NoConf, Driver!NoConf
  <2>4. [Driver!LoopIdle EXCEPT !.pc = "config"] = [pc |-> "config", owner |-> Config, ok |-> FALSE]
    <3>1. PICK idle \in [pc : {"idle"}, owner : {Config}, ok : {FALSE}] : idle = Driver!LoopIdle
      BY DEF Driver!LoopIdle
    <3>2. [idle EXCEPT !.pc = "config"] = [pc |-> "config", owner |-> idle.owner, ok |-> idle.ok]
      OBVIOUS
    <3>. QED  BY <3>1, <3>2
  <2>5. Driver!OnConfig
    BY <2>1, <2>2, <2>3, <2>4 DEF Driver!OnConfig, onconf, Driver!requestState
  <2>. QED  BY <2>5 DEF Driver!Next, Driver!Bus
<1>7. CASE OnBoot
  <2>1. Driver!OnBoot
    BY <1>7 DEF OnBoot, Driver!OnBoot, onconf, Driver!requestState
  <2>. QED  BY <2>1 DEF Driver!Next, Driver!Bus
<1>8. ASSUME NEW ok \in BOOLEAN, SdoEnd(ok)
      PROVE  Step
  <2>. DEFINE o == Head(sdoq)
  <2>1. /\ loop.pc = "idle" /\ sdoq # <<>> /\ sdoq' = Tail(sdoq)
        /\ UNCHANGED <<config, connected, conf, boots, loop>>
    BY <1>8 DEF SdoEnd, slave
  <2>2. o \in OpType /\ sdoq \in Seq(OpType) /\ done \in Seq(DoneType)
    BY <2>1, HeadTailProperties DEF Inv, Types
  <2>3. \/ UNCHANGED done /\ o.to # Config
        \/ \E d \in DoneType : d.to = o.to /\ d.ok = ok /\ done' = Append(done, d)
    <3>. DEFINE c == <<"SDO", o.id>>
                v == IF o.op = "write" /\ ok THEN o.val ELSE cell[c]
                w == IF o.op = "read" /\ ok THEN v ELSE {}
                x == [to |-> o.to, owner |-> o.owner, ok |-> ok, val |-> w]
    <3>1. done' = IF o.op = "write" /\ o.to # Config THEN done ELSE Append(done, x)
      BY <1>8 DEF SdoEnd
    <3>2. c \in Kinds \X Ids /\ cell \in [Kinds \X Ids -> Values]
      BY <2>2 DEF Inv, Types, OpType, Kinds
    <3>3. w \in Values
      BY <2>2, <3>2, Constants DEF OpType
    <3>. HIDE DEF w
    <3>4. x \in DoneType /\ x.to = o.to /\ x.ok = ok
      BY <2>2, <3>3 DEF OpType, DoneType
    <3>. HIDE DEF x
    <3>. QED  BY <3>1, <3>4
  <2>4. CASE o.to # Config
    <3>1. ItemOps(sdoq') = ItemOps(sdoq)
      BY <2>1, <2>2, <2>4, OpsTail
    <3>2. ItemsEnded(done') = ItemsEnded(done)
      BY <2>2, <2>3, <2>4, EndsAppend
    <3>. QED  BY <2>1, <3>1, <3>2, DriverSame
  <2>5. CASE o.to = Config
    <3>1. /\ ItemOps(sdoq) # <<>> /\ Head(ItemOps(sdoq)) = Config
          /\ ItemOps(sdoq') = Tail(ItemOps(sdoq))
      BY <2>1, <2>2, <2>5, OpsTail
    <3>2. ItemsEnded(done') = Append(ItemsEnded(done), [owner |-> Config, ok |-> ok])
      <4>1. PICK d \in DoneType : d.to = o.to /\ d.ok = ok /\ done' = Append(done, d)
        BY <2>3, <2>5
      <4>2. ItemsEnded(Append(done, d)) = Append(ItemsEnded(done), ItemEndSeen(d))
        BY <2>2, <2>5, <4>1, EndsAppend
      <4>. QED  BY <4>1, <4>2 DEF ItemEndSeen
    <3>3. Driver!SdoEnd(ok)
      <4>1. [r \in {} |-> IF r # Head(ItemOps(sdoq)) THEN [q \in {} |-> "none"][r]
                          ELSE IF ok THEN "ok" ELSE "error"] = [r \in {} |-> "none"]
        OBVIOUS
      <4>. QED  BY <2>1, <3>1, <3>2, <4>1 DEF Driver!SdoEnd, Driver!bootState, onconf
    <3>. QED  BY <3>3 DEF Driver!Next, Driver!Sdo
  <2>. QED  BY <2>4, <2>5
<1>9. Sdo => \E ok \in BOOLEAN : SdoEnd(ok)
  BY DEF Sdo
<1>. QED  BY <1>1, <1>2, <1>3, <1>4, <1>5, <1>6, <1>7, <1>8, <1>9 DEF Next, LoopStep, Bus

\* Whatever the sensors put in the SDO queue of the slave, it boots and configures
\* itself as a slave driver alone does.
THEOREM ImplementsDriver == Spec => DriverSpec
<1>1. Init => Driver!Init
  BY DriverInit
<1>2. Inv /\ [Next]_vars => [Driver!Next]_(Driver!vars)
  BY DriverStep
<1>. QED  BY <1>1, <1>2, Invariance, PTL DEF Spec, DriverSpec, Driver!Spec
=============================================================================
