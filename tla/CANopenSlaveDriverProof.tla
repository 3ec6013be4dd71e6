---------------------- MODULE CANopenSlaveDriverProof ----------------------
(***************************************************************************)
(* Proofs about CANopenSlaveDriver, for every set of requests, every set   *)
(* of onconf lists, of any length, and any number of boots: the types, the *)
(* order and completeness of the configuration, the honesty of the admin   *)
(* verb, and that the admin verb implements RequestService.                *)
(***************************************************************************)
EXTENDS CANopenSlaveDriver, SequenceTheorems, TLAPS

-----------------------------------------------------------------------------
(* Queues of owners.                                                       *)

Holds(q, o) == \E i \in 1..Len(q) : q[i] = o
Distinct(q) == \A i, j \in 1..Len(q) : q[i] = q[j] => i = j

DoneType == [owner : Owners, ok : BOOLEAN]
OwnersOf(d) == [i \in 1..Len(d) |-> d[i].owner]

LEMMA AppendQueue ==
  ASSUME NEW S, NEW q \in Seq(S), NEW e \in S, Distinct(q), ~Holds(q, e)
  PROVE  /\ Append(q, e) \in Seq(S)
         /\ Distinct(Append(q, e))
         /\ \A o : Holds(Append(q, e), o) <=> Holds(q, o) \/ e = o
<1>1. /\ Append(q, e) \in Seq(S)
      /\ Len(Append(q, e)) = Len(q) + 1
      /\ \A i \in 1..Len(q) : Append(q, e)[i] = q[i]
      /\ Append(q, e)[Len(q) + 1] = e
  BY AppendProperties
<1>2. Len(q) \in Nat
  BY LenProperties
<1>3. \A i \in 1..Len(Append(q, e)) : i \in 1..Len(q) \/ i = Len(q) + 1
  BY <1>1, <1>2
<1>4. \A i \in 1..Len(q) : i \in 1..Len(Append(q, e))
  BY <1>1, <1>2
<1>5. Len(q) + 1 \in 1..Len(Append(q, e))
  BY <1>1, <1>2
<1>6. Distinct(Append(q, e))
  BY <1>1, <1>3 DEF Distinct, Holds
<1>7. \A o : Holds(Append(q, e), o) <=> Holds(q, o) \/ e = o
  BY <1>1, <1>3, <1>4, <1>5 DEF Holds
<1>. QED  BY <1>1, <1>6, <1>7

LEMMA TailQueue ==
  ASSUME NEW S, NEW q \in Seq(S), q # <<>>, Distinct(q)
  PROVE  /\ Tail(q) \in Seq(S)
         /\ Head(q) \in S
         /\ Holds(q, Head(q))
         /\ Distinct(Tail(q))
         /\ \A o : Holds(Tail(q), o) <=> Holds(q, o) /\ Head(q) # o
<1>1. /\ Tail(q) \in Seq(S)
      /\ Head(q) = q[1] /\ Head(q) \in S
      /\ Len(q) \in Nat \ {0}
      /\ Len(Tail(q)) = Len(q) - 1
      /\ \A i \in 1..Len(Tail(q)) : Tail(q)[i] = q[i + 1]
  BY HeadTailProperties, LenProperties, EmptySeq
<1>2. \A i \in 1..Len(Tail(q)) : i + 1 \in 1..Len(q) /\ i + 1 # 1
  BY <1>1
<1>3. \A i \in 1..Len(q) : i = 1 \/ (i - 1 \in 1..Len(Tail(q)) /\ i = (i - 1) + 1)
  BY <1>1
<1>4. 1 \in 1..Len(q)
  BY <1>1
<1>5. Holds(q, Head(q))
  BY <1>1, <1>4 DEF Holds
<1>6. Distinct(Tail(q))
  <2>. SUFFICES ASSUME NEW i \in 1..Len(Tail(q)), NEW j \in 1..Len(Tail(q)),
                       Tail(q)[i] = Tail(q)[j]
                PROVE  i = j
    BY DEF Distinct
  <2>1. i + 1 = j + 1
    BY <1>1, <1>2 DEF Distinct
  <2>. QED  BY <2>1, <1>1
<1>7. ASSUME NEW o
      PROVE  Holds(Tail(q), o) <=> Holds(q, o) /\ Head(q) # o
  <2>1. ASSUME Holds(Tail(q), o)
        PROVE  Holds(q, o) /\ Head(q) # o
    <3>1. PICK i \in 1..Len(Tail(q)) : Tail(q)[i] = o
      BY <2>1 DEF Holds
    <3>2. i + 1 \in 1..Len(q) /\ q[i + 1] = o /\ i + 1 # 1
      BY <3>1, <1>1, <1>2
    <3>. QED  BY <3>2, <1>1, <1>4 DEF Holds, Distinct
  <2>2. ASSUME Holds(q, o), Head(q) # o
        PROVE  Holds(Tail(q), o)
    <3>1. PICK i \in 1..Len(q) : q[i] = o
      BY <2>2 DEF Holds
    <3>2. i # 1
      BY <3>1, <2>2, <1>1
    <3>3. i - 1 \in 1..Len(Tail(q)) /\ Tail(q)[i - 1] = q[i]
      BY <3>1, <3>2, <1>1, <1>3
    <3>. QED  BY <3>1, <3>3 DEF Holds
  <2>. QED  BY <2>1, <2>2
<1>. QED  BY <1>1, <1>5, <1>6, <1>7

LEMMA LenDomain ==
  \A m, n \in Nat : 1..m = 1..n => m = n
<1>. SUFFICES ASSUME NEW m \in Nat, NEW n \in Nat, 1..m = 1..n
              PROVE  m = n
  OBVIOUS
<1>1. (m >= 1 => m \in 1..m) /\ (n >= 1 => n \in 1..n)
  OBVIOUS
<1>2. (m >= 1 => m <= n) /\ (n >= 1 => n <= m)
  BY <1>1
<1>. QED  BY <1>2

LEMMA AsFunction ==
  ASSUME NEW S, NEW q \in Seq(S), NEW n, Len(q) = n
  PROVE  q = [i \in 1..n |-> q[i]]
<1>1. q \in [1..n -> S]
  BY LenProperties
<1>. QED  BY <1>1

\* The owners of the posted continuations follow them.
LEMMA OwnersFollow ==
  ASSUME NEW d \in Seq(DoneType)
  PROVE  /\ OwnersOf(d) \in Seq(Owners)
         /\ \A e \in DoneType : OwnersOf(Append(d, e)) = Append(OwnersOf(d), e.owner)
         /\ d # <<>> => /\ OwnersOf(d) # <<>>
                        /\ Head(OwnersOf(d)) = Head(d).owner
                        /\ OwnersOf(Tail(d)) = Tail(OwnersOf(d))
<1>1. /\ Len(d) \in Nat
      /\ \A i \in 1..Len(d) : d[i] \in DoneType
  BY LenProperties, ElementOfSeq
<1>2. OwnersOf(d) \in [1..Len(d) -> Owners]
  BY <1>1 DEF OwnersOf, DoneType
<1>3. /\ OwnersOf(d) \in Seq(Owners)
      /\ Len(OwnersOf(d)) = Len(d)
      /\ \A i \in 1..Len(d) : OwnersOf(d)[i] = d[i].owner
  <2>1. OwnersOf(d) \in Seq(Owners)
    BY <1>1, <1>2, IsASeq
  <2>2. DOMAIN OwnersOf(d) = 1..Len(d) /\ DOMAIN OwnersOf(d) = 1..Len(OwnersOf(d))
    BY <2>1, LenProperties DEF OwnersOf
  <2>3. Len(OwnersOf(d)) \in Nat
    BY <2>1, LenProperties
  <2>4. Len(OwnersOf(d)) = Len(d)
    BY <1>1, <2>2, <2>3, LenDomain, Zenon
  <2>. QED  BY <2>1, <2>4 DEF OwnersOf
<1>4. ASSUME NEW e \in DoneType
      PROVE  OwnersOf(Append(d, e)) = Append(OwnersOf(d), e.owner)
  <2>1. /\ Append(d, e) \in Seq(DoneType)
        /\ Len(Append(d, e)) = Len(d) + 1
        /\ \A i \in 1..Len(d) : Append(d, e)[i] = d[i]
        /\ Append(d, e)[Len(d) + 1] = e
    BY AppendProperties
  <2>2. e.owner \in Owners
    BY DEF DoneType
  <2>3. /\ Append(OwnersOf(d), e.owner) \in Seq(Owners)
        /\ Len(Append(OwnersOf(d), e.owner)) = Len(d) + 1
        /\ \A i \in 1..Len(d) : Append(OwnersOf(d), e.owner)[i] = OwnersOf(d)[i]
        /\ Append(OwnersOf(d), e.owner)[Len(d) + 1] = e.owner
    BY <1>3, <2>2, AppendProperties
  <2>5. \A i \in 1..(Len(d) + 1) : i \in 1..Len(d) \/ i = Len(d) + 1
    BY <1>1
  <2>6. \A i \in 1..(Len(d) + 1) :
          Append(OwnersOf(d), e.owner)[i] = Append(d, e)[i].owner
    BY <1>3, <2>1, <2>3, <2>5
  <2>7. Append(OwnersOf(d), e.owner)
          = [i \in 1..(Len(d) + 1) |-> Append(OwnersOf(d), e.owner)[i]]
    BY <2>3, AsFunction
  <2>. QED  BY <2>1, <2>6, <2>7 DEF OwnersOf
<1>5. ASSUME d # <<>>
      PROVE  /\ OwnersOf(d) # <<>>
             /\ Head(OwnersOf(d)) = Head(d).owner
             /\ OwnersOf(Tail(d)) = Tail(OwnersOf(d))
  <2>1. /\ Tail(d) \in Seq(DoneType)
        /\ Head(d) = d[1] /\ Len(d) # 0
        /\ Len(Tail(d)) = Len(d) - 1
        /\ \A i \in 1..Len(Tail(d)) : Tail(d)[i] = d[i + 1]
    BY <1>5, HeadTailProperties, EmptySeq
  <2>2. OwnersOf(d) # <<>>
    BY <1>3, <2>1, EmptySeq
  <2>3. /\ Tail(OwnersOf(d)) \in Seq(Owners)
        /\ Head(OwnersOf(d)) = OwnersOf(d)[1]
        /\ Len(Tail(OwnersOf(d))) = Len(d) - 1
        /\ \A i \in 1..Len(Tail(OwnersOf(d))) : Tail(OwnersOf(d))[i] = OwnersOf(d)[i + 1]
    BY <1>3, <2>2, HeadTailProperties
  <2>4. 1 \in 1..Len(d) /\ \A i \in 1..(Len(d) - 1) : i + 1 \in 1..Len(d)
    BY <1>1, <2>1
  <2>6. \A i \in 1..(Len(d) - 1) : Tail(OwnersOf(d))[i] = Tail(d)[i].owner
    BY <1>3, <2>1, <2>3, <2>4
  <2>7. Tail(OwnersOf(d)) = [i \in 1..(Len(d) - 1) |-> Tail(OwnersOf(d))[i]]
    BY <2>3, AsFunction
  <2>8. OwnersOf(Tail(d)) = Tail(OwnersOf(d))
    BY <2>1, <2>6, <2>7 DEF OwnersOf
  <2>. QED  BY <1>3, <2>1, <2>2, <2>3, <2>4, <2>8
<1>. QED  BY <1>3, <1>4, <1>5

LEMMA SameLength ==
  ASSUME NEW d \in Seq(DoneType)
  PROVE  Len(OwnersOf(d)) = Len(d)
<1>1. OwnersOf(d) \in Seq(Owners) /\ Len(d) \in Nat
  BY OwnersFollow, LenProperties
<1>2. /\ DOMAIN OwnersOf(d) = 1..Len(d)
      /\ DOMAIN OwnersOf(d) = 1..Len(OwnersOf(d)) /\ Len(OwnersOf(d)) \in Nat
  BY <1>1, LenProperties DEF OwnersOf
<1>. QED  BY <1>1, <1>2, LenDomain, Zenon

-----------------------------------------------------------------------------
(***************************************************************************)
(* The inductive invariant.  The admin requests and the configuration are  *)
(* each in one place at most of the asynchronous part: submitted, ended    *)
(* with the continuation posted, or in a handler of the loop.              *)
(***************************************************************************)
Queued(o) == Holds(sdoq, o)
Posted(o) == Holds(OwnersOf(done), o)
OnLoop(o) == loop.pc # "idle" /\ loop.owner = o
Async(o) == Queued(o) \/ Posted(o) \/ OnLoop(o)
OnApi(r) == api.pc # "idle" /\ api.req = r

Shape ==
  /\ api.pc # "idle" => api.req \in Requests
  /\ loop.pc = "config" => loop.owner = Config
  /\ loop.pc \in {"reply", "unref"} => loop.owner \in Requests

OnePlace ==
  /\ Distinct(sdoq) /\ Distinct(OwnersOf(done))
  /\ \A o \in Owners : /\ ~(Queued(o) /\ Posted(o))
                       /\ ~(Queued(o) /\ OnLoop(o))
                       /\ ~(Posted(o) /\ OnLoop(o))

\* The references of a request are those of its holders: the handler of the verb,
\* and the continuation, for which the handler takes one before it decodes.
Counted(r) ==
  refs[r] = (IF OnApi(r) THEN 1 ELSE 0)
            + (IF Async(r) \/ (OnApi(r) /\ api.pc \in {"decode", "throw"}) THEN 1 ELSE 0)

Phased(r) ==
  /\ phase[r] = "new"  => ~OnApi(r) /\ ~Async(r) /\ replies[r] = 0
  /\ phase[r] = "open" => OnApi(r) \/ Async(r)
  /\ phase[r] = "gone" => ~OnApi(r) /\ ~Async(r) /\ replies[r] = 1

\* Who holds the request tells whether it was answered.
Answered(r) ==
  /\ Async(r) => replies[r] = IF OnLoop(r) /\ loop.pc = "unref" THEN 1 ELSE 0
  /\ Async(r) /\ OnApi(r) => api.pc = "return"
  /\ OnApi(r) /\ ~Async(r) =>
       replies[r] = IF api.pc \in {"return", "throw"} THEN 1 ELSE 0

Books == \A r \in Requests : Counted(r) /\ Phased(r) /\ Answered(r)

\* How the operation ended is known to the continuation, and to nobody before.
Outcome(ok) == IF ok THEN "ok" ELSE "error"
Unknown(r) ==
  /\ replies[r] = 0 => answer[r] = "none"
  /\ phase[r] = "new" \/ Queued(r) \/ (OnApi(r) /\ api.pc # "return")
       => outcome[r] = "none"
Known ==
  /\ \A i \in 1..Len(done) :
       done[i].owner \in Requests => outcome[done[i].owner] = Outcome(done[i].ok)
  /\ loop.pc = "reply" => outcome[loop.owner] = Outcome(loop.ok)
EndsKnown == Known /\ AdminHonest /\ \A r \in Requests : Unknown(r)

\* The items before conf.next that are written were submitted, and no other; no
\* null was met, but at the end.
Progress ==
  /\ conf.next \in 1..(Len(onconf) + 1)
  /\ conf.res = IF conf.state \in {"ended", "booted"} THEN 1 ELSE 0
  /\ conf.state \in {"ended", "booted"} =>
       conf.threw \/ conf.next = Len(onconf) + 1 \/ onconf[conf.next] = "null"
  /\ conf.state = "started" =>
       ~conf.threw /\ \A i \in 1..(conf.next - 1) : onconf[i] # "null"
  /\ \A k \in 1..Len(conf.tried) : conf.tried[k] \in 1..(conf.next - 1)
  /\ ~conf.threw => \A i \in 1..(conf.next - 1) :
       onconf[i] = "write" => \E k \in 1..Len(conf.tried) : conf.tried[k] = i
  /\ InOrder

\* One configuration at a time, and none of its steps after its end.
OneConfig ==
  /\ Async(Config) => conf.state = "started"
  /\ loop.pc = "config" => conf.next = 1 /\ conf.tried = <<>>

Inv == TypeOK /\ Shape /\ OnePlace /\ Books /\ EndsKnown /\ Progress /\ OneConfig

-----------------------------------------------------------------------------
(* How the steps move the owners.                                          *)

LEMMA Constants ==
  /\ NoConf \in ConfType
  /\ onconf \in Onconfs => onconf \in Seq(ItemKinds) /\ Len(onconf) \in Nat
<1>1. <<>> \in Seq(Nat)
  BY EmptySeq
<1>2. NoConf \in ConfType
  BY <1>1 DEF NoConf, ConfType
<1>. QED  BY <1>2, OnconfsAssumption, LenProperties

LEMMA SdoqAppend ==
  ASSUME Inv, NEW o \in Owners, ~Queued(o), sdoq' = Append(sdoq, o)
  PROVE  /\ sdoq' \in Seq(Owners) /\ Distinct(sdoq)'
         /\ \A x : Queued(x)' <=> Queued(x) \/ o = x
<1>1. sdoq \in Seq(Owners) /\ Distinct(sdoq) /\ ~Holds(sdoq, o)
  BY DEF Inv, TypeOK, OnePlace, Queued
<1>2. /\ sdoq' \in Seq(Owners) /\ Distinct(sdoq')
      /\ \A x : Holds(sdoq', x) <=> Holds(sdoq, x) \/ o = x
  BY <1>1, AppendQueue
<1>. QED  BY <1>2 DEF Queued, Holds, Distinct

LEMMA SdoqTail ==
  ASSUME Inv, sdoq # <<>>, sdoq' = Tail(sdoq)
  PROVE  /\ sdoq' \in Seq(Owners) /\ Distinct(sdoq)'
         /\ Head(sdoq) \in Owners /\ Queued(Head(sdoq))
         /\ \A x : Queued(x)' <=> Queued(x) /\ Head(sdoq) # x
<1>1. sdoq \in Seq(Owners) /\ Distinct(sdoq)
  BY DEF Inv, TypeOK, OnePlace
<1>2. /\ sdoq' \in Seq(Owners) /\ Distinct(sdoq')
      /\ Head(sdoq) \in Owners /\ Holds(sdoq, Head(sdoq))
      /\ \A x : Holds(sdoq', x) <=> Holds(sdoq, x) /\ Head(sdoq) # x
  BY <1>1, TailQueue
<1>. QED  BY <1>2 DEF Queued, Holds, Distinct

LEMMA DoneAppend ==
  ASSUME Inv, NEW e \in DoneType, ~Posted(e.owner), done' = Append(done, e)
  PROVE  /\ done' \in Seq(DoneType) /\ Distinct(OwnersOf(done))'
         /\ \A x : Posted(x)' <=> Posted(x) \/ e.owner = x
<1>1. /\ done \in Seq(DoneType) /\ Distinct(OwnersOf(done))
      /\ ~Holds(OwnersOf(done), e.owner) /\ e.owner \in Owners
  BY DEF Inv, TypeOK, OnePlace, Posted, DoneType
<1>2. done' \in Seq(DoneType)
  BY <1>1, AppendProperties
<1>3. OwnersOf(done) \in Seq(Owners) /\ OwnersOf(done') = Append(OwnersOf(done), e.owner)
  BY <1>1, OwnersFollow
<1>4. /\ Distinct(OwnersOf(done'))
      /\ \A x : Holds(OwnersOf(done'), x) <=> Holds(OwnersOf(done), x) \/ e.owner = x
  BY <1>1, <1>3, AppendQueue
<1>. QED  BY <1>2, <1>4 DEF Posted, Holds, Distinct, OwnersOf

LEMMA DoneTail ==
  ASSUME Inv, done # <<>>, done' = Tail(done)
  PROVE  /\ done' \in Seq(DoneType) /\ Distinct(OwnersOf(done))'
         /\ Head(done) \in DoneType /\ Posted(Head(done).owner)
         /\ \A x : Posted(x)' <=> Posted(x) /\ Head(done).owner # x
         /\ \A i \in 1..Len(done') : done'[i] = done[i + 1] /\ i + 1 \in 1..Len(done)
         /\ 1 \in 1..Len(done) /\ Head(done) = done[1]
<1>1. done \in Seq(DoneType) /\ Distinct(OwnersOf(done))
  BY DEF Inv, TypeOK, OnePlace, DoneType
<1>2. /\ done' \in Seq(DoneType) /\ Head(done) \in DoneType
      /\ Head(done) = done[1] /\ Len(done) \in Nat \ {0}
      /\ Len(done') = Len(done) - 1
      /\ \A i \in 1..Len(done') : done'[i] = done[i + 1]
  BY <1>1, HeadTailProperties, LenProperties, EmptySeq
<1>3. /\ OwnersOf(done) \in Seq(Owners) /\ OwnersOf(done) # <<>>
      /\ Head(OwnersOf(done)) = Head(done).owner
      /\ OwnersOf(done') = Tail(OwnersOf(done))
  BY <1>1, OwnersFollow
<1>4. /\ Distinct(OwnersOf(done')) /\ Holds(OwnersOf(done), Head(done).owner)
      /\ \A x : Holds(OwnersOf(done'), x)
                  <=> Holds(OwnersOf(done), x) /\ Head(done).owner # x
  <2>. DEFINE q == OwnersOf(done)
  <2>1. q \in Seq(Owners) /\ q # <<>> /\ Distinct(q)
    BY <1>1, <1>3
  <2>. HIDE DEF q
  <2>2. /\ Holds(q, Head(q)) /\ Distinct(Tail(q))
        /\ \A x : Holds(Tail(q), x) <=> Holds(q, x) /\ Head(q) # x
    BY <2>1, TailQueue
  <2>. QED  BY <1>3, <2>2 DEF q
<1>5. /\ 1 \in 1..Len(done)
      /\ \A i \in 1..Len(done') : i + 1 \in 1..Len(done)
  BY <1>2
<1>6. /\ Distinct(OwnersOf(done))' /\ Posted(Head(done).owner)
      /\ \A x : Posted(x)' <=> Posted(x) /\ Head(done).owner # x
  BY <1>4 DEF Posted
<1>7. done' \in Seq(DoneType)
  BY <1>2
<1>. QED  BY <1>2, <1>5, <1>6, <1>7

LEMMA PlacesSame ==
  ASSUME Inv
  PROVE  /\ UNCHANGED sdoq => /\ Distinct(sdoq)'
                              /\ \A x : Queued(x)' <=> Queued(x)
         /\ UNCHANGED done => /\ Distinct(OwnersOf(done))' /\ done' \in Seq(DoneType)
                              /\ \A x : Posted(x)' <=> Posted(x)
         /\ UNCHANGED loop => \A x : OnLoop(x)' <=> OnLoop(x)
BY DEF Inv, TypeOK, OnePlace, Queued, Posted, OnLoop, Holds, Distinct, OwnersOf, DoneType

\* The books of the requests do not change in a step that moves no request
\* and neither answers nor touches a reference.
LEMMA BooksKept ==
  ASSUME Inv, UNCHANGED <<api, phase, refs, replies>>,
         loop.pc # "unref", loop'.pc # "unref",
         \A r \in Requests : Async(r)' <=> Async(r)
  PROVE  Books'
BY DEF Inv, Books, Counted, Phased, Answered, OnApi, OnLoop

\* Nor does what is known of the outcomes in a step of the boot.
LEMMA EndsKept ==
  ASSUME Inv, UNCHANGED <<api, requestState>>, UNCHANGED done \/ (done # <<>> /\ done' = Tail(done)),
         loop'.pc # "reply", \A r \in Requests : Queued(r)' <=> Queued(r)
  PROVE  EndsKnown'
<1>1. \A r \in Requests : Unknown(r)'
  BY DEF Inv, EndsKnown, Unknown, OnApi, requestState
<1>2. AdminHonest'
  BY DEF Inv, EndsKnown, AdminHonest, requestState
<1>3. \A i \in 1..Len(done') : \E j \in 1..Len(done) : done'[i] = done[j]
  BY DoneTail
<1>4. UNCHANGED outcome
  BY DEF requestState
<1>5. Known
  BY DEF Inv, EndsKnown
<1>6. Known'
  BY <1>3, <1>4, <1>5 DEF Known
<1>. QED  BY <1>1, <1>2, <1>6 DEF EndsKnown

LEMMA InitInv ==
  ASSUME Init
  PROVE  Inv
<1>1. /\ sdoq = <<>> /\ done = <<>> /\ conf = NoConf
      /\ sdoq \in Seq(Owners) /\ done \in Seq([owner : Owners, ok : BOOLEAN])
      /\ Len(sdoq) = 0 /\ Len(done) = 0 /\ onconf \in Onconfs
  BY EmptySeq DEF Init
<1>2. TypeOK
  <2>1. /\ api \in [pc : {"idle", "dispatch", "decode", "throw", "return"},
                    req : Owners, query : Queries]
        /\ loop \in [pc : {"idle", "config", "reply", "unref"}, owner : Owners, ok : BOOLEAN]
    BY DEF Init, ApiIdle, LoopIdle, Owners, Queries
  <2>2. conf \in ConfType /\ boots \in 0..MaxBoots
    BY <1>1, Constants, MaxBootsAssumption DEF Init
  <2>. QED  BY <1>1, <2>1, <2>2 DEF Init, TypeOK
<1>3. \A o : ~Queued(o) /\ ~Posted(o) /\ ~OnLoop(o)
  <2>1. OwnersOf(done) = [i \in 1..0 |-> done[i].owner]
    BY <1>1 DEF OwnersOf
  <2>2. Len(OwnersOf(done)) = 0
    BY <1>1, OwnersFollow, LenProperties, LenDomain, <2>1 DEF DoneType
  <2>. QED  BY <1>1, <2>2 DEF Queued, Posted, OnLoop, Holds, Init, LoopIdle
<1>4. Distinct(sdoq) /\ Distinct(OwnersOf(done))
  BY <1>1, <1>3 DEF Distinct, Queued, Posted, Holds
<1>5. Shape /\ OnePlace /\ OneConfig
  BY <1>3, <1>4 DEF Shape, OnePlace, OneConfig, Async, Init, ApiIdle, LoopIdle
<1>6. Books
  <2>1. \A r \in Requests : /\ ~OnApi(r) /\ ~Async(r)
                            /\ refs[r] = 0 /\ replies[r] = 0 /\ phase[r] = "new"
    BY <1>3 DEF Async, OnApi, Init, ApiIdle
  <2>2. \A r \in Requests : Counted(r)
    BY <2>1, 0 + 0 = 0 DEF Counted, Init
  <2>3. \A r \in Requests : Phased(r) /\ Answered(r)
    BY <2>1 DEF Phased, Answered
  <2>. QED  BY <2>2, <2>3 DEF Books
<1>7. EndsKnown
  BY <1>1, <1>3 DEF EndsKnown, Known, AdminHonest, Unknown, Init, OnApi, ApiIdle, LoopIdle
<1>8. Progress
  BY <1>1, Constants, EmptySeq DEF Progress, InOrder, NoConf
<1>. QED  BY <1>2, <1>5, <1>6, <1>7, <1>8 DEF Inv

-----------------------------------------------------------------------------
(* The steps of the verb on the API thread.                                *)

LEMMA ApiFrame ==
  ASSUME Inv, UNCHANGED <<bootState, loop, sdoq, done, outcome>>
  PROVE  /\ OnePlace' /\ Progress' /\ OneConfig' /\ Known'
         /\ \A x : /\ Async(x)' <=> Async(x)
                   /\ Queued(x)' <=> Queued(x)
                   /\ OnLoop(x)' <=> OnLoop(x)
<1>1. \A x : /\ Queued(x)' <=> Queued(x)
             /\ Posted(x)' <=> Posted(x)
             /\ OnLoop(x)' <=> OnLoop(x)
  BY PlacesSame
<1>2. OnePlace'
  BY <1>1, PlacesSame DEF Inv, OnePlace
<1>3. Progress'
  BY DEF Inv, Progress, InOrder, bootState
<1>4. OneConfig'
  BY <1>1 DEF Inv, OneConfig, Async, bootState
<1>5. Known'
  BY DEF Inv, EndsKnown, Known
<1>. QED  BY <1>1, <1>2, <1>3, <1>4, <1>5 DEF Async

LEMMA AcceptInv ==
  ASSUME Inv, NEW r \in Requests, NEW q \in Queries, Accept(r, q)
  PROVE  Inv'
<1>. USE DEF Inv
<1>1. /\ OnePlace' /\ Progress' /\ OneConfig' /\ Known'
      /\ \A x : /\ Async(x)' <=> Async(x)
                /\ Queued(x)' <=> Queued(x)
                /\ OnLoop(x)' <=> OnLoop(x)
  BY ApiFrame DEF Accept
<1>2. TypeOK' /\ Shape'
  BY DEF Accept, TypeOK, Shape, Owners, bootState
<1>3. Books'
  <2>. SUFFICES ASSUME NEW x \in Requests
                PROVE  Counted(x)' /\ Phased(x)' /\ Answered(x)'
    BY DEF Books
  <2>1. Counted(x) /\ Phased(x) /\ Answered(x)
    BY DEF Books
  <2>2. /\ api.pc = "idle" /\ api'.pc = "dispatch" /\ api'.req = r
        /\ phase[r] = "new" /\ phase'[r] = "open" /\ refs'[r] = 1
        /\ x # r => phase'[x] = phase[x] /\ refs'[x] = refs[x]
        /\ replies' = replies /\ loop' = loop
    BY DEF Accept, TypeOK
  <2>3. (OnApi(x)' <=> x = r) /\ ~OnApi(x)
    BY <2>2 DEF OnApi
  <2>4. Counted(x)'
    BY <1>1, <2>1, <2>2, <2>3 DEF Counted, Phased
  <2>5. Phased(x)' /\ Answered(x)'
    BY <1>1, <2>1, <2>2, <2>3 DEF Phased, Answered
  <2>. QED  BY <2>4, <2>5
<1>4. AdminHonest' /\ \A x \in Requests : Unknown(x)'
  BY <1>1 DEF Accept, EndsKnown, AdminHonest, Unknown, OnApi, TypeOK
<1>. QED  BY <1>1, <1>2, <1>3, <1>4 DEF EndsKnown

\* The handler refuses the request, or answers that it cannot be decoded.
LEMMA ApiReplyInv ==
  ASSUME Inv, Refuse \/ Catch
  PROVE  Inv'
<1>. USE DEF Inv
<1>1. /\ OnePlace' /\ Progress' /\ OneConfig' /\ Known'
      /\ \A x : /\ Async(x)' <=> Async(x)
                /\ Queued(x)' <=> Queued(x)
                /\ OnLoop(x)' <=> OnLoop(x)
  BY ApiFrame DEF Refuse, Catch
<1>2. /\ \/ api.pc = "dispatch" /\ api'.pc = "return"
         \/ api.pc = "decode" /\ api'.pc = "throw"
      /\ api'.req = api.req /\ api'.query = api.query /\ api.req \in Requests
      /\ api' \in [pc : {"idle", "dispatch", "decode", "throw", "return"},
                   req : Owners, query : Queries]
      /\ replies' = [replies EXCEPT ![api.req] = @ + 1]
      /\ answer' = [answer EXCEPT ![api.req] = "error"]
      /\ UNCHANGED <<bootState, loop, sdoq, done, phase, refs, outcome>>
  <2>1. \/ api.pc = "dispatch" /\ api' = [api EXCEPT !.pc = "return"]
        \/ api.pc = "decode" /\ api' = [api EXCEPT !.pc = "throw"]
    BY DEF Refuse, Catch
  <2>2. /\ replies' = [replies EXCEPT ![api.req] = @ + 1]
        /\ answer' = [answer EXCEPT ![api.req] = "error"]
        /\ UNCHANGED <<bootState, loop, sdoq, done, phase, refs, outcome>>
    BY DEF Refuse, Catch, Reply
  <2>3. api.req \in Requests
    BY <2>1 DEF Shape
  <2>4. /\ \/ api.pc = "dispatch" /\ api'.pc = "return"
           \/ api.pc = "decode" /\ api'.pc = "throw"
        /\ api'.req = api.req /\ api'.query = api.query
        /\ api' \in [pc : {"idle", "dispatch", "decode", "throw", "return"},
                     req : Owners, query : Queries]
    BY <2>1 DEF TypeOK
  <2>. QED  BY <2>2, <2>3, <2>4
<1>3. TypeOK' /\ Shape'
  BY <1>2 DEF TypeOK, Shape, bootState
<1>4. ASSUME NEW x \in Requests
      PROVE  /\ OnApi(x)' <=> OnApi(x)
             /\ OnApi(x) <=> x = api.req
             /\ OnApi(x) => /\ ~Async(x) /\ replies[x] = 0 /\ replies'[x] = 1
                            /\ outcome[x] = "none" /\ answer'[x] = "error"
             /\ ~OnApi(x) => replies'[x] = replies[x] /\ answer'[x] = answer[x]
  <2>1. (OnApi(x)' <=> OnApi(x)) /\ (OnApi(x) <=> x = api.req)
    BY <1>2 DEF OnApi
  <2>2. OnApi(x) => ~Async(x) /\ replies[x] = 0 /\ outcome[x] = "none"
    BY <1>2, <2>1 DEF Books, Answered, EndsKnown, Unknown
  <2>3. /\ x = api.req => replies'[x] = replies[x] + 1 /\ answer'[x] = "error"
        /\ x # api.req => replies'[x] = replies[x] /\ answer'[x] = answer[x]
    BY <1>2 DEF TypeOK
  <2>. QED  BY <2>1, <2>2, <2>3
<1>5. Books'
  <2>. SUFFICES ASSUME NEW x \in Requests
                PROVE  Counted(x)' /\ Phased(x)' /\ Answered(x)'
    BY DEF Books
  <2>1. Counted(x) /\ Phased(x) /\ Answered(x)
    BY DEF Books
  <2>2. Counted(x)'
    BY <1>1, <1>2, <1>4, <2>1 DEF Counted
  <2>3. Phased(x)' /\ Answered(x)'
    BY <1>1, <1>2, <1>4, <2>1 DEF Phased, Answered
  <2>. QED  BY <2>2, <2>3
<1>6. AdminHonest'
  BY <1>2, <1>4 DEF EndsKnown, AdminHonest
<1>7. \A x \in Requests : Unknown(x)'
  <2>. SUFFICES ASSUME NEW x \in Requests PROVE Unknown(x)'
    OBVIOUS
  <2>1. Unknown(x)
    BY DEF EndsKnown
  <2>. QED  BY <1>1, <1>2, <1>4, <2>1 DEF Unknown
<1>. QED  BY <1>1, <1>3, <1>5, <1>6, <1>7 DEF EndsKnown

LEMMA HoldInv ==
  ASSUME Inv, Hold
  PROVE  Inv'
<1>. USE DEF Inv
<1>1. /\ OnePlace' /\ Progress' /\ OneConfig' /\ Known'
      /\ \A x : /\ Async(x)' <=> Async(x)
                /\ Queued(x)' <=> Queued(x)
                /\ OnLoop(x)' <=> OnLoop(x)
  BY ApiFrame DEF Hold
<1>2. /\ api.pc = "dispatch" /\ api'.pc = "decode"
      /\ api'.req = api.req /\ api.req \in Requests
      /\ api' \in [pc : {"idle", "dispatch", "decode", "throw", "return"},
                   req : Owners, query : Queries]
      /\ refs' = [refs EXCEPT ![api.req] = @ + 1]
      /\ UNCHANGED <<bootState, loop, sdoq, done, phase, replies, answer, outcome>>
  BY DEF Hold, Addref, Shape, TypeOK
<1>3. TypeOK' /\ Shape'
  BY <1>2 DEF TypeOK, Shape, bootState
<1>4. Books'
  <2>. SUFFICES ASSUME NEW x \in Requests
                PROVE  Counted(x)' /\ Phased(x)' /\ Answered(x)'
    BY DEF Books
  <2>1. Counted(x) /\ Phased(x) /\ Answered(x)
    BY DEF Books
  <2>2. (OnApi(x)' <=> OnApi(x)) /\ (OnApi(x) <=> x = api.req)
    BY <1>2 DEF OnApi
  <2>3. OnApi(x) => ~Async(x)
    BY <1>2, <2>1 DEF Answered
  <2>4. /\ x = api.req => refs'[x] = refs[x] + 1
        /\ x # api.req => refs'[x] = refs[x]
    BY <1>2 DEF TypeOK
  <2>5. Counted(x)'
    BY <1>1, <1>2, <2>1, <2>2, <2>3, <2>4 DEF Counted
  <2>6. Phased(x)' /\ Answered(x)'
    BY <1>1, <1>2, <2>1, <2>2, <2>3 DEF Phased, Answered
  <2>. QED  BY <2>5, <2>6
<1>5. AdminHonest' /\ \A x \in Requests : Unknown(x)'
  BY <1>1, <1>2 DEF EndsKnown, AdminHonest, Unknown, OnApi
<1>. QED  BY <1>1, <1>3, <1>4, <1>5 DEF EndsKnown

\* The error path gives the reference of the continuation back, the framework
\* that of the handler.
LEMMA ApiUnrefInv ==
  ASSUME Inv, CatchUnref \/ Return
  PROVE  Inv'
<1>. USE DEF Inv
<1>. DEFINE c == api.req
<1>1. /\ OnePlace' /\ Progress' /\ OneConfig' /\ Known'
      /\ \A x : /\ Async(x)' <=> Async(x)
                /\ Queued(x)' <=> Queued(x)
                /\ OnLoop(x)' <=> OnLoop(x)
  BY ApiFrame DEF CatchUnref, Return
<1>2. /\ \/ api.pc = "throw" /\ api'.pc = "return" /\ api'.req = api.req
         \/ api.pc = "return" /\ api'.pc = "idle"
      /\ c \in Requests
      /\ api' \in [pc : {"idle", "dispatch", "decode", "throw", "return"},
                   req : Owners, query : Queries]
      /\ refs' = [refs EXCEPT ![c] = @ - 1]
      /\ phase' = [phase EXCEPT ![c] = IF refs[c] = 1 THEN "gone" ELSE @]
      /\ UNCHANGED <<bootState, loop, sdoq, done, replies, answer, outcome>>
  BY DEF CatchUnref, Return, Unref, Shape, TypeOK, ApiIdle, Owners, Queries
<1>3. /\ OnApi(c) /\ replies[c] \in Nat
      /\ refs[c] = 1 + (IF Async(c) \/ api.pc = "throw" THEN 1 ELSE 0)
      /\ api.pc = "throw" => ~Async(c)
      /\ ~Async(c) => replies[c] = 1
  <2>1. OnApi(c)
    BY <1>2 DEF OnApi
  <2>2. Counted(c) /\ Answered(c)
    BY <1>2 DEF Books
  <2>. QED  BY <1>2, <2>1, <2>2 DEF Counted, Answered, TypeOK
<1>4. /\ phase[c] = "open" /\ refs'[c] = refs[c] - 1 /\ refs'[c] \in Nat
      /\ phase'[c] = IF refs[c] = 1 THEN "gone" ELSE "open"
      /\ \A x \in Requests : x # c => phase'[x] = phase[x] /\ refs'[x] = refs[x]
  <2>1. phase[c] = "open"
    BY <1>2, <1>3 DEF Books, Phased, TypeOK
  <2>. QED  BY <1>2, <1>3, <2>1 DEF TypeOK
<1>5. TypeOK' /\ Shape'
  <2>1. refs' \in [Requests -> Nat] /\ phase' \in [Requests -> {"new", "open", "gone"}]
    BY <1>2, <1>4 DEF TypeOK
  <2>. QED  BY <1>2, <2>1 DEF TypeOK, Shape, bootState
<1>6. ASSUME NEW x \in Requests
      PROVE  /\ OnApi(x) <=> x = c
             /\ OnApi(x)' <=> x = c /\ api.pc = "throw"
  BY <1>2 DEF OnApi
<1>7. Books'
  <2>. SUFFICES ASSUME NEW x \in Requests
                PROVE  Counted(x)' /\ Phased(x)' /\ Answered(x)'
    BY DEF Books
  <2>1. Counted(x) /\ Phased(x) /\ Answered(x)
    BY DEF Books
  <2>2. CASE x = c
    <3>1. Counted(x)'
      BY <1>1, <1>2, <1>3, <1>4, <1>6, <2>2 DEF Counted
    <3>2. Phased(x)' /\ Answered(x)'
      BY <1>1, <1>2, <1>3, <1>4, <1>6, <2>1, <2>2 DEF Phased, Answered
    <3>. QED  BY <3>1, <3>2
  <2>3. CASE x # c
    <3>1. Counted(x)'
      BY <1>1, <1>2, <1>4, <1>6, <2>1, <2>3 DEF Counted
    <3>2. Phased(x)' /\ Answered(x)'
      BY <1>1, <1>2, <1>4, <1>6, <2>1, <2>3 DEF Phased, Answered
    <3>. QED  BY <3>1, <3>2
  <2>. QED  BY <2>2, <2>3
<1>8. AdminHonest'
  BY <1>2 DEF EndsKnown, AdminHonest
<1>9. \A x \in Requests : Unknown(x)'
  <2>. SUFFICES ASSUME NEW x \in Requests PROVE Unknown(x)'
    OBVIOUS
  <2>1. Unknown(x) /\ (phase'[x] = "new" => phase[x] = "new")
    BY <1>4 DEF EndsKnown
  <2>. QED  BY <1>1, <1>2, <1>6, <2>1 DEF Unknown
<1>. QED  BY <1>1, <1>5, <1>7, <1>8, <1>9 DEF EndsKnown

\* The request is given to the SDO client.
LEMMA SubmitInv ==
  ASSUME Inv, Submit
  PROVE  Inv'
<1>. USE DEF Inv
<1>. DEFINE c == api.req
<1>1. /\ api.pc = "decode" /\ api'.pc = "return" /\ api'.req = c /\ c \in Requests
      /\ api' \in [pc : {"idle", "dispatch", "decode", "throw", "return"},
                   req : Owners, query : Queries]
      /\ sdoq' = Append(sdoq, c) /\ c \in Owners
      /\ UNCHANGED <<bootState, loop, done, phase, refs, replies, answer, outcome>>
  BY DEF Submit, Shape, TypeOK, Owners, requestState
<1>2. /\ OnApi(c) /\ ~Async(c) /\ c # Config
      /\ replies[c] = 0 /\ outcome[c] = "none"
  <2>1. OnApi(c)
    BY <1>1 DEF OnApi
  <2>. QED  BY <1>1, <2>1, ConfigAssumption DEF Books, Answered, EndsKnown, Unknown
<1>3. /\ sdoq' \in Seq(Owners) /\ Distinct(sdoq)'
      /\ \A x : /\ Queued(x)' <=> Queued(x) \/ c = x
                /\ Posted(x)' <=> Posted(x)
                /\ OnLoop(x)' <=> OnLoop(x)
      /\ Distinct(OwnersOf(done))'
  BY <1>1, <1>2, SdoqAppend, PlacesSame DEF Async
<1>4. \A x : Async(x)' <=> Async(x) \/ c = x
  BY <1>3 DEF Async
<1>5. TypeOK' /\ Shape'
  BY <1>1, <1>3 DEF TypeOK, Shape, bootState
<1>6. OnePlace'
  BY <1>2, <1>3 DEF OnePlace, Async
<1>7. Progress' /\ OneConfig'
  <2>1. Progress'
    BY <1>1 DEF Progress, InOrder, bootState
  <2>2. Async(Config)' <=> Async(Config)
    BY <1>2, <1>4
  <2>. QED  BY <1>1, <2>1, <2>2 DEF OneConfig, bootState
<1>8. ASSUME NEW x \in Requests
      PROVE  (OnApi(x)' <=> OnApi(x)) /\ (OnApi(x) <=> x = c)
  BY <1>1 DEF OnApi
<1>9. Books'
  <2>. SUFFICES ASSUME NEW x \in Requests
                PROVE  Counted(x)' /\ Phased(x)' /\ Answered(x)'
    BY DEF Books
  <2>1. Counted(x) /\ Phased(x) /\ Answered(x)
    BY DEF Books
  <2>2. ~OnLoop(c)
    BY <1>2 DEF Async
  <2>3. Counted(x)'
    BY <1>1, <1>2, <1>4, <1>8, <2>1 DEF Counted
  <2>4. Phased(x)' /\ Answered(x)'
    BY <1>1, <1>2, <1>3, <1>4, <1>8, <2>1, <2>2 DEF Phased, Answered
  <2>. QED  BY <2>3, <2>4
<1>10. AdminHonest' /\ Known'
  BY <1>1 DEF EndsKnown, AdminHonest, Known
<1>11. \A x \in Requests : Unknown(x)'
  <2>. SUFFICES ASSUME NEW x \in Requests PROVE Unknown(x)'
    OBVIOUS
  <2>1. Unknown(x)
    BY DEF EndsKnown
  <2>. QED  BY <1>1, <1>2, <1>3, <1>8, <2>1 DEF Unknown
<1>. QED  BY <1>5, <1>6, <1>7, <1>9, <1>10, <1>11 DEF EndsKnown

-----------------------------------------------------------------------------
(* The continuations of the verb and the SDO client.                       *)

LEMMA SdoInv ==
  ASSUME Inv, NEW ok \in BOOLEAN, SdoEnd(ok)
  PROVE  Inv'
<1>. USE DEF Inv
<1>. DEFINE o == Head(sdoq)
            e == [owner |-> o, ok |-> ok]
<1>1. /\ sdoq # <<>> /\ sdoq' = Tail(sdoq)
      /\ loop.pc = "idle" /\ done' = Append(done, e)
      /\ outcome' = [r \in Requests |-> IF r # o THEN outcome[r] ELSE Outcome(ok)]
      /\ UNCHANGED <<bootState, loop, api, phase, refs, replies, answer>>
  BY DEF SdoEnd, Outcome
<1>2. /\ sdoq' \in Seq(Owners) /\ Distinct(sdoq)'
      /\ o \in Owners /\ Queued(o)
      /\ \A x : Queued(x)' <=> Queued(x) /\ o # x
  BY <1>1, SdoqTail
<1>3. e \in DoneType /\ e.owner = o /\ e.ok = ok /\ ~Posted(o) /\ ~OnLoop(o)
  BY <1>1, <1>2 DEF DoneType, OnePlace
<1>. HIDE DEF e
<1>4. /\ done' \in Seq(DoneType) /\ Distinct(OwnersOf(done))'
      /\ \A x : Posted(x)' <=> Posted(x) \/ o = x
  BY <1>1, <1>3, DoneAppend
<1>5. \A x : OnLoop(x)' <=> OnLoop(x)
  BY <1>1, PlacesSame
<1>. HIDE DEF o
<1>6. \A x : Async(x)' <=> Async(x)
  BY <1>2, <1>4, <1>5 DEF Async
<1>7. TypeOK' /\ Shape'
  <2>1. outcome' \in [Requests -> {"none", "ok", "error"}]
    BY <1>1 DEF TypeOK, Outcome
  <2>. QED  BY <1>1, <1>2, <1>4, <2>1 DEF TypeOK, Shape, DoneType, bootState
<1>8. OnePlace'
  BY <1>2, <1>3, <1>4, <1>5 DEF OnePlace
<1>9. Books'
  BY <1>1, <1>6, BooksKept
<1>10. Progress' /\ OneConfig'
  <2>1. Progress'
    BY <1>1 DEF Progress, InOrder, bootState
  <2>. QED  BY <1>1, <1>6, <2>1 DEF OneConfig, bootState
<1>11. /\ \A x \in Requests : x # o => outcome'[x] = outcome[x]
       /\ o \in Requests => outcome'[o] = Outcome(ok) /\ replies[o] = 0 /\ phase[o] # "new"
  <2>1. o \in Requests => Async(o) /\ ~OnLoop(o)
    BY <1>2, <1>3 DEF Async
  <2>2. o \in Requests => replies[o] = 0 /\ phase[o] # "new"
    BY <2>1 DEF Books, Answered, Phased
  <2>. QED  BY <1>1, <2>2
<1>12. AdminHonest'
  BY <1>1, <1>11 DEF EndsKnown, AdminHonest, Unknown
<1>13. Known'
  <2>1. /\ Len(done') = Len(done) + 1 /\ Len(done) \in Nat
        /\ \A i \in 1..Len(done) : done'[i] = done[i]
        /\ done'[Len(done) + 1] = e
    BY <1>1, <1>3, AppendProperties, LenProperties DEF TypeOK, DoneType
  <2>2. \A i \in 1..Len(done') : i \in 1..Len(done) \/ i = Len(done) + 1
    BY <2>1
  <2>3. \A i \in 1..Len(done) : done[i].owner # o
    <3>1. done \in Seq(DoneType)
      BY DEF TypeOK, DoneType
    <3>2. Len(OwnersOf(done)) = Len(done)
      BY <3>1, SameLength
    <3>. QED  BY <1>3, <3>2 DEF Posted, Holds, OwnersOf
  <2>4. ASSUME NEW i \in 1..Len(done'), done'[i].owner \in Requests
        PROVE  outcome'[done'[i].owner] = Outcome(done'[i].ok)
    <3>1. CASE i \in 1..Len(done)
      BY <2>1, <2>3, <2>4, <3>1, <1>11 DEF EndsKnown, Known
    <3>2. CASE i = Len(done) + 1
      BY <2>1, <2>4, <3>2, <1>3, <1>11
    <3>. QED  BY <2>2, <3>1, <3>2
  <2>. QED  BY <1>1, <2>4 DEF Known, Outcome
<1>14. \A x \in Requests : Unknown(x)'
  <2>. SUFFICES ASSUME NEW x \in Requests PROVE Unknown(x)'
    OBVIOUS
  <2>1. Unknown(x) /\ Answered(x)
    BY DEF EndsKnown, Books
  <2>2. OnApi(x)' <=> OnApi(x)
    BY <1>1 DEF OnApi
  <2>3. x = o => ~(OnApi(x) /\ api.pc # "return")
    BY <1>2, <2>1 DEF Answered, Async
  <2>. QED  BY <1>1, <1>2, <1>11, <2>1, <2>2, <2>3 DEF Unknown
<1>. QED  BY <1>7, <1>8, <1>9, <1>10, <1>12, <1>13, <1>14 DEF EndsKnown

\* The continuation of an admin request starts on the loop.
LEMMA AdminContinueInv ==
  ASSUME Inv, AdminContinue
  PROVE  Inv'
<1>. USE DEF Inv
<1>. DEFINE o == Head(done).owner
<1>1. /\ done # <<>> /\ done' = Tail(done) /\ o # Config
      /\ loop.pc = "idle"
      /\ loop' = [pc |-> "reply", owner |-> o, ok |-> Head(done).ok]
      /\ UNCHANGED <<bootState, sdoq, api, requestState>>
  BY DEF AdminContinue
<1>2. /\ done' \in Seq(DoneType) /\ Distinct(OwnersOf(done))'
      /\ Head(done) \in DoneType /\ Posted(o)
      /\ \A x : Posted(x)' <=> Posted(x) /\ o # x
      /\ \A i \in 1..Len(done') : done'[i] = done[i + 1] /\ i + 1 \in 1..Len(done)
      /\ 1 \in 1..Len(done) /\ Head(done) = done[1]
  BY <1>1, DoneTail
<1>3. /\ o \in Requests /\ Head(done).ok \in BOOLEAN
      /\ loop'.pc = "reply" /\ loop'.owner = o /\ loop'.ok = Head(done).ok
      /\ loop' \in [pc : {"idle", "config", "reply", "unref"}, owner : Owners, ok : BOOLEAN]
  BY <1>1, <1>2 DEF DoneType, Owners
<1>4. outcome[o] = Outcome(Head(done).ok)
  BY <1>2, <1>3 DEF EndsKnown, Known
<1>. HIDE DEF o
<1>5. \A x : /\ Queued(x)' <=> Queued(x)
             /\ OnLoop(x)' <=> x = o
             /\ ~OnLoop(x)
  BY <1>1, <1>3, PlacesSame DEF OnLoop
<1>6. Distinct(sdoq)'
  BY <1>1, PlacesSame
<1>7. \A x : Async(x)' <=> Async(x)
  BY <1>2, <1>5 DEF Async
<1>8. TypeOK' /\ Shape'
  BY <1>1, <1>2, <1>3 DEF TypeOK, Shape, DoneType, bootState, requestState
<1>9. OnePlace'
  BY <1>2, <1>5, <1>6 DEF OnePlace
<1>10. Books'
  BY <1>1, <1>3, <1>7, BooksKept DEF requestState
<1>11. Progress' /\ OneConfig'
  <2>1. Progress'
    BY <1>1 DEF Progress, InOrder, bootState
  <2>. QED  BY <1>1, <1>3, <1>7, <2>1 DEF OneConfig, bootState
<1>12. AdminHonest'
  BY <1>1 DEF EndsKnown, AdminHonest, requestState
<1>13. Known'
  <2>1. \A i \in 1..Len(done') : done'[i].owner \in Requests =>
          outcome[done'[i].owner] = Outcome(done'[i].ok)
    BY <1>2 DEF EndsKnown, Known
  <2>. QED  BY <1>1, <1>3, <1>4, <2>1 DEF Known, requestState, Outcome
<1>14. \A x \in Requests : Unknown(x)'
  BY <1>1, <1>5 DEF EndsKnown, Unknown, OnApi, requestState
<1>. QED  BY <1>8, <1>9, <1>10, <1>11, <1>12, <1>13, <1>14 DEF EndsKnown

\* The places of a step of the loop on an admin request.
LEMMA LoopFrame ==
  ASSUME Inv, UNCHANGED <<bootState, sdoq, done, outcome>>, loop.pc \in {"reply", "unref"},
         loop'.pc \in {"unref", "idle"}, loop'.pc # "idle" => loop'.owner = loop.owner
  PROVE  /\ OnePlace' /\ Progress' /\ OneConfig' /\ Known'
         /\ OnLoop(loop.owner) /\ ~Queued(loop.owner) /\ ~Posted(loop.owner)
         /\ \A x : /\ Queued(x)' <=> Queued(x)
                   /\ Posted(x)' <=> Posted(x)
                   /\ OnLoop(x)' <=> OnLoop(x) /\ loop'.pc # "idle"
<1>. USE DEF Inv
<1>1. loop.owner \in Requests /\ loop.owner \in Owners /\ OnLoop(loop.owner)
  BY DEF Shape, Owners, OnLoop
<1>2. ~Queued(loop.owner) /\ ~Posted(loop.owner)
  BY <1>1 DEF OnePlace
<1>3. \A x : /\ Queued(x)' <=> Queued(x)
             /\ Posted(x)' <=> Posted(x)
             /\ OnLoop(x)' <=> OnLoop(x) /\ loop'.pc # "idle"
  BY PlacesSame DEF OnLoop
<1>4. OnePlace'
  BY <1>3, PlacesSame DEF OnePlace
<1>5. Progress' /\ Known'
  BY DEF Progress, InOrder, EndsKnown, Known, bootState
<1>6. OneConfig'
  BY <1>3 DEF OneConfig, Async, bootState
<1>. QED  BY <1>1, <1>2, <1>3, <1>4, <1>5, <1>6

LEMMA AdminReplyInv ==
  ASSUME Inv, AdminReply
  PROVE  Inv'
<1>. USE DEF Inv
<1>. DEFINE o == loop.owner
<1>1. /\ loop.pc = "reply" /\ loop'.pc = "unref" /\ loop'.owner = o /\ o \in Requests
      /\ loop' \in [pc : {"idle", "config", "reply", "unref"}, owner : Owners, ok : BOOLEAN]
      /\ replies' = [replies EXCEPT ![o] = @ + 1]
      /\ answer' = [answer EXCEPT ![o] = Outcome(loop.ok)]
      /\ UNCHANGED <<bootState, sdoq, done, api, phase, refs, outcome>>
  BY DEF AdminReply, Reply, Outcome, TypeOK, Shape
<1>2. /\ OnePlace' /\ Progress' /\ OneConfig' /\ Known'
      /\ OnLoop(o) /\ ~Queued(o) /\ ~Posted(o)
      /\ \A x : /\ Queued(x)' <=> Queued(x)
                /\ Posted(x)' <=> Posted(x)
                /\ OnLoop(x)' <=> OnLoop(x)
  BY <1>1, LoopFrame
<1>3. /\ Async(o) /\ replies[o] = 0 /\ replies'[o] = 1 /\ phase[o] = "open"
      /\ \A x \in Requests : x # o => replies'[x] = replies[x] /\ answer'[x] = answer[x]
      /\ answer'[o] = Outcome(loop.ok) /\ outcome[o] = Outcome(loop.ok)
  <2>1. Async(o)
    BY <1>2 DEF Async
  <2>2. replies[o] = 0 /\ phase[o] = "open"
    BY <1>1, <2>1 DEF Books, Answered, Phased, TypeOK
  <2>. QED  BY <1>1, <2>1, <2>2 DEF TypeOK, EndsKnown, Known
<1>4. TypeOK' /\ Shape'
  <2>1. answer' \in [Requests -> {"none", "ok", "error"}]
    BY <1>1 DEF TypeOK, Outcome
  <2>. QED  BY <1>1, <2>1 DEF TypeOK, Shape, bootState
<1>5. \A x : (Async(x)' <=> Async(x)) /\ (OnApi(x)' <=> OnApi(x)) /\ (OnLoop(x) <=> x = o)
  BY <1>1, <1>2 DEF Async, OnApi, OnLoop
<1>6. Books'
  <2>. SUFFICES ASSUME NEW x \in Requests
                PROVE  Counted(x)' /\ Phased(x)' /\ Answered(x)'
    BY DEF Books
  <2>1. Counted(x) /\ Phased(x) /\ Answered(x)
    BY DEF Books
  <2>2. Counted(x)'
    BY <1>1, <1>5, <2>1 DEF Counted
  <2>3. Phased(x)' /\ Answered(x)'
    BY <1>1, <1>2, <1>3, <1>5, <2>1 DEF Phased, Answered
  <2>. QED  BY <2>2, <2>3
<1>7. AdminHonest'
  BY <1>1, <1>3 DEF EndsKnown, AdminHonest, Outcome
<1>8. \A x \in Requests : Unknown(x)'
  <2>. SUFFICES ASSUME NEW x \in Requests PROVE Unknown(x)'
    OBVIOUS
  <2>1. Unknown(x)
    BY DEF EndsKnown
  <2>. QED  BY <1>1, <1>2, <1>3, <1>5, <2>1 DEF Unknown
<1>. QED  BY <1>2, <1>4, <1>6, <1>7, <1>8 DEF EndsKnown

LEMMA AdminUnrefInv ==
  ASSUME Inv, AdminUnref
  PROVE  Inv'
<1>. USE DEF Inv
<1>. DEFINE o == loop.owner
<1>1. /\ loop.pc = "unref" /\ loop'.pc = "idle" /\ o \in Requests
      /\ loop' \in [pc : {"idle", "config", "reply", "unref"}, owner : Owners, ok : BOOLEAN]
      /\ refs' = [refs EXCEPT ![o] = @ - 1]
      /\ phase' = [phase EXCEPT ![o] = IF refs[o] = 1 THEN "gone" ELSE @]
      /\ UNCHANGED <<bootState, sdoq, done, api, replies, answer, outcome>>
  BY DEF AdminUnref, Unref, LoopIdle, Owners, Shape
<1>2. /\ OnePlace' /\ Progress' /\ OneConfig' /\ Known'
      /\ OnLoop(o) /\ ~Queued(o) /\ ~Posted(o)
      /\ \A x : /\ Queued(x)' <=> Queued(x)
                /\ Posted(x)' <=> Posted(x)
                /\ ~OnLoop(x)'
  BY <1>1, LoopFrame
<1>3. /\ Async(o) /\ replies[o] = 1 /\ phase[o] = "open"
      /\ OnApi(o) => api.pc = "return"
      /\ refs[o] = (IF OnApi(o) THEN 1 ELSE 0) + 1
  <2>1. Async(o)
    BY <1>2 DEF Async
  <2>2. Counted(o) /\ Answered(o) /\ Phased(o) /\ phase[o] \in {"new", "open", "gone"}
    BY <1>1 DEF Books, TypeOK
  <2>. QED  BY <1>1, <1>2, <2>1, <2>2 DEF Counted, Answered, Phased
<1>4. /\ refs'[o] = (IF OnApi(o) THEN 1 ELSE 0)
      /\ phase'[o] = IF OnApi(o) THEN "open" ELSE "gone"
      /\ \A x \in Requests : x # o => phase'[x] = phase[x] /\ refs'[x] = refs[x]
  BY <1>1, <1>3 DEF TypeOK
<1>5. TypeOK' /\ Shape'
  <2>1. refs' \in [Requests -> Nat] /\ phase' \in [Requests -> {"new", "open", "gone"}]
    BY <1>1, <1>4 DEF TypeOK
  <2>. QED  BY <1>1, <2>1 DEF TypeOK, Shape, bootState
<1>6. \A x : /\ Async(x)' <=> Async(x) /\ x # o
             /\ OnApi(x)' <=> OnApi(x)
             /\ OnLoop(x) <=> x = o
  BY <1>1, <1>2 DEF Async, OnApi, OnLoop
<1>7. Books'
  <2>. SUFFICES ASSUME NEW x \in Requests
                PROVE  Counted(x)' /\ Phased(x)' /\ Answered(x)'
    BY DEF Books
  <2>1. Counted(x) /\ Phased(x) /\ Answered(x)
    BY DEF Books
  <2>2. CASE x = o
    <3>1. Counted(x)'
      BY <1>1, <1>3, <1>4, <1>6, <2>2 DEF Counted
    <3>2. Phased(x)' /\ Answered(x)'
      BY <1>1, <1>3, <1>4, <1>6, <2>2 DEF Phased, Answered
    <3>. QED  BY <3>1, <3>2
  <2>3. CASE x # o
    <3>1. Counted(x)'
      BY <1>1, <1>4, <1>6, <2>1, <2>3 DEF Counted
    <3>2. Phased(x)' /\ Answered(x)'
      BY <1>1, <1>2, <1>4, <1>6, <2>1, <2>3 DEF Phased, Answered
    <3>. QED  BY <3>1, <3>2
  <2>. QED  BY <2>2, <2>3
<1>8. AdminHonest'
  BY <1>1 DEF EndsKnown, AdminHonest
<1>9. \A x \in Requests : Unknown(x)'
  <2>. SUFFICES ASSUME NEW x \in Requests PROVE Unknown(x)'
    OBVIOUS
  <2>1. Unknown(x) /\ (phase'[x] = "new" => phase[x] = "new")
    BY <1>4 DEF EndsKnown
  <2>. QED  BY <1>1, <1>2, <1>6, <2>1 DEF Unknown
<1>. QED  BY <1>2, <1>5, <1>7, <1>8, <1>9 DEF EndsKnown

-----------------------------------------------------------------------------
(* The configuration.                                                      *)

\* InOrder, of any list of items and of items tried.
OrderOf(list, tried) ==
  \A k \in 1..Len(tried) :
    /\ list[tried[k]] = "write"
    /\ \A j \in 1..(k - 1) : tried[j] < tried[k]
    /\ \A i \in 1..(tried[k] - 1) :
         /\ list[i] # "null"
         /\ list[i] = "write" => \E j \in 1..(k - 1) : tried[j] = i

LEMMA OrderIs ==
  /\ InOrder <=> OrderOf(onconf, conf.tried)
  /\ InOrder' <=> OrderOf(onconf', conf'.tried)
<1>1. InOrder <=> OrderOf(onconf, conf.tried)
  BY Zenon DEF InOrder, OrderOf
<1>2. InOrder' <=> OrderOf(onconf', conf'.tried)
  BY Zenon DEF InOrder, OrderOf
<1>. QED  BY <1>1, <1>2

\* The call of doStartAction after the items before conf.next: the next item is
\* submitted, or there is none, or lely refuses it.
LEMMA DoStartActionSteps ==
  ASSUME TypeOK, Progress, conf.state = "started", DoStartAction(conf.next),
         UNCHANGED onconf
  PROVE  /\ conf' \in ConfType
         /\ Progress'
         /\ \/ UNCHANGED sdoq
            \/ sdoq' = Append(sdoq, Config) /\ conf'.state = "started"
<1>. DEFINE n == conf.next
            t == conf.tried
            m == Len(conf.tried)
            c == Len(onconf)
<1>1. /\ conf \in ConfType /\ c \in Nat
      /\ n \in 1..(c + 1) /\ t \in Seq(Nat) /\ m \in Nat /\ conf.res = 0
  BY Constants, LenProperties DEF TypeOK, Progress, ConfType
<1>2. /\ conf.threw = FALSE
      /\ \A k \in 1..m : t[k] \in 1..(n - 1)
      /\ \A i \in 1..(n - 1) : onconf[i] = "write" => \E k \in 1..m : t[k] = i
      /\ \A i \in 1..(n - 1) : onconf[i] # "null"
  BY <1>1 DEF Progress, ConfType
<1>3. InOrder
  BY DEF Progress
<1>4. ASSUME NEW j \in n..(Len(onconf) + 1), EndsAt(n, j), conf' = Told(j),
             UNCHANGED sdoq
      PROVE  conf' \in ConfType /\ Progress'
  <2>1. j \in Nat /\ j \in 1..(c + 1) /\ conf.res + 1 = 1 /\ 1 \in Nat
    BY <1>1
  <2>2. /\ conf' \in ConfType /\ conf'.state = "ended" /\ conf'.next = j
        /\ conf'.res = 1 /\ conf'.tried = t /\ conf'.threw = FALSE
    BY <1>1, <1>2, <1>4, <2>1 DEF ConfType, Told
  <2>3. \A i \in 1..(j - 1) : i \in 1..(n - 1) \/ i \in n..(j - 1)
    BY <1>1, <2>1
  <2>4. \A i \in 1..(j - 1) : onconf[i] = "write" => \E k \in 1..m : t[k] = i
    BY <1>2, <1>4, <2>3 DEF EndsAt
  <2>5. \A k \in 1..m : t[k] \in 1..(j - 1)
    <3>1. \A i \in 1..(n - 1) : i \in 1..(j - 1)
      BY <1>1, <2>1
    <3>. QED  BY <1>2, <3>1
  <2>6. j = c + 1 \/ onconf[j] = "null"
    BY <1>1, <1>4, <2>1 DEF EndsAt
  <2>7. InOrder'
    BY <1>3, <2>2, OrderIs
  <2>8. Progress'
    BY <2>1, <2>2, <2>4, <2>5, <2>6, <2>7 DEF Progress
  <2>. QED  BY <2>2, <2>8
<1>7. ASSUME conf' = Thrown, UNCHANGED sdoq
      PROVE  conf' \in ConfType /\ Progress'
  <2>1. c + 1 \in Nat /\ c + 1 \in 1..(c + 1) /\ conf.res + 1 = 1 /\ 1 \in Nat
    BY <1>1
  <2>2. /\ conf' \in ConfType /\ conf'.state = "ended" /\ conf'.next = c + 1
        /\ conf'.res = 1 /\ conf'.tried = t /\ conf'.threw = TRUE
    BY <1>1, <1>7, <2>1 DEF ConfType, Told, Thrown
  <2>3. \A k \in 1..m : t[k] \in 1..c
    <3>1. \A i \in 1..(n - 1) : i \in 1..c
      BY <1>1
    <3>. QED  BY <1>2, <3>1
  <2>4. InOrder'
    BY <1>3, <2>2, OrderIs
  <2>5. /\ conf'.next \in 1..(Len(onconf') + 1) /\ conf'.next = Len(onconf') + 1
        /\ conf'.next - 1 = c
    BY <1>1, <2>1, <2>2
  <2>6. \A k \in 1..Len(conf'.tried) : conf'.tried[k] \in 1..(conf'.next - 1)
    BY <2>2, <2>3, <2>5
  <2>7. Progress'
    BY <2>2, <2>4, <2>5, <2>6 DEF Progress
  <2>. QED  BY <2>2, <2>7
<1>5. ASSUME NEW j \in n..Len(onconf), NextItem(n, j), onconf[j] = "size",
             conf' = [conf EXCEPT !.next = j + 1], UNCHANGED sdoq
      PROVE  conf' \in ConfType /\ Progress'
  <2>1. j \in Nat /\ j >= 1 /\ j <= c /\ j + 1 \in Nat
    BY <1>1
  <2>2. /\ conf' \in ConfType /\ conf'.state = "started" /\ conf'.next = j + 1
        /\ conf'.res = 0 /\ conf'.tried = t /\ conf'.threw = FALSE
    BY <1>1, <1>2, <1>5, <2>1 DEF ConfType
  <2>3. \A i \in 1..j : i \in 1..(n - 1) \/ i \in n..(j - 1) \/ i = j
    BY <1>1, <2>1
  <2>4. /\ \A i \in 1..j : onconf[i] = "write" => \E k \in 1..m : t[k] = i
        /\ \A i \in 1..j : onconf[i] # "null"
    BY <1>2, <1>5, <2>3 DEF NextItem
  <2>5. \A k \in 1..m : t[k] \in 1..j
    BY <1>1, <1>2, <2>1
  <2>6. j + 1 - 1 = j /\ j + 1 \in 1..(c + 1)
    BY <1>1, <2>1
  <2>7. InOrder'
    BY <1>3, <2>2, OrderIs
  <2>8. Progress'
    BY <2>2, <2>4, <2>5, <2>6, <2>7 DEF Progress
  <2>. QED  BY <2>2, <2>8
<1>6. ASSUME NEW j \in n..Len(onconf), NextItem(n, j), onconf[j] = "write",
             sdoq' = Append(sdoq, Config),
             conf' = [conf EXCEPT !.next = j + 1, !.tried = Append(@, j)]
      PROVE  conf' \in ConfType /\ Progress' /\ conf'.state = "started"
  <2>. DEFINE u == Append(conf.tried, j)
  <2>1. j \in Nat /\ j >= 1 /\ j <= c /\ j + 1 \in Nat
    BY <1>1
  <2>2. /\ u \in Seq(Nat) /\ Len(u) = m + 1 /\ u[m + 1] = j
        /\ \A k \in 1..m : u[k] = t[k]
    BY <1>1, <2>1, AppendProperties
  <2>. HIDE DEF u
  <2>3. conf' = [conf EXCEPT !.next = j + 1, !.tried = u]
    BY <1>6 DEF u
  <2>4. /\ conf' \in ConfType /\ conf'.state = "started" /\ conf'.next = j + 1
        /\ conf'.res = 0 /\ conf'.tried = u /\ conf'.threw = FALSE
    BY <1>1, <1>2, <2>1, <2>2, <2>3 DEF ConfType
  <2>5. /\ \A k \in 1..(m + 1) : k \in 1..m \/ k = m + 1
        /\ m + 1 \in 1..(m + 1) /\ \A k \in 1..m : k \in 1..(m + 1)
    BY <1>1
  <2>6. \A i \in 1..j : i \in 1..(n - 1) \/ i \in n..(j - 1) \/ i = j
    BY <1>1, <2>1
  <2>7. \A i \in 1..j : onconf[i] = "write" => \E k \in 1..(m + 1) : u[k] = i
    <3>1. \A i \in 1..(n - 1) : onconf[i] = "write" => \E k \in 1..(m + 1) : u[k] = i
      BY <1>2, <2>2, <2>5
    <3>2. \A i \in n..(j - 1) : onconf[i] # "write"
      BY <1>6 DEF NextItem
    <3>. QED  BY <2>2, <2>5, <2>6, <3>1, <3>2
  <2>8. ASSUME NEW k \in 1..m
        PROVE  t[k] \in 1..j /\ t[k] < j
    <3>1. t[k] \in 1..(n - 1)
      BY <1>2
    <3>2. n \in Nat /\ n <= j
      BY <1>1
    <3>. HIDE DEF t, n
    <3>. QED  BY <2>1, <3>1, <3>2
  <2>9. \A k \in 1..(m + 1) : u[k] \in 1..j
    <3>1. j \in 1..j
      BY <2>1
    <3>2. \A k \in 1..m : u[k] \in 1..j
      BY <2>2, <2>8
    <3>. QED  BY <2>2, <2>5, <3>1, <3>2
  <2>10. j + 1 - 1 = j /\ j + 1 \in 1..(c + 1)
    BY <1>1, <2>1
  <2>11. ASSUME NEW k \in 1..(m + 1)
         PROVE  /\ onconf[u[k]] = "write"
                /\ \A l \in 1..(k - 1) : u[l] < u[k]
                /\ \A i \in 1..(u[k] - 1) :
                     /\ onconf[i] # "null"
                     /\ onconf[i] = "write" => \E l \in 1..(k - 1) : u[l] = i
    <3>1. CASE k \in 1..m
      <4>1. \A l \in 1..(k - 1) : l \in 1..m
        BY <1>1, <3>1
      <4>2. /\ onconf[t[k]] = "write"
            /\ \A l \in 1..(k - 1) : t[l] < t[k]
            /\ \A i \in 1..(t[k] - 1) :
                 /\ onconf[i] # "null"
                 /\ onconf[i] = "write" => \E l \in 1..(k - 1) : t[l] = i
        BY <1>3, <3>1 DEF InOrder
      <4>. QED  BY <2>2, <3>1, <4>1, <4>2
    <3>2. CASE k = m + 1
      <4>1. k - 1 = m /\ u[k] = j
        BY <1>1, <2>2, <3>2
      <4>2. \A l \in 1..m : u[l] < j
        BY <2>2, <2>8
      <4>3. \A i \in 1..(j - 1) : i \in 1..(n - 1) \/ i \in n..(j - 1)
        BY <1>1, <2>1
      <4>4. \A i \in 1..(j - 1) : onconf[i] = "write" => \E l \in 1..m : u[l] = i
        <5>1. \A i \in 1..(n - 1) : onconf[i] = "write" => \E l \in 1..m : u[l] = i
          BY <1>2, <2>2
        <5>2. \A i \in n..(j - 1) : onconf[i] # "write"
          BY <1>6 DEF NextItem
        <5>. QED  BY <4>3, <5>1, <5>2
      <4>5. \A i \in 1..(j - 1) : onconf[i] # "null"
        BY <1>2, <1>6, <4>3 DEF NextItem
      <4>. QED  BY <1>6, <4>1, <4>2, <4>4, <4>5
    <3>. QED  BY <2>5, <3>1, <3>2
  <2>12. InOrder'
    <3>1. onconf' = onconf /\ conf'.tried = u /\ Len(u) = m + 1
      BY <2>2, <2>4
    <3>. HIDE DEF m
    <3>2. OrderOf(onconf, u)
      BY <2>11, <3>1 DEF OrderOf
    <3>. QED  BY <3>1, <3>2, OrderIs
  <2>13. /\ conf'.next \in 1..(Len(onconf') + 1) /\ conf'.res = 0
         /\ conf'.state = "started" /\ conf'.next - 1 = j
         /\ Len(conf'.tried) = m + 1 /\ onconf' = onconf /\ ~conf'.threw
    BY <2>2, <2>4, <2>10
  <2>16. \A i \in 1..j : onconf[i] # "null"
    BY <1>2, <1>6, <2>6 DEF NextItem
  <2>14. /\ \A k \in 1..(m + 1) : conf'.tried[k] \in 1..j
         /\ \A i \in 1..j : onconf[i] = "write" => \E k \in 1..(m + 1) : conf'.tried[k] = i
    BY <2>4, <2>7, <2>9
  <2>15. Progress'
    BY <2>12, <2>13, <2>14, <2>16 DEF Progress
  <2>. QED  BY <2>4, <2>15
<1>8. CASE \E j \in n..(c + 1) : EndsAt(n, j) /\ conf' = Told(j) /\ UNCHANGED sdoq
  BY <1>4, <1>8
<1>9. CASE \E j \in n..c : /\ NextItem(n, j) /\ onconf[j] = "size"
                           /\ conf' = [conf EXCEPT !.next = j + 1] /\ UNCHANGED sdoq
  BY <1>5, <1>9
<1>10. CASE \E j \in n..c :
              /\ NextItem(n, j) /\ onconf[j] = "write"
              /\ \/ /\ sdoq' = Append(sdoq, Config)
                    /\ conf' = [conf EXCEPT !.next = j + 1, !.tried = Append(@, j)]
                 \/ conf' = Thrown /\ UNCHANGED sdoq
  BY <1>6, <1>7, <1>10
<1>. QED  BY <1>8, <1>9, <1>10 DEF DoStartAction

\* The places after a step of the configuration: its token alone moves.
LEMMA OnConfigInv ==
  ASSUME Inv, OnConfig
  PROVE  Inv'
<1>. USE DEF Inv
<1>1. /\ loop.pc = "idle" /\ conf.state # "started"
      /\ loop'.pc = "config" /\ loop'.owner = Config
      /\ loop' \in [pc : {"idle", "config", "reply", "unref"}, owner : Owners, ok : BOOLEAN]
      /\ conf' = [NoConf EXCEPT !.state = "started"]
      /\ UNCHANGED <<onconf, period, sdoq, done, api, requestState>>
  BY DEF OnConfig, LoopIdle, Owners
<1>2. \A x : /\ Queued(x)' <=> Queued(x)
             /\ Posted(x)' <=> Posted(x)
             /\ OnLoop(x)' <=> x = Config
             /\ ~OnLoop(x)
  BY <1>1, PlacesSame DEF OnLoop
<1>3. ~Async(Config)
  BY <1>1 DEF OneConfig
<1>4. /\ conf' \in ConfType /\ conf'.state = "started" /\ conf'.next = 1
      /\ conf'.res = 0 /\ conf'.tried = <<>> /\ conf'.threw = FALSE
  BY <1>1, Constants DEF NoConf, ConfType
<1>5. TypeOK' /\ Shape'
  <2>1. boots' \in 0..MaxBoots
    BY MaxBootsAssumption DEF OnConfig, TypeOK
  <2>2. connected' \in BOOLEAN /\ lost' \in BOOLEAN /\ period' \in BOOLEAN
    BY DEF OnConfig, TypeOK
  <2>3. /\ phase' = phase /\ refs' = refs /\ replies' = replies
        /\ answer' = answer /\ outcome' = outcome
    BY <1>1 DEF requestState
  <2>4. TypeOK'
    BY <1>1, <1>4, <2>1, <2>2, <2>3 DEF TypeOK
  <2>5. Shape'
    BY <1>1, <1>4 DEF Shape, requestState
  <2>. QED  BY <2>4, <2>5
<1>6. OnePlace'
  BY <1>1, <1>2, <1>3, PlacesSame DEF OnePlace, Async
<1>7. \A r \in Requests : Async(r)' <=> Async(r)
  BY <1>2, ConfigAssumption DEF Async
<1>8. Books'
  BY <1>1, <1>7, BooksKept DEF requestState
<1>9. EndsKnown'
  BY <1>1, <1>2, EndsKept
<1>10. Progress' /\ OneConfig'
  <2>1. Len(onconf) \in Nat /\ onconf' = onconf /\ Len(conf'.tried) = 0
    BY <1>1, <1>4, Constants, EmptySeq DEF TypeOK
  <2>. QED  BY <1>4, <2>1 DEF Progress, InOrder, OneConfig
<1>. QED  BY <1>5, <1>6, <1>8, <1>9, <1>10

\* The first call of doStartAction, and the later ones.
LEMMA ConfigStepInv ==
  ASSUME Inv, OnConfigAction \/ ConfigContinue
  PROVE  Inv'
<1>. USE DEF Inv
<1>1. /\ \/ loop.pc = "config" /\ UNCHANGED done
         \/ loop.pc = "idle" /\ done # <<>> /\ done' = Tail(done) /\ Head(done).owner = Config
      /\ loop'.pc = "idle"
      /\ loop' \in [pc : {"idle", "config", "reply", "unref"}, owner : Owners, ok : BOOLEAN]
      /\ connected' \in BOOLEAN
      /\ UNCHANGED <<onconf, period, boots, lost, api, requestState>>
  <2>1. CASE OnConfigAction
    BY <2>1 DEF OnConfigAction, LoopIdle, Owners
  <2>2. CASE ConfigContinue
    <3>1. connected' \in BOOLEAN
      BY <2>2, Zenon DEF ConfigContinue, TypeOK
    <3>. QED  BY <2>2, <3>1 DEF ConfigContinue, TypeOK
  <2>. QED  BY <2>1, <2>2
<1>2. /\ DoStartAction(conf.next) /\ conf.state = "started" /\ ~Queued(Config)
      /\ done' \in Seq(DoneType) /\ Distinct(OwnersOf(done))'
      /\ \A x : Posted(x)' <=> Posted(x) /\ x # Config
      /\ \A x \in Requests : ~OnLoop(x)
  <2>1. CASE loop.pc = "config" /\ UNCHANGED done
    <3>1. OnLoop(Config) /\ conf.next = 1 /\ DoStartAction(1)
      BY <2>1 DEF Shape, OnLoop, OneConfig, OnConfigAction, ConfigContinue
    <3>2. Async(Config) /\ ~Queued(Config) /\ ~Posted(Config)
      BY <3>1 DEF Async, OnePlace, Owners
    <3>3. /\ Distinct(OwnersOf(done))' /\ done' \in Seq(DoneType)
          /\ \A x : Posted(x)' <=> Posted(x)
      BY <2>1, PlacesSame
    <3>4. \A x \in Requests : ~OnLoop(x)
      BY <2>1, ConfigAssumption DEF Shape, OnLoop
    <3>. QED  BY <3>1, <3>2, <3>3, <3>4 DEF OneConfig
  <2>2. CASE /\ loop.pc = "idle" /\ done # <<>> /\ done' = Tail(done)
             /\ Head(done).owner = Config
    <3>1. DoStartAction(conf.next)
      BY <2>2 DEF OnConfigAction, ConfigContinue
    <3>2. /\ Posted(Config)
          /\ Distinct(OwnersOf(done))' /\ done' \in Seq(DoneType)
          /\ \A x : Posted(x)' <=> Posted(x) /\ x # Config
      BY <2>2, DoneTail
    <3>3. Async(Config) /\ ~Queued(Config)
      BY <3>2 DEF Async, OnePlace, Owners
    <3>. QED  BY <2>2, <3>1, <3>2, <3>3 DEF OneConfig, OnLoop
  <2>. QED  BY <1>1, <2>1, <2>2
<1>3. /\ conf' \in ConfType /\ Progress'
      /\ \/ UNCHANGED sdoq
         \/ sdoq' = Append(sdoq, Config) /\ conf'.state = "started"
  BY <1>1, <1>2, DoStartActionSteps
<1>4. /\ sdoq' \in Seq(Owners) /\ Distinct(sdoq)'
      /\ \A x \in Requests : Queued(x)' <=> Queued(x)
      /\ Queued(Config)' => conf'.state = "started"
  <2>1. CASE UNCHANGED sdoq
    BY <1>2, <2>1, PlacesSame DEF TypeOK
  <2>2. CASE sdoq' = Append(sdoq, Config) /\ conf'.state = "started"
    BY <1>2, <2>2, SdoqAppend, ConfigAssumption DEF Owners
  <2>. QED  BY <1>3, <2>1, <2>2
<1>5. \A x : ~OnLoop(x)'
  BY <1>1 DEF OnLoop
<1>6. \A x \in Requests : Async(x)' <=> Async(x)
  BY <1>2, <1>4, <1>5, ConfigAssumption DEF Async
<1>7. TypeOK' /\ Shape'
  BY <1>1, <1>2, <1>3, <1>4 DEF TypeOK, Shape, DoneType, requestState
<1>8. OnePlace'
  BY <1>2, <1>4, <1>5 DEF OnePlace, Owners
<1>9. Books'
  BY <1>1, <1>6, BooksKept DEF requestState
<1>10. EndsKnown'
  BY <1>1, <1>4, EndsKept
<1>11. OneConfig'
  BY <1>1, <1>2, <1>4, <1>5 DEF OneConfig, Async
<1>. QED  BY <1>3, <1>7, <1>8, <1>9, <1>10, <1>11

\* The end of the boot and the heartbeat touch no queue.
LEMMA BusInv ==
  ASSUME Inv, OnBoot \/ \E occurred \in BOOLEAN : OnHeartbeat(occurred)
  PROVE  Inv'
<1>. USE DEF Inv
<1>1. /\ loop.pc = "idle"
      /\ connected' \in BOOLEAN /\ period' \in BOOLEAN /\ lost' \in BOOLEAN
      /\ \/ UNCHANGED conf
         \/ conf.state = "ended" /\ conf' = [conf EXCEPT !.state = "booted"]
      /\ UNCHANGED <<onconf, boots, loop, sdoq, done, api, requestState>>
  BY DEF OnBoot, OnHeartbeat, TypeOK
<1>2. \A x : /\ Queued(x)' <=> Queued(x)
             /\ Posted(x)' <=> Posted(x)
             /\ OnLoop(x)' <=> OnLoop(x)
  BY <1>1, PlacesSame
<1>3. \A x : Async(x)' <=> Async(x)
  BY <1>2 DEF Async
<1>4. /\ conf' \in ConfType /\ conf'.next = conf.next /\ conf'.res = conf.res
      /\ conf'.tried = conf.tried /\ conf'.threw = conf.threw
      /\ conf'.state \in {"ended", "booted"} <=> conf.state \in {"ended", "booted"}
      /\ conf.state = "started" <=> conf'.state = "started"
  BY <1>1 DEF TypeOK, ConfType
<1>5. TypeOK' /\ Shape'
  BY <1>1, <1>4 DEF TypeOK, Shape, requestState
<1>6. OnePlace'
  BY <1>1, <1>2, PlacesSame DEF OnePlace
<1>7. Books' /\ EndsKnown'
  BY <1>1, <1>2, <1>3, BooksKept, EndsKept DEF requestState
<1>8. Progress'
  BY <1>1, <1>4 DEF Progress, InOrder
<1>9. OneConfig'
  BY <1>1, <1>3, <1>4 DEF OneConfig
<1>. QED  BY <1>5, <1>6, <1>7, <1>8, <1>9

LEMMA StutterInv ==
  ASSUME Inv, UNCHANGED vars
  PROVE  Inv'
<1>. USE DEF Inv, vars
<1>1. /\ OnePlace' /\ Progress' /\ OneConfig' /\ Known'
      /\ \A x : /\ Async(x)' <=> Async(x)
                /\ Queued(x)' <=> Queued(x)
                /\ OnLoop(x)' <=> OnLoop(x)
  BY ApiFrame DEF bootState
<1>2. TypeOK' /\ Shape'
  BY DEF TypeOK, Shape
<1>3. Books'
  BY <1>1 DEF Books, Counted, Phased, Answered, OnApi
<1>4. AdminHonest' /\ \A x \in Requests : Unknown(x)'
  BY <1>1 DEF EndsKnown, AdminHonest, Unknown, OnApi
<1>. QED  BY <1>1, <1>2, <1>3, <1>4 DEF EndsKnown

\* Every step preserves the invariant.
LEMMA NextInv ==
  ASSUME Inv, [Next]_vars
  PROVE  Inv'
<1>1. ASSUME NEW r \in Requests, NEW q \in Queries, Accept(r, q) PROVE Inv'
  BY <1>1, AcceptInv
<1>2. CASE ApiStep
  BY <1>2, ApiReplyInv, HoldInv, ApiUnrefInv, SubmitInv DEF ApiStep
<1>3. CASE LoopStep
  BY <1>3, ConfigStepInv, AdminContinueInv, AdminReplyInv, AdminUnrefInv DEF LoopStep
<1>4. CASE Sdo
  BY <1>4, SdoInv DEF Sdo
<1>5. CASE Bus
  BY <1>5, OnConfigInv, BusInv DEF Bus
<1>6. CASE UNCHANGED vars
  BY <1>6, StutterInv
<1>. QED  BY <1>1, <1>2, <1>3, <1>4, <1>5, <1>6 DEF Next

\* At every moment the state of the slave satisfies the invariant.
THEOREM Invariance == Spec => []Inv
<1>1. Init => Inv
  BY InitInv
<1>2. Inv /\ [Next]_vars => Inv'
  BY NextInv
<1>. QED  BY <1>1, <1>2, PTL DEF Spec

-----------------------------------------------------------------------------
(* What follows from it.                                                   *)

\* The variables keep their types: doStartAction never looks past the list, the
\* counts of references never go below zero.
THEOREM TypeCorrect == Spec => []TypeOK
<1>1. Inv => TypeOK
  BY DEF Inv
<1>. QED  BY <1>1, Invariance, PTL

\* The items of onconf are submitted in order, each once, none passed over and none
\* after a null, and lely is told of the end once, after the last of them, or when
\* it refused to submit one: for lists of any length.
THEOREM ConfigurationOrder == Spec => []ConfigInOrder
<1>1. ASSUME Inv
      PROVE  ConfigInOrder
  <2>1. Progress /\ Len(onconf) \in Nat
    BY <1>1, Constants DEF Inv, TypeOK
  <2>2. ASSUME conf.state \in {"ended", "booted"}, ~conf.threw
        PROVE  AllTried
    <3>. SUFFICES ASSUME NEW i \in 1..Len(onconf), onconf[i] = "write",
                         ~\E k \in 1..Len(conf.tried) : conf.tried[k] = i
                  PROVE  \E n \in 1..(i - 1) : onconf[n] = "null"
      BY DEF AllTried
    <3>1. conf.next \in 1..(Len(onconf) + 1) /\ i \notin 1..(conf.next - 1)
      BY <2>1, <2>2 DEF Progress
    <3>2. conf.next <= i /\ conf.next # Len(onconf) + 1
      BY <2>1, <3>1
    <3>3. onconf[conf.next] = "null"
      BY <2>1, <2>2, <3>2 DEF Progress
    <3>4. conf.next \in 1..(i - 1)
      BY <3>1, <3>2, <3>3
    <3>. QED  BY <3>3, <3>4
  <2>. QED  BY <2>1, <2>2 DEF Progress, ConfigInOrder
<1>. QED  BY <1>1, Invariance, PTL

\* What the admin verb answers is how the operation of this request ended.
THEOREM HonestAnswers == Spec => []AdminHonest
<1>1. Inv => AdminHonest
  BY DEF Inv, EndsKnown
<1>. QED  BY <1>1, Invariance, PTL

\* Out of OnConfig, only a heartbeat timeout leaves the slave not connected; this
\* one is inductive, with the place where OnConfig calls doStartAction.
THEOREM DownIsLost == Spec => []DownMeansLost
<1>1. Init => DownMeansLost
  BY DEF Init, DownMeansLost
<1>2. DownMeansLost /\ [Next]_vars => DownMeansLost'
  <2>. SUFFICES ASSUME DownMeansLost, [Next]_vars PROVE DownMeansLost'
    OBVIOUS
  <2>1. CASE OnConfig \/ OnConfigAction \/ ConfigContinue
    BY <2>1 DEF DownMeansLost, OnConfig, OnConfigAction, ConfigContinue, LoopIdle
  <2>2. ASSUME NEW occurred \in BOOLEAN, OnHeartbeat(occurred) PROVE DownMeansLost'
    BY <2>2 DEF DownMeansLost, OnHeartbeat
  <2>3. CASE AdminContinue \/ AdminReply \/ AdminUnref
    BY <2>3 DEF DownMeansLost, AdminContinue, AdminReply, AdminUnref, bootState
  <2>4. ASSUME UNCHANGED <<connected, loop, lost>> PROVE DownMeansLost'
    BY <2>4 DEF DownMeansLost
  <2>5. ASSUME NEW r \in Requests, NEW q \in Queries, Accept(r, q)
        PROVE  UNCHANGED <<connected, loop, lost>>
    BY <2>5 DEF Accept, bootState
  <2>6. ApiStep \/ Sdo \/ OnBoot \/ UNCHANGED vars => UNCHANGED <<connected, loop, lost>>
    BY DEF ApiStep, Refuse, Hold, Catch, CatchUnref, Submit, Return, Sdo, SdoEnd, OnBoot,
           bootState, vars
  <2>. QED  BY <2>1, <2>2, <2>3, <2>4, <2>5, <2>6 DEF Next, LoopStep, Bus
<1>. QED  BY <1>1, <1>2, PTL DEF Spec

-----------------------------------------------------------------------------
(* The admin verb as a request service.                                    *)

\* An answer: the request is accepted, held and was not answered before.
LEMMA AnswerStep ==
  ASSUME Inv, NEW r \in Requests, OnApi(r) \/ OnLoop(r), replies[r] = 0,
         replies' = [replies EXCEPT ![r] = @ + 1], UNCHANGED phase
  PROVE  Service!Answer(r)
<1>1. phase[r] \notin {"new", "gone"}
  BY DEF Inv, Books, Phased, Async
<1>2. replies' = [replies EXCEPT ![r] = 1]
  BY DEF Inv, TypeOK
<1>. QED  BY <1>1, <1>2 DEF Service!Answer

\* A reference dropped by a holder: the last one releases, after the answer.
LEMMA UnrefStep ==
  ASSUME Inv, NEW r \in Requests, OnApi(r) \/ OnLoop(r), Unref(r),
         refs[r] = 1 => replies[r] = 1, UNCHANGED replies
  PROVE  Service!Release(r) \/ UNCHANGED Service!rsvars
<1>1. phase[r] \notin {"new", "gone"} /\ phase \in [Requests -> {"new", "open", "gone"}]
  BY DEF Inv, Books, Phased, Async, TypeOK
<1>2. phase' = [phase EXCEPT ![r] = IF refs[r] = 1 THEN "gone" ELSE @]
  BY DEF Unref
<1>3. {x \in Requests : phase[x] # "new"}' = {x \in Requests : phase[x] # "new"}
  BY <1>1, <1>2
<1>4. CASE refs[r] = 1
  <2>1. {x \in Requests : phase[x] = "gone"}'
          = {x \in Requests : phase[x] = "gone"} \cup {r}
    BY <1>1, <1>2, <1>4
  <2>. QED  BY <1>1, <1>3, <1>4, <2>1 DEF Service!Release
<1>5. CASE refs[r] # 1
  <2>1. phase' = phase
    BY <1>1, <1>2, <1>5
  <2>. QED  BY <2>1 DEF Service!rsvars
<1>. QED  BY <1>4, <1>5

LEMMA StepService ==
  ASSUME Inv, [Next]_vars
  PROVE  [Service!Next]_Service!rsvars
<1>. USE DEF Inv
<1>1. ASSUME NEW r \in Requests, NEW q \in Queries, Accept(r, q)
      PROVE  Service!Accept(r)
  <2>1. phase[r] = "new" /\ phase' = [phase EXCEPT ![r] = "open"]
    BY <1>1 DEF Accept
  <2>2. {x \in Requests : phase[x] # "new"}'
          = {x \in Requests : phase[x] # "new"} \cup {r}
    BY <2>1 DEF TypeOK
  <2>3. {x \in Requests : phase[x] = "gone"}' = {x \in Requests : phase[x] = "gone"}
    BY <2>1 DEF TypeOK
  <2>. QED  BY <1>1, <2>1, <2>2, <2>3 DEF Accept, Service!Accept
<1>2. CASE Refuse \/ Catch
  <2>1. /\ api.pc \in {"dispatch", "decode"} /\ api.req \in Requests
        /\ replies' = [replies EXCEPT ![api.req] = @ + 1] /\ UNCHANGED phase
    BY <1>2 DEF Refuse, Catch, Reply, Shape
  <2>2. OnApi(api.req) /\ replies[api.req] = 0
    BY <2>1 DEF OnApi, Books, Answered
  <2>. QED  BY <2>1, <2>2, AnswerStep DEF Service!Next
<1>3. CASE CatchUnref \/ Return
  <2>1. /\ api.pc \in {"throw", "return"} /\ api.req \in Requests /\ OnApi(api.req)
        /\ Unref(api.req) /\ UNCHANGED replies
    BY <1>3 DEF CatchUnref, Return, OnApi, Shape
  <2>2. refs[api.req] = 1 => ~Async(api.req)
    BY <2>1 DEF Books, Counted
  <2>3. refs[api.req] = 1 => replies[api.req] = 1
    BY <2>1, <2>2 DEF Books, Answered
  <2>. QED  BY <2>1, <2>3, UnrefStep DEF Service!Next
<1>4. CASE AdminReply
  <2>1. /\ loop.pc = "reply" /\ loop.owner \in Requests /\ OnLoop(loop.owner)
        /\ replies' = [replies EXCEPT ![loop.owner] = @ + 1] /\ UNCHANGED phase
    BY <1>4 DEF AdminReply, Reply, OnLoop, Shape
  <2>2. replies[loop.owner] = 0
    BY <2>1 DEF Books, Answered, Async
  <2>. QED  BY <2>1, <2>2, AnswerStep DEF Service!Next
<1>5. CASE AdminUnref
  <2>1. /\ loop.pc = "unref" /\ loop.owner \in Requests /\ OnLoop(loop.owner)
        /\ Unref(loop.owner) /\ UNCHANGED replies
    BY <1>5 DEF AdminUnref, OnLoop, Shape
  <2>2. replies[loop.owner] = 1
    BY <2>1 DEF Books, Answered, Async
  <2>. QED  BY <2>1, <2>2, UnrefStep DEF Service!Next
<1>6. CASE \/ Hold \/ Submit \/ OnConfigAction \/ ConfigContinue \/ AdminContinue
           \/ Sdo \/ Bus \/ UNCHANGED vars
  <2>1. UNCHANGED <<phase, replies>>
    BY <1>6 DEF Hold, Submit, OnConfigAction, ConfigContinue, AdminContinue, Sdo, SdoEnd,
                Bus, OnConfig, OnBoot, OnHeartbeat, requestState, vars
  <2>. QED  BY <2>1 DEF Service!rsvars
<1>. QED  BY <1>1, <1>2, <1>3, <1>4, <1>5, <1>6 DEF Next, ApiStep, LoopStep, Service!Next

\* The admin verb implements the request service: one answer per request on every
\* path, the one that throws included, the last reference dropped after it.
THEOREM Refinement == Spec => Service!SafeSpec
<1>1. Init => Service!Init
  BY DEF Init, Service!Init
<1>2. Inv /\ [Next]_vars => [Service!Next]_Service!rsvars
  BY StepService
<1>. QED  BY <1>1, <1>2, Invariance, PTL DEF Spec, Service!SafeSpec
=============================================================================
