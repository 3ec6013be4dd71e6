--------------------- MODULE CANopenSubscriptionsProof ---------------------
(***************************************************************************)
(* Proofs about CANopenSubscriptions, for every set of sensors, clients    *)
(* and requests and every set of queries, with arrays of any length and    *)
(* content: the types, the honesty of the answers, and that the root verbs *)
(* implement the safety part of RequestService; for queries without empty  *)
(* array, that only the events asked for are active and listened to.       *)
(***************************************************************************)
EXTENDS CANopenSubscriptions, SequenceTheorems, TLAPS

-----------------------------------------------------------------------------
(***************************************************************************)
(* The inductive invariant.  The API thread holds the only open request;   *)
(* what it did for it so far is what the items it reached ask for, but for *)
(* the sensors that are still pending for the last of them.                *)
(***************************************************************************)
Busy(r) == api.pc # "idle" /\ api.req = r
Working == api.pc \in {"item", "visit", "event", "reply"}

\* The items subunsub() has started on, and the sensors still to come for the one
\* it is at.
Reached ==
  {k \in DOMAIN Current.items : k < api.nidx \/ (k = api.nidx /\ api.pc # "item")}
Pending == api.todo \cup {s \in {api.sensor} : api.pc = "event"}
Taken(q, K) ==
  {s \in Sensors : \E k \in K \cap Patterns(q) : s \in Matched(q.items[k], k)}

Shape ==
  /\ api.pc # "idle" => api.req \in Requests
  /\ Working => Current.verb \in {"subscribe", "unsubscribe"}
  /\ api.pc = "dispatch" => api.nidx = 1 /\ ~api.rc
  /\ api.pc = "event" => api.sensor \in HasEvent
  /\ api.pc \in {"dispatch", "item"} => api.todo = {}
  /\ api.pc = "reply" => api.nidx = Len(Current.items) /\ api.todo = {}

Served(r) ==
  /\ phase[r] = "open" <=> Busy(r)
  /\ replies[r] = IF phase[r] = "gone" \/ (Busy(r) /\ api.pc = "return") THEN 1 ELSE 0
  /\ answer[r] = "none" <=> replies[r] = 0
  /\ phase[r] = "new" \/ (Busy(r) /\ api.pc = "dispatch")
       => accepted[r] = {} /\ r \notin refused

Acted ==
  /\ Pending \subseteq Taken(Current, Reached)
  /\ api.req \notin refused =>
       accepted[api.req] \cup (Pending \cap HasEvent)
         = Taken(Current, Reached) \cap HasEvent

Failed ==
  (api.rc \/ (api.pc \in {"visit", "event"} /\ api.nrc))
    <=> (api.req \in refused \/ ~(Reached \subseteq Patterns(Current)))

Progress ==
  Working /\ Len(Current.items) # 0 =>
    api.nidx \in 1..Len(Current.items) /\ Acted /\ Failed

Inv == /\ TypeOK /\ Shape /\ Progress /\ AnswerHonest
       /\ \A r \in Requests : Served(r)

-----------------------------------------------------------------------------
(* Constants, types and the queries.                                       *)

LEMMA QueryTypes ==
  ASSUME NEW q \in Queries
  PROVE  /\ q.client \in Clients
         /\ q.items \in Seq(ItemType)
         /\ Len(q.items) \in Nat /\ Len(q.items) < MaxIdx
         /\ DOMAIN q.items = 1..Len(q.items)
         /\ \A k \in 1..Len(q.items) : q.items[k] \in ItemType
         /\ Patterns(q) \subseteq 1..Len(q.items)
<1>1. q.client \in Clients /\ q.items \in Seq(ItemType) /\ Len(q.items) < MaxIdx
  BY QueriesAssumption, MaxIdxAssumption DEF QueryType
<1>2. /\ Len(q.items) \in Nat /\ DOMAIN q.items = 1..Len(q.items)
      /\ \A k \in 1..Len(q.items) : q.items[k] \in ItemType
  BY <1>1, LenProperties, ElementOfSeq
<1>. QED  BY <1>1, <1>2 DEF Patterns

LEMMA MatchedType ==
  ASSUME NEW q \in Queries, NEW k \in 1..Len(q.items)
  PROVE  Matched(q.items[k], k) \subseteq Sensors
BY QueryTypes DEF Matched, ItemType

\* All items taken together.
LEMMA TakenAll ==
  ASSUME NEW q \in Queries
  PROVE  /\ Asked(q) = Taken(q, DOMAIN q.items)
         /\ \A K : Taken(q, K) \subseteq Asked(q)
<1>1. \A s : s \in Asked(q) <=> \E k \in Patterns(q) : s \in Matched(q.items[k], k)
  BY DEF Asked
<1>2. \A k \in Patterns(q) : /\ k \in DOMAIN q.items
                             /\ Matched(q.items[k], k) \subseteq Sensors
  BY QueryTypes, MatchedType
<1>. QED  BY <1>1, <1>2 DEF Taken

LEMMA Constants ==
  /\ ApiIdle \in ApiType /\ NoQuery \in Queries
  /\ \A r \in Requests, pc \in {"dispatch"} :
       [ApiIdle EXCEPT !.pc = pc, !.req = r] \in ApiType
<1>1. 1 \in 1..MaxIdx
  <2>1. \E q \in Queries : Len(q.items) \in Nat /\ Len(q.items) < MaxIdx
    BY QueriesAssumption, QueryTypes
  <2>. QED  BY <2>1, MaxIdxAssumption
<1>. QED  BY <1>1, QueriesAssumption DEF ApiIdle, ApiType, NoQuery

LEMMA CurrentQuery ==
  ASSUME TypeOK, Shape, api.pc # "idle"
  PROVE  api.req \in Requests /\ Current \in Queries
BY DEF TypeOK, Shape, Current

-----------------------------------------------------------------------------
(* The invariant is inductive.                                             *)

LEMMA InitInv ==
  ASSUME Init
  PROVE  Inv
<1>1. TypeOK
  BY Constants DEF Init, TypeOK
<1>2. api.pc = "idle"
  BY DEF Init, ApiIdle
<1>3. Shape /\ Progress
  BY <1>2 DEF Shape, Progress, Working
<1>4. AnswerHonest
  BY DEF Init, AnswerHonest
<1>5. \A r \in Requests : Served(r)
  BY <1>2 DEF Init, Served, Busy
<1>. QED  BY <1>1, <1>3, <1>4, <1>5 DEF Inv

\* A step on a request that was not answered leaves the answered ones alone.
LEMMA HonestKept ==
  ASSUME Inv, NEW r \in Requests, replies[r] = 0,
         \A x \in Requests : x # r => /\ answer'[x] = answer[x] /\ query'[x] = query[x]
                                      /\ accepted'[x] = accepted[x]
                                      /\ x \in refused' <=> x \in refused,
         answer'[r] = "none" \/ query'[r].verb \notin {"subscribe", "unsubscribe"}
  PROVE  AnswerHonest'
BY DEF Inv, AnswerHonest

LEMMA AcceptInv ==
  ASSUME Inv, NEW r \in Requests, NEW q \in Queries, Accept(r, q)
  PROVE  Inv'
<1>. USE DEF Inv
<1>1. /\ api.pc = "idle" /\ phase[r] = "new"
      /\ api' = [ApiIdle EXCEPT !.pc = "dispatch", !.req = r]
      /\ phase' = [phase EXCEPT ![r] = "open"]
      /\ query' = [query EXCEPT ![r] = q]
      /\ UNCHANGED <<eventActive, listeners, replies, answer, accepted, refused>>
  BY DEF Accept
<1>2. /\ api' \in ApiType /\ api'.pc = "dispatch" /\ api'.req = r
      /\ api'.nidx = 1 /\ ~api'.rc /\ api'.todo = {}
  BY <1>1, Constants DEF ApiIdle
<1>3. TypeOK' /\ Shape' /\ Progress'
  BY <1>1, <1>2 DEF TypeOK, Shape, Progress, Working
<1>4. Served(r) /\ ~Busy(r) /\ \A x \in Requests : Served(x)
  BY <1>1 DEF Busy
<1>5. replies[r] = 0 /\ answer[r] = "none"
  BY <1>1, <1>4 DEF Served
<1>6. AnswerHonest'
  BY <1>1, <1>5, HonestKept DEF TypeOK
<1>7. \A x \in Requests : Served(x)'
  <2>. SUFFICES ASSUME NEW x \in Requests PROVE Served(x)'
    OBVIOUS
  <2>1. Busy(x)' <=> x = r
    BY <1>2 DEF Busy
  <2>2. phase'[x] = IF x = r THEN "open" ELSE phase[x]
    BY <1>1 DEF TypeOK
  <2>3. ~Busy(x)
    BY <1>1 DEF Busy
  <2>. QED  BY <1>1, <1>2, <1>4, <2>1, <2>2, <2>3 DEF Served
<1>. QED  BY <1>3, <1>6, <1>7

\* The steps on the way to the answer: only the thread, the events and what is
\* recorded of the current request change.
LEMMA WorkServed ==
  ASSUME Inv, api.pc \in {"dispatch", "item", "visit", "event"},
         api'.pc \in {"item", "visit", "event", "reply"}, api'.req = api.req,
         UNCHANGED <<replies, answer, frame>>,
         accepted' = accepted \/ \E s : accepted' = [accepted EXCEPT ![api.req] = @ \cup {s}],
         refused' \in {refused, refused \cup {api.req}}
  PROVE  AnswerHonest' /\ \A r \in Requests : Served(r)'
<1>. USE DEF Inv
<1>. DEFINE c == api.req
<1>1. c \in Requests /\ Served(c) /\ Busy(c)
  BY DEF Shape, Busy
<1>2. replies[c] = 0 /\ answer[c] = "none"
  BY <1>1 DEF Served
<1>3. \A x \in Requests : x # c => accepted'[x] = accepted[x] /\ (x \in refused' <=> x \in refused)
  BY DEF TypeOK
<1>4. AnswerHonest'
  BY <1>1, <1>2, <1>3, HonestKept DEF frame
<1>5. ASSUME NEW x \in Requests
      PROVE  Served(x)'
  <2>1. Served(x) /\ (Busy(x)' <=> Busy(x)) /\ (Busy(x) <=> x = c)
    BY DEF Busy
  <2>. QED  BY <1>3, <2>1 DEF Served, frame
<1>. QED  BY <1>4, <1>5

LEMMA BeginInv ==
  ASSUME Inv, Begin
  PROVE  Inv'
<1>. USE DEF Inv
<1>1. /\ api.pc = "dispatch" /\ api'.pc = "item" /\ api'.req = api.req
      /\ api'.nidx = 1 /\ ~api'.rc /\ api'.todo = {} /\ api' \in ApiType
      /\ UNCHANGED <<eventActive, listeners, replies, answer, accepted, refused, frame>>
  BY DEF Begin, TypeOK, ApiType, Shape
<1>2. /\ Current' = Current /\ Current \in Queries
      /\ Current.verb \in {"subscribe", "unsubscribe"} /\ api.req \in Requests
  BY <1>1, CurrentQuery DEF Begin, Current, At, frame
<1>3. TypeOK' /\ Shape'
  BY <1>1, <1>2 DEF TypeOK, Shape, Working, frame
<1>4. AnswerHonest' /\ \A r \in Requests : Served(r)'
  BY <1>1, WorkServed
<1>5. Reached' = {} /\ Pending' = {}
  BY <1>1, <1>2, QueryTypes DEF Reached, Pending
<1>6. accepted'[api'.req] = {} /\ api'.req \notin refused'
  BY <1>1, <1>2 DEF Served, Busy
<1>7. Taken(Current, {}) = {}
  BY DEF Taken
<1>8. Progress'
  BY <1>1, <1>2, <1>5, <1>6, <1>7, QueryTypes DEF Progress, Acted, Failed
<1>. QED  BY <1>3, <1>4, <1>8

\* Past the items reached so far.
LEMMA TakenMore ==
  ASSUME NEW q \in Queries, NEW k \in 1..Len(q.items), NEW K, NEW K2,
         \A i : i \in K2 <=> i \in K \/ i = k
  PROVE  /\ k \in Patterns(q) =>
              Taken(q, K2) = Taken(q, K) \cup Matched(q.items[k], k)
         /\ k \notin Patterns(q) => Taken(q, K2) = Taken(q, K)
BY MatchedType DEF Taken

LEMMA StartItemInv ==
  ASSUME Inv, StartItem
  PROVE  Inv'
<1>. USE DEF Inv
<1>. DEFINE n == api.nidx
            m == Matched(Item, n)
<1>1. /\ Current' = Current /\ Current \in Queries
      /\ Current.verb \in {"subscribe", "unsubscribe"} /\ api.req \in Requests
  BY CurrentQuery DEF StartItem, Shape, Working, Current, frame
<1>2. /\ api.pc = "item" /\ api'.pc = "visit" /\ api'.req = api.req
      /\ api'.nidx = n /\ api'.rc = api.rc /\ api.todo = {}
      /\ api'.todo = IF IsPattern(Item, n) THEN m ELSE {}
      /\ api'.nrc = ~IsPattern(Item, n)
      /\ UNCHANGED <<eventActive, listeners, replies, answer, accepted, refused, frame>>
  BY DEF StartItem, TypeOK, ApiType, Shape
<1>3. n \in Nat /\ n >= 1 /\ Item \in ItemType /\ m \subseteq Sensors
  <2>1. n \in Nat /\ n >= 1
    BY MaxIdxAssumption DEF TypeOK, ApiType
  <2>2. Item \in ItemType
    BY <1>1, <2>1, QueryTypes DEF Item, Null, ItemType
  <2>. QED  BY <2>1, <2>2 DEF Matched, ItemType
<1>4. api' \in ApiType
  BY <1>3 DEF StartItem, TypeOK, ApiType, IsPattern
<1>5. TypeOK' /\ Shape'
  BY <1>1, <1>2, <1>4 DEF TypeOK, Shape, Working, frame
<1>6. AnswerHonest' /\ \A r \in Requests : Served(r)'
  BY <1>2, WorkServed
<1>7. ASSUME Len(Current.items) # 0
      PROVE  (n \in 1..Len(Current.items) /\ Acted /\ Failed)'
  <2>1. n \in 1..Len(Current.items) /\ Acted /\ Failed
    BY <1>2, <1>7 DEF Progress, Working
  <2>2. Item = Current.items[n] /\ (n \in Patterns(Current) <=> IsPattern(Item, n))
    BY <2>1, <1>1, QueryTypes DEF Item, Patterns
  <2>3. \A i : i \in Reached' <=> i \in Reached \/ i = n
    BY <1>1, <1>2, <2>1, QueryTypes DEF Reached
  <2>4. Pending = {} /\ Pending' = IF IsPattern(Item, n) THEN m ELSE {}
    BY <1>2 DEF Pending
  <2>5. /\ IsPattern(Item, n) => Taken(Current, Reached') = Taken(Current, Reached) \cup m
        /\ ~IsPattern(Item, n) => Taken(Current, Reached') = Taken(Current, Reached)
    BY <1>1, <2>1, <2>2, <2>3, TakenMore
  <2>6. Acted'
    BY <1>1, <1>2, <2>1, <2>4, <2>5 DEF Acted
  <2>7. (Reached' \subseteq Patterns(Current))
          <=> (Reached \subseteq Patterns(Current) /\ IsPattern(Item, n))
    BY <2>2, <2>3
  <2>8. Failed'
    BY <1>1, <1>2, <2>1, <2>7 DEF Failed
  <2>. QED  BY <1>1, <1>2, <2>1, <2>6, <2>8
<1>8. Progress'
  BY <1>1, <1>7 DEF Progress
<1>. QED  BY <1>5, <1>6, <1>8

LEMMA VisitInv ==
  ASSUME Inv, NEW s \in Sensors, Visit(s)
  PROVE  Inv'
<1>. USE DEF Inv
<1>1. /\ Current' = Current /\ Current \in Queries
      /\ Current.verb \in {"subscribe", "unsubscribe"} /\ api.req \in Requests
  BY CurrentQuery DEF Visit, Shape, Working, Current, frame
<1>2. /\ api.pc = "visit" /\ s \in api.todo
      /\ api'.pc = IF s \in HasEvent THEN "event" ELSE "visit"
      /\ api'.req = api.req /\ api'.nidx = api.nidx /\ api'.rc = api.rc
      /\ api'.nrc = api.nrc /\ api'.todo = api.todo \ {s} /\ api'.sensor = s
      /\ api' \in ApiType
      /\ UNCHANGED <<listeners, replies, answer, accepted, refused, frame>>
  BY DEF Visit, TypeOK, ApiType
<1>3. eventActive' \in [Sensors -> BOOLEAN]
  <2>1. \A x \in Sensors : eventActive[x] \in BOOLEAN
    BY DEF TypeOK
  <2>2. (eventActive[s] \/ (s \in HasEvent /\ At("subscribe"))) \in BOOLEAN
    OBVIOUS
  <2>. QED  BY <2>2 DEF Visit, TypeOK
<1>4. TypeOK' /\ Shape'
  BY <1>1, <1>2, <1>3 DEF TypeOK, Shape, Working, frame
<1>5. AnswerHonest' /\ \A r \in Requests : Served(r)'
  BY <1>2, WorkServed
<1>6. ASSUME Len(Current.items) # 0
      PROVE  (api.nidx \in 1..Len(Current.items) /\ Acted /\ Failed)'
  <2>1. api.nidx \in 1..Len(Current.items) /\ Acted /\ Failed
    BY <1>2, <1>6 DEF Progress, Working
  <2>2. Reached' = Reached
    BY <1>1, <1>2 DEF Reached
  <2>3. Pending' = api.todo \ {x \in {s} : s \notin HasEvent} /\ Pending = api.todo
    BY <1>2 DEF Pending
  <2>4. Pending' \cap HasEvent = Pending \cap HasEvent /\ Pending' \subseteq Pending
    BY <2>3
  <2>5. Acted'
    BY <1>1, <1>2, <2>1, <2>2, <2>4 DEF Acted
  <2>6. Failed'
    BY <1>1, <1>2, <2>1, <2>2 DEF Failed
  <2>. QED  BY <1>1, <1>2, <2>1, <2>5, <2>6
<1>7. Progress'
  BY <1>1, <1>6 DEF Progress
<1>. QED  BY <1>4, <1>5, <1>7

LEMMA EventInv ==
  ASSUME Inv, Event
  PROVE  Inv'
<1>. USE DEF Inv
<1>. DEFINE s == api.sensor
            c == api.req
<1>1. /\ Current' = Current /\ Current \in Queries
      /\ Current.verb \in {"subscribe", "unsubscribe"} /\ api.req \in Requests
  <2>1. api.pc = "event" /\ UNCHANGED query
    BY DEF Event, frame
  <2>2. UNCHANGED Current
    <3>1. api'.req = api.req
      BY DEF Event, TypeOK, ApiType
    <3>. QED  BY <2>1, <3>1 DEF Current
  <2>. QED  BY <2>1, <2>2, CurrentQuery DEF Shape, Working
<1>2. /\ api.pc = "event" /\ s \in HasEvent /\ s \in Sensors
      /\ UNCHANGED <<eventActive, replies, answer, frame>>
  BY HasEventAssumption DEF Event, Shape
<1>3. \/ /\ listeners' \in [Sensors -> SUBSET Clients]
         /\ accepted' = [accepted EXCEPT ![c] = @ \cup {s}]
         /\ api' = [api EXCEPT !.pc = "visit"]
         /\ UNCHANGED refused
      \/ /\ refused' = refused \cup {c}
         /\ api' = [api EXCEPT !.pc = "visit", !.nrc = TRUE]
         /\ UNCHANGED <<listeners, accepted>>
  <2>1. Current.client \in Clients
    BY <1>1, QueryTypes
  <2>. QED  BY <1>2, <2>1 DEF Event, TypeOK
<1>4. /\ api'.pc = "visit" /\ api'.req = c /\ api'.nidx = api.nidx /\ api'.rc = api.rc
      /\ api'.todo = api.todo /\ api' \in ApiType
  <2>1. api \in ApiType
    BY DEF TypeOK
  <2>2. \/ api' = [api EXCEPT !.pc = "visit"]
        \/ api' = [api EXCEPT !.pc = "visit", !.nrc = TRUE]
    BY <1>3
  <2>. QED  BY <2>1, <2>2 DEF ApiType
<1>5. accepted' \in [Requests -> SUBSET Sensors] /\ refused' \subseteq Requests
  BY <1>1, <1>2, <1>3 DEF TypeOK
<1>6. TypeOK' /\ Shape'
  <2>1. listeners' \in [Sensors -> SUBSET Clients]
    BY <1>3 DEF TypeOK
  <2>2. TypeOK'
    BY <1>2, <1>4, <1>5, <2>1 DEF TypeOK, frame
  <2>3. Shape'
    BY <1>1, <1>4 DEF Shape, Working
  <2>. QED  BY <2>2, <2>3
<1>7. AnswerHonest' /\ \A r \in Requests : Served(r)'
  BY <1>2, <1>3, <1>4, WorkServed
<1>8. ASSUME Len(Current.items) # 0
      PROVE  (api.nidx \in 1..Len(Current.items) /\ Acted /\ Failed)'
  <2>1. api.nidx \in 1..Len(Current.items) /\ Acted /\ Failed
    BY <1>2, <1>8 DEF Progress, Working
  <2>2. Reached' = Reached
    BY <1>1, <1>2, <1>4 DEF Reached
  <2>3. Pending' = api.todo /\ Pending = api.todo \cup {s}
    BY <1>2, <1>4 DEF Pending
  <2>4. ASSUME accepted' = [accepted EXCEPT ![c] = @ \cup {s}], UNCHANGED refused,
               api'.nrc = api.nrc
        PROVE  Acted' /\ Failed'
    <3>1. accepted'[c] = accepted[c] \cup {s}
      BY <1>1, <2>4 DEF TypeOK
    <3>2. Acted'
      BY <1>1, <1>2, <1>4, <2>1, <2>2, <2>3, <2>4, <3>1 DEF Acted
    <3>3. Failed'
      BY <1>1, <1>2, <1>4, <2>1, <2>2, <2>4 DEF Failed
    <3>. QED  BY <3>2, <3>3
  <2>5. ASSUME refused' = refused \cup {c}, api'.nrc = TRUE
        PROVE  Acted' /\ Failed'
    <3>1. Acted'
      BY <1>1, <1>4, <2>1, <2>2, <2>3, <2>5 DEF Acted
    <3>2. Failed'
      BY <1>1, <1>4, <2>2, <2>5 DEF Failed
    <3>. QED  BY <3>1, <3>2
  <2>6. Acted' /\ Failed'
    BY <1>3, <2>4, <2>5 DEF TypeOK, ApiType
  <2>. QED  BY <1>1, <1>4, <2>1, <2>6
<1>9. Progress'
  BY <1>1, <1>8 DEF Progress
<1>. QED  BY <1>6, <1>7, <1>9

LEMMA EndItemInv ==
  ASSUME Inv, EndItem
  PROVE  Inv'
<1>. USE DEF Inv
<1>. DEFINE n == api.nidx
            L == Len(Current.items)
<1>1. /\ Current' = Current /\ Current \in Queries
      /\ Current.verb \in {"subscribe", "unsubscribe"} /\ api.req \in Requests
      /\ L \in Nat /\ L < MaxIdx
  BY CurrentQuery, QueryTypes DEF EndItem, Shape, Working, Current, frame
<1>2. /\ api.pc = "visit" /\ api.todo = {} /\ n \in 1..MaxIdx
      /\ UNCHANGED <<eventActive, listeners, replies, answer, accepted, refused, frame>>
  BY DEF EndItem, TypeOK, ApiType
<1>3. /\ api'.req = api.req /\ api'.todo = {} /\ api'.rc = (api.rc \/ api.nrc)
      /\ n = L => api'.pc = "reply" /\ api'.nidx = n
      /\ n # L => /\ api'.pc = "item"
                  /\ api'.nidx = IF n < MaxIdx THEN n + 1 ELSE MaxIdx
      /\ api' \in ApiType
  <2>1. (api.rc \/ api.nrc) \in BOOLEAN
    OBVIOUS
  <2>2. (IF n < MaxIdx THEN n + 1 ELSE MaxIdx) \in 1..MaxIdx
    BY <1>2, MaxIdxAssumption
  <2>3. CASE n = L
    BY <1>2, <2>1, <2>3 DEF EndItem, TypeOK, ApiType
  <2>4. CASE n # L
    BY <1>2, <2>1, <2>2, <2>4 DEF EndItem, TypeOK, ApiType
  <2>. QED  BY <2>3, <2>4
<1>4. TypeOK' /\ Shape'
  BY <1>1, <1>2, <1>3 DEF TypeOK, Shape, Working, frame
<1>5. AnswerHonest' /\ \A r \in Requests : Served(r)'
  BY <1>2, <1>3, WorkServed
<1>6. ASSUME L # 0
      PROVE  (api.nidx \in 1..Len(Current.items) /\ Acted /\ Failed)'
  <2>1. n \in 1..L /\ Acted /\ Failed
    BY <1>2, <1>6 DEF Progress, Working
  <2>2. api'.nidx \in 1..L
    BY <1>1, <1>3, <2>1, MaxIdxAssumption
  <2>3. Reached' = Reached
    <3>1. n # L => api'.nidx = n + 1
      BY <1>1, <1>3, <2>1, MaxIdxAssumption
    <3>2. DOMAIN Current.items = 1..L
      BY <1>1, QueryTypes
    <3>3. \A k \in 1..L : (k < n \/ k = n) <=> (k < n + 1)
      BY <1>1, <2>1
    <3>4. CASE n = L
      BY <1>1, <1>2, <1>3, <3>4 DEF Reached
    <3>5. CASE n # L
      <4>1. Reached = {k \in 1..L : k < n \/ k = n}
        BY <1>2, <3>2 DEF Reached
      <4>2. Reached' = {k \in 1..L : k < n + 1 \/ (k = n + 1 /\ FALSE)}
        BY <1>1, <1>3, <3>1, <3>2, <3>5 DEF Reached
      <4>. QED  BY <3>3, <4>1, <4>2
    <3>. QED  BY <3>4, <3>5
  <2>4. Pending' = {} /\ Pending = {}
    BY <1>2, <1>3 DEF Pending
  <2>5. Acted'
    BY <1>1, <1>2, <1>3, <2>1, <2>3, <2>4 DEF Acted
  <2>6. api'.pc \notin {"visit", "event"}
    BY <1>3
  <2>7. Failed'
    BY <1>1, <1>2, <1>3, <2>1, <2>3, <2>6 DEF Failed
  <2>. QED  BY <1>1, <2>2, <2>5, <2>7
<1>7. Progress'
  BY <1>1, <1>6 DEF Progress
<1>. QED  BY <1>4, <1>5, <1>7

\* The steps that answer.
LEMMA ReplyServed ==
  ASSUME Inv, api.pc \in {"dispatch", "reply"}, api' = [api EXCEPT !.pc = "return"],
         NEW status \in {"ok", "error"}, Reply(api.req, status),
         UNCHANGED <<eventActive, listeners, accepted, refused, frame>>
  PROVE  /\ TypeOK' /\ Shape' /\ Progress' /\ \A r \in Requests : Served(r)'
         /\ api.req \in Requests /\ replies[api.req] = 0 /\ answer'[api.req] = status
         /\ \A x \in Requests : x # api.req => answer'[x] = answer[x]
<1>. USE DEF Inv
<1>. DEFINE c == api.req
<1>1. /\ c \in Requests /\ api'.pc = "return" /\ api'.req = c /\ api' \in ApiType
      /\ Busy(c) /\ Served(c)
  BY DEF Shape, TypeOK, ApiType, Busy
<1>2. replies[c] = 0 /\ phase[c] = "open"
  BY <1>1 DEF Served
<1>3. /\ replies'[c] = 1 /\ answer'[c] = status
      /\ \A x \in Requests : x # c => replies'[x] = replies[x] /\ answer'[x] = answer[x]
      /\ replies' \in [Requests -> Nat] /\ answer' \in [Requests -> {"none", "ok", "error"}]
  BY <1>1, <1>2 DEF Reply, TypeOK
<1>4. TypeOK' /\ Shape' /\ Progress'
  BY <1>1, <1>3 DEF TypeOK, Shape, Progress, Working, frame
<1>5. ASSUME NEW x \in Requests
      PROVE  Served(x)'
  <2>1. Served(x) /\ (Busy(x)' <=> Busy(x)) /\ (Busy(x) <=> x = c)
    BY <1>1 DEF Busy
  <2>. QED  BY <1>1, <1>2, <1>3, <2>1 DEF Served, frame
<1>. QED  BY <1>1, <1>2, <1>3, <1>4, <1>5

LEMMA ImmediateInv ==
  ASSUME Inv, Immediate
  PROVE  Inv'
<1>1. PICK status \in {"ok", "error"} : Reply(api.req, status)
  BY DEF Immediate
<1>2. /\ api.pc = "dispatch" /\ api' = [api EXCEPT !.pc = "return"]
      /\ Current.verb \notin {"subscribe", "unsubscribe"}
      /\ UNCHANGED <<eventActive, listeners, accepted, refused, frame>>
  BY DEF Immediate, At
<1>3. /\ TypeOK' /\ Shape' /\ Progress' /\ \A r \in Requests : Served(r)'
      /\ api.req \in Requests /\ replies[api.req] = 0
      /\ \A x \in Requests : x # api.req => answer'[x] = answer[x]
  BY <1>1, <1>2, ReplyServed
<1>4. AnswerHonest'
  BY <1>2, <1>3, HonestKept DEF frame, Current
<1>. QED  BY <1>3, <1>4 DEF Inv

LEMMA EndInv ==
  ASSUME Inv, End
  PROVE  Inv'
<1>. DEFINE c == api.req
            q == Current
            status == IF api.rc THEN "error" ELSE "ok"
<1>1. /\ api.pc = "reply" /\ api' = [api EXCEPT !.pc = "return"]
      /\ Reply(api.req, status) /\ status \in {"ok", "error"}
      /\ UNCHANGED <<eventActive, listeners, accepted, refused, frame>>
  BY DEF End
<1>2. /\ TypeOK' /\ Shape' /\ Progress' /\ \A r \in Requests : Served(r)'
      /\ c \in Requests /\ replies[c] = 0 /\ answer'[c] = status
      /\ \A x \in Requests : x # c => answer'[x] = answer[x]
  BY <1>1, ReplyServed
<1>3. /\ q \in Queries /\ api.nidx = Len(q.items) /\ api.nidx # 0 /\ Pending = {}
      /\ DOMAIN q.items = 1..Len(q.items) /\ Len(q.items) \in Nat
  BY <1>1, CurrentQuery, QueryTypes DEF Inv, TypeOK, ApiType, Shape, Pending
<1>4. Acted /\ Failed
  BY <1>1, <1>3 DEF Inv, Progress, Working
<1>5. Reached = DOMAIN q.items
  BY <1>1, <1>3 DEF Reached
<1>6. /\ status = "ok" <=> c \notin refused /\ Patterns(q) = DOMAIN q.items
      /\ c \notin refused => accepted[c] = Asked(q) \cap HasEvent
  <2>1. api.rc <=> (c \in refused \/ ~(DOMAIN q.items \subseteq Patterns(q)))
    BY <1>1, <1>4, <1>5 DEF Failed
  <2>2. Patterns(q) \subseteq DOMAIN q.items
    BY DEF Patterns
  <2>3. c \notin refused => accepted[c] = Asked(q) \cap HasEvent
    BY <1>3, <1>4, <1>5, TakenAll DEF Acted
  <2>. QED  BY <2>1, <2>2, <2>3
<1>7. AnswerHonest'
  <2>. SUFFICES ASSUME NEW x \in Requests, answer'[x] # "none",
                       query'[x].verb \in {"subscribe", "unsubscribe"}
                PROVE  /\ answer'[x] = "ok" <=>
                            x \notin refused' /\ Patterns(query'[x]) = DOMAIN query'[x].items
                       /\ x \notin refused' => accepted'[x] = Asked(query'[x]) \cap HasEvent
    BY DEF AnswerHonest
  <2>1. CASE x = c
    BY <1>1, <1>2, <1>6, <2>1 DEF Current, frame
  <2>2. CASE x # c
    BY <1>1, <1>2, <2>2 DEF Inv, AnswerHonest, frame
  <2>. QED  BY <2>1, <2>2
<1>. QED  BY <1>2, <1>7 DEF Inv

LEMMA ReturnInv ==
  ASSUME Inv, Return
  PROVE  Inv'
<1>. USE DEF Inv
<1>. DEFINE c == api.req
<1>1. /\ api.pc = "return" /\ c \in Requests /\ api'.pc = "idle" /\ api' \in ApiType
      /\ phase' = [phase EXCEPT ![c] = "gone"]
      /\ UNCHANGED <<eventActive, listeners, replies, answer, query, accepted, refused>>
  BY Constants DEF Return, Shape, ApiIdle
<1>2. TypeOK' /\ Shape' /\ Progress'
  BY <1>1 DEF TypeOK, Shape, Progress, Working
<1>3. AnswerHonest'
  BY <1>1 DEF AnswerHonest
<1>4. ASSUME NEW x \in Requests
      PROVE  Served(x)'
  <2>1. Served(x) /\ ~Busy(x)' /\ (Busy(x) <=> x = c)
    BY <1>1 DEF Busy
  <2>2. phase'[x] = IF x = c THEN "gone" ELSE phase[x]
    BY <1>1 DEF TypeOK
  <2>. QED  BY <1>1, <2>1, <2>2 DEF Served
<1>. QED  BY <1>2, <1>3, <1>4

\* A session that ends touches no request, and a stuttering step nothing at all.
LEMMA QuietInv ==
  ASSUME Inv, UNCHANGED <<eventActive, api, phase, replies, answer, query, accepted, refused>>,
         listeners' \in [Sensors -> SUBSET Clients]
  PROVE  Inv'
<1>. USE DEF Inv
<1>1. TypeOK' /\ Shape'
  BY DEF TypeOK, Shape, Working, Current
<1>2. AnswerHonest'
  BY DEF AnswerHonest
<1>3. \A r \in Requests : Served(r)'
  BY DEF Served, Busy
<1>4. Progress'
  BY DEF Progress, Working, Current, Acted, Failed, Reached, Pending
<1>. QED  BY <1>1, <1>2, <1>3, <1>4

\* Every step preserves the invariant.
LEMMA NextInv ==
  ASSUME Inv, [Next]_vars
  PROVE  Inv'
<1>1. ASSUME NEW r \in Requests, NEW q \in Queries, Accept(r, q) PROVE Inv'
  BY <1>1, AcceptInv
<1>2. CASE ApiStep
  BY <1>2, ImmediateInv, BeginInv, StartItemInv, VisitInv, EventInv, EndItemInv, EndInv,
     ReturnInv DEF ApiStep
<1>3. ASSUME NEW c \in Clients, Disconnect(c) PROVE Inv'
  <2>1. listeners' \in [Sensors -> SUBSET Clients]
    BY <1>3 DEF Disconnect, Inv, TypeOK
  <2>. QED  BY <1>3, <2>1, QuietInv DEF Disconnect, frame
<1>4. CASE UNCHANGED vars
  BY <1>4, QuietInv DEF vars, Inv, TypeOK
<1>. QED  BY <1>1, <1>2, <1>3, <1>4 DEF Next

\* At every moment the state of the root verbs satisfies the invariant.
THEOREM Invariance == Spec => []Inv
<1>1. Init => Inv
  BY InitInv
<1>2. Inv /\ [Next]_vars => Inv'
  BY NextInv
<1>. QED  BY <1>1, <1>2, PTL DEF Spec

-----------------------------------------------------------------------------
(* What follows from it.                                                   *)

\* The flags and listeners of the sensors, the state of the handler of subunsub()
\* and what is kept of each request keep their types: in particular the sensors
\* taken for a request are sensors, and the item counter stays below its bound.
THEOREM TypeCorrect == Spec => []TypeOK
<1>1. Inv => TypeOK
  BY DEF Inv
<1>. QED  BY <1>1, Invariance, PTL

\* The answer of subunsub() is what it did, for arrays of any length and content.
THEOREM HonestAnswers == Spec => []AnswerHonest
<1>1. Inv => AnswerHonest
  BY DEF Inv
<1>. QED  BY <1>1, Invariance, PTL

-----------------------------------------------------------------------------
(***************************************************************************)
(* Only the events asked for.  An empty array is taken for one item that   *)
(* matches everything: the queries have none.                              *)
(***************************************************************************)
NoEmptyArray == \A q \in Queries : q.items # <<>>

Asking(r, s) ==
  phase[r] # "new" /\ query[r].verb = "subscribe" /\ s \in Asked(query[r])

OnlyAsking ==
  \A s \in Sensors :
    /\ \A c \in listeners[s] : \E r \in Requests : Asking(r, s) /\ query[r].client = c
    /\ eventActive[s] => \E r \in Requests : Asking(r, s)

LEMMA AskingStays ==
  ASSUME Inv, [Next]_vars, NEW r \in Requests, NEW s \in Sensors, Asking(r, s)
  PROVE  Asking(r, s)' /\ query'[r] = query[r]
<1>1. ASSUME NEW x \in Requests, NEW q \in Queries, Accept(x, q)
      PROVE  phase'[r] # "new" /\ query'[r] = query[r]
  BY <1>1 DEF Accept, Asking, Inv, TypeOK
<1>2. ASSUME Return
      PROVE  phase'[r] # "new" /\ query'[r] = query[r]
  BY <1>2 DEF Return, Asking, Inv, TypeOK
<1>3. ASSUME UNCHANGED <<phase, query>>
      PROVE  phase'[r] # "new" /\ query'[r] = query[r]
  BY <1>3 DEF Asking
<1>4. ASSUME Immediate \/ Begin \/ StartItem \/ Event \/ EndItem \/ End
             \/ (\E x \in Sensors : Visit(x)) \/ (\E c \in Clients : Disconnect(c))
             \/ UNCHANGED vars
      PROVE  UNCHANGED <<phase, query>>
  BY <1>4 DEF Immediate, Begin, StartItem, Event, EndItem, End, Visit, Disconnect, frame, vars
<1>5. phase'[r] # "new" /\ query'[r] = query[r]
  BY <1>1, <1>2, <1>3, <1>4 DEF Next, ApiStep
<1>. QED  BY <1>5 DEF Asking

\* The sensors subscribe comes to are asked for.
LEMMA PendingAsked ==
  ASSUME NoEmptyArray, Inv, Working, Current.verb = "subscribe", NEW s \in Pending
  PROVE  api.req \in Requests /\ Asking(api.req, s)
<1>1. /\ api.pc # "idle" /\ api.req \in Requests /\ Current \in Queries
      /\ phase[api.req] = "open"
  BY CurrentQuery DEF Inv, Working, Served, Busy
<1>2. Len(Current.items) # 0
  BY <1>1, QueryTypes, EmptySeq DEF NoEmptyArray
<1>3. s \in Taken(Current, Reached)
  BY <1>2 DEF Inv, Progress, Acted
<1>. QED  BY <1>1, <1>3, TakenAll DEF Asking, Current

LEMMA AskedNext ==
  ASSUME NoEmptyArray, Inv, OnlyAsking, [Next]_vars
  PROVE  OnlyAsking'
<1>1. ASSUME UNCHANGED eventActive, \A s \in Sensors : listeners'[s] \subseteq listeners[s]
      PROVE  OnlyAsking'
  BY <1>1, AskingStays DEF OnlyAsking
<1>2. ASSUME NEW s \in Sensors, Visit(s)
      PROVE  OnlyAsking'
  <2>1. /\ Working /\ s \in Pending /\ UNCHANGED listeners
        /\ \A x \in Sensors : x # s => eventActive'[x] = eventActive[x]
        /\ eventActive'[s] => eventActive[s] \/ Current.verb = "subscribe"
    BY <1>2 DEF Visit, Working, Pending, Inv, TypeOK, At
  <2>2. eventActive'[s] => \E r \in Requests : Asking(r, s)
    BY <2>1, PendingAsked DEF OnlyAsking
  <2>. QED  BY <2>1, <2>2, AskingStays DEF OnlyAsking
<1>3. ASSUME Event
      PROVE  OnlyAsking'
  <2>. DEFINE s == api.sensor
  <2>1. /\ Working /\ s \in Pending /\ UNCHANGED eventActive /\ s \in Sensors
        /\ \A x \in Sensors : x # s => listeners'[x] = listeners[x]
        /\ \A c \in listeners'[s] :
             c \in listeners[s] \/ (Current.verb = "subscribe" /\ c = Current.client)
    BY <1>3, HasEventAssumption DEF Event, Working, Pending, Inv, Shape, TypeOK, At
  <2>2. \A c \in listeners'[s] : \E r \in Requests : Asking(r, s) /\ query[r].client = c
    BY <2>1, PendingAsked DEF OnlyAsking, Current
  <2>. QED  BY <2>1, <2>2, AskingStays DEF OnlyAsking
<1>4. ASSUME NEW c \in Clients, Disconnect(c)
      PROVE  UNCHANGED eventActive /\ \A s \in Sensors : listeners'[s] \subseteq listeners[s]
  BY <1>4 DEF Disconnect
<1>5. ASSUME NEW r \in Requests, NEW q \in Queries, Accept(r, q)
      PROVE  UNCHANGED <<eventActive, listeners>>
  BY <1>5 DEF Accept
<1>6. ASSUME Immediate \/ Begin \/ StartItem \/ EndItem \/ End \/ Return \/ UNCHANGED vars
      PROVE  UNCHANGED <<eventActive, listeners>>
  BY <1>6 DEF Immediate, Begin, StartItem, EndItem, End, Return, vars
<1>. QED  BY <1>1, <1>2, <1>3, <1>4, <1>5, <1>6 DEF Next, ApiStep

\* An event is active, and a client listens to it, only if a client, and that
\* client, asked for it, when no query is an empty array.
THEOREM AskedOnly == NoEmptyArray => (Spec => []OnlyAsked)
<1>. SUFFICES ASSUME NoEmptyArray PROVE Spec => []OnlyAsked
  OBVIOUS
<1>1. Init => OnlyAsking
  BY DEF Init, OnlyAsking
<1>2. Inv /\ OnlyAsking /\ [Next]_vars => OnlyAsking'
  BY AskedNext
<1>3. OnlyAsking => OnlyAsked
  BY DEF OnlyAsking, OnlyAsked, Asking
<1>. QED  BY <1>1, <1>2, <1>3, Invariance, PTL DEF Spec

-----------------------------------------------------------------------------
(* The root verbs as a request service.                                    *)

LEMMA StepService ==
  ASSUME Inv, [Next]_vars
  PROVE  [Service!Next]_Service!rsvars
<1>. USE DEF Inv
<1>1. ASSUME NEW r \in Requests, NEW q \in Queries, Accept(r, q)
      PROVE  Service!Accept(r)
  <2>1. phase[r] = "new" /\ phase' = [phase EXCEPT ![r] = "open"]
    BY <1>1 DEF Accept
  <2>2. {x \in Requests : phase[x] # "new"}'
          = {x \in Requests : phase[x] # "new"} \cup {r}
    BY <2>1 DEF TypeOK
  <2>3. {x \in Requests : phase[x] = "gone"}' = {x \in Requests : phase[x] = "gone"}
    BY <2>1 DEF TypeOK
  <2>. QED  BY <1>1, <2>1, <2>2, <2>3 DEF Accept, Service!Accept
<1>2. CASE Immediate \/ End
  <2>1. /\ api.pc \in {"dispatch", "reply"} /\ api.req \in Requests /\ Busy(api.req)
        /\ replies' = [replies EXCEPT ![api.req] = @ + 1] /\ UNCHANGED phase
    BY <1>2 DEF Immediate, End, Reply, Shape, Busy, frame
  <2>2. replies[api.req] = 0 /\ phase[api.req] = "open"
    BY <2>1 DEF Served
  <2>3. replies' = [replies EXCEPT ![api.req] = 1]
    BY <2>1, <2>2 DEF TypeOK
  <2>4. Service!Answer(api.req)
    BY <2>1, <2>2, <2>3 DEF Service!Answer
  <2>. QED  BY <2>1, <2>4 DEF Service!Next
<1>3. CASE Return
  <2>1. PICK c \in Requests :
          /\ api.pc = "return" /\ Busy(c)
          /\ phase' = [phase EXCEPT ![c] = "gone"] /\ UNCHANGED replies
    BY <1>3 DEF Return, Shape, Busy
  <2>2. replies[c] = 1 /\ phase[c] = "open"
    BY <2>1 DEF Served
  <2>3. {x \in Requests : phase[x] # "new"}' = {x \in Requests : phase[x] # "new"}
    BY <2>1, <2>2 DEF TypeOK
  <2>4. {x \in Requests : phase[x] = "gone"}'
          = {x \in Requests : phase[x] = "gone"} \cup {c}
    BY <2>1, <2>2 DEF TypeOK
  <2>5. Service!Release(c)
    BY <2>1, <2>2, <2>3, <2>4 DEF Service!Release
  <2>. QED  BY <2>1, <2>5 DEF Service!Next
<1>4. CASE Begin \/ StartItem \/ Event \/ EndItem \/ (\E s \in Sensors : Visit(s))
           \/ (\E c \in Clients : Disconnect(c)) \/ UNCHANGED vars
  <2>1. UNCHANGED <<phase, replies>>
    BY <1>4 DEF Begin, StartItem, Event, EndItem, Visit, Disconnect, frame, vars
  <2>. QED  BY <2>1 DEF Service!rsvars
<1>. QED  BY <1>1, <1>2, <1>3, <1>4 DEF Next, ApiStep, Service!Next

\* The root verbs implement the request service: no request is answered twice, or
\* released before its answer.
THEOREM Refinement == Spec => Service!SafeSpec
<1>1. Init => Service!Init
  BY DEF Init, Service!Init
<1>2. Inv /\ [Next]_vars => [Service!Next]_Service!rsvars
  BY StepService
<1>. QED  BY <1>1, <1>2, Invariance, PTL DEF Spec, Service!SafeSpec
=============================================================================
