---------------------- MODULE CANopenSlaveSensorsProof ----------------------
(***************************************************************************)
(* Within a slave each sensor is still a CANopenSensor, whatever the other *)
(* sensors, the configuration and the boots do, for every configuration and *)
(* any set of requests: what one of its steps looks like to each sensor,   *)
(* through what CANopenSlave gives it to see of the queues, of the threads *)
(* and of the requests.                                                    *)
(***************************************************************************)
EXTENDS CANopenSlaveProof

-----------------------------------------------------------------------------
(* What a sensor sees of a step.                                           *)

\* No request is given to a sensor and no handler begins but by Accept.
Fresh ==
  /\ api.pc = "idle" => api = ApiIdle
  /\ \A r \in Requests : req[r].phase = "new" => req[r] = NewRequest

LEMMA SensorSame ==
  ASSUME NEW s \in Sensors, UNCHANGED <<config, connected>>,
         sens'[s] = sens[s], cell'[Cell(s)] = cell[Cell(s)],
         OpsOf(s, sdoq') = OpsOf(s, sdoq), EndedOf(s, done') = EndedOf(s, done),
         ApiOf(s, api') = ApiOf(s, api), LoopOf(s, loop') = LoopOf(s, loop),
         ReqOf(s, req') = ReqOf(s, req)
  PROVE  UNCHANGED Sensor(s)!vars
<1>1. table' = table
  BY DEF table
<1>2. /\ PhaseOf(s, req') = PhaseOf(s, req) /\ RefsOf(s, req') = RefsOf(s, req)
      /\ RepliesOf(s, req') = RepliesOf(s, req) /\ AnswerOf(s, req') = AnswerOf(s, req)
      /\ SeenOf(s, req') = SeenOf(s, req) /\ FailedOf(s, req') = FailedOf(s, req)
  BY DEF PhaseOf, RefsOf, RepliesOf, AnswerOf, SeenOf, FailedOf
<1>. QED  BY <1>1, <1>2 DEF Sensor!vars, Cell

Changes(a, b, x, e) == b = [a EXCEPT ![x] = e]
AreRequests(f) == f \in [Requests -> ReqType]

\* One request that changes, one of the sensor or one of another.
LEMMA ReqOfChange ==
  ASSUME Types, NEW s \in Sensors, NEW x \in Requests, NEW e \in ReqType,
         Changes(req, req', x, e), e.to = req[x].to
  PROVE  /\ req[x].to # s => ReqOf(s, req') = ReqOf(s, req)
         /\ req[x].to = s => /\ ReqOf(s, req)[x] = req[x]
                             /\ Changes(ReqOf(s, req), ReqOf(s, req'), x, e)
         /\ AreRequests(ReqOf(s, req))
<1>1. NewRequest \in ReqType
  BY Constants DEF NewRequest, ReqType
<1>. QED  BY <1>1 DEF Types, ReqOf, For, Changes, AreRequests

\* The requests of a sensor as it keeps them: each field of them is a variable.
LEMMA FieldsChange ==
  ASSUME NEW s, NEW a, NEW b, NEW x \in Requests, NEW e \in ReqType,
         AreRequests(ReqOf(s, a)), Changes(ReqOf(s, a), ReqOf(s, b), x, e)
  PROVE  /\ PhaseOf(s, b) = [PhaseOf(s, a) EXCEPT ![x] = e.phase]
         /\ RefsOf(s, b) = [RefsOf(s, a) EXCEPT ![x] = e.refs]
         /\ RepliesOf(s, b) = [RepliesOf(s, a) EXCEPT ![x] = e.replies]
         /\ AnswerOf(s, b) = [AnswerOf(s, a) EXCEPT ![x] = e.answer]
         /\ SeenOf(s, b) = [SeenOf(s, a) EXCEPT ![x] = e.seen]
         /\ e.failed => FailedOf(s, b) = FailedOf(s, a) \cup {x}
         /\ e.failed = ReqOf(s, a)[x].failed => FailedOf(s, b) = FailedOf(s, a)
<1>. DEFINE f == ReqOf(s, a)
            g == ReqOf(s, b)
<1>1. /\ f \in [Requests -> ReqType] /\ g = [f EXCEPT ![x] = e]
      /\ \A r \in Requests : g[r] = IF r = x THEN e ELSE f[r]
  BY DEF Changes, AreRequests
<1>2. /\ PhaseOf(s, a) = [r \in Requests |-> f[r].phase]
      /\ PhaseOf(s, b) = [r \in Requests |-> g[r].phase]
  BY DEF PhaseOf
<1>3. /\ RefsOf(s, a) = [r \in Requests |-> f[r].refs]
      /\ RefsOf(s, b) = [r \in Requests |-> g[r].refs]
  BY DEF RefsOf
<1>4. /\ RepliesOf(s, a) = [r \in Requests |-> f[r].replies]
      /\ RepliesOf(s, b) = [r \in Requests |-> g[r].replies]
  BY DEF RepliesOf
<1>5. /\ AnswerOf(s, a) = [r \in Requests |-> f[r].answer]
      /\ AnswerOf(s, b) = [r \in Requests |-> g[r].answer]
  BY DEF AnswerOf
<1>6. /\ SeenOf(s, a) = [r \in Requests |-> f[r].seen]
      /\ SeenOf(s, b) = [r \in Requests |-> g[r].seen]
  BY DEF SeenOf
<1>7. /\ FailedOf(s, a) = {r \in Requests : f[r].failed}
      /\ FailedOf(s, b) = {r \in Requests : g[r].failed}
  BY DEF FailedOf
<1>. HIDE DEF f, g
<1>8. PhaseOf(s, b) = [PhaseOf(s, a) EXCEPT ![x] = e.phase]
  BY <1>1, <1>2
<1>9. RefsOf(s, b) = [RefsOf(s, a) EXCEPT ![x] = e.refs]
  BY <1>1, <1>3
<1>10. RepliesOf(s, b) = [RepliesOf(s, a) EXCEPT ![x] = e.replies]
  BY <1>1, <1>4
<1>11. AnswerOf(s, b) = [AnswerOf(s, a) EXCEPT ![x] = e.answer]
  BY <1>1, <1>5
<1>12. SeenOf(s, b) = [SeenOf(s, a) EXCEPT ![x] = e.seen]
  BY <1>1, <1>6
<1>13. e.failed => FailedOf(s, b) = FailedOf(s, a) \cup {x}
  BY <1>1, <1>7
<1>14. e.failed = f[x].failed => FailedOf(s, b) = FailedOf(s, a)
  BY <1>1, <1>7
<1>. QED  BY <1>8, <1>9, <1>10, <1>11, <1>12, <1>13, <1>14 DEF f

\* The fields of a request of the sensor.
LEMMA FieldsOf ==
  ASSUME Types, NEW s \in Sensors, NEW x \in Requests
  PROVE  /\ ReqOf(s, req) \in [Requests -> ReqType]
         /\ req[x].to = s =>
              /\ ReqOf(s, req)[x] = req[x]
              /\ PhaseOf(s, req)[x] = req[x].phase /\ RefsOf(s, req)[x] = req[x].refs
              /\ RepliesOf(s, req)[x] = req[x].replies
              /\ AnswerOf(s, req)[x] = req[x].answer /\ SeenOf(s, req)[x] = req[x].seen
         /\ req[x].to # s => PhaseOf(s, req)[x] = "new"
         /\ DOMAIN PhaseOf(s, req) = Requests /\ DOMAIN RefsOf(s, req) = Requests
         /\ DOMAIN RepliesOf(s, req) = Requests /\ DOMAIN AnswerOf(s, req) = Requests
         /\ DOMAIN SeenOf(s, req) = Requests
         /\ PhaseOf(s, req) = [r \in Requests |-> PhaseOf(s, req)[r]]
         /\ RefsOf(s, req) = [r \in Requests |-> RefsOf(s, req)[r]]
         /\ RepliesOf(s, req) = [r \in Requests |-> RepliesOf(s, req)[r]]
         /\ AnswerOf(s, req) = [r \in Requests |-> AnswerOf(s, req)[r]]
         /\ SeenOf(s, req) = [r \in Requests |-> SeenOf(s, req)[r]]
<1>1. NewRequest \in ReqType /\ NewRequest.phase = "new"
  BY Constants DEF NewRequest, ReqType
<1>2. ReqOf(s, req) \in [Requests -> ReqType]
  BY <1>1 DEF Types, ReqOf, For
<1>3. ReqOf(s, req)[x] = IF req[x].to = s THEN req[x] ELSE NewRequest
  BY DEF ReqOf, For
<1>. QED  BY <1>1, <1>2, <1>3 DEF PhaseOf, RefsOf, RepliesOf, AnswerOf, SeenOf

LEMMA OneRequest ==
  ASSUME Types, NEW s \in Sensors, NEW x \in Requests, NEW e \in ReqType,
         Changes(req, req', x, e), e.to = req[x].to
  PROVE  /\ req[x].to # s => ReqOf(s, req') = ReqOf(s, req)
         /\ req[x].to = s =>
              /\ PhaseOf(s, req') = [PhaseOf(s, req) EXCEPT ![x] = e.phase]
              /\ RefsOf(s, req') = [RefsOf(s, req) EXCEPT ![x] = e.refs]
              /\ RepliesOf(s, req') = [RepliesOf(s, req) EXCEPT ![x] = e.replies]
              /\ AnswerOf(s, req') = [AnswerOf(s, req) EXCEPT ![x] = e.answer]
              /\ e.phase = req[x].phase => PhaseOf(s, req') = PhaseOf(s, req)
              /\ e.refs = req[x].refs => RefsOf(s, req') = RefsOf(s, req)
              /\ e.replies = req[x].replies => RepliesOf(s, req') = RepliesOf(s, req)
              /\ e.answer = req[x].answer => AnswerOf(s, req') = AnswerOf(s, req)
              /\ e.seen = req[x].seen => SeenOf(s, req') = SeenOf(s, req)
              /\ e.failed = req[x].failed => FailedOf(s, req') = FailedOf(s, req)
              /\ e.failed => FailedOf(s, req') = FailedOf(s, req) \cup {x}
<1>1. /\ req[x].to # s => ReqOf(s, req') = ReqOf(s, req)
      /\ req[x].to = s => /\ ReqOf(s, req)[x] = req[x]
                          /\ Changes(ReqOf(s, req), ReqOf(s, req'), x, e)
      /\ AreRequests(ReqOf(s, req))
  BY ReqOfChange
<1>2. CASE req[x].to = s
  <2>1. /\ PhaseOf(s, req') = [PhaseOf(s, req) EXCEPT ![x] = e.phase]
        /\ RefsOf(s, req') = [RefsOf(s, req) EXCEPT ![x] = e.refs]
        /\ RepliesOf(s, req') = [RepliesOf(s, req) EXCEPT ![x] = e.replies]
        /\ AnswerOf(s, req') = [AnswerOf(s, req) EXCEPT ![x] = e.answer]
        /\ SeenOf(s, req') = [SeenOf(s, req) EXCEPT ![x] = e.seen]
        /\ e.failed => FailedOf(s, req') = FailedOf(s, req) \cup {x}
        /\ e.failed = ReqOf(s, req)[x].failed => FailedOf(s, req') = FailedOf(s, req)
    BY <1>1, <1>2, FieldsChange
  <2>2. /\ ReqOf(s, req)[x] = req[x]
        /\ PhaseOf(s, req)[x] = req[x].phase /\ RefsOf(s, req)[x] = req[x].refs
        /\ RepliesOf(s, req)[x] = req[x].replies
        /\ AnswerOf(s, req)[x] = req[x].answer /\ SeenOf(s, req)[x] = req[x].seen
    BY <1>2, FieldsOf
  <2>3. /\ PhaseOf(s, req) = [r \in Requests |-> PhaseOf(s, req)[r]]
        /\ RefsOf(s, req) = [r \in Requests |-> RefsOf(s, req)[r]]
        /\ RepliesOf(s, req) = [r \in Requests |-> RepliesOf(s, req)[r]]
        /\ AnswerOf(s, req) = [r \in Requests |-> AnswerOf(s, req)[r]]
        /\ SeenOf(s, req) = [r \in Requests |-> SeenOf(s, req)[r]]
    BY FieldsOf
  <2>4. e.phase = req[x].phase => PhaseOf(s, req') = PhaseOf(s, req)
    BY <2>1, <2>2, <2>3
  <2>5. e.refs = req[x].refs => RefsOf(s, req') = RefsOf(s, req)
    BY <2>1, <2>2, <2>3
  <2>6. e.replies = req[x].replies => RepliesOf(s, req') = RepliesOf(s, req)
    BY <2>1, <2>2, <2>3
  <2>7. e.answer = req[x].answer => AnswerOf(s, req') = AnswerOf(s, req)
    BY <2>1, <2>2, <2>3
  <2>8. e.seen = req[x].seen => SeenOf(s, req') = SeenOf(s, req)
    BY <2>1, <2>2, <2>3
  <2>. QED  BY <1>2, <2>1, <2>2, <2>4, <2>5, <2>6, <2>7, <2>8
<1>. QED  BY <1>1, <1>2

LEMMA AnsweredSeen ==
  ASSUME Types, NEW s \in Sensors, NEW x \in Requests,
         NEW status \in {"ok", "error", "value"}, NEW val \in Values,
         req' = Answered(x, status, val)
  PROVE  /\ req[x].to # s => ReqOf(s, req') = ReqOf(s, req)
         /\ req[x].to = s =>
              /\ RepliesOf(s, req') = [RepliesOf(s, req) EXCEPT ![x] = @ + 1]
              /\ AnswerOf(s, req') =
                   [AnswerOf(s, req) EXCEPT ![x] = [status |-> status, val |-> val]]
              /\ PhaseOf(s, req') = PhaseOf(s, req) /\ RefsOf(s, req') = RefsOf(s, req)
              /\ SeenOf(s, req') = SeenOf(s, req) /\ FailedOf(s, req') = FailedOf(s, req)
<1>1. req[x] \in ReqType
  BY DEF Types
<1>2. PICK a \in AnswerType : a = [status |-> status, val |-> val]
  BY DEF AnswerType
<1>. DEFINE e == [req[x] EXCEPT !.replies = @ + 1, !.answer = a]
<1>3. req' = [req EXCEPT ![x] = e]
  BY <1>2 DEF Answered
<1>4. /\ e \in ReqType /\ e.to = req[x].to
      /\ e.phase = req[x].phase /\ e.refs = req[x].refs /\ e.seen = req[x].seen
      /\ e.replies = req[x].replies + 1 /\ e.answer = a /\ e.failed = req[x].failed
  <2>1. req[x].replies + 1 \in Nat
    BY <1>1 DEF ReqType
  <2>. QED  BY <1>1, <1>2, <2>1 DEF ReqType
<1>. HIDE DEF e
<1>5. Changes(req, req', x, e)
  BY <1>3 DEF Changes
<1>6. req[x].to = s => /\ RepliesOf(s, req)[x] = req[x].replies
                       /\ DOMAIN RepliesOf(s, req) = Requests
  BY FieldsOf
<1>7. [RepliesOf(s, req) EXCEPT ![x] = @ + 1]
        = [RepliesOf(s, req) EXCEPT ![x] = RepliesOf(s, req)[x] + 1]
  OBVIOUS
<1>. QED  BY <1>2, <1>4, <1>5, <1>6, <1>7, OneRequest

LEMMA UnrefSeen ==
  ASSUME Types, NEW s \in Sensors, NEW x \in Requests, req[x].refs # 0, Unref(x)
  PROVE  /\ req[x].to # s => ReqOf(s, req') = ReqOf(s, req)
         /\ req[x].to = s =>
              /\ RefsOf(s, req') = [RefsOf(s, req) EXCEPT ![x] = @ - 1]
              /\ PhaseOf(s, req') =
                   [PhaseOf(s, req) EXCEPT ![x] = IF RefsOf(s, req)[x] = 1 THEN "gone" ELSE @]
              /\ RepliesOf(s, req') = RepliesOf(s, req) /\ AnswerOf(s, req') = AnswerOf(s, req)
              /\ SeenOf(s, req') = SeenOf(s, req) /\ FailedOf(s, req') = FailedOf(s, req)
<1>1. req[x] \in ReqType
  BY DEF Types
<1>. DEFINE p == IF req[x].refs = 1 THEN "gone" ELSE req[x].phase
            e == [req[x] EXCEPT !.refs = @ - 1, !.phase = p]
<1>2. Changes(req, req', x, e)
  BY DEF Unref, Changes
<1>3. /\ e \in ReqType /\ e.to = req[x].to
      /\ e.refs = req[x].refs - 1 /\ e.phase = p
      /\ e.replies = req[x].replies /\ e.answer = req[x].answer
      /\ e.seen = req[x].seen /\ e.failed = req[x].failed
  <2>1. req[x].refs - 1 \in Nat
    BY <1>1 DEF ReqType
  <2>. QED  BY <1>1, <2>1 DEF ReqType
<1>. HIDE DEF e
<1>4. req[x].to = s => /\ RefsOf(s, req)[x] = req[x].refs /\ PhaseOf(s, req)[x] = req[x].phase
                       /\ DOMAIN RefsOf(s, req) = Requests /\ DOMAIN PhaseOf(s, req) = Requests
  BY FieldsOf
<1>5. /\ [RefsOf(s, req) EXCEPT ![x] = @ - 1] = [RefsOf(s, req) EXCEPT ![x] = RefsOf(s, req)[x] - 1]
      /\ [PhaseOf(s, req) EXCEPT ![x] = IF RefsOf(s, req)[x] = 1 THEN "gone" ELSE @]
           = [PhaseOf(s, req) EXCEPT ![x] = IF RefsOf(s, req)[x] = 1 THEN "gone"
                                            ELSE PhaseOf(s, req)[x]]
  OBVIOUS
<1>. QED  BY <1>2, <1>3, <1>4, <1>5, OneRequest

Addref(x) == req' = [req EXCEPT ![x].refs = @ + 1]

LEMMA HeldSeen ==
  ASSUME Types, NEW s \in Sensors, NEW x \in Requests, Addref(x)
  PROVE  /\ req[x].to # s => ReqOf(s, req') = ReqOf(s, req)
         /\ req[x].to = s =>
              /\ RefsOf(s, req') = [RefsOf(s, req) EXCEPT ![x] = @ + 1]
              /\ PhaseOf(s, req') = PhaseOf(s, req) /\ RepliesOf(s, req') = RepliesOf(s, req)
              /\ AnswerOf(s, req') = AnswerOf(s, req) /\ SeenOf(s, req') = SeenOf(s, req)
              /\ FailedOf(s, req') = FailedOf(s, req)
<1>1. req[x] \in ReqType
  BY DEF Types
<1>. DEFINE e == [req[x] EXCEPT !.refs = @ + 1]
<1>2. Changes(req, req', x, e)
  BY DEF Changes, Addref
<1>3. /\ e \in ReqType /\ e.to = req[x].to /\ e.phase = req[x].phase
      /\ e.replies = req[x].replies /\ e.answer = req[x].answer
      /\ e.seen = req[x].seen /\ e.failed = req[x].failed
  <2>1. req[x].refs + 1 \in Nat
    BY <1>1 DEF ReqType
  <2>. QED  BY <1>1, <2>1 DEF ReqType
<1>4. e.refs = req[x].refs + 1
  BY <1>1 DEF ReqType
<1>. HIDE DEF e
<1>5. req[x].to = s => RefsOf(s, req)[x] = req[x].refs /\ DOMAIN RefsOf(s, req) = Requests
  BY FieldsOf
<1>6. [RefsOf(s, req) EXCEPT ![x] = @ + 1] = [RefsOf(s, req) EXCEPT ![x] = RefsOf(s, req)[x] + 1]
  OBVIOUS
<1>7. /\ req[x].to # s => ReqOf(s, req') = ReqOf(s, req)
      /\ req[x].to = s =>
           /\ RefsOf(s, req') = [RefsOf(s, req) EXCEPT ![x] = e.refs]
           /\ PhaseOf(s, req') = PhaseOf(s, req) /\ RepliesOf(s, req') = RepliesOf(s, req)
           /\ AnswerOf(s, req') = AnswerOf(s, req) /\ SeenOf(s, req') = SeenOf(s, req)
           /\ FailedOf(s, req') = FailedOf(s, req)
  BY <1>2, <1>3, OneRequest
<1>. QED  BY <1>4, <1>5, <1>6, <1>7

LEMMA FailedSeen ==
  ASSUME Types, NEW s \in Sensors, NEW x \in Requests, req' = [req EXCEPT ![x].failed = TRUE]
  PROVE  /\ req[x].to # s => ReqOf(s, req') = ReqOf(s, req)
         /\ req[x].to = s =>
              /\ FailedOf(s, req') = FailedOf(s, req) \cup {x}
              /\ PhaseOf(s, req') = PhaseOf(s, req) /\ RefsOf(s, req') = RefsOf(s, req)
              /\ RepliesOf(s, req') = RepliesOf(s, req) /\ AnswerOf(s, req') = AnswerOf(s, req)
              /\ SeenOf(s, req') = SeenOf(s, req)
<1>1. req[x] \in ReqType
  BY DEF Types
<1>. DEFINE e == [req[x] EXCEPT !.failed = TRUE]
<1>2. Changes(req, req', x, e)
  BY DEF Changes
<1>3. /\ e \in ReqType /\ e.to = req[x].to /\ e.failed
      /\ e.refs = req[x].refs /\ e.phase = req[x].phase
      /\ e.replies = req[x].replies /\ e.answer = req[x].answer
      /\ e.seen = req[x].seen
  BY <1>1 DEF ReqType
<1>. HIDE DEF e
<1>. QED  BY <1>2, <1>3, OneRequest

LEMMA SawSeen ==
  ASSUME Types, NEW s \in Sensors, NEW S, NEW v \in Values, Saw(S, v)
  PROVE  /\ s \notin S => ReqOf(s, req') = ReqOf(s, req)
         /\ s \in S =>
              /\ SeenOf(s, req') = [r \in Requests |->
                                      IF PhaseOf(s, req)[r] = "open" /\ RepliesOf(s, req)[r] = 0
                                      THEN SeenOf(s, req)[r] \cup {v} ELSE SeenOf(s, req)[r]]
              /\ PhaseOf(s, req') = PhaseOf(s, req) /\ RefsOf(s, req') = RefsOf(s, req)
              /\ RepliesOf(s, req') = RepliesOf(s, req) /\ AnswerOf(s, req') = AnswerOf(s, req)
              /\ FailedOf(s, req') = FailedOf(s, req)
<1>. DEFINE a == ReqOf(s, req)
            b == ReqOf(s, req')
            Adds(r) == req[r].phase = "open" /\ req[r].replies = 0 /\ req[r].to \in S
<1>1. /\ req \in [Requests -> ReqType] /\ NewRequest \in ReqType
      /\ NewRequest.phase = "new"
  BY Constants DEF Types, NewRequest, ReqType
<1>2. \A r \in Requests : /\ req[r] \in ReqType
                          /\ req'[r] = IF Adds(r) THEN [req[r] EXCEPT !.seen = @ \cup {v}] ELSE req[r]
  BY <1>1 DEF Saw, Waiting
<1>3. \A r \in Requests : /\ req'[r].to = req[r].to /\ req'[r].phase = req[r].phase
                          /\ req'[r].refs = req[r].refs /\ req'[r].replies = req[r].replies
                          /\ req'[r].answer = req[r].answer /\ req'[r].failed = req[r].failed
                          /\ req'[r].seen = IF Adds(r) THEN req[r].seen \cup {v} ELSE req[r].seen
  <2>. SUFFICES ASSUME NEW r \in Requests
                PROVE  /\ req'[r].to = req[r].to /\ req'[r].phase = req[r].phase
                       /\ req'[r].refs = req[r].refs /\ req'[r].replies = req[r].replies
                       /\ req'[r].answer = req[r].answer /\ req'[r].failed = req[r].failed
                       /\ req'[r].seen = IF Adds(r) THEN req[r].seen \cup {v} ELSE req[r].seen
    OBVIOUS
  <2>1. CASE Adds(r)
    <3>1. req[r] \in ReqType /\ req'[r] = [req[r] EXCEPT !.seen = @ \cup {v}]
      BY <1>2, <2>1
    <3>2. Adds(r) <=> TRUE
      BY <2>1
    <3>. HIDE DEF Adds
    <3>. QED  BY <3>1, <3>2 DEF ReqType
  <2>2. CASE ~Adds(r)
    BY <1>2, <2>2
  <2>. QED  BY <2>1, <2>2
<1>4. \A r \in Requests : /\ a[r] = IF req[r].to = s THEN req[r] ELSE NewRequest
                          /\ b[r] = IF req[r].to = s THEN req'[r] ELSE NewRequest
  BY <1>3 DEF ReqOf, For
<1>5. CASE s \notin S
  <2>1. \A r \in Requests : a[r] = b[r]
    BY <1>2, <1>4, <1>5
  <2>. QED  BY <1>5, <2>1 DEF ReqOf
<1>6. CASE s \in S
  <2>1. ASSUME NEW r \in Requests
        PROVE
          /\ b[r].phase = a[r].phase /\ b[r].refs = a[r].refs /\ b[r].replies = a[r].replies
          /\ b[r].answer = a[r].answer /\ b[r].failed = a[r].failed
          /\ b[r].seen = IF a[r].phase = "open" /\ a[r].replies = 0 THEN a[r].seen \cup {v}
                         ELSE a[r].seen
    <3>1. CASE req[r].to = s
      <4>1. a[r] = req[r] /\ b[r] = req'[r]
        BY <1>4, <3>1
      <4>2. Adds(r) <=> a[r].phase = "open" /\ a[r].replies = 0
        BY <1>6, <3>1, <4>1
      <4>. HIDE DEF a, b, Adds
      <4>. QED  BY <1>3, <4>1, <4>2
    <3>2. CASE req[r].to # s
      <4>1. a[r] = NewRequest /\ b[r] = NewRequest
        BY <1>4, <3>2
      <4>. HIDE DEF a, b
      <4>. QED  BY <1>1, <4>1
    <3>. QED  BY <3>1, <3>2
  <2>. HIDE DEF a, b, Adds
  <2>2. PhaseOf(s, req') = PhaseOf(s, req) /\ RefsOf(s, req') = RefsOf(s, req)
    BY <2>1 DEF PhaseOf, RefsOf, a, b
  <2>3. RepliesOf(s, req') = RepliesOf(s, req) /\ AnswerOf(s, req') = AnswerOf(s, req)
    BY <2>1 DEF RepliesOf, AnswerOf, a, b
  <2>4. FailedOf(s, req') = FailedOf(s, req)
    BY <2>1 DEF FailedOf, a, b
  <2>5. SeenOf(s, req') = [r \in Requests |->
                             IF PhaseOf(s, req)[r] = "open" /\ RepliesOf(s, req)[r] = 0
                             THEN SeenOf(s, req)[r] \cup {v} ELSE SeenOf(s, req)[r]]
    BY <2>1 DEF SeenOf, PhaseOf, RepliesOf, a, b
  <2>. QED  BY <1>6, <2>2, <2>3, <2>4, <2>5
<1>. QED  BY <1>5, <1>6

\* What a sensor sees of the API thread.
LEMMA ApiSeen ==
  ASSUME Inv, NEW s \in Sensors
  PROVE  /\ ApiOf(s, api) \in Sensor(s)!ApiType
         /\ api.to = s => /\ ApiOf(s, api).pc = api.pc /\ ApiOf(s, api).req = api.req
                          /\ ApiOf(s, api).query = api.query /\ ApiOf(s, api).tmp = api.tmp
         /\ ApiOf(s, ApiIdle) = Sensor(s)!ApiIdle
         /\ ApiOf(s, ApiIdle).pc = "idle"
         /\ \A x : x.to # s => ApiOf(s, x) = ApiOf(s, ApiIdle)
<1>1. ApiIdle.to # s /\ s # Config
  BY SensorNumbers DEF Inv, Config, ApiIdle
<1>2. /\ api.to = s => /\ ApiOf(s, api).pc = api.pc /\ ApiOf(s, api).req = api.req
                       /\ ApiOf(s, api).query = api.query /\ ApiOf(s, api).tmp = api.tmp
  BY DEF ApiOf, For
<1>3. ApiOf(s, ApiIdle) = [pc |-> "idle", req |-> Nobody, query |-> NoQuery, tmp |-> {}]
  BY DEF ApiOf, For, ApiIdle
<1>4. Sensor(s)!ApiIdle = [pc |-> "idle", req |-> Nobody, query |-> NoQuery, tmp |-> {}]
  BY DEF Sensor!ApiIdle, Sensor!NoQuery, NoQuery
<1>5. \A x : x.to # s => ApiOf(s, x) = ApiOf(s, ApiIdle)
  BY DEF ApiOf, For
<1>. QED  BY <1>2, <1>3, <1>4, <1>5, HandlerViews

\* The handler goes on to p with t to store.
Stores(p, t) == api' = [api EXCEPT !.pc = p, !.tmp = t]
StoresView(s, p, t) == [ApiOf(s, api) EXCEPT !.pc = p, !.tmp = t]

LEMMA ApiMoves ==
  ASSUME Inv, NEW s \in Sensors, api.to = s,
         NEW p \in {"store", "use", "subscribe", "return", "terminated"}
  PROVE  /\ api' = [api EXCEPT !.pc = p] => ApiOf(s, api') = [ApiOf(s, api) EXCEPT !.pc = p]
         /\ \A t \in Values : Stores(p, t) => ApiOf(s, api') = StoresView(s, p, t)
<1>1. PICK a \in Sensor(s)!ApiType : a = ApiOf(s, api)
  BY ApiSeen
<1>2. /\ a.req = api.req /\ a.query = api.query /\ a.tmp = api.tmp
      /\ api \in ApiType /\ api.to = s
  BY <1>1, ApiSeen DEF Inv, Types
<1>3. \A x : x.to = s => ApiOf(s, x) = [pc |-> x.pc, req |-> x.req, query |-> x.query, tmp |-> x.tmp]
  BY DEF ApiOf, For
<1>4. [a EXCEPT !.pc = p] = [pc |-> p, req |-> a.req, query |-> a.query, tmp |-> a.tmp]
  BY DEF Sensor!ApiType
<1>5. ASSUME NEW t \in Values
      PROVE  [a EXCEPT !.pc = p, !.tmp = t] = [pc |-> p, req |-> a.req, query |-> a.query, tmp |-> t]
  <2>1. PICK b \in Sensor(s)!ApiType : b = [a EXCEPT !.pc = p]
    BY DEF Sensor!ApiType
  <2>2. b.pc = p /\ b.req = a.req /\ b.query = a.query
    BY <2>1 DEF Sensor!ApiType
  <2>3. [b EXCEPT !.tmp = t] = [pc |-> b.pc, req |-> b.req, query |-> b.query, tmp |-> t]
    BY DEF Sensor!ApiType
  <2>. QED  BY <2>1, <2>2, <2>3
<1>6. ASSUME api' = [api EXCEPT !.pc = p]
      PROVE  ApiOf(s, api') = [ApiOf(s, api) EXCEPT !.pc = p]
  <2>1. /\ api'.to = s /\ api'.pc = p /\ api'.req = api.req /\ api'.query = api.query
        /\ api'.tmp = api.tmp
    BY <1>2, <1>6 DEF ApiType
  <2>. QED  BY <1>1, <1>2, <1>3, <1>4, <2>1
<1>7. ASSUME NEW t \in Values, Stores(p, t)
      PROVE  ApiOf(s, api') = StoresView(s, p, t)
  <2>1. /\ api'.to = s /\ api'.pc = p /\ api'.req = api.req /\ api'.query = api.query
        /\ api'.tmp = t
    BY <1>2, <1>7 DEF Stores, ApiType
  <2>2. ApiOf(s, api') = [pc |-> p, req |-> a.req, query |-> a.query, tmp |-> t]
    BY <1>2, <1>3, <2>1
  <2>. QED  BY <1>1, <1>5, <2>2 DEF StoresView
<1>. QED  BY <1>6, <1>7

\* What is left alone on both sides.
LEMMA RestSeen ==
  ASSUME NEW s \in Sensors
  PROVE  /\ config' = config => table' = table
         /\ sdoq' = sdoq => OpsOf(s, sdoq') = OpsOf(s, sdoq)
         /\ done' = done => EndedOf(s, done') = EndedOf(s, done)
         /\ api' = api => ApiOf(s, api') = ApiOf(s, api)
         /\ loop' = loop => LoopOf(s, loop') = LoopOf(s, loop)
         /\ req' = req => ReqOf(s, req') = ReqOf(s, req)
         /\ ReqOf(s, req') = ReqOf(s, req) =>
              /\ PhaseOf(s, req') = PhaseOf(s, req) /\ RefsOf(s, req') = RefsOf(s, req)
              /\ RepliesOf(s, req') = RepliesOf(s, req) /\ AnswerOf(s, req') = AnswerOf(s, req)
              /\ SeenOf(s, req') = SeenOf(s, req) /\ FailedOf(s, req') = FailedOf(s, req)
BY DEF table, PhaseOf, RefsOf, RepliesOf, AnswerOf, SeenOf, FailedOf

\* One field of a sensor that is written.
LEMMA SensSeen ==
  ASSUME Types, NEW s \in Sensors
  PROVE  /\ sens[s] \in SensType
         /\ \A v : sens' = [sens EXCEPT ![s].val = v] =>
              /\ sens'[s].val = v /\ sens'[s].active = sens[s].active
              /\ sens'[s].listeners = sens[s].listeners /\ sens'[s].written = sens[s].written
         /\ \A v : sens' = [sens EXCEPT ![s].active = v] =>
              /\ sens'[s].val = sens[s].val /\ sens'[s].active = v
              /\ sens'[s].listeners = sens[s].listeners /\ sens'[s].written = sens[s].written
         /\ \A v : sens' = [sens EXCEPT ![s].listeners = v] =>
              /\ sens'[s].val = sens[s].val /\ sens'[s].active = sens[s].active
              /\ sens'[s].listeners = v /\ sens'[s].written = sens[s].written
         /\ \A v : sens' = [sens EXCEPT ![s].written = v] =>
              /\ sens'[s].val = sens[s].val /\ sens'[s].active = sens[s].active
              /\ sens'[s].listeners = sens[s].listeners /\ sens'[s].written = v
<1>1. sens \in [Sensors -> SensType] /\ sens[s] \in SensType
  BY DEF Types
<1>2. \A v : sens' = [sens EXCEPT ![s].val = v] =>
              /\ sens'[s].val = v /\ sens'[s].active = sens[s].active
              /\ sens'[s].listeners = sens[s].listeners /\ sens'[s].written = sens[s].written
  BY <1>1 DEF SensType
<1>3. \A v : sens' = [sens EXCEPT ![s].active = v] =>
              /\ sens'[s].val = sens[s].val /\ sens'[s].active = v
              /\ sens'[s].listeners = sens[s].listeners /\ sens'[s].written = sens[s].written
  BY <1>1 DEF SensType
<1>4. \A v : sens' = [sens EXCEPT ![s].listeners = v] =>
              /\ sens'[s].val = sens[s].val /\ sens'[s].active = sens[s].active
              /\ sens'[s].listeners = v /\ sens'[s].written = sens[s].written
  BY <1>1 DEF SensType
<1>5. \A v : sens' = [sens EXCEPT ![s].written = v] =>
              /\ sens'[s].val = sens[s].val /\ sens'[s].active = sens[s].active
              /\ sens'[s].listeners = sens[s].listeners /\ sens'[s].written = v
  BY <1>1 DEF SensType
<1>. QED  BY <1>1, <1>2, <1>3, <1>4, <1>5

\* An operation submitted for the sensor t, as s sees it.
LEMMA SubmitSeen ==
  ASSUME Types, NEW s \in Sensors, NEW t \in Sensors, NEW op \in {"read", "write"},
         NEW owner \in Holders, NEW val \in Values, NEW from \in Holders
  PROVE  OpsOf(s, Append(sdoq, SdoOp(op, t, owner, val, from)))
           = IF t = s THEN Append(OpsOf(s, sdoq), [op |-> op, owner |-> owner, val |-> val])
             ELSE OpsOf(s, sdoq)
<1>. DEFINE o == SdoOp(op, t, owner, val, from)
<1>1. /\ o \in OpType /\ o.to = t
      /\ OpSeen(o) = [op |-> op, owner |-> owner, val |-> val]
  BY SubmittedOp
<1>2. sdoq \in Seq(OpType)
  BY DEF Types
<1>. HIDE DEF o
<1>3. OpsOf(s, Append(sdoq, o)) = IF o.to = s THEN Append(OpsOf(s, sdoq), OpSeen(o))
                                  ELSE OpsOf(s, sdoq)
  BY <1>1, <1>2, OpsAppend
<1>4. OpsOf(s, Append(sdoq, o))
        = IF t = s THEN Append(OpsOf(s, sdoq), [op |-> op, owner |-> owner, val |-> val])
          ELSE OpsOf(s, sdoq)
  BY <1>1, <1>3
<1>. QED  BY <1>4 DEF o

\* The handler of a sensor's verb does to the slave what it does to the sensor.
LEMMA OwnRefuse ==
  ASSUME Inv, NEW s \in Sensors, api.to = s, api.req \in Requests, req[api.req].to = s, Refuse
  PROVE  Sensor(s)!Refuse
<1>1. /\ api.pc = "dispatch" /\ Sensor(s)!Refused
      /\ req' = Answered(api.req, "error", {})
      /\ api' = [api EXCEPT !.pc = "return"]
      /\ UNCHANGED <<config, connected, sens, cell, sdoq, done, loop>>
  BY DEF Refuse, me, slave
<1>2. {} \in Values /\ Types
  BY Constants DEF Inv
<1>3. /\ RepliesOf(s, req') = [RepliesOf(s, req) EXCEPT ![api.req] = @ + 1]
      /\ AnswerOf(s, req') =
           [AnswerOf(s, req) EXCEPT ![api.req] = [status |-> "error", val |-> {}]]
      /\ PhaseOf(s, req') = PhaseOf(s, req) /\ RefsOf(s, req') = RefsOf(s, req)
      /\ SeenOf(s, req') = SeenOf(s, req) /\ FailedOf(s, req') = FailedOf(s, req)
  BY <1>1, <1>2, AnsweredSeen
<1>4. /\ ApiOf(s, api).pc = "dispatch" /\ ApiOf(s, api).req = api.req
      /\ ApiOf(s, api') = [ApiOf(s, api) EXCEPT !.pc = "return"]
  <2>1. /\ ApiOf(s, api).pc = "dispatch" /\ ApiOf(s, api).req = api.req
    BY <1>1, ApiSeen
  <2>2. ApiOf(s, api') = [ApiOf(s, api) EXCEPT !.pc = "return"]
    BY <1>1, ApiMoves
  <2>. QED  BY <2>1, <2>2
<1>5. /\ table' = table /\ OpsOf(s, sdoq') = OpsOf(s, sdoq)
      /\ EndedOf(s, done') = EndedOf(s, done) /\ LoopOf(s, loop') = LoopOf(s, loop)
  BY <1>1, RestSeen
<1>. QED  BY <1>1, <1>3, <1>4, <1>5 DEF Sensor!Refuse, Sensor!Reply

LEMMA OwnEncodeWrite ==
  ASSUME Inv, NEW s \in Sensors, api.to = s, EncodeWrite
  PROVE  Sensor(s)!EncodeWrite
<1>. DEFINE t == Sensor(s)!Encode(api.query.data, sens[s].val)
<1>1. /\ api.pc = "dispatch" /\ api.query.action = "write" /\ ~Sensor(s)!Refused
      /\ api.query.data.how # "bad"
      /\ api' = [api EXCEPT !.pc = "store", !.tmp = t]
      /\ UNCHANGED <<config, connected, sens, cell, sdoq, done, loop, req>>
  BY DEF EncodeWrite, Dispatching, me, slave, Sensor!Refused, Sensor!CanEncode, Sensor!CanDecode,
         Sensor!Encode
<1>2. t \in Values
  <2>1. api.query \in QueryType /\ sens[s].val \in Values
    BY Constants DEF Inv, Types, ApiType, SensType
  <2>2. api.query.data \in DataType
    BY <2>1 DEF QueryType, DataType
  <2>. QED  BY <1>1, <2>1, <2>2, EncodeValue
<1>. HIDE DEF t
<1>3. /\ ApiOf(s, api).pc = "dispatch" /\ ApiOf(s, api).query = api.query
      /\ ApiOf(s, api') = [ApiOf(s, api) EXCEPT !.pc = "store", !.tmp = t]
  <2>1. /\ ApiOf(s, api).pc = "dispatch" /\ ApiOf(s, api).query = api.query
    BY <1>1, ApiSeen
  <2>2. Stores("store", t)
    BY <1>1 DEF Stores
  <2>3. ApiOf(s, api') = StoresView(s, "store", t)
    BY <1>2, <2>2, ApiMoves
  <2>. QED  BY <2>1, <2>3 DEF StoresView
<1>4. /\ table' = table /\ OpsOf(s, sdoq') = OpsOf(s, sdoq)
      /\ EndedOf(s, done') = EndedOf(s, done) /\ LoopOf(s, loop') = LoopOf(s, loop)
      /\ PhaseOf(s, req') = PhaseOf(s, req) /\ RefsOf(s, req') = RefsOf(s, req)
      /\ RepliesOf(s, req') = RepliesOf(s, req) /\ AnswerOf(s, req') = AnswerOf(s, req)
      /\ SeenOf(s, req') = SeenOf(s, req) /\ FailedOf(s, req') = FailedOf(s, req)
  BY <1>1, RestSeen
<1>. QED  BY <1>1, <1>3, <1>4
          DEF Sensor!EncodeWrite, Sensor!Dispatching, Sensor!requestState, t

LEMMA OwnEncodeThrows ==
  ASSUME Inv, NEW s \in Sensors, api.to = s, EncodeThrows
  PROVE  Sensor(s)!EncodeThrows
<1>1. /\ api.pc = "dispatch" /\ api.query.action = "write" /\ ~Sensor(s)!Refused
      /\ api.query.data.how = "bad"
      /\ api' = [api EXCEPT !.pc = "terminated"]
      /\ UNCHANGED <<config, connected, sens, cell, sdoq, done, loop, req>>
  BY DEF EncodeThrows, Dispatching, me, slave, Sensor!Refused, Sensor!CanEncode,
         Sensor!CanDecode
<1>2. /\ ApiOf(s, api).pc = "dispatch" /\ ApiOf(s, api).query = api.query
      /\ ApiOf(s, api') = [ApiOf(s, api) EXCEPT !.pc = "terminated"]
  <2>1. /\ ApiOf(s, api).pc = "dispatch" /\ ApiOf(s, api).query = api.query
    BY <1>1, ApiSeen
  <2>2. ApiOf(s, api') = [ApiOf(s, api) EXCEPT !.pc = "terminated"]
    BY <1>1, ApiMoves
  <2>. QED  BY <2>1, <2>2
<1>3. /\ table' = table /\ OpsOf(s, sdoq') = OpsOf(s, sdoq)
      /\ EndedOf(s, done') = EndedOf(s, done) /\ LoopOf(s, loop') = LoopOf(s, loop)
      /\ PhaseOf(s, req') = PhaseOf(s, req) /\ RefsOf(s, req') = RefsOf(s, req)
      /\ RepliesOf(s, req') = RepliesOf(s, req) /\ AnswerOf(s, req') = AnswerOf(s, req)
      /\ SeenOf(s, req') = SeenOf(s, req) /\ FailedOf(s, req') = FailedOf(s, req)
  BY <1>1, RestSeen
<1>. QED  BY <1>1, <1>2, <1>3
          DEF Sensor!EncodeThrows, Sensor!Dispatching, Sensor!requestState

LEMMA OwnFetchRpdo ==
  ASSUME Inv, NEW s \in Sensors, api.to = s, FetchRpdo
  PROVE  Sensor(s)!FetchRpdo
<1>. DEFINE t == cell[<<table[s].kind, table[s].id>>]
<1>1. /\ api.pc = "dispatch" /\ api.query.action = "read" /\ ~Sensor(s)!Refused
      /\ table[s].kind = "RPDO"
      /\ api' = [api EXCEPT !.pc = "store", !.tmp = t]
      /\ UNCHANGED <<config, connected, sens, cell, sdoq, done, loop, req>>
  BY DEF FetchRpdo, Dispatching, me, slave, Kind, Cell, Sensor!Refused, Sensor!CanEncode,
         Sensor!CanDecode
<1>2. t \in Values
  BY SensorNumbers DEF Inv, Types
<1>. HIDE DEF t
<1>3. /\ ApiOf(s, api).pc = "dispatch" /\ ApiOf(s, api).query = api.query
      /\ ApiOf(s, api') = [ApiOf(s, api) EXCEPT !.pc = "store", !.tmp = t]
  <2>1. /\ ApiOf(s, api).pc = "dispatch" /\ ApiOf(s, api).query = api.query
    BY <1>1, ApiSeen
  <2>2. Stores("store", t)
    BY <1>1 DEF Stores
  <2>3. ApiOf(s, api') = StoresView(s, "store", t)
    BY <1>2, <2>2, ApiMoves
  <2>. QED  BY <2>1, <2>3 DEF StoresView
<1>4. /\ table' = table /\ OpsOf(s, sdoq') = OpsOf(s, sdoq)
      /\ EndedOf(s, done') = EndedOf(s, done) /\ LoopOf(s, loop') = LoopOf(s, loop)
      /\ PhaseOf(s, req') = PhaseOf(s, req) /\ RefsOf(s, req') = RefsOf(s, req)
      /\ RepliesOf(s, req') = RepliesOf(s, req) /\ AnswerOf(s, req') = AnswerOf(s, req)
      /\ SeenOf(s, req') = SeenOf(s, req) /\ FailedOf(s, req') = FailedOf(s, req)
  BY <1>1, RestSeen
<1>. QED  BY <1>1, <1>3, <1>4
          DEF Sensor!FetchRpdo, Sensor!ReadCB, Sensor!Dispatching, Sensor!requestState, t

LEMMA OwnStore ==
  ASSUME Inv, NEW s \in Sensors, api.to = s, Store
  PROVE  Sensor(s)!Store
<1>1. /\ api.pc = "store" /\ sens' = [sens EXCEPT ![s].val = api.tmp]
      /\ api' = [api EXCEPT !.pc = "use"]
      /\ IF api.query.action = "write" THEN Saw({s}, api.tmp) ELSE UNCHANGED req
      /\ UNCHANGED <<config, connected, cell, sdoq, done, loop>>
  BY DEF Store, me, slave
<1>2. Types /\ api.tmp \in Values
  BY DEF Inv, Types, ApiType
<1>3. /\ IF api.query.action = "write"
         THEN SeenOf(s, req') = [r \in Requests |->
                                   IF PhaseOf(s, req)[r] = "open" /\ RepliesOf(s, req)[r] = 0
                                   THEN SeenOf(s, req)[r] \cup {api.tmp} ELSE SeenOf(s, req)[r]]
         ELSE SeenOf(s, req') = SeenOf(s, req)
      /\ PhaseOf(s, req') = PhaseOf(s, req) /\ RefsOf(s, req') = RefsOf(s, req)
      /\ RepliesOf(s, req') = RepliesOf(s, req) /\ AnswerOf(s, req') = AnswerOf(s, req)
      /\ FailedOf(s, req') = FailedOf(s, req)
  <2>1. CASE api.query.action = "write"
    <3>1. Saw({s}, api.tmp) /\ s \in {s}
      BY <1>1, <2>1
    <3>. QED  BY <1>2, <2>1, <3>1, SawSeen
  <2>2. CASE api.query.action # "write"
    <3>1. req' = req
      BY <1>1, <2>2
    <3>. QED  BY <2>2, <3>1, RestSeen
  <2>. QED  BY <2>1, <2>2
<1>4. /\ ApiOf(s, api).pc = "store" /\ ApiOf(s, api).query = api.query
      /\ ApiOf(s, api).tmp = api.tmp
      /\ ApiOf(s, api') = [ApiOf(s, api) EXCEPT !.pc = "use"]
  <2>1. /\ ApiOf(s, api).pc = "store" /\ ApiOf(s, api).query = api.query
        /\ ApiOf(s, api).tmp = api.tmp
    BY <1>1, ApiSeen
  <2>2. ApiOf(s, api') = [ApiOf(s, api) EXCEPT !.pc = "use"]
    BY <1>1, ApiMoves
  <2>. QED  BY <2>1, <2>2
<1>5. /\ table' = table /\ OpsOf(s, sdoq') = OpsOf(s, sdoq)
      /\ EndedOf(s, done') = EndedOf(s, done) /\ LoopOf(s, loop') = LoopOf(s, loop)
  BY <1>1, RestSeen
<1>6. /\ sens'[s].val = api.tmp /\ sens'[s].active = sens[s].active
      /\ sens'[s].listeners = sens[s].listeners /\ sens'[s].written = sens[s].written
  BY <1>1, <1>2, SensSeen
<1>. QED  BY <1>1, <1>3, <1>4, <1>5, <1>6 DEF Sensor!Store, Sensor!Saw, Sensor!Waiting

LEMMA OwnEmitWrite ==
  ASSUME Inv, NEW s \in Sensors, api.to = s, api.req \in Requests, req[api.req].to = s, EmitWrite
  PROVE  Sensor(s)!EmitWrite
<1>. DEFINE o == SdoOp("write", s, Nobody, sens[s].val, api.req)
            c == <<table[s].kind, table[s].id>>
<1>1. /\ api.pc = "use" /\ api.query.action = "write"
      /\ IF table[s].kind = "TPDO" THEN cell' = [cell EXCEPT ![c] = sens[s].val] /\ UNCHANGED sdoq
         ELSE sdoq' = Append(sdoq, o) /\ UNCHANGED cell
      /\ sens' = [sens EXCEPT ![s].written = TRUE]
      /\ req' = Answered(api.req, "ok", {})
      /\ api' = [api EXCEPT !.pc = "return"]
      /\ UNCHANGED <<config, connected, done, loop>>
  BY DEF EmitWrite, me, slave, Kind, Cell
<1>2. /\ {} \in Values /\ Types /\ sens[s].val \in Values
      /\ sdoq \in Seq(OpType) /\ cell \in [Kinds \X Ids -> Values] /\ c \in Kinds \X Ids
  BY Constants, SensorNumbers DEF Inv, Types, SensType
<1>3. /\ RepliesOf(s, req') = [RepliesOf(s, req) EXCEPT ![api.req] = @ + 1]
      /\ AnswerOf(s, req') =
           [AnswerOf(s, req) EXCEPT ![api.req] = [status |-> "ok", val |-> {}]]
      /\ PhaseOf(s, req') = PhaseOf(s, req) /\ RefsOf(s, req') = RefsOf(s, req)
      /\ SeenOf(s, req') = SeenOf(s, req) /\ FailedOf(s, req') = FailedOf(s, req)
  BY <1>1, <1>2, AnsweredSeen
<1>4. /\ ApiOf(s, api).pc = "use" /\ ApiOf(s, api).req = api.req
      /\ ApiOf(s, api).query = api.query
      /\ ApiOf(s, api') = [ApiOf(s, api) EXCEPT !.pc = "return"]
  <2>1. /\ ApiOf(s, api).pc = "use" /\ ApiOf(s, api).req = api.req
        /\ ApiOf(s, api).query = api.query
    BY <1>1, ApiSeen
  <2>2. ApiOf(s, api') = [ApiOf(s, api) EXCEPT !.pc = "return"]
    BY <1>1, ApiMoves
  <2>. QED  BY <2>1, <2>2
<1>5. /\ table' = table
      /\ EndedOf(s, done') = EndedOf(s, done) /\ LoopOf(s, loop') = LoopOf(s, loop)
  BY <1>1, RestSeen
<1>6. /\ sens'[s].val = sens[s].val /\ sens'[s].active = sens[s].active
      /\ sens'[s].listeners = sens[s].listeners /\ sens'[s].written = TRUE
  BY <1>1, <1>2, SensSeen
<1>7. IF table[s].kind = "TPDO"
      THEN cell'[c] = sens[s].val /\ OpsOf(s, sdoq') = OpsOf(s, sdoq)
      ELSE /\ OpsOf(s, sdoq') = Append(OpsOf(s, sdoq),
                                       [op |-> "write", owner |-> Nobody, val |-> sens[s].val])
           /\ cell'[c] = cell[c]
  <2>1. CASE table[s].kind = "TPDO"
    BY <1>1, <1>2, <2>1
  <2>2. CASE table[s].kind # "TPDO"
    <3>1. sdoq' = Append(sdoq, o) /\ cell' = cell
      BY <1>1, <2>2
    <3>2. Nobody \in Holders /\ api.req \in Holders
      BY DEF Holders
    <3>3. \A val \in Values, from \in Holders :
            OpsOf(s, Append(sdoq, SdoOp("write", s, Nobody, val, from)))
              = Append(OpsOf(s, sdoq), [op |-> "write", owner |-> Nobody, val |-> val])
      BY <1>2, <3>2, SubmitSeen
    <3>. QED  BY <1>2, <2>2, <3>1, <3>2, <3>3
  <2>. QED  BY <2>1, <2>2
<1>. HIDE DEF o
<1>. QED  BY <1>1, <1>3, <1>4, <1>5, <1>6, <1>7 DEF Sensor!EmitWrite, Sensor!Reply

LEMMA OwnReplyRead ==
  ASSUME Inv, NEW s \in Sensors, api.to = s, api.req \in Requests, req[api.req].to = s, ReplyRead
  PROVE  Sensor(s)!ReplyRead
<1>1. /\ api.pc = "use" /\ api.query.action = "read"
      /\ req' = Answered(api.req, "value", sens[s].val)
      /\ api' = [api EXCEPT !.pc = "return"]
      /\ UNCHANGED <<config, connected, sens, cell, sdoq, done, loop>>
  BY DEF ReplyRead, me, slave
<1>2. Types /\ sens[s].val \in Values
  BY DEF Inv, Types, SensType
<1>3. /\ RepliesOf(s, req') = [RepliesOf(s, req) EXCEPT ![api.req] = @ + 1]
      /\ AnswerOf(s, req') =
           [AnswerOf(s, req) EXCEPT ![api.req] = [status |-> "value", val |-> sens[s].val]]
      /\ PhaseOf(s, req') = PhaseOf(s, req) /\ RefsOf(s, req') = RefsOf(s, req)
      /\ SeenOf(s, req') = SeenOf(s, req) /\ FailedOf(s, req') = FailedOf(s, req)
  <2>1. \A val \in Values : req' = Answered(api.req, "value", val) =>
          /\ RepliesOf(s, req') = [RepliesOf(s, req) EXCEPT ![api.req] = @ + 1]
          /\ AnswerOf(s, req') =
               [AnswerOf(s, req) EXCEPT ![api.req] = [status |-> "value", val |-> val]]
          /\ PhaseOf(s, req') = PhaseOf(s, req) /\ RefsOf(s, req') = RefsOf(s, req)
          /\ SeenOf(s, req') = SeenOf(s, req) /\ FailedOf(s, req') = FailedOf(s, req)
    BY <1>2, AnsweredSeen
  <2>. QED  BY <1>1, <1>2, <2>1
<1>4. /\ ApiOf(s, api).pc = "use" /\ ApiOf(s, api).req = api.req
      /\ ApiOf(s, api).query = api.query
      /\ ApiOf(s, api') = [ApiOf(s, api) EXCEPT !.pc = "return"]
  <2>1. /\ ApiOf(s, api).pc = "use" /\ ApiOf(s, api).req = api.req
        /\ ApiOf(s, api).query = api.query
    BY <1>1, ApiSeen
  <2>2. ApiOf(s, api') = [ApiOf(s, api) EXCEPT !.pc = "return"]
    BY <1>1, ApiMoves
  <2>. QED  BY <2>1, <2>2
<1>5. /\ table' = table /\ OpsOf(s, sdoq') = OpsOf(s, sdoq)
      /\ EndedOf(s, done') = EndedOf(s, done) /\ LoopOf(s, loop') = LoopOf(s, loop)
  BY <1>1, RestSeen
<1>. QED  BY <1>1, <1>3, <1>4, <1>5 DEF Sensor!ReplyRead, Sensor!Reply

LEMMA OwnReadSdo ==
  ASSUME Inv, NEW s \in Sensors, api.to = s, api.req \in Requests, req[api.req].to = s, ReadSdo
  PROVE  Sensor(s)!ReadSdo
<1>. DEFINE o == SdoOp("read", s, api.req, {}, api.req)
<1>1. /\ api.pc = "dispatch" /\ api.query.action = "read" /\ ~Sensor(s)!Refused
      /\ table[s].kind = "SDO" /\ Addref(api.req) /\ sdoq' = Append(sdoq, o)
      /\ api' = [api EXCEPT !.pc = "return"]
      /\ UNCHANGED <<config, connected, sens, cell, done, loop>>
  BY DEF ReadSdo, Dispatching, me, slave, Kind, Addref, Sensor!Refused, Sensor!CanEncode,
         Sensor!CanDecode
<1>2. {} \in Values /\ Types /\ sdoq \in Seq(OpType)
  BY Constants DEF Inv, Types
<1>3. /\ RefsOf(s, req') = [RefsOf(s, req) EXCEPT ![api.req] = @ + 1]
      /\ PhaseOf(s, req') = PhaseOf(s, req) /\ RepliesOf(s, req') = RepliesOf(s, req)
      /\ AnswerOf(s, req') = AnswerOf(s, req) /\ SeenOf(s, req') = SeenOf(s, req)
      /\ FailedOf(s, req') = FailedOf(s, req)
  BY <1>1, <1>2, HeldSeen
<1>4. /\ ApiOf(s, api).pc = "dispatch" /\ ApiOf(s, api).req = api.req
      /\ ApiOf(s, api).query = api.query
      /\ ApiOf(s, api') = [ApiOf(s, api) EXCEPT !.pc = "return"]
  <2>1. /\ ApiOf(s, api).pc = "dispatch" /\ ApiOf(s, api).req = api.req
        /\ ApiOf(s, api).query = api.query
    BY <1>1, ApiSeen
  <2>2. ApiOf(s, api') = [ApiOf(s, api) EXCEPT !.pc = "return"]
    BY <1>1, ApiMoves
  <2>. QED  BY <2>1, <2>2
<1>5. /\ table' = table
      /\ EndedOf(s, done') = EndedOf(s, done) /\ LoopOf(s, loop') = LoopOf(s, loop)
  BY <1>1, RestSeen
<1>6. OpsOf(s, sdoq') = Append(OpsOf(s, sdoq), [op |-> "read", owner |-> api.req, val |-> {}])
  <2>1. api.req \in Holders
    BY DEF Holders
  <2>2. \A owner, from \in Holders, val \in Values :
          OpsOf(s, Append(sdoq, SdoOp("read", s, owner, val, from)))
            = Append(OpsOf(s, sdoq), [op |-> "read", owner |-> owner, val |-> val])
    <3>. HIDE DEF o
    <3>. QED  BY <1>2, SubmitSeen
  <2>. QED  BY <1>1, <1>2, <2>1, <2>2
<1>. HIDE DEF o
<1>. QED  BY <1>1, <1>3, <1>4, <1>5, <1>6 DEF Sensor!ReadSdo, Sensor!Dispatching, Sensor!Addref

LEMMA OwnSubscribeMark ==
  ASSUME Inv, NEW s \in Sensors, api.to = s, SubscribeMark
  PROVE  Sensor(s)!SubscribeMark
<1>1. /\ api.pc = "dispatch" /\ api.query.action = "subscribe" /\ ~Sensor(s)!Refused
      /\ sens' = [sens EXCEPT ![s].active = TRUE]
      /\ api' = [api EXCEPT !.pc = "subscribe"]
      /\ UNCHANGED <<config, connected, cell, sdoq, done, loop, req>>
  BY DEF SubscribeMark, Dispatching, me, slave, Sensor!Refused, Sensor!CanEncode,
         Sensor!CanDecode
<1>2. /\ ApiOf(s, api).pc = "dispatch" /\ ApiOf(s, api).query = api.query
      /\ ApiOf(s, api') = [ApiOf(s, api) EXCEPT !.pc = "subscribe"]
  <2>1. /\ ApiOf(s, api).pc = "dispatch" /\ ApiOf(s, api).query = api.query
    BY <1>1, ApiSeen
  <2>2. ApiOf(s, api') = [ApiOf(s, api) EXCEPT !.pc = "subscribe"]
    BY <1>1, ApiMoves
  <2>. QED  BY <2>1, <2>2
<1>3. /\ table' = table /\ OpsOf(s, sdoq') = OpsOf(s, sdoq)
      /\ EndedOf(s, done') = EndedOf(s, done) /\ LoopOf(s, loop') = LoopOf(s, loop)
      /\ PhaseOf(s, req') = PhaseOf(s, req) /\ RefsOf(s, req') = RefsOf(s, req)
      /\ RepliesOf(s, req') = RepliesOf(s, req) /\ AnswerOf(s, req') = AnswerOf(s, req)
      /\ SeenOf(s, req') = SeenOf(s, req) /\ FailedOf(s, req') = FailedOf(s, req)
  BY <1>1, RestSeen
<1>4. /\ sens'[s].val = sens[s].val /\ sens'[s].active = TRUE
      /\ sens'[s].listeners = sens[s].listeners /\ sens'[s].written = sens[s].written
  BY <1>1, SensSeen DEF Inv
<1>. QED  BY <1>1, <1>2, <1>3, <1>4
          DEF Sensor!SubscribeMark, Sensor!Dispatching, Sensor!requestState

LEMMA OwnSubscribeAdd ==
  ASSUME Inv, NEW s \in Sensors, api.to = s, api.req \in Requests, req[api.req].to = s,
         SubscribeAdd
  PROVE  Sensor(s)!SubscribeAdd
<1>1. /\ api.pc = "subscribe"
      /\ \/ /\ sens' = [sens EXCEPT ![s].listeners = @ \cup {api.query.client}]
            /\ req' = Answered(api.req, "ok", {})
         \/ UNCHANGED sens /\ req' = Answered(api.req, "error", {})
      /\ api' = [api EXCEPT !.pc = "return"]
      /\ UNCHANGED <<config, connected, cell, sdoq, done, loop>>
  BY DEF SubscribeAdd, me, slave
<1>2. {} \in Values /\ Types
  BY Constants DEF Inv
<1>3. ASSUME req' = Answered(api.req, "ok", {})
      PROVE  /\ RepliesOf(s, req') = [RepliesOf(s, req) EXCEPT ![api.req] = @ + 1]
             /\ AnswerOf(s, req') =
                  [AnswerOf(s, req) EXCEPT ![api.req] = [status |-> "ok", val |-> {}]]
             /\ PhaseOf(s, req') = PhaseOf(s, req) /\ RefsOf(s, req') = RefsOf(s, req)
             /\ SeenOf(s, req') = SeenOf(s, req) /\ FailedOf(s, req') = FailedOf(s, req)
  BY <1>2, <1>3, AnsweredSeen
<1>4. ASSUME req' = Answered(api.req, "error", {})
      PROVE  /\ RepliesOf(s, req') = [RepliesOf(s, req) EXCEPT ![api.req] = @ + 1]
             /\ AnswerOf(s, req') =
                  [AnswerOf(s, req) EXCEPT ![api.req] = [status |-> "error", val |-> {}]]
             /\ PhaseOf(s, req') = PhaseOf(s, req) /\ RefsOf(s, req') = RefsOf(s, req)
             /\ SeenOf(s, req') = SeenOf(s, req) /\ FailedOf(s, req') = FailedOf(s, req)
  BY <1>2, <1>4, AnsweredSeen
<1>5. /\ ApiOf(s, api).pc = "subscribe" /\ ApiOf(s, api).req = api.req
      /\ ApiOf(s, api).query = api.query
      /\ ApiOf(s, api') = [ApiOf(s, api) EXCEPT !.pc = "return"]
  <2>1. /\ ApiOf(s, api).pc = "subscribe" /\ ApiOf(s, api).req = api.req
        /\ ApiOf(s, api).query = api.query
    BY <1>1, ApiSeen
  <2>2. ApiOf(s, api') = [ApiOf(s, api) EXCEPT !.pc = "return"]
    BY <1>1, ApiMoves
  <2>. QED  BY <2>1, <2>2
<1>6. /\ table' = table /\ OpsOf(s, sdoq') = OpsOf(s, sdoq)
      /\ EndedOf(s, done') = EndedOf(s, done) /\ LoopOf(s, loop') = LoopOf(s, loop)
  BY <1>1, RestSeen
<1>7. CASE /\ sens' = [sens EXCEPT ![s].listeners = @ \cup {api.query.client}]
           /\ req' = Answered(api.req, "ok", {})
  <2>1. sens' = [sens EXCEPT ![s].listeners = sens[s].listeners \cup {api.query.client}]
    BY <1>7
  <2>2. /\ sens'[s].val = sens[s].val /\ sens'[s].active = sens[s].active
        /\ sens'[s].listeners = sens[s].listeners \cup {api.query.client}
        /\ sens'[s].written = sens[s].written
    BY <1>2, <2>1, SensSeen
  <2>. QED  BY <1>1, <1>3, <1>5, <1>6, <1>7, <2>2 DEF Sensor!SubscribeAdd, Sensor!Reply
<1>8. CASE UNCHANGED sens /\ req' = Answered(api.req, "error", {})
  BY <1>1, <1>4, <1>5, <1>6, <1>8 DEF Sensor!SubscribeAdd, Sensor!Reply
<1>. QED  BY <1>1, <1>7, <1>8

LEMMA OwnUnsubscribe ==
  ASSUME Inv, NEW s \in Sensors, api.to = s, api.req \in Requests, req[api.req].to = s,
         Unsubscribe
  PROVE  Sensor(s)!Unsubscribe
<1>1. /\ api.pc = "dispatch" /\ api.query.action = "unsubscribe" /\ ~Sensor(s)!Refused
      /\ sens' = [sens EXCEPT ![s].listeners = sens[s].listeners \ {api.query.client}]
      /\ \/ req' = Answered(api.req, "ok", {})
         \/ /\ api.query.client \notin sens[s].listeners
            /\ req' = Answered(api.req, "error", {})
      /\ api' = [api EXCEPT !.pc = "return"]
      /\ UNCHANGED <<config, connected, cell, sdoq, done, loop>>
  BY DEF Unsubscribe, Dispatching, me, slave, Sensor!Refused, Sensor!CanEncode,
         Sensor!CanDecode
<1>2. {} \in Values /\ Types
  BY Constants DEF Inv
<1>3. ASSUME req' = Answered(api.req, "ok", {})
      PROVE  /\ RepliesOf(s, req') = [RepliesOf(s, req) EXCEPT ![api.req] = @ + 1]
             /\ AnswerOf(s, req') =
                  [AnswerOf(s, req) EXCEPT ![api.req] = [status |-> "ok", val |-> {}]]
             /\ PhaseOf(s, req') = PhaseOf(s, req) /\ RefsOf(s, req') = RefsOf(s, req)
             /\ SeenOf(s, req') = SeenOf(s, req) /\ FailedOf(s, req') = FailedOf(s, req)
  BY <1>2, <1>3, AnsweredSeen
<1>4. ASSUME req' = Answered(api.req, "error", {})
      PROVE  /\ RepliesOf(s, req') = [RepliesOf(s, req) EXCEPT ![api.req] = @ + 1]
             /\ AnswerOf(s, req') =
                  [AnswerOf(s, req) EXCEPT ![api.req] = [status |-> "error", val |-> {}]]
             /\ PhaseOf(s, req') = PhaseOf(s, req) /\ RefsOf(s, req') = RefsOf(s, req)
             /\ SeenOf(s, req') = SeenOf(s, req) /\ FailedOf(s, req') = FailedOf(s, req)
  BY <1>2, <1>4, AnsweredSeen
<1>5. /\ ApiOf(s, api).pc = "dispatch" /\ ApiOf(s, api).req = api.req
      /\ ApiOf(s, api).query = api.query
      /\ ApiOf(s, api') = [ApiOf(s, api) EXCEPT !.pc = "return"]
  <2>1. /\ ApiOf(s, api).pc = "dispatch" /\ ApiOf(s, api).req = api.req
        /\ ApiOf(s, api).query = api.query
    BY <1>1, ApiSeen
  <2>2. ApiOf(s, api') = [ApiOf(s, api) EXCEPT !.pc = "return"]
    BY <1>1, ApiMoves
  <2>. QED  BY <2>1, <2>2
<1>6. /\ table' = table /\ OpsOf(s, sdoq') = OpsOf(s, sdoq)
      /\ EndedOf(s, done') = EndedOf(s, done) /\ LoopOf(s, loop') = LoopOf(s, loop)
  BY <1>1, RestSeen
<1>7. /\ sens'[s].val = sens[s].val /\ sens'[s].active = sens[s].active
      /\ sens'[s].listeners = sens[s].listeners \ {api.query.client}
      /\ sens'[s].written = sens[s].written
  BY <1>1, <1>2, SensSeen
<1>. QED  BY <1>1, <1>3, <1>4, <1>5, <1>6, <1>7
          DEF Sensor!Unsubscribe, Sensor!Dispatching, Sensor!Reply

LEMMA OwnReturn ==
  ASSUME Inv, NEW s \in Sensors, api.to = s, api.req \in Requests, req[api.req].to = s, Return
  PROVE  Sensor(s)!Return
<1>1. /\ api.pc = "return" /\ Unref(api.req) /\ api' = ApiIdle
      /\ UNCHANGED <<config, connected, sens, cell, sdoq, done, loop>>
  BY DEF Return, slave
<1>2. Types /\ req[api.req].refs # 0
  <2>1. Counted(api.req) /\ OnApi(api.req)
    BY <1>1 DEF Inv, Books, OnApi
  <2>. QED  BY <2>1 DEF Inv, Counted
<1>3. /\ RefsOf(s, req') = [RefsOf(s, req) EXCEPT ![api.req] = @ - 1]
      /\ PhaseOf(s, req') =
           [PhaseOf(s, req) EXCEPT ![api.req] = IF RefsOf(s, req)[api.req] = 1 THEN "gone" ELSE @]
      /\ RepliesOf(s, req') = RepliesOf(s, req) /\ AnswerOf(s, req') = AnswerOf(s, req)
      /\ SeenOf(s, req') = SeenOf(s, req) /\ FailedOf(s, req') = FailedOf(s, req)
  BY <1>1, <1>2, UnrefSeen
<1>4. /\ ApiOf(s, api).pc = "return" /\ ApiOf(s, api).req = api.req
      /\ ApiOf(s, api') = Sensor(s)!ApiIdle
  BY <1>1, ApiSeen
<1>5. /\ table' = table /\ OpsOf(s, sdoq') = OpsOf(s, sdoq)
      /\ EndedOf(s, done') = EndedOf(s, done) /\ LoopOf(s, loop') = LoopOf(s, loop)
  BY <1>1, RestSeen
<1>. QED  BY <1>1, <1>3, <1>4, <1>5 DEF Sensor!Return, Sensor!Unref

\* A write of the sensor waits, whether the queue is that of the slave or its own.
LEMMA PendingSeen ==
  ASSUME Types, NEW s \in Sensors
  PROVE  Sensor(s)!WritePending <=> WritePending(s)
<1>. DEFINE m == Mine(s, sdoq)
            p == OpsOf(s, sdoq)
<1>1. /\ sdoq \in Seq(OpType) /\ m \in Seq(OpType) /\ p \in Seq(SeenType)
      /\ \A k \in 1..Len(m) : m[k].to = s /\ \E i \in 1..Len(sdoq) : m[k] = sdoq[i]
      /\ \A i \in 1..Len(sdoq) : sdoq[i].to = s => \E k \in 1..Len(m) : m[k] = sdoq[i]
  BY MinePicks, ViewTypes DEF Types
<1>2. DOMAIN p = DOMAIN m /\ \A k \in DOMAIN m : p[k].op = m[k].op
  BY DEF OpsOf
<1>3. WritePending(s) <=> \E i \in DOMAIN sdoq : sdoq[i].to = s /\ sdoq[i].op = "write"
  BY DEF WritePending
<1>4. Sensor(s)!WritePending <=> \E k \in 1..Len(p) : p[k].op = "write"
  BY DEF Sensor!WritePending
<1>. HIDE DEF m, p
<1>5. /\ DOMAIN sdoq = 1..Len(sdoq) /\ DOMAIN m = 1..Len(m) /\ DOMAIN p = 1..Len(p)
  BY <1>1, LenProperties
<1>6. (\E k \in 1..Len(p) : p[k].op = "write") <=> \E k \in DOMAIN m : m[k].op = "write"
  BY <1>2, <1>5
<1>7. (\E k \in DOMAIN m : m[k].op = "write")
        <=> \E i \in DOMAIN sdoq : sdoq[i].to = s /\ sdoq[i].op = "write"
  <2>1. ASSUME NEW k \in DOMAIN m, m[k].op = "write"
        PROVE  \E i \in DOMAIN sdoq : sdoq[i].to = s /\ sdoq[i].op = "write"
    <3>1. PICK i \in 1..Len(sdoq) : m[k] = sdoq[i]
      BY <1>1, <1>5
    <3>2. m[k].to = s
      BY <1>1, <1>5
    <3>. QED  BY <1>5, <2>1, <3>1, <3>2
  <2>2. ASSUME NEW i \in DOMAIN sdoq, sdoq[i].to = s, sdoq[i].op = "write"
        PROVE  \E k \in DOMAIN m : m[k].op = "write"
    <3>1. PICK k \in 1..Len(m) : m[k] = sdoq[i]
      BY <1>1, <1>5, <2>2
    <3>. QED  BY <1>5, <2>2, <3>1
  <2>. QED  BY <2>1, <2>2
<1>. QED  BY <1>3, <1>4, <1>6, <1>7

LEMMA AcceptSeen ==
  ASSUME Inv, Fresh, NEW s \in Sensors, NEW r \in Requests, NEW q \in Queries, Accept(r, s, q)
  PROVE  /\ PhaseOf(s, req)[r] = "new"
         /\ PhaseOf(s, req') = [PhaseOf(s, req) EXCEPT ![r] = "open"]
         /\ RefsOf(s, req') = [RefsOf(s, req) EXCEPT ![r] = 1]
         /\ SeenOf(s, req') = [SeenOf(s, req) EXCEPT ![r] =
                                 IF WritePending(s) THEN {} ELSE {cell[Cell(s)]}]
         /\ RepliesOf(s, req') = RepliesOf(s, req) /\ AnswerOf(s, req') = AnswerOf(s, req)
         /\ FailedOf(s, req') = FailedOf(s, req)
         /\ \A t \in Sensors : t # s => ReqOf(t, req') = ReqOf(t, req)
<1>. DEFINE w == IF WritePending(s) THEN {} ELSE {cell[Cell(s)]}
            e == [NewRequest EXCEPT !.to = s, !.phase = "open", !.refs = 1, !.seen = w,
                                    !.boot = boots]
<1>1. /\ req[r].phase = "new" /\ req[r] = NewRequest
      /\ req' = [req EXCEPT ![r].to = s, ![r].phase = "open", ![r].refs = 1, ![r].seen = w,
                            ![r].boot = boots]
  BY DEF Accept, Fresh
<1>2. /\ Types /\ req \in [Requests -> ReqType] /\ boots \in Nat /\ s \in Nat \ {0}
      /\ NewRequest \in ReqType /\ w \in SUBSET Values /\ NewRequest.to = Config
      /\ NewRequest.replies = 0 /\ NewRequest.answer = NoAnswer /\ ~NewRequest.failed
      /\ NewRequest.phase = "new"
  <2>1. Types /\ req \in [Requests -> ReqType] /\ boots \in Nat
    BY BoundsAssumption DEF Inv, Types
  <2>2. /\ NewRequest.to = Config /\ NewRequest.phase = "new"
        /\ NewRequest.replies = 0 /\ NewRequest.answer = NoAnswer /\ ~NewRequest.failed
    BY DEF NewRequest
  <2>3. NewRequest \in ReqType
    BY <1>1, <2>1
  <2>4. s \in Nat \ {0} /\ table[s].kind \in Kinds /\ table[s].id \in Ids
    BY <2>1, SensorNumbers
  <2>5. cell[Cell(s)] \in Values
    BY <2>1, <2>4 DEF Types, Cell, Kind
  <2>6. w \in SUBSET Values
    BY <2>5
  <2>. QED  BY <2>1, <2>2, <2>3, <2>4, <2>6
<1>3. req' = [req EXCEPT ![r] = e]
  BY <1>1, <1>2
<1>. HIDE DEF w
<1>4. /\ e \in ReqType /\ e.to = s /\ e.phase = "open" /\ e.refs = 1 /\ e.seen = w
      /\ e.replies = 0 /\ e.answer = NoAnswer /\ ~e.failed
  BY <1>2 DEF ReqType
<1>. HIDE DEF e
<1>5. \A t \in Sensors : t # Config
  BY <1>2, SensorNumbers DEF Config
<1>6. /\ AreRequests(ReqOf(s, req)) /\ ReqOf(s, req)[r] = NewRequest
      /\ Changes(ReqOf(s, req), ReqOf(s, req'), r, e)
  <2>1. ReqOf(s, req) = [x \in Requests |-> IF req[x].to = s THEN req[x] ELSE NewRequest]
    BY DEF ReqOf, For
  <2>2. ReqOf(s, req') = [x \in Requests |-> IF req'[x].to = s THEN req'[x] ELSE NewRequest]
    BY DEF ReqOf, For
  <2>3. ReqOf(s, req) \in [Requests -> ReqType] /\ ReqOf(s, req)[r] = NewRequest
    BY <1>1, <1>2, <2>1
  <2>4. \A x \in Requests : req'[x] = IF x = r THEN e ELSE req[x]
    BY <1>2, <1>3
  <2>5. ReqOf(s, req') = [ReqOf(s, req) EXCEPT ![r] = e]
    BY <1>4, <2>1, <2>2, <2>4
  <2>. QED  BY <2>3, <2>5 DEF AreRequests, Changes
<1>7. /\ PhaseOf(s, req') = [PhaseOf(s, req) EXCEPT ![r] = "open"]
      /\ RefsOf(s, req') = [RefsOf(s, req) EXCEPT ![r] = 1]
      /\ RepliesOf(s, req') = [RepliesOf(s, req) EXCEPT ![r] = 0]
      /\ AnswerOf(s, req') = [AnswerOf(s, req) EXCEPT ![r] = NoAnswer]
      /\ SeenOf(s, req') = [SeenOf(s, req) EXCEPT ![r] = w]
      /\ FailedOf(s, req') = FailedOf(s, req)
  <2>1. /\ PhaseOf(s, req') = [PhaseOf(s, req) EXCEPT ![r] = e.phase]
        /\ RefsOf(s, req') = [RefsOf(s, req) EXCEPT ![r] = e.refs]
        /\ RepliesOf(s, req') = [RepliesOf(s, req) EXCEPT ![r] = e.replies]
        /\ AnswerOf(s, req') = [AnswerOf(s, req) EXCEPT ![r] = e.answer]
        /\ SeenOf(s, req') = [SeenOf(s, req) EXCEPT ![r] = e.seen]
        /\ e.failed = ReqOf(s, req)[r].failed => FailedOf(s, req') = FailedOf(s, req)
    BY <1>4, <1>6, FieldsChange
  <2>2. e.failed = ReqOf(s, req)[r].failed
    BY <1>2, <1>4, <1>6 DEF ReqType
  <2>. QED  BY <1>4, <2>1, <2>2
<1>8. /\ PhaseOf(s, req)[r] = "new" /\ RepliesOf(s, req)[r] = 0
      /\ AnswerOf(s, req)[r] = NoAnswer
  BY <1>2, <1>6 DEF PhaseOf, RepliesOf, AnswerOf
<1>9. RepliesOf(s, req') = RepliesOf(s, req) /\ AnswerOf(s, req') = AnswerOf(s, req)
  <2>1. /\ RepliesOf(s, req) = [x \in Requests |-> RepliesOf(s, req)[x]]
        /\ AnswerOf(s, req) = [x \in Requests |-> AnswerOf(s, req)[x]]
    BY DEF RepliesOf, AnswerOf
  <2>2. /\ [RepliesOf(s, req) EXCEPT ![r] = 0] = RepliesOf(s, req)
        /\ [AnswerOf(s, req) EXCEPT ![r] = NoAnswer] = AnswerOf(s, req)
    BY <1>8, <2>1
  <2>. QED  BY <1>7, <2>2
<1>10. ASSUME NEW t \in Sensors, t # s
       PROVE  ReqOf(t, req') = ReqOf(t, req)
  <2>1. \A x \in Requests : For(t, req'[x], NewRequest) = For(t, req[x], NewRequest)
    BY <1>1, <1>2, <1>3, <1>4, <1>5, <1>10 DEF For
  <2>. QED  BY <2>1 DEF ReqOf
<1>. QED  BY <1>7, <1>8, <1>9, <1>10 DEF w

LEMMA OwnAccept ==
  ASSUME Inv, Fresh, NEW s \in Sensors, NEW r \in Requests, NEW q \in Queries, Accept(r, s, q)
  PROVE  Sensor(s)!Accept(r, q)
<1>1. /\ api.pc = "idle" /\ api = ApiIdle /\ req[r].phase = "new"
      /\ api' = [ApiIdle EXCEPT !.pc = "dispatch", !.to = s, !.req = r, !.query = q]
      /\ UNCHANGED <<config, connected, sens, cell, sdoq, done, loop>>
  BY DEF Accept, Fresh, slave
<1>2. /\ PhaseOf(s, req)[r] = "new"
      /\ PhaseOf(s, req') = [PhaseOf(s, req) EXCEPT ![r] = "open"]
      /\ RefsOf(s, req') = [RefsOf(s, req) EXCEPT ![r] = 1]
      /\ SeenOf(s, req') = [SeenOf(s, req) EXCEPT ![r] =
                              IF WritePending(s) THEN {} ELSE {cell[Cell(s)]}]
      /\ RepliesOf(s, req') = RepliesOf(s, req) /\ AnswerOf(s, req') = AnswerOf(s, req)
      /\ FailedOf(s, req') = FailedOf(s, req)
  BY AcceptSeen
<1>3. /\ ApiOf(s, api) = Sensor(s)!ApiIdle
      /\ ApiOf(s, api') = [Sensor(s)!ApiIdle EXCEPT !.pc = "dispatch", !.req = r, !.query = q]
  <2>1. ApiOf(s, ApiIdle) = Sensor(s)!ApiIdle
    BY ApiSeen
  <2>2. api' = [pc |-> "dispatch", to |-> s, req |-> r, query |-> q, tmp |-> {}]
    BY <1>1 DEF ApiIdle
  <2>3. ApiOf(s, api') = [pc |-> "dispatch", req |-> r, query |-> q, tmp |-> {}]
    BY <2>2 DEF ApiOf, For
  <2>4. Sensor(s)!ApiIdle = [pc |-> "idle", req |-> Nobody, query |-> NoQuery, tmp |-> {}]
    BY DEF Sensor!ApiIdle, Sensor!NoQuery, NoQuery
  <2>5. [[pc |-> "idle", req |-> Nobody, query |-> NoQuery, tmp |-> {}]
           EXCEPT !.pc = "dispatch", !.req = r, !.query = q]
          = [pc |-> "dispatch", req |-> r, query |-> q, tmp |-> {}]
    <3>1. [[pc |-> "idle", req |-> Nobody, query |-> NoQuery, tmp |-> {}] EXCEPT !.pc = "dispatch"]
            = [pc |-> "dispatch", req |-> Nobody, query |-> NoQuery, tmp |-> {}]
      OBVIOUS
    <3>2. [[pc |-> "dispatch", req |-> Nobody, query |-> NoQuery, tmp |-> {}] EXCEPT !.req = r]
            = [pc |-> "dispatch", req |-> r, query |-> NoQuery, tmp |-> {}]
      OBVIOUS
    <3>3. [[pc |-> "dispatch", req |-> r, query |-> NoQuery, tmp |-> {}] EXCEPT !.query = q]
            = [pc |-> "dispatch", req |-> r, query |-> q, tmp |-> {}]
      OBVIOUS
    <3>. QED  BY <3>1, <3>2, <3>3
  <2>. QED  BY <1>1, <2>1, <2>3, <2>4, <2>5
<1>4. /\ table' = table /\ OpsOf(s, sdoq') = OpsOf(s, sdoq)
      /\ EndedOf(s, done') = EndedOf(s, done) /\ LoopOf(s, loop') = LoopOf(s, loop)
  BY <1>1, RestSeen
<1>5. Sensor(s)!WritePending <=> WritePending(s)
  BY PendingSeen DEF Inv
<1>6. ApiOf(s, api).pc = "idle"
  BY <1>3 DEF Sensor!ApiIdle
<1>. QED  BY <1>1, <1>2, <1>3, <1>4, <1>5, <1>6 DEF Sensor!Accept, Cell

\* The verb of another sensor changes nothing of s: neither its requests, nor its value,
\* nor its register, that no other sensor writes.
LEMMA OtherApiStep ==
  ASSUME Inv, NEW s \in Sensors, Whole(s), ApiStep, api.to # s
  PROVE  UNCHANGED Sensor(s)!vars
<1>1. /\ Types /\ api.pc # "idle"
      /\ UNCHANGED <<config, connected, done, loop>>
  BY DEF Inv, ApiStep, Refuse, EncodeWrite, EncodeThrows, FetchRpdo, Store, EmitWrite, ReplyRead,
         ReadSdo, SubscribeMark, SubscribeAdd, Unsubscribe, Return, Dispatching, slave
<1>2. /\ api.req \in Requests /\ req[api.req].to = me /\ me # s /\ me \in Sensors
      /\ sens[me].val \in Values /\ req[api.req].to # s
  BY <1>1, ApiRequest DEF me
<1>3. {} \in Values /\ Nobody \in Holders /\ api.req \in Holders /\ ApiIdle.to # s
      /\ api \in ApiType /\ sens \in [Sensors -> SensType] /\ cell \in [Kinds \X Ids -> Values]
  BY <1>2, Constants, SensorNumbers DEF Inv, Types, Holders, ApiIdle, Config
<1>4. sens'[s] = sens[s]
  <2>1. \/ UNCHANGED sens
        \/ \E v : sens' = [sens EXCEPT ![me] = v]
    BY DEF ApiStep, Refuse, EncodeWrite, EncodeThrows, FetchRpdo, Store, EmitWrite, ReplyRead,
           ReadSdo, SubscribeMark, SubscribeAdd, Unsubscribe, Return
  <2>. QED  BY <1>2, <1>3, <2>1
<1>5. cell'[Cell(s)] = cell[Cell(s)]
  <2>1. CASE EmitWrite /\ Kind(me) = "TPDO"
    <3>1. cell' = [cell EXCEPT ![Cell(me)] = sens[me].val]
      BY <2>1 DEF EmitWrite
    <3>2. Cell(me) # Cell(s)
      <4>1. SUFFICES ASSUME Cell(me) = Cell(s)  PROVE FALSE
        OBVIOUS
      <4>2. Kind(s) = "TPDO"
        BY <2>1, <4>1 DEF Cell, Kind
      <4>3. On(Cell(s)) = {s}
        BY <4>2 DEF Whole
      <4>. QED  BY <1>2, <4>1, <4>3 DEF On
    <3>. QED  BY <1>3, <3>1, <3>2
  <2>2. CASE ~(EmitWrite /\ Kind(me) = "TPDO")
    <3>1. cell' = cell
      BY <2>2 DEF ApiStep, Refuse, EncodeWrite, EncodeThrows, FetchRpdo, Store, EmitWrite, ReplyRead,
                  ReadSdo, SubscribeMark, SubscribeAdd, Unsubscribe, Return
    <3>. QED  BY <3>1
  <2>. QED  BY <2>1, <2>2
<1>6. OpsOf(s, sdoq') = OpsOf(s, sdoq)
  <2>1. \/ UNCHANGED sdoq
        \/ sdoq' = Append(sdoq, SdoOp("write", me, Nobody, sens[me].val, api.req))
        \/ sdoq' = Append(sdoq, SdoOp("read", me, api.req, {}, api.req))
    BY DEF ApiStep, Refuse, EncodeWrite, EncodeThrows, FetchRpdo, Store, EmitWrite, ReplyRead,
           ReadSdo, SubscribeMark, SubscribeAdd, Unsubscribe, Return
  <2>2. ASSUME NEW t \in Sensors, t # s, NEW owner \in Holders, NEW val \in Values,
               NEW from \in Holders
        PROVE  /\ OpsOf(s, Append(sdoq, SdoOp("write", t, owner, val, from))) = OpsOf(s, sdoq)
               /\ OpsOf(s, Append(sdoq, SdoOp("read", t, owner, val, from))) = OpsOf(s, sdoq)
    <3>1. ASSUME NEW op \in {"read", "write"}
          PROVE  OpsOf(s, Append(sdoq, SdoOp(op, t, owner, val, from))) = OpsOf(s, sdoq)
      <4>1. OpsOf(s, Append(sdoq, SdoOp(op, t, owner, val, from)))
              = IF t = s THEN Append(OpsOf(s, sdoq), [op |-> op, owner |-> owner, val |-> val])
                ELSE OpsOf(s, sdoq)
        BY <1>1, SubmitSeen
      <4>. QED  BY <2>2, <4>1
    <3>. QED  BY <3>1
  <2>3. CASE sdoq' = Append(sdoq, SdoOp("write", me, Nobody, sens[me].val, api.req))
    BY <1>2, <1>3, <2>2, <2>3
  <2>4. CASE sdoq' = Append(sdoq, SdoOp("read", me, api.req, {}, api.req))
    BY <1>2, <1>3, <2>2, <2>4
  <2>. QED  BY <2>1, <2>3, <2>4
<1>7. ApiOf(s, api') = ApiOf(s, api)
  <2>1. api'.to # s
    <3>1. \/ api' = ApiIdle
          \/ \E p : api' = [api EXCEPT !.pc = p]
          \/ \E p, t : api' = [api EXCEPT !.pc = p, !.tmp = t]
      BY DEF ApiStep, Refuse, EncodeWrite, EncodeThrows, FetchRpdo, Store, EmitWrite, ReplyRead,
             ReadSdo, SubscribeMark, SubscribeAdd, Unsubscribe, Return
    <3>. QED  BY <1>3, <3>1 DEF ApiType
  <2>2. \A x : x.to # s => ApiOf(s, x) = ApiOf(s, ApiIdle)
    BY ApiSeen
  <2>. QED  BY <2>1, <2>2
<1>8. ReqOf(s, req') = ReqOf(s, req)
  <2>1. CASE Refuse
    <3>1. req' = Answered(api.req, "error", {})
      BY <2>1 DEF Refuse
    <3>. QED  BY <1>1, <1>2, <1>3, <3>1, AnsweredSeen
  <2>2. CASE EmitWrite
    <3>1. req' = Answered(api.req, "ok", {})
      BY <2>2 DEF EmitWrite
    <3>. QED  BY <1>1, <1>2, <1>3, <3>1, AnsweredSeen
  <2>3. CASE ReplyRead
    <3>1. req' = Answered(api.req, "value", sens[me].val)
      BY <2>3 DEF ReplyRead
    <3>2. ASSUME NEW val \in Values, req' = Answered(api.req, "value", val)
          PROVE  ReqOf(s, req') = ReqOf(s, req)
      BY <1>1, <1>2, <3>2, AnsweredSeen
    <3>. QED  BY <1>2, <3>1, <3>2
  <2>4. CASE SubscribeAdd \/ Unsubscribe
    <3>1. req' = Answered(api.req, "ok", {}) \/ req' = Answered(api.req, "error", {})
      BY <2>4 DEF SubscribeAdd, Unsubscribe
    <3>2. CASE req' = Answered(api.req, "ok", {})
      BY <1>1, <1>2, <1>3, <3>2, AnsweredSeen
    <3>3. CASE req' = Answered(api.req, "error", {})
      BY <1>1, <1>2, <1>3, <3>3, AnsweredSeen
    <3>. QED  BY <3>1, <3>2, <3>3
  <2>5. CASE Store
    <3>1. CASE api.query.action = "write"
      <4>1. Saw({me}, api.tmp) /\ api.tmp \in Values /\ s \notin {me}
        BY <1>2, <1>3, <2>5, <3>1 DEF Store, ApiType
      <4>. QED  BY <1>1, <4>1, SawSeen
    <3>2. CASE api.query.action # "write"
      <4>1. req' = req
        BY <2>5, <3>2 DEF Store
      <4>. QED  BY <4>1
    <3>. QED  BY <3>1, <3>2
  <2>6. CASE ReadSdo
    <3>1. Addref(api.req)
      BY <2>6 DEF ReadSdo, Addref
    <3>. QED  BY <1>1, <1>2, <3>1, HeldSeen
  <2>7. CASE Return
    <3>1. Unref(api.req)
      BY <2>7 DEF Return
    <3>2. req[api.req].refs # 0
      BY <1>1, <1>2 DEF Inv, Books, Counted, OnApi
    <3>. QED  BY <1>1, <1>2, <3>1, <3>2, UnrefSeen
  <2>8. CASE EncodeWrite \/ EncodeThrows \/ FetchRpdo \/ SubscribeMark
    <3>1. req' = req
      BY <2>8 DEF EncodeWrite, EncodeThrows, FetchRpdo, SubscribeMark
    <3>. QED  BY <3>1
  <2>. QED  BY <2>1, <2>2, <2>3, <2>4, <2>5, <2>6, <2>7, <2>8 DEF ApiStep
<1>9. EndedOf(s, done') = EndedOf(s, done) /\ LoopOf(s, loop') = LoopOf(s, loop)
  BY <1>1
<1>. QED  BY <1>1, <1>4, <1>5, <1>6, <1>7, <1>8, <1>9, SensorSame

\* The process that a sensor sees is that of the slave.
LEMMA Alive ==
  ASSUME ~Terminated
  PROVE  \A s : ~Sensor(s)!Terminated
BY DEF Terminated, Sensor!Terminated, ApiOf, For, ApiIdle

\* A step of the API thread is one of the sensor it serves, and nothing to the others.
LEMMA ApiStepSeen ==
  ASSUME Inv, ~Terminated, NEW s \in Sensors, Whole(s), ApiStep
  PROVE  Sensor(s)!Next \/ UNCHANGED Sensor(s)!vars
<1>1. CASE api.to = s
  <2>1. api.pc # "idle"
    BY DEF ApiStep, Refuse, EncodeWrite, EncodeThrows, FetchRpdo, Store, EmitWrite, ReplyRead,
           ReadSdo, SubscribeMark, SubscribeAdd, Unsubscribe, Return, Dispatching
  <2>2. api.req \in Requests /\ req[api.req].to = s
    BY <1>1, <2>1, ApiRequest DEF me
  <2>3. Sensor(s)!ApiStep
    BY <1>1, <2>2, OwnRefuse, OwnEncodeWrite, OwnEncodeThrows, OwnFetchRpdo, OwnStore, OwnEmitWrite,
       OwnReplyRead, OwnReadSdo, OwnSubscribeMark, OwnSubscribeAdd, OwnUnsubscribe, OwnReturn
       DEF ApiStep, Sensor!ApiStep
  <2>. QED  BY <2>3, Alive DEF Sensor!Next
<1>2. CASE api.to # s
  BY <1>2, OtherApiStep
<1>. QED  BY <1>1, <1>2

LEMMA AcceptStepSeen ==
  ASSUME Inv, Fresh, ~Terminated, NEW s \in Sensors, NEW r \in Requests, NEW t \in Sensors,
         NEW q \in Queries, Accept(r, t, q)
  PROVE  Sensor(s)!Next \/ UNCHANGED Sensor(s)!vars
<1>1. CASE s = t
  <2>1. Sensor(s)!Accept(r, q)
    BY <1>1, OwnAccept
  <2>. QED  BY <2>1, Alive DEF Sensor!Next
<1>2. CASE s # t
  <2>1. /\ api = ApiIdle
        /\ api' = [ApiIdle EXCEPT !.pc = "dispatch", !.to = t, !.req = r, !.query = q]
        /\ UNCHANGED <<config, connected, sens, cell, sdoq, done, loop>>
    BY DEF Accept, Fresh, slave
  <2>2. api'.to # s
    BY <1>2, <2>1 DEF ApiIdle
  <2>3. ApiOf(s, api') = ApiOf(s, api)
    BY <2>1, <2>2, ApiSeen
  <2>4. ReqOf(s, req') = ReqOf(s, req)
    BY <1>2, AcceptSeen
  <2>5. /\ sens'[s] = sens[s] /\ cell'[Cell(s)] = cell[Cell(s)]
        /\ OpsOf(s, sdoq') = OpsOf(s, sdoq) /\ EndedOf(s, done') = EndedOf(s, done)
        /\ LoopOf(s, loop') = LoopOf(s, loop)
    BY <2>1
  <2>. QED  BY <2>1, <2>3, <2>4, <2>5, SensorSame
<1>. QED  BY <1>1, <1>2

-----------------------------------------------------------------------------
(* What is not given yet is as new.                                        *)

\* No request that changes is new.
Aged == \A r \in Requests : req'[r] = req[r] \/ req'[r].phase # "new"

LEMMA AgedOne ==
  ASSUME Types, NEW x \in Requests, req[x].phase = "open",
         \/ \E status, val : req' = Answered(x, status, val)
         \/ Unref(x)
         \/ Addref(x)
         \/ req' = [req EXCEPT ![x].failed = TRUE]
  PROVE  Aged
<1>1. /\ req \in [Requests -> ReqType] /\ req[x] \in ReqType
  BY DEF Types
<1>2. \E e : /\ req' = [req EXCEPT ![x] = e] /\ e.phase # "new"
  <2>1. ASSUME NEW status, NEW val, req' = Answered(x, status, val)
        PROVE  \E e : /\ req' = [req EXCEPT ![x] = e] /\ e.phase # "new"
    <3>. DEFINE e == [req[x] EXCEPT !.replies = @ + 1,
                                    !.answer = [status |-> status, val |-> val]]
    <3>1. req' = [req EXCEPT ![x] = e]
      BY <2>1 DEF Answered
    <3>2. e.phase = "open"
      BY <1>1 DEF ReqType
    <3>. QED  BY <3>1, <3>2
  <2>2. ASSUME Unref(x)
        PROVE  \E e : /\ req' = [req EXCEPT ![x] = e] /\ e.phase # "new"
    <3>. DEFINE e == [req[x] EXCEPT !.refs = @ - 1,
                                    !.phase = IF req[x].refs = 1 THEN "gone" ELSE @]
    <3>1. req' = [req EXCEPT ![x] = e]
      BY <2>2 DEF Unref
    <3>2. e.phase # "new"
      BY <1>1 DEF ReqType
    <3>. HIDE DEF e
    <3>. QED  BY <3>1, <3>2
  <2>3. ASSUME Addref(x)
        PROVE  \E e : /\ req' = [req EXCEPT ![x] = e] /\ e.phase # "new"
    <3>. DEFINE e == [req[x] EXCEPT !.refs = @ + 1]
    <3>1. req' = [req EXCEPT ![x] = e]
      BY <2>3 DEF Addref
    <3>2. e.phase = "open"
      BY <1>1 DEF ReqType
    <3>. QED  BY <3>1, <3>2
  <2>4. ASSUME req' = [req EXCEPT ![x].failed = TRUE]
        PROVE  \E e : /\ req' = [req EXCEPT ![x] = e] /\ e.phase # "new"
    <3>. DEFINE e == [req[x] EXCEPT !.failed = TRUE]
    <3>1. req' = [req EXCEPT ![x] = e]
      BY <2>4
    <3>2. e.phase = "open"
      BY <1>1 DEF ReqType
    <3>. QED  BY <3>1, <3>2
  <2>. QED  BY <2>1, <2>2, <2>3, <2>4
<1>. QED  BY <1>1, <1>2 DEF Aged

LEMMA AgedSaw ==
  ASSUME Types, NEW S, NEW v, Saw(S, v)
  PROVE  Aged
<1>1. ASSUME NEW r \in Requests, req'[r] # req[r]
      PROVE  req'[r].phase # "new"
  <2>1. req[r].phase = "open" /\ req'[r] = [req[r] EXCEPT !.seen = @ \cup {v}]
    BY <1>1 DEF Saw, Waiting
  <2>2. req[r] \in ReqType
    BY DEF Types
  <2>3. req'[r].phase = req[r].phase
    BY <2>1, <2>2 DEF ReqType
  <2>. QED  BY <2>1, <2>3
<1>. QED  BY <1>1 DEF Aged

\* Whoever answers a request, holds it.
LEMMA HeldOpen ==
  ASSUME Inv
  PROVE  /\ api.pc # "idle" => api.req \in Requests /\ req[api.req].phase = "open"
         /\ loop.pc \in {"reply", "unref"} =>
              loop.owner \in Requests /\ req[loop.owner].phase = "open"
         /\ sdoq # <<>> /\ Head(sdoq).owner # Nobody =>
              /\ Head(sdoq).owner \in Requests /\ req[Head(sdoq).owner].phase = "open"
<1>1. api.pc # "idle" => api.req \in Requests /\ req[api.req].phase = "open"
  BY ApiRequest
<1>2. ASSUME loop.pc \in {"reply", "unref"}
      PROVE  loop.owner \in Requests /\ req[loop.owner].phase = "open"
  BY <1>2, LoopServes
<1>3. ASSUME sdoq # <<>>, Head(sdoq).owner # Nobody
      PROVE  Head(sdoq).owner \in Requests /\ req[Head(sdoq).owner].phase = "open"
  <2>. DEFINE r == Head(sdoq).owner
  <2>1. sdoq \in Seq(OpType) /\ Head(sdoq) \in OpType
    BY <1>3, HeadTailProperties DEF Inv, Types
  <2>2. r \in Requests /\ In(sdoq, r)
    BY <1>3, <2>1, TailOwners DEF Inv, OnePlace, OpType, Holders
  <2>3. req[r].phase \in {"new", "open", "gone"} /\ Phased(r)
    BY <2>2 DEF Inv, Types, ReqType, Books
  <2>. QED  BY <2>2, <2>3 DEF Phased, Async
<1>. QED  BY <1>1, <1>2, <1>3

LEMMA NextAged ==
  ASSUME Inv, Fresh, [Next]_vars
  PROVE  Aged
<1>1. CASE UNCHANGED vars
  BY <1>1 DEF vars, Aged
<1>2. ASSUME NEW r \in Requests, NEW s \in Sensors, NEW q \in Asks[r], Accept(r, s, q)
      PROVE  Aged
  <2>1. q \in Queries
    BY DEF Queries
  <2>2. /\ req[r].phase = "new" /\ req \in [Requests -> ReqType]
        /\ \E w : req' = [req EXCEPT ![r].to = s, ![r].phase = "open", ![r].refs = 1,
                                     ![r].seen = w, ![r].boot = boots]
    BY <1>2 DEF Accept, Inv, Types
  <2>3. \E e : req' = [req EXCEPT ![r] = e] /\ e.phase = "open"
    <3>1. PICK w : req' = [req EXCEPT ![r].to = s, ![r].phase = "open", ![r].refs = 1,
                                      ![r].seen = w, ![r].boot = boots]
      BY <2>2
    <3>. DEFINE e == [req[r] EXCEPT !.to = s, !.phase = "open", !.refs = 1, !.seen = w,
                                    !.boot = boots]
    <3>2. req' = [req EXCEPT ![r] = e]
      BY <3>1
    <3>3. e.phase = "open"
      BY <2>2 DEF ReqType
    <3>. QED  BY <3>2, <3>3
  <2>. QED  BY <2>2, <2>3 DEF Aged
<1>3. CASE ApiStep
  <2>1. api.pc # "idle"
    BY <1>3 DEF ApiStep, Refuse, EncodeWrite, EncodeThrows, FetchRpdo, Store, EmitWrite, ReplyRead,
           ReadSdo, SubscribeMark, SubscribeAdd, Unsubscribe, Return, Dispatching
  <2>2. \/ req' = req
        \/ \E status, val : req' = Answered(api.req, status, val)
        \/ Unref(api.req) \/ Addref(api.req)
        \/ \E S, v : Saw(S, v)
    BY <1>3 DEF ApiStep, Refuse, EncodeWrite, EncodeThrows, FetchRpdo, Store, EmitWrite, ReplyRead,
           ReadSdo, SubscribeMark, SubscribeAdd, Unsubscribe, Return, Addref
  <2>3. CASE req' = req
    BY <2>3 DEF Aged
  <2>4. CASE \E S, v : Saw(S, v)
    BY <2>4, AgedSaw DEF Inv
  <2>. QED  BY <2>1, <2>2, <2>3, <2>4, AgedOne, HeldOpen DEF Inv
<1>4. CASE LoopStep
  <2>1. \/ req' = req
        \/ /\ loop.pc \in {"reply", "unref"}
           /\ (\E status, val : req' = Answered(loop.owner, status, val)) \/ Unref(loop.owner)
    BY <1>4 DEF LoopStep, Continue, LoopStore, LoopReply, LoopUnref, Push, Pushed,
           OnConfigAction, ConfigContinue
  <2>2. CASE req' = req
    BY <2>2 DEF Aged
  <2>. QED  BY <2>1, <2>2, AgedOne, HeldOpen DEF Inv
<1>5. CASE Sdo
  <2>1. \/ req' = req
        \/ \E S, v : Saw(S, v)
        \/ /\ sdoq # <<>> /\ Head(sdoq).owner # Nobody
           /\ req' = [req EXCEPT ![Head(sdoq).owner].failed = TRUE]
    BY <1>5 DEF Sdo, SdoEnd
  <2>2. CASE req' = req
    BY <2>2 DEF Aged
  <2>3. CASE \E S, v : Saw(S, v)
    BY <2>3, AgedSaw DEF Inv
  <2>. QED  BY <2>1, <2>2, <2>3, AgedOne, HeldOpen DEF Inv
<1>6. CASE Bus
  <2>1. req' = req \/ \E S, v : Saw(S, v)
    BY <1>6 DEF Bus, OnConfig, OnBoot, OnRpdoWrite
  <2>2. CASE req' = req
    BY <2>2 DEF Aged
  <2>3. CASE \E S, v : Saw(S, v)
    BY <2>3, AgedSaw DEF Inv
  <2>. QED  BY <2>1, <2>2, <2>3
<1>. QED  BY <1>1, <1>2, <1>3, <1>4, <1>5, <1>6 DEF Next

LEMMA FreshStep ==
  ASSUME Inv, Fresh, [Next]_vars
  PROVE  Fresh'
<1>1. \A r \in Requests : (req[r].phase = "new")' => (req[r] = NewRequest)'
  BY NextAged DEF Aged, Fresh, NewRequest
<1>2. (api.pc = "idle")' => api' = ApiIdle
  <2>1. api \in ApiType
    BY DEF Inv, Types
  <2>2. CASE ApiStep
    <3>1. \/ api' = api \/ api' = ApiIdle
          \/ \E p \in {"store", "use", "subscribe", "return", "terminated"} :
               api' = [api EXCEPT !.pc = p] \/ \E t : api' = [api EXCEPT !.pc = p, !.tmp = t]
      BY <2>2 DEF ApiStep, Refuse, EncodeWrite, EncodeThrows, FetchRpdo, Store, EmitWrite, ReplyRead,
             ReadSdo, SubscribeMark, SubscribeAdd, Unsubscribe, Return
    <3>2. ASSUME NEW p \in {"store", "use", "subscribe", "return", "terminated"},
                 api' = [api EXCEPT !.pc = p] \/ \E t : api' = [api EXCEPT !.pc = p, !.tmp = t]
          PROVE  api'.pc # "idle"
      BY <2>1, <3>2 DEF ApiType
    <3>. QED  BY <3>1, <3>2 DEF Fresh
  <2>3. ASSUME NEW r \in Requests, NEW s \in Sensors, NEW q \in Asks[r], Accept(r, s, q)
        PROVE  api'.pc # "idle"
    <3>1. api' = [ApiIdle EXCEPT !.pc = "dispatch", !.to = s, !.req = r, !.query = q]
      BY <2>3 DEF Accept
    <3>. QED  BY <3>1 DEF ApiIdle
  <2>4. CASE LoopStep \/ Sdo \/ Bus \/ UNCHANGED vars
    <3>1. api' = api
      BY <2>4 DEF LoopStep, Continue, LoopStore, LoopReply, LoopUnref, Push, Pushed,
             OnConfigAction, ConfigContinue, Sdo, SdoEnd, Bus, OnConfig, OnBoot, OnRpdoWrite, vars
    <3>. QED  BY <3>1 DEF Fresh
  <2>. QED  BY <2>2, <2>3, <2>4 DEF Next
<1>. QED  BY <1>1, <1>2 DEF Fresh, NewRequest, ApiIdle

-----------------------------------------------------------------------------
(* What a sensor sees of the loop thread.                                  *)

LEMMA LoopSeen ==
  ASSUME Inv, NEW s \in Sensors
  PROVE  /\ LoopOf(s, loop) \in Sensor(s)!LoopType
         /\ loop.to = s => /\ LoopOf(s, loop).pc = loop.pc /\ LoopOf(s, loop).owner = loop.owner
                           /\ LoopOf(s, loop).val = loop.val /\ LoopOf(s, loop).heard = loop.heard
         /\ LoopOf(s, LoopIdle) = Sensor(s)!LoopIdle
         /\ \A x : x.to # s => LoopOf(s, x) = Sensor(s)!LoopIdle
         /\ loop.pc \in {"idle", "config"} => LoopOf(s, loop) = Sensor(s)!LoopIdle
         /\ Sensor(s)!LoopIdle.pc = "idle"
<1>1. LoopIdle.to # s /\ s # Config
  BY SensorNumbers DEF Inv, Config, LoopIdle
<1>2. /\ loop.to = s => /\ LoopOf(s, loop).pc = loop.pc /\ LoopOf(s, loop).owner = loop.owner
                        /\ LoopOf(s, loop).val = loop.val /\ LoopOf(s, loop).heard = loop.heard
  BY DEF LoopOf, For
<1>3. LoopOf(s, LoopIdle) = [pc |-> "idle", owner |-> Nobody, val |-> {}, heard |-> FALSE]
  BY DEF LoopOf, For, LoopIdle
<1>4. Sensor(s)!LoopIdle = [pc |-> "idle", owner |-> Nobody, val |-> {}, heard |-> FALSE]
  BY DEF Sensor!LoopIdle
<1>5. \A x : x.to # s => LoopOf(s, x) = LoopOf(s, LoopIdle)
  BY DEF LoopOf, For
<1>6. loop.pc \in {"idle", "config"} => loop.to # s
  BY <1>1 DEF Inv, Shape, LoopFor
<1>. QED  BY <1>2, <1>3, <1>4, <1>5, <1>6, HandlerViews

PushView(s, v, h) == [LoopOf(s, loop) EXCEPT !.pc = "pushed", !.val = v, !.heard = h]
Pushes(v, h) == loop' = [loop EXCEPT !.pc = "pushed", !.val = v, !.heard = h]

LEMMA LoopMoves ==
  ASSUME Inv, NEW s \in Sensors, loop.to = s
  PROVE  /\ \A p \in {"push", "reply", "unref"} :
              loop' = [loop EXCEPT !.pc = p] => LoopOf(s, loop') = [LoopOf(s, loop) EXCEPT !.pc = p]
         /\ \A v \in Values, h \in BOOLEAN : Pushes(v, h) => LoopOf(s, loop') = PushView(s, v, h)
<1>1. PICK a \in Sensor(s)!LoopType : a = LoopOf(s, loop)
  BY LoopSeen
<1>2. /\ a.owner = loop.owner /\ a.val = loop.val /\ a.heard = loop.heard
      /\ loop \in LoopType
  BY <1>1, LoopSeen DEF Inv, Types
<1>3. \A x : x.to = s =>
        LoopOf(s, x) = [pc |-> x.pc, owner |-> x.owner, val |-> x.val, heard |-> x.heard]
  BY DEF LoopOf, For
<1>4. ASSUME NEW p \in {"push", "reply", "unref"}, loop' = [loop EXCEPT !.pc = p]
      PROVE  LoopOf(s, loop') = [LoopOf(s, loop) EXCEPT !.pc = p]
  <2>1. /\ loop'.to = s /\ loop'.pc = p /\ loop'.owner = loop.owner /\ loop'.val = loop.val
        /\ loop'.heard = loop.heard
    BY <1>2, <1>4 DEF LoopType
  <2>2. [a EXCEPT !.pc = p] = [pc |-> p, owner |-> a.owner, val |-> a.val, heard |-> a.heard]
    BY DEF Sensor!LoopType
  <2>. QED  BY <1>1, <1>2, <1>3, <2>1, <2>2
<1>5. ASSUME NEW v \in Values, NEW h \in BOOLEAN,
             Pushes(v, h)
      PROVE  LoopOf(s, loop') = PushView(s, v, h)
  <2>1. /\ loop'.to = s /\ loop'.pc = "pushed" /\ loop'.owner = loop.owner /\ loop'.val = v
        /\ loop'.heard = h
    BY <1>2, <1>5 DEF LoopType, Pushes
  <2>2. /\ [a EXCEPT !.pc = "pushed", !.val = v, !.heard = h]
             = [[[a EXCEPT !.pc = "pushed"] EXCEPT !.val = v] EXCEPT !.heard = h]
        /\ [a EXCEPT !.pc = "pushed"]
             = [pc |-> "pushed", owner |-> a.owner, val |-> a.val, heard |-> a.heard]
    BY DEF Sensor!LoopType
  <2>3. [[pc |-> "pushed", owner |-> a.owner, val |-> a.val, heard |-> a.heard] EXCEPT !.val = v]
          = [pc |-> "pushed", owner |-> a.owner, val |-> v, heard |-> a.heard]
    OBVIOUS
  <2>4. [[pc |-> "pushed", owner |-> a.owner, val |-> v, heard |-> a.heard] EXCEPT !.heard = h]
          = [pc |-> "pushed", owner |-> a.owner, val |-> v, heard |-> h]
    OBVIOUS
  <2>5. LoopOf(s, loop') = [pc |-> "pushed", owner |-> a.owner, val |-> v, heard |-> h]
    BY <1>2, <1>3, <2>1
  <2>. QED  BY <1>1, <2>2, <2>3, <2>4, <2>5 DEF PushView
<1>. QED  BY <1>4, <1>5

\* A handler that begins for the sensor.
Starts(s, v, o) ==
  loop' = [LoopIdle EXCEPT !.pc = "store", !.to = s, !.val = v, !.owner = o]

StoreView(s, v, o) == [Sensor(s)!LoopIdle EXCEPT !.pc = "store", !.val = v, !.owner = o]
EventView(s, v) == [Sensor(s)!LoopIdle EXCEPT !.pc = "store", !.val = v]

LEMMA LoopStarts ==
  ASSUME NEW s \in Sensors, NEW v \in Values, NEW o \in Holders, Starts(s, v, o)
  PROVE  /\ LoopOf(s, loop') = StoreView(s, v, o)
         /\ o = Nobody => LoopOf(s, loop') = EventView(s, v)
<1>1. Sensor(s)!LoopIdle = [pc |-> "idle", owner |-> Nobody, val |-> {}, heard |-> FALSE]
  BY DEF Sensor!LoopIdle
<1>2. PICK a \in Sensor(s)!LoopType : a = Sensor(s)!LoopIdle
  BY <1>1 DEF Sensor!LoopType, Sensor!Values
<1>3. a.pc = "idle" /\ a.owner = Nobody /\ a.val = {} /\ a.heard = FALSE
  BY <1>1, <1>2
<1>4. /\ [a EXCEPT !.pc = "store", !.val = v]
           = [pc |-> "store", owner |-> a.owner, val |-> v, heard |-> a.heard]
      /\ [a EXCEPT !.pc = "store", !.val = v, !.owner = o]
           = [pc |-> "store", owner |-> o, val |-> v, heard |-> a.heard]
  <2>1. /\ [a EXCEPT !.pc = "store", !.val = v] = [[a EXCEPT !.pc = "store"] EXCEPT !.val = v]
        /\ [a EXCEPT !.pc = "store", !.val = v, !.owner = o]
             = [[[a EXCEPT !.pc = "store"] EXCEPT !.val = v] EXCEPT !.owner = o]
        /\ [a EXCEPT !.pc = "store"]
             = [pc |-> "store", owner |-> a.owner, val |-> a.val, heard |-> a.heard]
    BY DEF Sensor!LoopType
  <2>2. [[pc |-> "store", owner |-> a.owner, val |-> a.val, heard |-> a.heard] EXCEPT !.val = v]
          = [pc |-> "store", owner |-> a.owner, val |-> v, heard |-> a.heard]
    OBVIOUS
  <2>3. [[pc |-> "store", owner |-> a.owner, val |-> v, heard |-> a.heard] EXCEPT !.owner = o]
          = [pc |-> "store", owner |-> o, val |-> v, heard |-> a.heard]
    OBVIOUS
  <2>. QED  BY <2>1, <2>2, <2>3
<1>5. \A x : x.to = s =>
        LoopOf(s, x) = [pc |-> x.pc, owner |-> x.owner, val |-> x.val, heard |-> x.heard]
  BY DEF LoopOf, For
<1>6. LoopOf(s, loop') = [pc |-> "store", owner |-> o, val |-> v, heard |-> a.heard]
  <2>1. /\ loop'.to = s /\ loop'.pc = "store" /\ loop'.owner = o /\ loop'.val = v
        /\ loop'.heard = FALSE
    BY DEF LoopIdle, Starts
  <2>. QED  BY <1>3, <1>5, <2>1
<1>. QED  BY <1>2, <1>3, <1>4, <1>6 DEF StoreView, EventView

\* The handlers of the loop thread, for the sensor they serve.
LEMMA OwnContinue ==
  ASSUME Inv, NEW s \in Sensors, Continue, Head(done).to = s
  PROVE  Sensor(s)!Continue
<1>1. /\ loop.pc = "idle" /\ done # <<>> /\ done' = Tail(done) /\ done \in Seq(DoneType)
      /\ UNCHANGED <<config, connected, sens, cell, sdoq, api, req>>
  BY DEF Continue, slave, Inv, Types
<1>2. PICK v \in Values :
        /\ Head(done).ok => v = Head(done).val
        /\ loop' = [LoopIdle EXCEPT !.pc = "store", !.to = s, !.val = v, !.owner = Head(done).owner]
  BY DEF Continue
<1>3. /\ EndedOf(s, done) # <<>> /\ Head(EndedOf(s, done)) = EndSeen(Head(done))
      /\ EndedOf(s, done') = Tail(EndedOf(s, done))
  BY <1>1, EndsTail
<1>4. /\ Head(EndedOf(s, done)).ok = Head(done).ok
      /\ Head(EndedOf(s, done)).val = Head(done).val
      /\ Head(EndedOf(s, done)).owner = Head(done).owner
  BY <1>3 DEF EndSeen
<1>5. Head(done).owner \in Holders
  <2>1. Head(done) \in DoneType
    BY <1>1, HeadTailProperties
  <2>. QED  BY <2>1 DEF DoneType
<1>6. LoopOf(s, loop') = [Sensor(s)!LoopIdle EXCEPT !.pc = "store", !.val = v,
                                                    !.owner = Head(EndedOf(s, done)).owner]
  <2>1. v \in Values /\ Starts(s, v, Head(done).owner)
    BY <1>2 DEF Starts
  <2>2. LoopOf(s, loop') = StoreView(s, v, Head(done).owner)
    BY <1>5, <2>1, LoopStarts
  <2>. QED  BY <1>4, <2>2 DEF StoreView
<1>7. LoopOf(s, loop).pc = "idle"
  BY <1>1, LoopSeen
<1>8. /\ table' = table /\ OpsOf(s, sdoq') = OpsOf(s, sdoq)
      /\ ApiOf(s, api') = ApiOf(s, api)
      /\ PhaseOf(s, req') = PhaseOf(s, req) /\ RefsOf(s, req') = RefsOf(s, req)
      /\ RepliesOf(s, req') = RepliesOf(s, req) /\ AnswerOf(s, req') = AnswerOf(s, req)
      /\ SeenOf(s, req') = SeenOf(s, req) /\ FailedOf(s, req') = FailedOf(s, req)
  BY <1>1, RestSeen
<1>9. v \in Sensor(s)!Values
  BY DEF Values, Sensor!Values
<1>. QED  BY <1>1, <1>2, <1>3, <1>4, <1>6, <1>7, <1>8, <1>9
          DEF Sensor!Continue, Sensor!requestState

LEMMA OwnLoopStore ==
  ASSUME Inv, NEW s \in Sensors, loop.to = s, LoopStore
  PROVE  Sensor(s)!LoopStore
<1>1. /\ loop.pc = "store" /\ sens' = [sens EXCEPT ![s].val = loop.val]
      /\ loop' = [loop EXCEPT !.pc = IF loop.owner = Nobody THEN "push" ELSE "reply"]
      /\ UNCHANGED <<config, connected, cell, sdoq, done, api, req>>
  BY DEF LoopStore, slave
<1>2. /\ LoopOf(s, loop).pc = "store" /\ LoopOf(s, loop).val = loop.val
      /\ LoopOf(s, loop).owner = loop.owner
      /\ LoopOf(s, loop') = [LoopOf(s, loop) EXCEPT !.pc = IF loop.owner = Nobody THEN "push"
                                                           ELSE "reply"]
  <2>1. /\ LoopOf(s, loop).pc = "store" /\ LoopOf(s, loop).val = loop.val
        /\ LoopOf(s, loop).owner = loop.owner
    BY <1>1, LoopSeen
  <2>2. CASE loop.owner = Nobody
    <3>1. loop' = [loop EXCEPT !.pc = "push"]
      BY <1>1, <2>2
    <3>2. LoopOf(s, loop') = [LoopOf(s, loop) EXCEPT !.pc = "push"]
      BY <3>1, LoopMoves
    <3>. QED  BY <2>1, <2>2, <3>2
  <2>3. CASE loop.owner # Nobody
    <3>1. loop' = [loop EXCEPT !.pc = "reply"]
      BY <1>1, <2>3
    <3>2. LoopOf(s, loop') = [LoopOf(s, loop) EXCEPT !.pc = "reply"]
      BY <3>1, LoopMoves
    <3>. QED  BY <2>1, <2>3, <3>2
  <2>. QED  BY <2>2, <2>3
<1>3. /\ table' = table /\ OpsOf(s, sdoq') = OpsOf(s, sdoq)
      /\ EndedOf(s, done') = EndedOf(s, done) /\ ApiOf(s, api') = ApiOf(s, api)
      /\ PhaseOf(s, req') = PhaseOf(s, req) /\ RefsOf(s, req') = RefsOf(s, req)
      /\ RepliesOf(s, req') = RepliesOf(s, req) /\ AnswerOf(s, req') = AnswerOf(s, req)
      /\ SeenOf(s, req') = SeenOf(s, req) /\ FailedOf(s, req') = FailedOf(s, req)
  BY <1>1, RestSeen
<1>4. /\ sens'[s].val = loop.val /\ sens'[s].active = sens[s].active
      /\ sens'[s].listeners = sens[s].listeners /\ sens'[s].written = sens[s].written
  BY <1>1, SensSeen DEF Inv
<1>. QED  BY <1>1, <1>2, <1>3, <1>4 DEF Sensor!LoopStore, Sensor!requestState

LEMMA OwnLoopReply ==
  ASSUME Inv, NEW s \in Sensors, loop.to = s, LoopReply
  PROVE  Sensor(s)!LoopReply
<1>1. /\ loop.pc = "reply" /\ req' = Answered(loop.owner, "value", sens[s].val)
      /\ loop' = [loop EXCEPT !.pc = "unref"]
      /\ UNCHANGED <<config, connected, sens, cell, sdoq, done, api>>
  BY DEF LoopReply, slave
<1>2. Types /\ loop.owner \in Requests /\ req[loop.owner].to = s /\ sens[s].val \in Values
  BY <1>1, LoopServes DEF Inv, Shape, LoopFor, Types, SensType
<1>3. /\ RepliesOf(s, req') = [RepliesOf(s, req) EXCEPT ![loop.owner] = @ + 1]
      /\ AnswerOf(s, req') =
           [AnswerOf(s, req) EXCEPT ![loop.owner] = [status |-> "value", val |-> sens[s].val]]
      /\ PhaseOf(s, req') = PhaseOf(s, req) /\ RefsOf(s, req') = RefsOf(s, req)
      /\ SeenOf(s, req') = SeenOf(s, req) /\ FailedOf(s, req') = FailedOf(s, req)
  <2>1. ASSUME NEW x \in Requests, req[x].to = s, NEW val \in Values,
               req' = Answered(x, "value", val)
        PROVE  /\ RepliesOf(s, req') = [RepliesOf(s, req) EXCEPT ![x] = @ + 1]
               /\ AnswerOf(s, req') =
                    [AnswerOf(s, req) EXCEPT ![x] = [status |-> "value", val |-> val]]
               /\ PhaseOf(s, req') = PhaseOf(s, req) /\ RefsOf(s, req') = RefsOf(s, req)
               /\ SeenOf(s, req') = SeenOf(s, req) /\ FailedOf(s, req') = FailedOf(s, req)
    BY <1>2, <2>1, AnsweredSeen
  <2>. QED  BY <1>1, <1>2, <2>1
<1>4. /\ LoopOf(s, loop).pc = "reply" /\ LoopOf(s, loop).owner = loop.owner
      /\ LoopOf(s, loop') = [LoopOf(s, loop) EXCEPT !.pc = "unref"]
  BY <1>1, LoopSeen, LoopMoves
<1>5. /\ table' = table /\ OpsOf(s, sdoq') = OpsOf(s, sdoq)
      /\ EndedOf(s, done') = EndedOf(s, done) /\ ApiOf(s, api') = ApiOf(s, api)
  BY <1>1, RestSeen
<1>. QED  BY <1>1, <1>3, <1>4, <1>5 DEF Sensor!LoopReply, Sensor!Reply

LEMMA OwnLoopUnref ==
  ASSUME Inv, NEW s \in Sensors, loop.to = s, LoopUnref
  PROVE  Sensor(s)!LoopUnref
<1>1. /\ loop.pc = "unref" /\ Unref(loop.owner) /\ loop' = LoopIdle
      /\ UNCHANGED <<config, connected, sens, cell, sdoq, done, api>>
  BY DEF LoopUnref, slave
<1>2. Types /\ loop.owner \in Requests /\ req[loop.owner].to = s /\ req[loop.owner].refs # 0
  <2>1. loop.owner \in Requests /\ req[loop.owner].to = s
    BY <1>1, LoopServes DEF Inv, Shape, LoopFor
  <2>2. Counted(loop.owner) /\ Async(loop.owner)
    BY <1>1, <2>1 DEF Inv, Books, Async, OnLoop
  <2>. QED  BY <2>1, <2>2 DEF Inv, Counted
<1>3. /\ RefsOf(s, req') = [RefsOf(s, req) EXCEPT ![loop.owner] = @ - 1]
      /\ PhaseOf(s, req') = [PhaseOf(s, req) EXCEPT ![loop.owner] =
                               IF RefsOf(s, req)[loop.owner] = 1 THEN "gone" ELSE @]
      /\ RepliesOf(s, req') = RepliesOf(s, req) /\ AnswerOf(s, req') = AnswerOf(s, req)
      /\ SeenOf(s, req') = SeenOf(s, req) /\ FailedOf(s, req') = FailedOf(s, req)
  BY <1>1, <1>2, UnrefSeen
<1>4. /\ LoopOf(s, loop).pc = "unref" /\ LoopOf(s, loop).owner = loop.owner
      /\ LoopOf(s, loop') = Sensor(s)!LoopIdle
  BY <1>1, LoopSeen
<1>5. /\ table' = table /\ OpsOf(s, sdoq') = OpsOf(s, sdoq)
      /\ EndedOf(s, done') = EndedOf(s, done) /\ ApiOf(s, api') = ApiOf(s, api)
  BY <1>1, RestSeen
<1>. QED  BY <1>1, <1>3, <1>4, <1>5 DEF Sensor!LoopUnref, Sensor!Unref

LEMMA OwnPush ==
  ASSUME Inv, NEW s \in Sensors, loop.to = s, Push
  PROVE  Sensor(s)!Push
<1>. DEFINE h == sens[s].listeners # {}
            v == sens[s].val
<1>1. /\ loop.pc = "push" /\ loop' = [loop EXCEPT !.pc = "pushed", !.val = v, !.heard = h]
      /\ UNCHANGED <<config, connected, sens, cell, sdoq, done, api, req>>
  BY DEF Push, slave
<1>2. h \in BOOLEAN /\ v \in Values
  BY DEF Inv, Types, SensType
<1>. HIDE DEF h, v
<1>3. /\ LoopOf(s, loop).pc = "push"
      /\ LoopOf(s, loop') = [LoopOf(s, loop) EXCEPT !.pc = "pushed", !.val = v, !.heard = h]
  <2>1. LoopOf(s, loop).pc = "push"
    BY <1>1, LoopSeen
  <2>2. LoopOf(s, loop') = [LoopOf(s, loop) EXCEPT !.pc = "pushed", !.val = v, !.heard = h]
    <3>1. Pushes(v, h)
      BY <1>1 DEF Pushes
    <3>2. LoopOf(s, loop') = PushView(s, v, h)
      BY <1>2, <3>1, LoopMoves
    <3>. QED  BY <3>2 DEF PushView
  <2>. QED  BY <2>1, <2>2
<1>4. /\ table' = table /\ OpsOf(s, sdoq') = OpsOf(s, sdoq)
      /\ EndedOf(s, done') = EndedOf(s, done) /\ ApiOf(s, api') = ApiOf(s, api)
      /\ PhaseOf(s, req') = PhaseOf(s, req) /\ RefsOf(s, req') = RefsOf(s, req)
      /\ RepliesOf(s, req') = RepliesOf(s, req) /\ AnswerOf(s, req') = AnswerOf(s, req)
      /\ SeenOf(s, req') = SeenOf(s, req) /\ FailedOf(s, req') = FailedOf(s, req)
  BY <1>1, RestSeen
<1>. QED  BY <1>1, <1>3, <1>4 DEF Sensor!Push, Sensor!requestState, h, v

LEMMA OwnPushed ==
  ASSUME Inv, NEW s \in Sensors, loop.to = s, Pushed
  PROVE  Sensor(s)!Pushed
<1>1. /\ loop.pc = "pushed" /\ sens' = [sens EXCEPT ![s].active = sens[s].active /\ loop.heard]
      /\ loop' = LoopIdle
      /\ UNCHANGED <<config, connected, cell, sdoq, done, api, req>>
  BY DEF Pushed, slave
<1>2. /\ LoopOf(s, loop).pc = "pushed" /\ LoopOf(s, loop).heard = loop.heard
      /\ LoopOf(s, loop') = Sensor(s)!LoopIdle
  BY <1>1, LoopSeen
<1>3. /\ table' = table /\ OpsOf(s, sdoq') = OpsOf(s, sdoq)
      /\ EndedOf(s, done') = EndedOf(s, done) /\ ApiOf(s, api') = ApiOf(s, api)
      /\ PhaseOf(s, req') = PhaseOf(s, req) /\ RefsOf(s, req') = RefsOf(s, req)
      /\ RepliesOf(s, req') = RepliesOf(s, req) /\ AnswerOf(s, req') = AnswerOf(s, req)
      /\ SeenOf(s, req') = SeenOf(s, req) /\ FailedOf(s, req') = FailedOf(s, req)
  BY <1>1, RestSeen
<1>4. /\ sens'[s].val = sens[s].val
      /\ sens'[s].active = (sens[s].active /\ loop.heard)
      /\ sens'[s].listeners = sens[s].listeners /\ sens'[s].written = sens[s].written
  BY <1>1, SensSeen DEF Inv
<1>. QED  BY <1>1, <1>2, <1>3, <1>4 DEF Sensor!Pushed, Sensor!requestState

\* The handlers of the loop thread for another sensor.
LEMMA OtherLoopStep ==
  ASSUME Inv, NEW s \in Sensors, loop.to # s,
         LoopStore \/ LoopReply \/ LoopUnref \/ Push \/ Pushed
  PROVE  UNCHANGED Sensor(s)!vars
<1>1. /\ Types /\ loop.pc \notin {"idle", "config"}
      /\ UNCHANGED <<config, connected, cell, sdoq, done, api>>
  BY DEF Inv, LoopStore, LoopReply, LoopUnref, Push, Pushed, slave
<1>2. /\ loop.to \in Sensors /\ loop \in LoopType /\ sens \in [Sensors -> SensType]
      /\ LoopIdle.to # s
  BY <1>1, LoopServes, SensorNumbers DEF Types, LoopIdle, Config
<1>3. sens'[s] = sens[s]
  <2>1. UNCHANGED sens \/ \E v : sens' = [sens EXCEPT ![loop.to] = v]
    BY DEF LoopStore, LoopReply, LoopUnref, Push, Pushed
  <2>. QED  BY <1>2, <2>1
<1>4. LoopOf(s, loop') = LoopOf(s, loop)
  <2>1. loop'.to # s
    <3>1. \/ loop' = LoopIdle
          \/ \E p : loop' = [loop EXCEPT !.pc = p]
          \/ \E v, h : loop' = [loop EXCEPT !.pc = "pushed", !.val = v, !.heard = h]
      <4>1. CASE LoopStore \/ LoopReply \/ LoopUnref \/ Pushed
        BY <4>1 DEF LoopStore, LoopReply, LoopUnref, Pushed
      <4>2. CASE Push
        <5>1. loop' = [loop EXCEPT !.pc = "pushed", !.val = sens[loop.to].val,
                                   !.heard = sens[loop.to].listeners # {}]
          BY <4>2 DEF Push
        <5>. QED  BY <5>1, Zenon
      <4>. QED  BY <4>1, <4>2
    <3>. QED  BY <1>2, <3>1 DEF LoopType
  <2>. QED  BY <2>1, LoopSeen
<1>5. ReqOf(s, req') = ReqOf(s, req)
  <2>1. CASE LoopReply
    <3>1. /\ loop.owner \in Requests /\ req[loop.owner].to # s /\ sens[loop.to].val \in Values
          /\ req' = Answered(loop.owner, "value", sens[loop.to].val)
      BY <1>1, <1>2, <2>1, LoopServes DEF LoopReply, Inv, Shape, LoopFor, SensType
    <3>2. ASSUME NEW x \in Requests, req[x].to # s, NEW val \in Values,
                 req' = Answered(x, "value", val)
          PROVE  ReqOf(s, req') = ReqOf(s, req)
      BY <1>1, <3>2, AnsweredSeen
    <3>. QED  BY <3>1, <3>2
  <2>2. CASE LoopUnref
    <3>1. /\ loop.owner \in Requests /\ req[loop.owner].to # s /\ Unref(loop.owner)
      BY <1>1, <1>2, <2>2, LoopServes DEF LoopUnref, Inv, Shape, LoopFor
    <3>2. req[loop.owner].refs # 0
      BY <1>1, <3>1 DEF Inv, Books, Counted, Async, OnLoop
    <3>. QED  BY <1>1, <3>1, <3>2, UnrefSeen
  <2>3. CASE LoopStore \/ Push \/ Pushed
    <3>1. req' = req
      BY <2>3 DEF LoopStore, Push, Pushed
    <3>. QED  BY <3>1
  <2>. QED  BY <2>1, <2>2, <2>3
<1>6. /\ OpsOf(s, sdoq') = OpsOf(s, sdoq) /\ EndedOf(s, done') = EndedOf(s, done)
      /\ ApiOf(s, api') = ApiOf(s, api) /\ cell'[Cell(s)] = cell[Cell(s)]
  BY <1>1
<1>. QED  BY <1>1, <1>3, <1>4, <1>5, <1>6, SensorSame

\* The continuation of another sensor begins.
LEMMA OtherContinue ==
  ASSUME Inv, NEW s \in Sensors, Continue, Head(done).to # s
  PROVE  UNCHANGED Sensor(s)!vars
<1>1. /\ loop.pc = "idle" /\ done # <<>> /\ done' = Tail(done) /\ done \in Seq(DoneType)
      /\ \E v : loop' = [LoopIdle EXCEPT !.pc = "store", !.to = Head(done).to, !.val = v,
                                         !.owner = Head(done).owner]
      /\ UNCHANGED <<config, connected, sens, cell, sdoq, api, req>>
  BY DEF Continue, slave, Inv, Types
<1>2. EndedOf(s, done') = EndedOf(s, done)
  BY <1>1, EndsTail
<1>3. LoopOf(s, loop') = LoopOf(s, loop)
  <2>1. loop'.to # s
    BY <1>1 DEF LoopIdle
  <2>. QED  BY <1>1, <2>1, LoopSeen
<1>4. /\ OpsOf(s, sdoq') = OpsOf(s, sdoq) /\ sens'[s] = sens[s]
      /\ ApiOf(s, api') = ApiOf(s, api) /\ cell'[Cell(s)] = cell[Cell(s)]
      /\ ReqOf(s, req') = ReqOf(s, req)
  BY <1>1
<1>. QED  BY <1>1, <1>2, <1>3, <1>4, SensorSame

\* The slave goes down when it boots and is up again when its configuration begins: to
\* a sensor, a heartbeat that comes and goes.
LEMMA HeartbeatSeen ==
  ASSUME Inv, NEW s \in Sensors, NEW b \in BOOLEAN,
         loop.pc \in {"idle", "config"}, connected' = ~b,
         UNCHANGED <<config, sens, cell, api, req>>,
         OpsOf(s, sdoq') = OpsOf(s, sdoq), EndedOf(s, done') = EndedOf(s, done),
         loop'.to # s
  PROVE  Sensor(s)!OnHeartbeat(b)
<1>1. LoopOf(s, loop).pc = "idle" /\ LoopOf(s, loop') = LoopOf(s, loop)
  BY LoopSeen
<1>2. /\ table' = table /\ ApiOf(s, api') = ApiOf(s, api)
      /\ PhaseOf(s, req') = PhaseOf(s, req) /\ RefsOf(s, req') = RefsOf(s, req)
      /\ RepliesOf(s, req') = RepliesOf(s, req) /\ AnswerOf(s, req') = AnswerOf(s, req)
      /\ SeenOf(s, req') = SeenOf(s, req) /\ FailedOf(s, req') = FailedOf(s, req)
  BY RestSeen
<1>. QED  BY <1>1, <1>2 DEF Sensor!OnHeartbeat, Sensor!requestState, Sensor!threads

\* What doStartAction submits is for no sensor.
LEMMA StartsActionSeen ==
  ASSUME Inv, NEW i \in Nat \ {0}, DoStartAction(i), NEW s \in Sensors
  PROVE  OpsOf(s, sdoq') = OpsOf(s, sdoq)
<1>1. s # Config /\ sdoq \in Seq(OpType)
  BY SensorNumbers DEF Inv, Types, Config
<1>2. \A j \in i..Len(onconf) : onconf[j] \in ItemType
  <2>1. onconf \in Seq(ItemType)
    BY Constants DEF Inv, Types, SlaveType, onconf
  <2>2. Len(onconf) \in Nat /\ \A j \in 1..Len(onconf) : onconf[j] \in ItemType
    BY <2>1, LenProperties, ElementOfSeq
  <2>. QED  BY <2>2
<1>3. \/ UNCHANGED sdoq
      \/ \E j \in i..Len(onconf) :
           sdoq' = Append(sdoq, [op |-> "write", to |-> Config, owner |-> Nobody,
                                 id |-> onconf[j].id, val |-> onconf[j].val, from |-> Nobody])
  BY DEF DoStartAction
<1>4. ASSUME NEW j \in i..Len(onconf),
             sdoq' = Append(sdoq, [op |-> "write", to |-> Config, owner |-> Nobody,
                                   id |-> onconf[j].id, val |-> onconf[j].val, from |-> Nobody])
      PROVE  OpsOf(s, sdoq') = OpsOf(s, sdoq)
  <2>. DEFINE e == [op |-> "write", to |-> Config, owner |-> Nobody,
                    id |-> onconf[j].id, val |-> onconf[j].val, from |-> Nobody]
  <2>1. e \in OpType /\ e.to = Config
    BY <1>2, Constants DEF OpType, Holders, ItemType
  <2>2. sdoq' = Append(sdoq, e)
    BY <1>4
  <2>. HIDE DEF e
  <2>3. OpsOf(s, Append(sdoq, e)) = OpsOf(s, sdoq)
    BY <1>1, <2>1, OpsAppend
  <2>. QED  BY <2>2, <2>3
<1>. QED  BY <1>3, <1>4

\* A step of the loop thread is one of the sensor it serves; those of the configuration
\* may put the connection back.
LEMMA LoopStepSeen ==
  ASSUME Inv, ~Terminated, NEW s \in Sensors, LoopStep
  PROVE  Sensor(s)!Next \/ UNCHANGED Sensor(s)!vars
<1>1. CASE Continue
  <2>1. CASE Head(done).to = s
    BY <1>1, <2>1, OwnContinue, Alive DEF Sensor!Next, Sensor!LoopStep
  <2>2. CASE Head(done).to # s
    BY <1>1, <2>2, OtherContinue
  <2>. QED  BY <2>1, <2>2
<1>2. CASE LoopStore \/ LoopReply \/ LoopUnref \/ Push \/ Pushed
  <2>1. CASE loop.to = s
    BY <1>2, <2>1, OwnLoopStore, OwnLoopReply, OwnLoopUnref, OwnPush, OwnPushed, Alive
    DEF Sensor!Next, Sensor!LoopStep
  <2>2. CASE loop.to # s
    BY <1>2, <2>2, OtherLoopStep
  <2>. QED  BY <2>1, <2>2
<1>3. CASE OnConfigAction
  <2>1. /\ loop.pc = "config" /\ DoStartAction(1) /\ connected' = TRUE /\ loop' = LoopIdle
        /\ UNCHANGED <<config, sens, cell, done, api, req>>
    BY <1>3 DEF OnConfigAction
  <2>2. OpsOf(s, sdoq') = OpsOf(s, sdoq) /\ EndedOf(s, done') = EndedOf(s, done)
    BY <2>1, StartsActionSeen
  <2>3. loop'.to # s
    BY <2>1, SensorNumbers DEF Inv, LoopIdle, Config
  <2>4. Sensor(s)!OnHeartbeat(FALSE)
    BY <2>1, <2>2, <2>3, HeartbeatSeen
  <2>. QED  BY <2>4, Alive DEF Sensor!Next
<1>4. CASE ConfigContinue
  <2>1. /\ loop.pc = "idle" /\ done # <<>> /\ Head(done).to = Config
        /\ done' = Tail(done) /\ DoStartAction(conf.next)
        /\ connected' = (connected \/ conf'.state = "ended")
        /\ UNCHANGED <<config, sens, cell, api, loop, req>>
    BY <1>4 DEF ConfigContinue
  <2>2. /\ s # Config /\ done \in Seq(DoneType) /\ conf.next \in Nat \ {0}
        /\ connected \in BOOLEAN /\ loop.to # s
    BY <2>1, SensorNumbers DEF Inv, Types, Config, ConfType, Shape, LoopFor
  <2>3. OpsOf(s, sdoq') = OpsOf(s, sdoq)
    BY <2>1, <2>2, StartsActionSeen
  <2>4. EndedOf(s, done') = EndedOf(s, done)
    BY <2>1, <2>2, EndsTail
  <2>5. CASE connected'
    <3>1. connected' = TRUE
      BY <2>1, <2>5
    <3>2. Sensor(s)!OnHeartbeat(FALSE)
      BY <2>1, <2>2, <2>3, <2>4, <3>1, HeartbeatSeen
    <3>. QED  BY <3>2, Alive DEF Sensor!Next
  <2>6. CASE ~connected'
    <3>1. connected' = connected
      BY <2>1, <2>2, <2>6
    <3>2. /\ sens'[s] = sens[s] /\ cell'[Cell(s)] = cell[Cell(s)]
          /\ ApiOf(s, api') = ApiOf(s, api) /\ LoopOf(s, loop') = LoopOf(s, loop)
          /\ ReqOf(s, req') = ReqOf(s, req)
      BY <2>1
    <3>. QED  BY <2>1, <2>3, <2>4, <3>1, <3>2, SensorSame
  <2>. QED  BY <2>5, <2>6
<1>. QED  BY <1>1, <1>2, <1>3, <1>4 DEF LoopStep

-----------------------------------------------------------------------------
(* What a sensor sees of the bus.                                          *)

\* The queues of a sensor are no longer than those of the slave.
LEMMA LengthsSeen ==
  ASSUME Types, NEW s
  PROVE  /\ Len(OpsOf(s, sdoq)) \in Nat /\ Len(OpsOf(s, sdoq)) <= Len(sdoq)
         /\ Len(EndedOf(s, done)) \in Nat /\ Len(EndedOf(s, done)) <= Len(done)
         /\ Len(sdoq) \in Nat /\ Len(done) \in Nat
<1>1. sdoq \in Seq(OpType) /\ done \in Seq(DoneType)
  BY DEF Types
<1>2. /\ Mine(s, sdoq) \in Seq(OpType) /\ Len(Mine(s, sdoq)) <= Len(sdoq)
      /\ Mine(s, done) \in Seq(DoneType) /\ Len(Mine(s, done)) <= Len(done)
  BY <1>1, MinePicks
<1>3. /\ OpsOf(s, sdoq) = Mapped(OpView, Mine(s, sdoq))
      /\ EndedOf(s, done) = Mapped(EndView, Mine(s, done))
  BY <1>1, ViewsAre DEF View
<1>4. /\ Len(Mapped(OpView, Mine(s, sdoq))) = Len(Mine(s, sdoq))
      /\ Len(Mapped(EndView, Mine(s, done))) = Len(Mine(s, done))
  BY <1>2, ViewsMap, MappedQueue
<1>. QED  BY <1>1, <1>2, <1>3, <1>4, LenProperties

\* An RPDO writes the object of the sensor, and its event is active or not.
LEMMA OwnRpdo ==
  ASSUME Inv, NEW s \in Sensors, Whole(s), NEW id \in Ids, NEW v \in Values, OnRpdoWrite(id, v),
         Kind(s) = "RPDO", table[s].id = id
  PROVE  Sensor(s)!OnRpdoWrite(v)
<1>. DEFINE c == <<"RPDO", id>>
<1>1. /\ Regs(id) = s /\ Cell(s) = c /\ s \in On(c) /\ s # 0 /\ table[s].kind = "RPDO"
      /\ Types /\ cell \in [Kinds \X Ids -> Values] /\ c \in Kinds \X Ids
  BY SensorNumbers DEF Whole, Cell, Kind, On, Inv, Types, Kinds
<1>2. /\ loop.pc = "idle" /\ cell' = [cell EXCEPT ![c] = v] /\ Saw(On(c), v)
      /\ UNCHANGED <<config, connected, sens, sdoq, done, api>>
      /\ \/ ~sens[s].active /\ loop' = loop
         \/ sens[s].active /\ loop' = [LoopIdle EXCEPT !.pc = "store", !.to = s, !.val = v]
  BY <1>1 DEF OnRpdoWrite, slave
<1>3. cell'[<<table[s].kind, table[s].id>>] = v
  BY <1>1, <1>2
<1>4. /\ SeenOf(s, req') = [r \in Requests |->
                              IF PhaseOf(s, req)[r] = "open" /\ RepliesOf(s, req)[r] = 0
                              THEN SeenOf(s, req)[r] \cup {v} ELSE SeenOf(s, req)[r]]
      /\ PhaseOf(s, req') = PhaseOf(s, req) /\ RefsOf(s, req') = RefsOf(s, req)
      /\ RepliesOf(s, req') = RepliesOf(s, req) /\ AnswerOf(s, req') = AnswerOf(s, req)
      /\ FailedOf(s, req') = FailedOf(s, req)
  BY <1>1, <1>2, SawSeen
<1>5. /\ LoopOf(s, loop).pc = "idle"
      /\ LoopOf(s, loop') = IF sens[s].active THEN EventView(s, v) ELSE LoopOf(s, loop)
  <2>1. LoopOf(s, loop).pc = "idle"
    BY <1>2, LoopSeen
  <2>2. CASE sens[s].active
    <3>1. Starts(s, v, Nobody)
      BY <1>2, <2>2 DEF Starts, LoopIdle
    <3>2. Nobody \in Holders
      BY DEF Holders
    <3>3. LoopOf(s, loop') = EventView(s, v)
      BY <3>1, <3>2, LoopStarts
    <3>. QED  BY <2>1, <2>2, <3>3
  <2>3. CASE ~sens[s].active
    BY <1>2, <2>1, <2>3
  <2>. QED  BY <2>2, <2>3
<1>6. /\ table' = table /\ OpsOf(s, sdoq') = OpsOf(s, sdoq)
      /\ EndedOf(s, done') = EndedOf(s, done) /\ ApiOf(s, api') = ApiOf(s, api)
  BY <1>2, RestSeen
<1>. QED  BY <1>1, <1>2, <1>3, <1>4, <1>5, <1>6
          DEF Sensor!OnRpdoWrite, Sensor!Saw, Sensor!Waiting, EventView

LEMMA OwnRpdoSdo ==
  ASSUME Inv, NEW s \in Sensors, UNCHANGED <<config, connected, sens, done, api, loop>>,
         loop.pc = "idle", sens[s].active, Kind(s) = "SDO", Len(sdoq) + Len(done) < MaxOps,
         sdoq' = Append(sdoq, SdoOp("read", s, Nobody, {}, Nobody)),
         cell'[Cell(s)] = cell[Cell(s)], ReqOf(s, req') = ReqOf(s, req)
  PROVE  Sensor(s)!OnRpdoWriteSdo
<1>1. Types /\ Nobody \in Holders /\ {} \in Values /\ MaxOps \in Nat
  BY Constants, BoundsAssumption DEF Inv, Holders
<1>2. OpsOf(s, sdoq') = Append(OpsOf(s, sdoq), [op |-> "read", owner |-> Nobody, val |-> {}])
  BY <1>1, SubmitSeen
<1>3. Len(OpsOf(s, sdoq)) + Len(EndedOf(s, done)) < MaxOps
  BY <1>1, LengthsSeen
<1>4. LoopOf(s, loop).pc = "idle"
  BY LoopSeen
<1>5. /\ table' = table /\ EndedOf(s, done') = EndedOf(s, done)
      /\ ApiOf(s, api') = ApiOf(s, api) /\ LoopOf(s, loop') = LoopOf(s, loop)
      /\ PhaseOf(s, req') = PhaseOf(s, req) /\ RefsOf(s, req') = RefsOf(s, req)
      /\ RepliesOf(s, req') = RepliesOf(s, req) /\ AnswerOf(s, req') = AnswerOf(s, req)
      /\ SeenOf(s, req') = SeenOf(s, req) /\ FailedOf(s, req') = FailedOf(s, req)
  BY RestSeen
<1>. QED  BY <1>2, <1>3, <1>4, <1>5
          DEF Sensor!OnRpdoWriteSdo, Sensor!requestState, Sensor!threads, Kind, Cell

LEMMA RpdoSeen ==
  ASSUME Inv, ~Terminated, NEW s \in Sensors, Whole(s), NEW id \in Ids, NEW v \in Values,
         OnRpdoWrite(id, v)
  PROVE  Sensor(s)!Next \/ UNCHANGED Sensor(s)!vars
<1>. DEFINE c == <<"RPDO", id>>
            t == Regs(id)
<1>1. CASE Kind(s) = "RPDO" /\ table[s].id = id
  <2>1. Sensor(s)!OnRpdoWrite(v)
    BY <1>1, OwnRpdo
  <2>2. v \in Sensor(s)!Values
    BY DEF Values, Sensor!Values
  <2>. QED  BY <2>1, <2>2, Alive DEF Sensor!Next
<1>2. CASE ~(Kind(s) = "RPDO" /\ table[s].id = id)
  <2>1. /\ Types /\ loop.pc = "idle" /\ Saw(On(c), v) /\ cell \in [Kinds \X Ids -> Values]
        /\ cell' = cell \/ cell' = [cell EXCEPT ![c] = v]
        /\ UNCHANGED <<config, connected, sens, done, api>>
    BY DEF OnRpdoWrite, slave, Inv, Types
  <2>2. Cell(s) # c /\ s \notin On(c) /\ Cell(s) \in Kinds \X Ids /\ c \in Kinds \X Ids
    BY <1>2, SensorNumbers DEF Inv, Cell, Kind, On, Kinds
  <2>3. ReqOf(s, req') = ReqOf(s, req)
    BY <2>1, <2>2, SawSeen
  <2>4. cell'[Cell(s)] = cell[Cell(s)]
    BY <2>1, <2>2
  <2>5. t # 0 => t \in Sensors /\ table[t].id = id
    BY <2>1, RegsIs
  <2>6. s # 0 /\ loop.to # s
    BY <2>1, SensorNumbers DEF Inv, Shape, LoopFor, Config
  <2>7. \/ UNCHANGED <<sdoq, loop>>
        \/ /\ t # 0 /\ Kind(t) = "RPDO"
           /\ loop' = [LoopIdle EXCEPT !.pc = "store", !.to = t, !.val = v]
           /\ UNCHANGED sdoq
        \/ /\ t # 0 /\ sens[t].active /\ Kind(t) = "SDO"
           /\ Len(sdoq) + Len(done) < MaxOps
           /\ sdoq' = Append(sdoq, SdoOp("read", t, Nobody, {}, Nobody))
           /\ UNCHANGED loop
    BY DEF OnRpdoWrite
  <2>. HIDE DEF t
  <2>8. /\ EndedOf(s, done') = EndedOf(s, done) /\ ApiOf(s, api') = ApiOf(s, api)
        /\ sens'[s] = sens[s]
    BY <2>1
  <2>9. CASE UNCHANGED <<sdoq, loop>>
    <3>1. OpsOf(s, sdoq') = OpsOf(s, sdoq) /\ LoopOf(s, loop') = LoopOf(s, loop)
      BY <2>9
    <3>. QED  BY <2>1, <2>3, <2>4, <2>8, <3>1, SensorSame
  <2>10. CASE /\ t # 0 /\ Kind(t) = "RPDO"
              /\ loop' = [LoopIdle EXCEPT !.pc = "store", !.to = t, !.val = v]
              /\ UNCHANGED sdoq
    <3>1. t # s
      BY <1>2, <2>5, <2>10
    <3>2. loop'.to # s
      BY <2>10, <3>1 DEF LoopIdle
    <3>3. LoopOf(s, loop') = LoopOf(s, loop)
      BY <2>6, <3>2, LoopSeen
    <3>4. OpsOf(s, sdoq') = OpsOf(s, sdoq)
      BY <2>10
    <3>. QED  BY <2>1, <2>3, <2>4, <2>8, <3>3, <3>4, SensorSame
  <2>11. CASE /\ t # 0 /\ sens[t].active /\ Kind(t) = "SDO"
              /\ Len(sdoq) + Len(done) < MaxOps
              /\ sdoq' = Append(sdoq, SdoOp("read", t, Nobody, {}, Nobody))
              /\ UNCHANGED loop
    <3>1. CASE t = s
      <4>1. /\ sens[s].active /\ Kind(s) = "SDO"
            /\ sdoq' = Append(sdoq, SdoOp("read", s, Nobody, {}, Nobody))
        BY <2>11, <3>1
      <4>2. Sensor(s)!OnRpdoWriteSdo
        BY <2>1, <2>3, <2>4, <2>11, <4>1, OwnRpdoSdo
      <4>. QED  BY <4>2, Alive DEF Sensor!Next
    <3>2. CASE t # s
      <4>1. Nobody \in Holders /\ {} \in Values
        BY Constants DEF Holders
      <4>2. OpsOf(s, Append(sdoq, SdoOp("read", t, Nobody, {}, Nobody))) = OpsOf(s, sdoq)
        <5>1. t \in Sensors
          BY <2>5, <2>11
        <5>2. ASSUME NEW op \in {"read", "write"}, NEW owner \in Holders, NEW val \in Values
              PROVE  OpsOf(s, Append(sdoq, SdoOp(op, t, owner, val, Nobody))) = OpsOf(s, sdoq)
          <6>1. OpsOf(s, Append(sdoq, SdoOp(op, t, owner, val, Nobody)))
                  = IF t = s THEN Append(OpsOf(s, sdoq), [op |-> op, owner |-> owner, val |-> val])
                    ELSE OpsOf(s, sdoq)
            BY <2>1, <4>1, <5>1, SubmitSeen
          <6>. QED  BY <3>2, <6>1
        <5>. QED  BY <4>1, <5>2
      <4>3. OpsOf(s, sdoq') = OpsOf(s, sdoq) /\ LoopOf(s, loop') = LoopOf(s, loop)
        BY <2>11, <4>2
      <4>. QED  BY <2>1, <2>3, <2>4, <2>8, <4>3, SensorSame
    <3>. QED  BY <3>1, <3>2
  <2>. QED  BY <2>7, <2>9, <2>10, <2>11
<1>. QED  BY <1>1, <1>2

LEMMA BusSeen ==
  ASSUME Inv, ~Terminated, NEW s \in Sensors, Whole(s), Bus
  PROVE  Sensor(s)!Next \/ UNCHANGED Sensor(s)!vars
<1>1. CASE OnConfig
  <2>1. /\ loop.pc = "idle" /\ connected' = FALSE
        /\ loop' = [LoopIdle EXCEPT !.pc = "config"]
        /\ UNCHANGED <<config, sens, cell, sdoq, done, api, req>>
    BY <1>1 DEF OnConfig
  <2>2. loop'.to # s
    BY <2>1, SensorNumbers DEF Inv, LoopIdle, Config
  <2>3. OpsOf(s, sdoq') = OpsOf(s, sdoq) /\ EndedOf(s, done') = EndedOf(s, done)
    BY <2>1
  <2>4. Sensor(s)!OnHeartbeat(TRUE)
    BY <2>1, <2>2, <2>3, HeartbeatSeen
  <2>. QED  BY <2>4, Alive DEF Sensor!Next
<1>2. CASE OnBoot
  <2>1. UNCHANGED <<config, sens, cell, sdoq, done, api, loop, req, connected>>
    BY <1>2 DEF OnBoot
  <2>2. /\ sens'[s] = sens[s] /\ cell'[Cell(s)] = cell[Cell(s)]
        /\ OpsOf(s, sdoq') = OpsOf(s, sdoq) /\ EndedOf(s, done') = EndedOf(s, done)
        /\ ApiOf(s, api') = ApiOf(s, api) /\ LoopOf(s, loop') = LoopOf(s, loop)
        /\ ReqOf(s, req') = ReqOf(s, req)
    BY <2>1
  <2>. QED  BY <2>1, <2>2, SensorSame
<1>. QED  BY <1>1, <1>2, RpdoSeen DEF Bus

-----------------------------------------------------------------------------
(* What a sensor sees of the SDO client.                                   *)

\* The operation at the head of the SDO queue ends: what comes of it.
Ends(o, v, d, ok) ==
  /\ o = Head(sdoq) /\ OpFor(o)
  /\ v = IF o.op = "write" /\ ok THEN o.val ELSE cell[<<"SDO", o.id>>]
  /\ cell' = [cell EXCEPT ![<<"SDO", o.id>>] = v]
  /\ d.to = o.to /\ d.owner = o.owner /\ d.ok = ok
  /\ d.val = IF o.op = "read" /\ ok THEN v ELSE {}
  /\ done' = IF o.op = "write" /\ o.to # Config THEN done ELSE Append(done, d)
  /\ \/ o.op = "write" /\ Saw(On(<<"SDO", o.id>>), v)
     \/ /\ o.op = "read" /\ ~ok /\ o.owner # Nobody
        /\ req' = [req EXCEPT ![o.owner].failed = TRUE]
     \/ /\ o.op = "read" /\ (ok \/ o.owner = Nobody)
        /\ UNCHANGED req

LEMMA SdoEndsAs ==
  ASSUME Inv, NEW ok \in BOOLEAN, SdoEnd(ok)
  PROVE  /\ \E o \in OpType, v \in Values, d \in DoneType : Ends(o, v, d, ok)
         /\ loop.pc = "idle" /\ sdoq # <<>> /\ sdoq' = Tail(sdoq)
         /\ sdoq \in Seq(OpType) /\ done \in Seq(DoneType)
         /\ UNCHANGED <<config, connected, sens, api, loop>>
<1>. DEFINE o == Head(sdoq)
            c == <<"SDO", o.id>>
            v == IF o.op = "write" /\ ok THEN o.val ELSE cell[c]
            d == [to |-> o.to, owner |-> o.owner, ok |-> ok,
                  val |-> IF o.op = "read" /\ ok THEN v ELSE {}]
<1>1. /\ loop.pc = "idle" /\ sdoq # <<>> /\ sdoq' = Tail(sdoq)
      /\ cell' = [cell EXCEPT ![c] = v]
      /\ done' = IF o.op = "write" /\ o.to # Config THEN done ELSE Append(done, d)
      /\ UNCHANGED <<config, connected, sens, api, loop>>
  BY DEF SdoEnd, slave
<1>2. \/ o.op = "write" /\ Saw(On(c), v)
      \/ /\ o.op = "read" /\ ~ok /\ o.owner # Nobody
         /\ req' = [req EXCEPT ![o.owner].failed = TRUE]
      \/ /\ o.op = "read" /\ (ok \/ o.owner = Nobody)
         /\ UNCHANGED req
  BY DEF SdoEnd
<1>3. sdoq \in Seq(OpType) /\ done \in Seq(DoneType) /\ cell \in [Kinds \X Ids -> Values]
  BY DEF Inv, Types
<1>4. o \in OpType /\ 1 \in 1..Len(sdoq) /\ o = sdoq[1]
  BY <1>1, <1>3, TailQueue
<1>5. OpFor(o)
  BY <1>4 DEF Inv, Shape
<1>6. v \in Values
  BY <1>3, <1>4 DEF OpType, Kinds
<1>7. /\ d \in DoneType /\ d.to = o.to /\ d.owner = o.owner /\ d.ok = ok
      /\ d.val = IF o.op = "read" /\ ok THEN v ELSE {}
  BY <1>4, <1>6, Constants DEF DoneType, OpType
<1>8. v = IF o.op = "write" /\ ok THEN o.val ELSE cell[c]
  OBVIOUS
<1>. HIDE DEF o, v, d
<1>9. o = Head(sdoq)
  BY DEF o
<1>10. Ends(o, v, d, ok)
  BY <1>1, <1>2, <1>5, <1>7, <1>8, <1>9 DEF Ends
<1>. QED  BY <1>1, <1>3, <1>4, <1>6, <1>7, <1>10

\* A read of the sensor ends.
LEMMA OwnSdoRead ==
  ASSUME Inv, NEW s \in Sensors, NEW ok \in BOOLEAN, SdoEnd(ok),
         NEW o \in OpType, NEW v \in Values, NEW d \in DoneType, Ends(o, v, d, ok),
         o.to = s, o.op = "read"
  PROVE  Sensor(s)!SdoRead(ok)
<1>1. /\ Types /\ s # Config /\ cell \in [Kinds \X Ids -> Values]
      /\ table[s].kind \in Kinds /\ table[s].id \in Ids
  BY SensorNumbers DEF Inv, Types, Config
<1>2. /\ loop.pc = "idle" /\ sdoq # <<>> /\ sdoq' = Tail(sdoq)
      /\ sdoq \in Seq(OpType) /\ done \in Seq(DoneType)
      /\ UNCHANGED <<config, connected, sens, api, loop>>
  BY SdoEndsAs
<1>3. /\ o = Head(sdoq) /\ table[s].kind = "SDO" /\ table[s].id = o.id
      /\ v = cell[<<"SDO", o.id>>] /\ cell' = [cell EXCEPT ![<<"SDO", o.id>>] = v]
      /\ done' = Append(done, d) /\ d.to = s
      /\ o.owner # Nobody => req[o.owner].to = s
  BY <1>1 DEF Ends, OpFor, Kind
<1>4. cell[<<table[s].kind, table[s].id>>] = v /\ cell'[<<table[s].kind, table[s].id>>] = v
  BY <1>1, <1>3
<1>5. OpsOf(s, sdoq) # <<>> /\ Head(OpsOf(s, sdoq)) = OpSeen(o) /\ OpsOf(s, sdoq') = Tail(OpsOf(s, sdoq))
  BY <1>2, <1>3, OpsTail
<1>6. /\ Head(OpsOf(s, sdoq)).op = "read" /\ Head(OpsOf(s, sdoq)).owner = o.owner
  BY <1>5 DEF OpSeen
<1>7. EndedOf(s, done') = Append(EndedOf(s, done),
                                 [owner |-> o.owner, ok |-> ok, val |-> IF ok THEN v ELSE {}])
  <2>1. EndedOf(s, done') = Append(EndedOf(s, done), EndSeen(d))
    BY <1>2, <1>3, EndsAppend
  <2>2. d.owner = o.owner /\ d.ok = ok /\ d.val = IF ok THEN v ELSE {}
    BY DEF Ends
  <2>3. EndSeen(d) = [owner |-> o.owner, ok |-> ok, val |-> IF ok THEN v ELSE {}]
    BY <2>2 DEF EndSeen
  <2>. QED  BY <2>1, <2>3
<1>8. /\ PhaseOf(s, req') = PhaseOf(s, req) /\ RefsOf(s, req') = RefsOf(s, req)
      /\ RepliesOf(s, req') = RepliesOf(s, req) /\ AnswerOf(s, req') = AnswerOf(s, req)
      /\ SeenOf(s, req') = SeenOf(s, req)
      /\ FailedOf(s, req') = IF ok \/ o.owner = Nobody THEN FailedOf(s, req)
                             ELSE FailedOf(s, req) \cup {o.owner}
  <2>1. CASE ok \/ o.owner = Nobody
    <3>1. req' = req
      BY <2>1 DEF Ends
    <3>. QED  BY <2>1, <3>1, RestSeen
  <2>2. CASE ~(ok \/ o.owner = Nobody)
    <3>1. o.owner \in Requests /\ req' = [req EXCEPT ![o.owner].failed = TRUE]
      BY <2>2 DEF Ends, OpType, Holders
    <3>2. req[o.owner].to = s
      BY <1>3, <2>2
    <3>. QED  BY <1>1, <2>2, <3>1, <3>2, FailedSeen
  <2>. QED  BY <2>1, <2>2
<1>9. LoopOf(s, loop).pc = "idle"
  BY <1>2, LoopSeen DEF Sensor!LoopIdle
<1>10. /\ table' = table /\ ApiOf(s, api') = ApiOf(s, api) /\ LoopOf(s, loop') = LoopOf(s, loop)
  BY <1>2, RestSeen
<1>. QED  BY <1>2, <1>4, <1>5, <1>6, <1>7, <1>8, <1>9, <1>10
          DEF Sensor!SdoRead, Sensor!threads

\* A write of the sensor ends.
LEMMA OwnSdoWrite ==
  ASSUME Inv, NEW s \in Sensors, NEW ok \in BOOLEAN, SdoEnd(ok),
         NEW o \in OpType, NEW v \in Values, NEW d \in DoneType, Ends(o, v, d, ok),
         o.to = s, o.op = "write"
  PROVE  Sensor(s)!SdoWrite(ok)
<1>1. /\ Types /\ s # Config /\ cell \in [Kinds \X Ids -> Values]
      /\ table[s].kind \in Kinds /\ table[s].id \in Ids
  BY SensorNumbers DEF Inv, Types, Config
<1>2. /\ loop.pc = "idle" /\ sdoq # <<>> /\ sdoq' = Tail(sdoq)
      /\ sdoq \in Seq(OpType) /\ done \in Seq(DoneType)
      /\ UNCHANGED <<config, connected, sens, api, loop>>
  BY SdoEndsAs
<1>3. /\ o = Head(sdoq) /\ table[s].kind = "SDO" /\ table[s].id = o.id
      /\ v = IF ok THEN o.val ELSE cell[<<"SDO", o.id>>]
      /\ cell' = [cell EXCEPT ![<<"SDO", o.id>>] = v]
      /\ done' = done /\ Saw(On(<<"SDO", o.id>>), v)
  BY <1>1 DEF Ends, OpFor, Kind
<1>4. /\ cell[<<table[s].kind, table[s].id>>] = cell[<<"SDO", o.id>>]
      /\ cell'[<<table[s].kind, table[s].id>>] = v
  BY <1>1, <1>3
<1>5. OpsOf(s, sdoq) # <<>> /\ Head(OpsOf(s, sdoq)) = OpSeen(o) /\ OpsOf(s, sdoq') = Tail(OpsOf(s, sdoq))
  BY <1>2, <1>3, OpsTail
<1>6. /\ Head(OpsOf(s, sdoq)).op = "write" /\ Head(OpsOf(s, sdoq)).val = o.val
  BY <1>5 DEF OpSeen
<1>7. s \in On(<<"SDO", o.id>>)
  BY <1>3 DEF On, Cell
<1>8. /\ SeenOf(s, req') = [r \in Requests |->
                              IF PhaseOf(s, req)[r] = "open" /\ RepliesOf(s, req)[r] = 0
                              THEN SeenOf(s, req)[r] \cup {v} ELSE SeenOf(s, req)[r]]
      /\ PhaseOf(s, req') = PhaseOf(s, req) /\ RefsOf(s, req') = RefsOf(s, req)
      /\ RepliesOf(s, req') = RepliesOf(s, req) /\ AnswerOf(s, req') = AnswerOf(s, req)
      /\ FailedOf(s, req') = FailedOf(s, req)
  BY <1>1, <1>3, <1>7, SawSeen
<1>9. LoopOf(s, loop).pc = "idle"
  BY <1>2, LoopSeen DEF Sensor!LoopIdle
<1>10. /\ table' = table /\ EndedOf(s, done') = EndedOf(s, done)
       /\ ApiOf(s, api') = ApiOf(s, api) /\ LoopOf(s, loop') = LoopOf(s, loop)
  BY <1>2, <1>3, RestSeen
<1>11. cell'[<<table[s].kind, table[s].id>>]
         = IF ok THEN Head(OpsOf(s, sdoq)).val ELSE cell[<<table[s].kind, table[s].id>>]
  BY <1>3, <1>4, <1>6
<1>12. Sensor(s)!Saw(cell'[<<table[s].kind, table[s].id>>])
  BY <1>4, <1>8 DEF Sensor!Saw, Sensor!Waiting
<1>. QED  BY <1>2, <1>5, <1>6, <1>8, <1>9, <1>10, <1>11, <1>12
          DEF Sensor!SdoWrite, Sensor!threads

\* A write of another, sensor or configuration, in the register of the sensor.
LEMMA OtherSdoWrite ==
  ASSUME Inv, NEW s \in Sensors, NEW ok \in BOOLEAN, SdoEnd(ok),
         NEW o \in OpType, NEW v \in Values, NEW d \in DoneType, Ends(o, v, d, ok),
         o.to # s, o.op = "write", Cell(s) = <<"SDO", o.id>>
  PROVE  Sensor(s)!DeviceChange(v)
<1>1. /\ Types /\ cell \in [Kinds \X Ids -> Values]
      /\ table[s].kind \in Kinds /\ table[s].id \in Ids
  BY SensorNumbers DEF Inv, Types
<1>2. /\ loop.pc = "idle" /\ sdoq # <<>> /\ sdoq' = Tail(sdoq)
      /\ sdoq \in Seq(OpType) /\ done \in Seq(DoneType)
      /\ UNCHANGED <<config, connected, sens, api, loop>>
  BY SdoEndsAs
<1>3. /\ o = Head(sdoq) /\ table[s].kind = "SDO" /\ table[s].id = o.id
      /\ cell' = [cell EXCEPT ![<<"SDO", o.id>>] = v]
      /\ done' = done \/ done' = Append(done, d)
      /\ d.to # s /\ Saw(On(<<"SDO", o.id>>), v)
  BY DEF Ends, Cell
<1>4. cell'[<<table[s].kind, table[s].id>>] = v
  BY <1>1, <1>3
<1>5. OpsOf(s, sdoq') = OpsOf(s, sdoq)
  BY <1>2, <1>3, OpsTail
<1>6. EndedOf(s, done') = EndedOf(s, done)
  <2>1. EndedOf(s, Append(done, d)) = EndedOf(s, done)
    BY <1>2, <1>3, EndsAppend
  <2>. QED  BY <1>3, <2>1
<1>7. s \in On(<<"SDO", o.id>>)
  BY DEF On
<1>8. /\ SeenOf(s, req') = [r \in Requests |->
                              IF PhaseOf(s, req)[r] = "open" /\ RepliesOf(s, req)[r] = 0
                              THEN SeenOf(s, req)[r] \cup {v} ELSE SeenOf(s, req)[r]]
      /\ PhaseOf(s, req') = PhaseOf(s, req) /\ RefsOf(s, req') = RefsOf(s, req)
      /\ RepliesOf(s, req') = RepliesOf(s, req) /\ AnswerOf(s, req') = AnswerOf(s, req)
      /\ FailedOf(s, req') = FailedOf(s, req)
  BY <1>1, <1>3, <1>7, SawSeen
<1>9. LoopOf(s, loop).pc = "idle"
  BY <1>2, LoopSeen DEF Sensor!LoopIdle
<1>10. /\ table' = table /\ ApiOf(s, api') = ApiOf(s, api) /\ LoopOf(s, loop') = LoopOf(s, loop)
  BY <1>2, RestSeen
<1>. QED  BY <1>2, <1>3, <1>4, <1>5, <1>6, <1>8, <1>9, <1>10
          DEF Sensor!DeviceChange, Sensor!Saw, Sensor!Waiting, Sensor!threads

\* An operation of another that leaves the register of the sensor as it is.
LEMMA OtherSdo ==
  ASSUME Inv, NEW s \in Sensors, NEW ok \in BOOLEAN, SdoEnd(ok),
         NEW o \in OpType, NEW v \in Values, NEW d \in DoneType, Ends(o, v, d, ok),
         o.to # s, ~(o.op = "write" /\ Cell(s) = <<"SDO", o.id>>)
  PROVE  UNCHANGED Sensor(s)!vars
<1>. DEFINE c == <<"SDO", o.id>>
<1>1. /\ Types /\ cell \in [Kinds \X Ids -> Values] /\ Cell(s) \in Kinds \X Ids
      /\ c \in Kinds \X Ids
  BY SensorNumbers DEF Inv, Types, Cell, OpType, Kinds
<1>2. /\ sdoq # <<>> /\ sdoq' = Tail(sdoq)
      /\ sdoq \in Seq(OpType) /\ done \in Seq(DoneType)
      /\ UNCHANGED <<config, connected, sens, api, loop>>
  BY SdoEndsAs
<1>3. /\ o = Head(sdoq) /\ d.to # s
      /\ cell' = [cell EXCEPT ![c] = v]
      /\ o.op = "read" => v = cell[c]
      /\ done' = done \/ done' = Append(done, d)
  BY DEF Ends
<1>4. cell'[Cell(s)] = cell[Cell(s)]
  BY <1>1, <1>3 DEF OpType
<1>5. OpsOf(s, sdoq') = OpsOf(s, sdoq)
  BY <1>2, <1>3, OpsTail
<1>6. EndedOf(s, done') = EndedOf(s, done)
  <2>1. EndedOf(s, Append(done, d)) = EndedOf(s, done)
    BY <1>2, <1>3, EndsAppend
  <2>. QED  BY <1>3, <2>1
<1>7. ReqOf(s, req') = ReqOf(s, req)
  <2>1. CASE o.op = "write"
    <3>1. Saw(On(c), v) /\ s \notin On(c)
      BY <2>1 DEF Ends, On
    <3>. QED  BY <1>1, <3>1, SawSeen
  <2>2. CASE req' = req
    BY <2>2
  <2>3. CASE /\ o.op = "read" /\ ~ok /\ o.owner # Nobody
             /\ req' = [req EXCEPT ![o.owner].failed = TRUE]
    <3>1. o.owner \in Requests /\ req[o.owner].to # s
      BY <2>3 DEF Ends, OpFor, OpType, Holders
    <3>. QED  BY <1>1, <2>3, <3>1, FailedSeen
  <2>. QED  BY <2>1, <2>2, <2>3 DEF Ends
<1>8. /\ sens'[s] = sens[s] /\ ApiOf(s, api') = ApiOf(s, api)
      /\ LoopOf(s, loop') = LoopOf(s, loop)
  BY <1>2
<1>. QED  BY <1>2, <1>4, <1>5, <1>6, <1>7, <1>8, SensorSame

LEMMA SdoSeen ==
  ASSUME Inv, ~Terminated, NEW s \in Sensors, Sdo
  PROVE  Sensor(s)!Next \/ UNCHANGED Sensor(s)!vars
<1>1. PICK ok \in BOOLEAN : SdoEnd(ok)
  BY DEF Sdo
<1>2. PICK o \in OpType, v \in Values, d \in DoneType : Ends(o, v, d, ok)
  BY <1>1, SdoEndsAs
<1>3. CASE o.to = s /\ o.op = "read"
  <2>1. Sensor(s)!SdoRead(ok)
    BY <1>1, <1>2, <1>3, OwnSdoRead
  <2>. QED  BY <2>1, <1>1, Alive DEF Sensor!Next, Sensor!Sdo
<1>4. CASE o.to = s /\ o.op = "write"
  <2>1. Sensor(s)!SdoWrite(ok)
    BY <1>1, <1>2, <1>4, OwnSdoWrite
  <2>. QED  BY <2>1, <1>1, Alive DEF Sensor!Next, Sensor!Sdo
<1>5. CASE o.to # s /\ o.op = "write" /\ Cell(s) = <<"SDO", o.id>>
  <2>1. Sensor(s)!DeviceChange(v)
    BY <1>1, <1>2, <1>5, OtherSdoWrite
  <2>2. v \in Sensor(s)!Values
    BY <1>2 DEF Values, Sensor!Values
  <2>. QED  BY <2>1, <2>2, Alive DEF Sensor!Next
<1>6. CASE o.to # s /\ ~(o.op = "write" /\ Cell(s) = <<"SDO", o.id>>)
  BY <1>1, <1>2, <1>6, OtherSdo
<1>. QED  BY <1>2, <1>3, <1>4, <1>5, <1>6 DEF OpType

-----------------------------------------------------------------------------
(* Each sensor of the slave implements CANopenSensor.                      *)

LEMMA SensorInit ==
  ASSUME Init, NEW s \in Sensors
  PROVE  Sensor(s)!Init
<1>1. Inv
  BY InitInv
<1>2. /\ table[s].kind \in Kinds /\ table[s].id \in Ids
      /\ cell \in [Kinds \X Ids -> Values]
  BY <1>1, SensorNumbers DEF Inv, Types
<1>3. OpsOf(s, sdoq) = <<>> /\ EndedOf(s, done) = <<>>
  <2>1. Mine(s, <<>>) = <<>>
    BY MineEmpty
  <2>. QED  BY <2>1 DEF Init, OpsOf, EndedOf
<1>4. ApiOf(s, api) = Sensor(s)!ApiIdle /\ LoopOf(s, loop) = Sensor(s)!LoopIdle
  BY <1>1, ApiSeen, LoopSeen DEF Init
<1>5. \A r \in Requests : ReqOf(s, req)[r] = NewRequest
  BY DEF Init, ReqOf, For
<1>6. /\ NewRequest.phase = "new" /\ NewRequest.refs = 0 /\ NewRequest.replies = 0
      /\ NewRequest.answer = NoAnswer /\ NewRequest.seen = {} /\ NewRequest.failed = FALSE
  BY DEF NewRequest
<1>7. /\ PhaseOf(s, req) = [r \in Requests |-> "new"]
      /\ RefsOf(s, req) = [r \in Requests |-> 0]
      /\ RepliesOf(s, req) = [r \in Requests |-> 0]
      /\ AnswerOf(s, req) = [r \in Requests |-> NoAnswer]
      /\ SeenOf(s, req) = [r \in Requests |-> {}]
      /\ FailedOf(s, req) = {}
  BY <1>5, <1>6 DEF PhaseOf, RefsOf, RepliesOf, AnswerOf, SeenOf, FailedOf
<1>8. Sensor(s)!NoAnswer = NoAnswer
  BY DEF NoAnswer, Sensor!NoAnswer
<1>9. /\ connected = TRUE /\ sens[s].val = {} /\ sens[s].active = FALSE
      /\ sens[s].listeners = {} /\ sens[s].written = FALSE
  BY DEF Init
<1>10. cell[<<table[s].kind, table[s].id>>] \in Sensor(s)!Values
  BY <1>2 DEF Values, Sensor!Values
<1>. QED  BY <1>2, <1>3, <1>4, <1>7, <1>8, <1>9, <1>10 DEF Sensor!Init, Kinds

LEMMA FreshInit ==
  ASSUME Init
  PROVE  Fresh
BY DEF Init, Fresh

\* Each step of the slave is to each of its sensors a step of its own, the slave that
\* comes or goes, its register that another writes, or nothing.
LEMMA StepSeen ==
  ASSUME Inv, Fresh, [Next]_vars
  PROVE  SensorStep \/ UNCHANGED vars
<1>1. SUFFICES ASSUME Next, ~Terminated, NEW s \in Sensors, Whole(s)
               PROVE  Sensor(s)!Next \/ UNCHANGED Sensor(s)!vars
  BY DEF SensorStep, Next
<1>2. ASSUME NEW r \in Requests, NEW t \in Sensors, NEW q \in Asks[r], Accept(r, t, q)
      PROVE  Sensor(s)!Next \/ UNCHANGED Sensor(s)!vars
  <2>1. q \in Queries
    BY DEF Queries
  <2>. QED  BY <1>1, <1>2, <2>1, AcceptStepSeen
<1>3. CASE ApiStep
  BY <1>1, <1>3, ApiStepSeen
<1>4. CASE LoopStep
  BY <1>1, <1>4, LoopStepSeen
<1>5. CASE Sdo
  BY <1>1, <1>5, SdoSeen
<1>6. CASE Bus
  BY <1>1, <1>6, BusSeen
<1>. QED  BY <1>1, <1>2, <1>3, <1>4, <1>5, <1>6 DEF Next

\* Whatever the slave does with its one SDO queue, its two threads and its boots, each
\* of its sensors whose register is its own (Whole) does what CANopenSensor lets it
\* do: what is proved of a sensor alone is true of it in a slave.
THEOREM ImplementsSensors == Spec => SensorsSpec
<1>1. Init => Fresh /\ \A s \in Sensors : Sensor(s)!Init
  BY SensorInit, FreshInit
<1>2. Inv /\ Fresh /\ [Next]_vars => Fresh'
  BY FreshStep
<1>3. Inv /\ Fresh /\ [Next]_vars => [SensorStep]_vars
  BY StepSeen
<1>. QED  BY <1>1, <1>2, <1>3, Invariance, PTL DEF Spec, SensorsSpec
=============================================================================
