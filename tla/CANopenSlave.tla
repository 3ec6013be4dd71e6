---------------------------- MODULE CANopenSlave -----------------------------
(***************************************************************************)
(* A slave with its sensors: CANopenSlaveDriver and several CANopenSensor  *)
(* put together.  The sensors share the two threads, m_connected, the SDO  *)
(* client of the slave, that the configuration uses too, and m_regs, the   *)
(* table from registers to sensors that OnRpdoWrite looks into; two        *)
(* sensors may share a register.  A sensor is named by its rank in the     *)
(* configuration.  The admin verb of the slave, which puts operations in   *)
(* the same queue without a look at m_connected, and the heartbeat are     *)
(* left to CANopenSlaveDriver, the registers that the device changes on    *)
(* its own to CANopenSensor.                                               *)
(***************************************************************************)
EXTENDS Naturals, Sequences, SequencesExt

CONSTANTS
  Ids,         \* the registers (m_id of a sensor)
  Slaves,      \* the configurations of the slave tried, see SlaveType
  Requests,    \* the requests clients may send to the verbs of the sensors
  Clients,     \* the client sessions
  Bits,        \* the bits of a register
  WordBits,    \* those among the 32 low bits, as in CANopenSensor
  LowBits,     \* those among the 8 low bits
  Asks,        \* the queries each request may be, as in CANopenSensor
  Nobody,      \* the owner of an SDO operation no request waits for
  MaxOps,      \* bound on the SDO operations waiting at one time
  MaxBoots     \* bound on the boots of the slave

Kinds == {"SDO", "RPDO", "TPDO"}
Values == SUBSET Bits
SensorType == [kind : Kinds, id : Ids]
ItemType == [kind : {"write", "skip", "size", "null"}, id : Ids, val : Values]

SlaveType == [sensors : Seq(SensorType), onconf : Seq(ItemType)]

QueryType ==
  [action : {"read", "write", "subscribe", "unsubscribe", "none"},
   data : [how : {"set", "on", "off", "clear", "keep", "bad"}, bits : Values],
   client : Clients]
Queries == UNION {Asks[r] : r \in Requests}

ASSUME SlavesAssumption == Slaves \subseteq SlaveType /\ Slaves # {}
ASSUME BitsAssumption == LowBits \subseteq WordBits /\ WordBits \subseteq Bits
ASSUME QueriesAssumption == Queries \subseteq QueryType /\ Queries # {}
ASSUME MasksAssumption ==
  \A q \in Queries :
    q.data.how \in {"on", "off", "clear"} => q.data.bits \subseteq WordBits
ASSUME NobodyAssumption == Nobody \notin Requests
ASSUME BoundsAssumption == MaxOps \in Nat /\ MaxBoots \in Nat

VARIABLES
  config,      \* the configuration of the slave
  connected,   \* m_connected
  sens,        \* of each sensor: m_currentVal, m_event_active, its listeners
  cell,        \* the registers: those of the device, and those mapped in PDOs
  sdoq,        \* SDO operations submitted to lely, in order
  done,        \* those whose continuations are posted to the loop
  api,         \* the API thread: what it handles and where it is
  loop,        \* the loop thread: what it handles and where it is
  req,         \* each request: its references, its answer, its history
  conf,        \* the configuration of the current boot
  boots        \* boots so far

slave == <<connected, conf, boots>>
vars == <<config, connected, sens, cell, sdoq, done, api, loop, req, conf,
          boots>>

table == config.sensors
onconf == config.onconf       \* m_onconfJ

Sensors == DOMAIN table
Kind(s) == table[s].kind
Cell(s) == <<table[s].kind, table[s].id>>

\* Mutant: the first sensor of a register stays.
RegsFirst(id) ==
  LET S == {s \in Sensors : table[s].id = id} IN IF S = {} THEN 0 ELSE Min(S)

\* m_regs: the constructor replaces the sensor that a register already has.
Regs(id) == Max({s \in Sensors : table[s].id = id} \cup {0})

\* No sensor: what the configuration has instead of one.
Config == 0

NoQuery == CHOOSE q \in Queries : TRUE
NoAnswer == [status |-> "none", val |-> {}]
ApiIdle == [pc |-> "idle", to |-> Config, req |-> Nobody, query |-> NoQuery,
            tmp |-> {}]
LoopIdle == [pc |-> "idle", to |-> Config, owner |-> Nobody, val |-> {},
             heard |-> FALSE]
NewRequest == [to |-> Config, phase |-> "new", refs |-> 0, replies |-> 0,
               answer |-> NoAnswer, seen |-> {}, failed |-> FALSE, boot |-> 0]
NoConf == [state |-> "none", next |-> 1, res |-> 0, tried |-> <<>>,
           threw |-> FALSE]

Init ==
  /\ config \in Slaves
  /\ connected = TRUE
  /\ sens = [s \in Sensors |-> [val |-> {}, active |-> FALSE, listeners |-> {},
                                written |-> FALSE]]
  /\ cell \in [Kinds \X Ids -> Values]
  /\ \A c \in Kinds \X Ids : c[1] # "SDO" /\ (\A s \in Sensors : Cell(s) # c)
                               => cell[c] = {}
  /\ sdoq = <<>> /\ done = <<>>
  /\ api = ApiIdle /\ loop = LoopIdle
  /\ req = [r \in Requests |-> NewRequest]
  /\ conf = NoConf /\ boots = 0

-----------------------------------------------------------------------------
(* The parts.  Each sensor sees its own operations and requests, and the   *)
(* threads as idle when they serve another; the driver sees the rest.      *)

\* The operations of s among ops, in order.
Mine(s, ops) ==
  LET upto[n \in 0..Len(ops)] ==
        IF n = 0 THEN <<>>
        ELSE IF ops[n].to = s THEN Append(upto[n - 1], ops[n]) ELSE upto[n - 1]
  IN  upto[Len(ops)]

OpsOf(s, ops) ==
  [i \in DOMAIN Mine(s, ops) |->
     [op |-> Mine(s, ops)[i].op, owner |-> Mine(s, ops)[i].owner,
      val |-> Mine(s, ops)[i].val]]

EndedOf(s, ops) ==
  [i \in DOMAIN Mine(s, ops) |->
     [owner |-> Mine(s, ops)[i].owner, ok |-> Mine(s, ops)[i].ok,
      val |-> Mine(s, ops)[i].val]]

\* x, a thread or a request, as s sees it: nothing when it is for another.
For(s, x, nothing) == IF x.to = s THEN x ELSE nothing

ApiOf(s, x) ==
  LET a == For(s, x, ApiIdle) IN
  [pc |-> a.pc, req |-> a.req, query |-> a.query, tmp |-> a.tmp]

LoopOf(s, x) ==
  LET l == For(s, x, LoopIdle) IN
  [pc |-> l.pc, owner |-> l.owner, val |-> l.val, heard |-> l.heard]

\* The requests of s among all, those of the others as if they were to come.
ReqOf(s, all) == [r \in Requests |-> For(s, all[r], NewRequest)]
PhaseOf(s, all) == [r \in Requests |-> ReqOf(s, all)[r].phase]
RefsOf(s, all) == [r \in Requests |-> ReqOf(s, all)[r].refs]
RepliesOf(s, all) == [r \in Requests |-> ReqOf(s, all)[r].replies]
AnswerOf(s, all) == [r \in Requests |-> ReqOf(s, all)[r].answer]
SeenOf(s, all) == [r \in Requests |-> ReqOf(s, all)[r].seen]
FailedOf(s, all) == {r \in Requests : ReqOf(s, all)[r].failed}

Sensor(s) == INSTANCE CANopenSensor WITH
  kind        <- table[s].kind,
  currentVal  <- sens[s].val,
  eventActive <- sens[s].active,
  listeners   <- sens[s].listeners,
  written     <- sens[s].written,
  reg         <- cell[<<table[s].kind, table[s].id>>],
  sdoq        <- OpsOf(s, sdoq),
  done        <- EndedOf(s, done),
  api         <- ApiOf(s, api),
  loop        <- LoopOf(s, loop),
  phase       <- PhaseOf(s, req),
  refs        <- RefsOf(s, req),
  replies     <- RepliesOf(s, req),
  answer      <- AnswerOf(s, req),
  seen        <- SeenOf(s, req),
  failed      <- FailedOf(s, req)

\* The items of a list, of the configuration, that are submitted or ended.
Items(list) == [i \in DOMAIN list |-> list[i].kind]
ItemOps(ops) == [i \in DOMAIN Mine(Config, ops) |-> Config]
ItemsEnded(ops) ==
  [i \in DOMAIN Mine(Config, ops) |->
     [owner |-> Config, ok |-> Mine(Config, ops)[i].ok]]

Driver == INSTANCE CANopenSlaveDriver WITH
  Requests <- {}, Config <- Config,
  Onconfs  <- {Items(c.onconf) : c \in Slaves},
  onconf   <- Items(onconf),
  period   <- TRUE, lost <- FALSE,
  loop <- [pc |-> IF loop.pc = "config" THEN "config" ELSE "idle",
           owner |-> Config, ok |-> FALSE],
  sdoq <- ItemOps(sdoq),
  done <- ItemsEnded(done),
  api  <- [pc |-> "idle", req |-> Config, query |-> "refused"],
  phase   <- [r \in {} |-> "new"],
  refs    <- [r \in {} |-> 0],
  replies <- [r \in {} |-> 0],
  answer  <- [r \in {} |-> "none"],
  outcome <- [r \in {} |-> "none"]

-----------------------------------------------------------------------------
(* Requests.                                                               *)

Answered(r, status, val) ==
  [req EXCEPT ![r].replies = @ + 1,
              ![r].answer = [status |-> status, val |-> val]]

Unref(r) ==
  req' = [req EXCEPT ![r].refs = @ - 1,
                     ![r].phase = IF req[r].refs = 1 THEN "gone" ELSE @]

Waiting(r) == req[r].phase = "open" /\ req[r].replies = 0

\* Every request to a sensor of S that waits may be answered with v.
Saw(S, v) ==
  req' = [r \in Requests |->
            IF Waiting(r) /\ req[r].to \in S
            THEN [req[r] EXCEPT !.seen = @ \cup {v}] ELSE req[r]]

On(c) == {s \in Sensors : Cell(s) = c}

WritePending(s) == \E i \in DOMAIN sdoq : sdoq[i].to = s /\ sdoq[i].op = "write"

\* from is a history: the request that submitted the operation.
SdoOp(op, s, owner, val, from) ==
  [op |-> op, to |-> s, owner |-> owner, id |-> table[s].id, val |-> val,
   from |-> from]

-----------------------------------------------------------------------------
(* The API thread, as in CANopenSensor.                                    *)

Accept(r, s, q) ==
  /\ api.pc = "idle"
  /\ req[r].phase = "new"
  /\ api' = [ApiIdle EXCEPT !.pc = "dispatch", !.to = s, !.req = r, !.query = q]
  /\ req' = [req EXCEPT ![r].to = s, ![r].phase = "open", ![r].refs = 1,
                        ![r].seen = IF WritePending(s) THEN {} ELSE {cell[Cell(s)]},
                        ![r].boot = boots]
  /\ UNCHANGED <<config, sens, cell, sdoq, done, loop, slave>>

me == api.to

Dispatching(action) ==
  api.pc = "dispatch" /\ api.query.action = action /\ ~Sensor(me)!Refused

Refuse ==
  /\ api.pc = "dispatch" /\ Sensor(me)!Refused
  /\ req' = Answered(api.req, "error", {})
  /\ api' = [api EXCEPT !.pc = "return"]
  /\ UNCHANGED <<config, sens, cell, sdoq, done, loop, slave>>

EncodeWrite ==
  /\ Dispatching("write") /\ api.query.data.how # "bad"
  /\ api' = [api EXCEPT !.pc = "store",
                        !.tmp = Sensor(me)!Encode(api.query.data, sens[me].val)]
  /\ UNCHANGED <<config, sens, cell, sdoq, done, loop, req, slave>>

EncodeThrows ==
  /\ Dispatching("write") /\ api.query.data.how = "bad"
  /\ api' = [api EXCEPT !.pc = "terminated"]
  /\ UNCHANGED <<config, sens, cell, sdoq, done, loop, req, slave>>

\* The process is no more: of all sensors, and of the slave.
Terminated == api.pc = "terminated"

FetchRpdo ==
  /\ Dispatching("read") /\ Kind(me) = "RPDO"
  /\ api' = [api EXCEPT !.pc = "store", !.tmp = cell[Cell(me)]]
  /\ UNCHANGED <<config, sens, cell, sdoq, done, loop, req, slave>>

Store ==
  /\ api.pc = "store"
  /\ sens' = [sens EXCEPT ![me].val = api.tmp]
  /\ api' = [api EXCEPT !.pc = "use"]
  /\ IF api.query.action = "write" THEN Saw({me}, api.tmp) ELSE UNCHANGED req
  /\ UNCHANGED <<config, cell, sdoq, done, loop, slave>>

EmitWrite ==
  /\ api.pc = "use" /\ api.query.action = "write"
  /\ IF Kind(me) = "TPDO"
     THEN cell' = [cell EXCEPT ![Cell(me)] = sens[me].val] /\ UNCHANGED sdoq
     ELSE /\ sdoq' = Append(sdoq, SdoOp("write", me, Nobody, sens[me].val, api.req))
          /\ UNCHANGED cell
  /\ sens' = [sens EXCEPT ![me].written = TRUE]
  /\ req' = Answered(api.req, "ok", {})
  /\ api' = [api EXCEPT !.pc = "return"]
  /\ UNCHANGED <<config, done, loop, slave>>

ReplyRead ==
  /\ api.pc = "use" /\ api.query.action = "read"
  /\ req' = Answered(api.req, "value", sens[me].val)
  /\ api' = [api EXCEPT !.pc = "return"]
  /\ UNCHANGED <<config, sens, cell, sdoq, done, loop, slave>>

ReadSdo ==
  /\ Dispatching("read") /\ Kind(me) = "SDO"
  /\ req' = [req EXCEPT ![api.req].refs = @ + 1]
  /\ sdoq' = Append(sdoq, SdoOp("read", me, api.req, {}, api.req))
  /\ api' = [api EXCEPT !.pc = "return"]
  /\ UNCHANGED <<config, sens, cell, done, loop, slave>>

SubscribeMark ==
  /\ Dispatching("subscribe")
  /\ sens' = [sens EXCEPT ![me].active = TRUE]
  /\ api' = [api EXCEPT !.pc = "subscribe"]
  /\ UNCHANGED <<config, cell, sdoq, done, loop, req, slave>>

SubscribeAdd ==
  /\ api.pc = "subscribe"
  /\ \/ /\ sens' = [sens EXCEPT ![me].listeners = @ \cup {api.query.client}]
        /\ req' = Answered(api.req, "ok", {})
     \/ /\ UNCHANGED sens
        /\ req' = Answered(api.req, "error", {})
  /\ api' = [api EXCEPT !.pc = "return"]
  /\ UNCHANGED <<config, cell, sdoq, done, loop, slave>>

Unsubscribe ==
  /\ Dispatching("unsubscribe")
  /\ sens' = [sens EXCEPT ![me].listeners = @ \ {api.query.client}]
  /\ \/ req' = Answered(api.req, "ok", {})
     \/ /\ api.query.client \notin sens[me].listeners
        /\ req' = Answered(api.req, "error", {})
  /\ api' = [api EXCEPT !.pc = "return"]
  /\ UNCHANGED <<config, cell, sdoq, done, loop, slave>>

Return ==
  /\ api.pc = "return"
  /\ Unref(api.req)
  /\ api' = ApiIdle
  /\ UNCHANGED <<config, sens, cell, sdoq, done, loop, slave>>

ApiStep ==
  \/ Refuse \/ EncodeWrite \/ EncodeThrows \/ FetchRpdo \/ Store \/ EmitWrite
  \/ ReplyRead \/ ReadSdo \/ SubscribeMark \/ SubscribeAdd \/ Unsubscribe
  \/ Return

-----------------------------------------------------------------------------
(* The loop thread: RPDO, continuations of the sensors.                    *)

\* OnRpdoWrite: the mapped object takes v, and the sensor that m_regs has for it
\* reads if its event is active: an RPDO sensor at once, an SDO sensor later.
OnRpdoWrite(id, v) ==
  LET s == Regs(id) IN
  /\ loop.pc = "idle"
  /\ cell' = IF On(<<"RPDO", id>>) = {} THEN cell
             ELSE [cell EXCEPT ![<<"RPDO", id>>] = v]
  /\ Saw(On(<<"RPDO", id>>), v)
  /\ \/ /\ s # 0 => ~sens[s].active
        /\ UNCHANGED <<sdoq, loop>>
     \/ /\ s # 0 /\ sens[s].active /\ Kind(s) = "RPDO"
        /\ loop' = [LoopIdle EXCEPT !.pc = "store", !.to = s, !.val = v]
        /\ UNCHANGED sdoq
     \/ /\ s # 0 /\ sens[s].active /\ Kind(s) = "SDO"
        /\ Len(sdoq) + Len(done) < MaxOps
        /\ sdoq' = Append(sdoq, SdoOp("read", s, Nobody, {}, Nobody))
        /\ UNCHANGED loop
  /\ UNCHANGED <<config, sens, done, api, slave>>

Continue ==
  /\ loop.pc = "idle"
  /\ done # <<>> /\ Head(done).to # Config
  /\ \E v \in Values :
       /\ Head(done).ok => v = Head(done).val
       /\ loop' = [LoopIdle EXCEPT !.pc = "store", !.to = Head(done).to, !.val = v,
                                   !.owner = Head(done).owner]
  /\ done' = Tail(done)
  /\ UNCHANGED <<config, sens, cell, sdoq, api, req, slave>>

\* Mutant: the sensor is looked for again, by its register.
LoopStoreByRegister ==
  /\ loop.pc = "store"
  /\ sens' = [sens EXCEPT ![Regs(table[loop.to].id)].val = loop.val]
  /\ loop' = [loop EXCEPT !.pc = IF loop.owner = Nobody THEN "push" ELSE "reply"]
  /\ UNCHANGED <<config, cell, sdoq, done, api, req, slave>>

\* Mutant: an event whose value did not change is not pushed.
LoopStoreIfChanged ==
  /\ loop.pc = "store"
  /\ sens' = [sens EXCEPT ![loop.to].val = loop.val]
  /\ loop' = IF loop.owner # Nobody THEN [loop EXCEPT !.pc = "reply"]
             ELSE IF loop.val = sens[loop.to].val THEN LoopIdle
             ELSE [loop EXCEPT !.pc = "push"]
  /\ UNCHANGED <<config, cell, sdoq, done, api, req, slave>>

LoopStore ==
  /\ loop.pc = "store"
  /\ sens' = [sens EXCEPT ![loop.to].val = loop.val]
  /\ loop' = [loop EXCEPT !.pc = IF loop.owner = Nobody THEN "push" ELSE "reply"]
  /\ UNCHANGED <<config, cell, sdoq, done, api, req, slave>>

LoopReply ==
  /\ loop.pc = "reply"
  /\ req' = Answered(loop.owner, "value", sens[loop.to].val)
  /\ loop' = [loop EXCEPT !.pc = "unref"]
  /\ UNCHANGED <<config, sens, cell, sdoq, done, api, slave>>

\* Mutant: the reference is dropped twice.
LoopUnrefTwice ==
  /\ loop.pc = "unref"
  /\ req' = [req EXCEPT ![loop.owner].refs = @ - 2]
  /\ loop' = LoopIdle
  /\ UNCHANGED <<config, sens, cell, sdoq, done, api, slave>>

LoopUnref ==
  /\ loop.pc = "unref"
  /\ Unref(loop.owner)
  /\ loop' = LoopIdle
  /\ UNCHANGED <<config, sens, cell, sdoq, done, api, slave>>

Push ==
  /\ loop.pc = "push"
  /\ loop' = [loop EXCEPT !.pc = "pushed", !.val = sens[loop.to].val,
                          !.heard = sens[loop.to].listeners # {}]
  /\ UNCHANGED <<config, sens, cell, sdoq, done, api, req, slave>>

Pushed ==
  /\ loop.pc = "pushed"
  /\ sens' = [sens EXCEPT ![loop.to].active = @ /\ loop.heard]
  /\ loop' = LoopIdle
  /\ UNCHANGED <<config, cell, sdoq, done, api, req, slave>>

-----------------------------------------------------------------------------
(* The loop thread: the slave, as in CANopenSlaveDriver.                   *)

DoStartAction(i) ==
  \/ /\ \E j \in i..(Len(onconf) + 1) : Driver!EndsAt(i, j) /\ conf' = Driver!Told(j)
     /\ UNCHANGED sdoq
  \/ \E j \in i..Len(onconf) :
       /\ Driver!NextItem(i, j) /\ onconf[j].kind = "size"
       /\ conf' = [conf EXCEPT !.next = j + 1]
       /\ UNCHANGED sdoq
  \/ \E j \in i..Len(onconf) :
       /\ Driver!NextItem(i, j) /\ onconf[j].kind = "write"
       /\ \/ /\ sdoq' = Append(sdoq, [op |-> "write", to |-> Config, owner |-> Nobody,
                                      id |-> onconf[j].id, val |-> onconf[j].val,
                                      from |-> Nobody])
             /\ conf' = [conf EXCEPT !.next = j + 1, !.tried = Append(@, j)]
          \/ conf' = Driver!Thrown /\ UNCHANGED sdoq

\* Mutant: the slave is not down while the configuration begins.
OnConfigUp ==
  /\ loop.pc = "idle"
  /\ conf.state # "started"
  /\ boots < MaxBoots
  /\ boots' = boots + 1
  /\ conf' = [NoConf EXCEPT !.state = "started"]
  /\ loop' = [LoopIdle EXCEPT !.pc = "config"]
  /\ UNCHANGED <<config, connected, sens, cell, sdoq, done, api, req>>

OnConfig ==
  /\ loop.pc = "idle"
  /\ conf.state # "started"
  /\ boots < MaxBoots
  /\ boots' = boots + 1
  /\ connected' = FALSE
  /\ conf' = [NoConf EXCEPT !.state = "started"]
  /\ loop' = [LoopIdle EXCEPT !.pc = "config"]
  /\ UNCHANGED <<config, sens, cell, sdoq, done, api, req>>

\* Mutant: the slave stays down until the configuration ends.
OnConfigActionDown ==
  /\ loop.pc = "config"
  /\ DoStartAction(1)
  /\ connected' = (conf'.state = "ended")
  /\ loop' = LoopIdle
  /\ UNCHANGED <<config, sens, cell, done, api, req, boots>>

OnConfigAction ==
  /\ loop.pc = "config"
  /\ DoStartAction(1)
  /\ connected' = TRUE
  /\ loop' = LoopIdle
  /\ UNCHANGED <<config, sens, cell, done, api, req, boots>>

ConfigContinue ==
  /\ loop.pc = "idle"
  /\ done # <<>> /\ Head(done).to = Config
  /\ done' = Tail(done)
  /\ DoStartAction(conf.next)
  /\ connected' = (connected \/ conf'.state = "ended")
  /\ UNCHANGED <<config, sens, cell, api, loop, req, boots>>

OnBoot ==
  /\ loop.pc = "idle"
  /\ conf.state = "ended"
  /\ conf' = [conf EXCEPT !.state = "booted"]
  /\ UNCHANGED <<config, sens, cell, sdoq, done, api, loop, req, connected, boots>>

LoopStep ==
  \/ Continue \/ LoopStore \/ LoopReply \/ LoopUnref \/ Push \/ Pushed
  \/ OnConfigAction \/ ConfigContinue

-----------------------------------------------------------------------------
(* The SDO client and the device.                                          *)

\* The operation at the head ends, or fails.  Only what has a continuation is
\* posted to the loop: the reads, and the writes of the configuration.
SdoEnd(ok) ==
  LET o == Head(sdoq)
      c == <<"SDO", o.id>>
      v == IF o.op = "write" /\ ok THEN o.val ELSE cell[c]
  IN
  /\ loop.pc = "idle"
  /\ sdoq # <<>>
  /\ sdoq' = Tail(sdoq)
  /\ cell' = [cell EXCEPT ![c] = v]
  /\ done' = IF o.op = "write" /\ o.to # Config THEN done
             ELSE Append(done, [to |-> o.to, owner |-> o.owner, ok |-> ok,
                                val |-> IF o.op = "read" /\ ok THEN v ELSE {}])
  /\ \/ o.op = "write" /\ Saw(On(c), v)
     \/ /\ o.op = "read" /\ ~ok /\ o.owner # Nobody
        /\ req' = [req EXCEPT ![o.owner].failed = TRUE]
     \/ /\ o.op = "read" /\ (ok \/ o.owner = Nobody)
        /\ UNCHANGED req
  /\ UNCHANGED <<config, sens, api, loop, slave>>

Sdo == \E ok \in BOOLEAN : SdoEnd(ok)

-----------------------------------------------------------------------------
Bus ==
  \/ OnConfig \/ OnBoot
  \/ \E id \in Ids, v \in Values : OnRpdoWrite(id, v)

Next ==
  /\ ~Terminated
  /\ \/ \E r \in Requests, s \in Sensors : \E q \in Asks[r] : Accept(r, s, q)
     \/ ApiStep
     \/ LoopStep
     \/ Sdo
     \/ Bus

\* As for the parts: as long as the process lives, both threads run their handlers
\* to the end, and lely ends every SDO operation.
Fairness ==
  /\ WF_vars(ApiStep)
  /\ WF_vars(~Terminated /\ LoopStep)
  /\ WF_vars(~Terminated /\ Sdo)

Spec == Init /\ [][Next]_vars
FairSpec == Spec /\ Fairness

-----------------------------------------------------------------------------
(* What holds.                                                             *)

TypeOK ==
  /\ config \in Slaves
  /\ \A s \in Sensors : Sensor(s)!TypeOK
  /\ Driver!TypeOK
  /\ \A r \in Requests : req[r].to \in Sensors <=> req[r].phase # "new"

\* The sensors whose register is theirs: an RPDO sensor that m_regs has, a TPDO
\* sensor that is alone to write its object, any SDO sensor.
Whole(s) ==
  CASE Kind(s) = "SDO" -> TRUE
    [] Kind(s) = "RPDO" -> Regs(table[s].id) = s
    [] Kind(s) = "TPDO" -> On(Cell(s)) = {s}

\* Within a slave, each of these sensors is still a CANopenSensor: the other
\* sensors, the configuration and the SDO operations of both, in the one queue of
\* the slave, are to it a device that changes its register, and a connection that
\* comes and goes.  All that is shown of a sensor holds of it.
SensorStep ==
  \A s \in Sensors : Whole(s) => Sensor(s)!Next \/ UNCHANGED Sensor(s)!vars

SensorsSpec ==
  (\A s \in Sensors : Sensor(s)!Init) /\ [][SensorStep]_vars

\* And the slave is still a CANopenSlaveDriver: whatever the operations of the
\* sensors, the items are written in order and the boot goes on.
DriverSpec == Driver!Spec

\* What a client asks of a sensor after its slave began to boot reaches the device
\* after the first item of the configuration (m_connected is false until
\* doStartAction submitted it); the next items have no such protection, nor has any
\* item from what is asked of the admin verb, which does not test m_connected.
FirstItemFirst ==
  \A i, j \in DOMAIN sdoq :
    i < j /\ sdoq[j].to = Config /\ Len(conf.tried) = 1 /\ sdoq[i].from # Nobody
      => req[sdoq[i].from].boot < boots

\* An event is pushed for the last sensor of a register only: a sensor that shares
\* the register of a later one is subscribed to and stays silent.
LastNotified ==
  [][Push => \A s \in Sensors : table[s].id = table[loop.to].id => s <= loop.to]_vars

\* ... and that one does get pushed, whatever the other sensors and the
\* configuration do, as long as its event is active and RPDOs come.
EventsDelivered ==
  \A id \in Ids :
    <>[](Regs(id) # 0 /\ sens[Regs(id)].active)
      /\ []<><<\E v \in Values : OnRpdoWrite(id, v)>>_vars
    => []<><<Push /\ table[loop.to].id = id>>_vars
=============================================================================
