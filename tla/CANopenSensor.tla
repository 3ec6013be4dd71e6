--------------------------- MODULE CANopenSensor ----------------------------
(***************************************************************************)
(* One sensor of a slave: the register it reads and writes, the value it   *)
(* keeps of it, its event, and the two threads that share them.  The       *)
(* handlers of the sensor's verb run one at a time on the API thread (the  *)
(* API is created without concurrency), the handlers of the CAN bus and    *)
(* the continuations of SDO reads run on the thread of the lely loop.  No  *)
(* lock protects m_currentVal and m_event_active, so every read or write   *)
(* of them that the other thread can interleave with is a step.            *)
(* Registers hold numbers, of one, two, four or eight bytes.  Strings are  *)
(* not modelled: what m_currentVal keeps of one is a pointer into a buffer *)
(* that is gone when the continuation decodes it.                          *)
(***************************************************************************)
EXTENDS Naturals, Sequences

CONSTANTS
  Kinds,       \* the types of the sensors tried, among those of encodingTable
  Requests,    \* the requests clients may send to the sensor's verb
  Clients,     \* the client sessions
  Bits,        \* the bits of the register; a value is the set of bits at 1
  WordBits,    \* those among the 32 low bits, that the plugin computes with
  LowBits,     \* those among the 8 low bits
  Queries,     \* the queries clients send, see QueryType
  Nobody,      \* the owner of an SDO operation no request waits for
  MaxOps       \* bound on the SDO operations waiting at one time

Values == SUBSET Bits

(***************************************************************************)
(* What a client may ask.  The data of a write is a plain value ("set"), a *)
(* boolean under a mask ("on"; "off" with an integer and "clear" with an   *)
(* array for the mask), something the encoder of the plugin does not       *)
(* understand ("keep") or something the one for integers throws on         *)
(* ("bad"); "none" stands for an action of no known name.                  *)
(***************************************************************************)
Actions == {"read", "write", "subscribe", "unsubscribe", "none"}
DataType ==
  [how : {"set", "on", "off", "clear", "keep", "bad"}, bits : Values]
QueryType == [action : Actions, data : DataType, client : Clients]

ASSUME KindsAssumption == Kinds \subseteq {"SDO", "RPDO", "TPDO"}
ASSUME BitsAssumption == LowBits \subseteq WordBits /\ WordBits \subseteq Bits
ASSUME QueriesAssumption == Queries \subseteq QueryType /\ Queries # {}
\* An array longer than 32 is no mask: 1 << i is then undefined.
ASSUME MasksAssumption ==
  \A q \in Queries :
    q.data.how \in {"on", "off", "clear"} => q.data.bits \subseteq WordBits
ASSUME NobodyAssumption == Nobody \notin Requests
ASSUME MaxOpsAssumption == MaxOps \in Nat

VARIABLES
  kind,        \* the type of the sensor, fixed by its configuration
  connected,   \* m_connected of the slave driver
  currentVal,  \* m_currentVal
  eventActive, \* m_event_active
  listeners,   \* the sessions subscribed to m_event (kept by the framework)
  reg,         \* the register: of the device (SDO) or PDO-mapped (RPDO, TPDO)
  sdoq,        \* SDO operations submitted to lely, in order
  done,        \* SDO reads that ended, their continuations posted to the loop
  api,         \* the API thread: what it handles and where it is
  loop,        \* the loop thread: what it handles and where it is
  phase,       \* of each request: "new", "open" or "gone" (no reference left)
  refs,        \* references the binding holds on each request
  replies,     \* how many answers each request got
  answer,      \* the last answer of each request
  seen,        \* history: the values a read of each open request may return
  failed,      \* history: requests whose SDO read failed on the bus
  written      \* history: a write went out since the start

threads == <<api, loop>>
requestState == <<phase, refs, replies, answer, seen, failed>>
vars == <<kind, connected, currentVal, eventActive, listeners, reg, sdoq,
          done, api, loop, phase, refs, replies, answer, seen, failed, written>>

NoQuery == CHOOSE q \in Queries : TRUE

\* How far the handler on the API thread is.
ApiType == [pc : {"idle", "dispatch", "store", "use", "subscribe", "return",
                  "terminated"},
            req : Requests \cup {Nobody}, query : Queries, tmp : Values]

\* How far the handler on the loop thread is; owner is the request it serves,
\* Nobody when it serves the event.
LoopType == [pc : {"idle", "store", "reply", "unref", "push", "pushed"},
             owner : Requests \cup {Nobody}, val : Values,
             heard : BOOLEAN]

OpType == [op : {"read", "write"}, owner : Requests \cup {Nobody},
           val : Values]
DoneType == [owner : Requests \cup {Nobody}, ok : BOOLEAN, val : Values]
AnswerType == [status : {"none", "ok", "error", "value"}, val : Values]

NoAnswer == [status |-> "none", val |-> {}]
ApiIdle == [pc |-> "idle", req |-> Nobody, query |-> NoQuery, tmp |-> {}]
LoopIdle == [pc |-> "idle", owner |-> Nobody, val |-> {}, heard |-> FALSE]

TypeOK ==
  /\ kind \in Kinds
  /\ connected \in BOOLEAN
  /\ currentVal \in Values
  /\ eventActive \in BOOLEAN
  /\ listeners \subseteq Clients
  /\ reg \in Values
  /\ sdoq \in Seq(OpType)
  /\ done \in Seq(DoneType)
  /\ api \in ApiType
  /\ loop \in LoopType
  /\ phase \in [Requests -> {"new", "open", "gone"}]
  /\ refs \in [Requests -> Nat]
  /\ replies \in [Requests -> Nat]
  /\ answer \in [Requests -> AnswerType]
  /\ seen \in [Requests -> SUBSET Values]
  /\ failed \subseteq Requests
  /\ written \in BOOLEAN

(***************************************************************************)
(* The constructor: the driver starts as connected and m_currentVal is 0,  *)
(* whatever the register holds.  The function table gives an RPDO no write *)
(* function and a TPDO no read function, hence no encoder or no decoder.   *)
(***************************************************************************)
CanEncode == kind # "RPDO"
CanDecode == kind # "TPDO"

Init ==
  /\ kind \in Kinds
  /\ connected = TRUE
  /\ currentVal = {}
  /\ eventActive = FALSE
  /\ listeners = {}
  /\ reg \in Values
  /\ sdoq = <<>> /\ done = <<>>
  /\ api = ApiIdle /\ loop = LoopIdle
  /\ phase = [r \in Requests |-> "new"]
  /\ refs = [r \in Requests |-> 0]
  /\ replies = [r \in Requests |-> 0]
  /\ answer = [r \in Requests |-> NoAnswer]
  /\ seen = [r \in Requests |-> {}]
  /\ failed = {} /\ written = FALSE

-----------------------------------------------------------------------------
(* References, answers and history of the requests.                        *)

Reply(r, status, val) ==
  /\ replies' = [replies EXCEPT ![r] = @ + 1]
  /\ answer' = [answer EXCEPT ![r] = [status |-> status, val |-> val]]

Addref(r) == refs' = [refs EXCEPT ![r] = @ + 1]

Unref(r) ==
  /\ refs' = [refs EXCEPT ![r] = @ - 1]
  /\ phase' = [phase EXCEPT ![r] = IF refs[r] = 1 THEN "gone" ELSE @]

Waiting(r) == phase[r] = "open" /\ replies[r] = 0

\* Every request that waits may from now on be answered with v.
Saw(v) ==
  seen' = [r \in Requests |-> IF Waiting(r) THEN seen[r] \cup {v}
                                            ELSE seen[r]]

WritePending == \E i \in 1..Len(sdoq) : sdoq[i].op = "write"

\* What v & (0xFF ^ mask) leaves of 32 bits: the low bits that mask has not, and
\* the others that it has.
Cleared(v, mask) ==
  v \cap WordBits \cap ((LowBits \ mask) \cup (mask \ LowBits))

\* The same for each element of an array of booleans that is true, in turn.
ClearedEach(v, mask) ==
  {b \in v \cap WordBits : \A i \in mask : b \in Cleared(v, {i})}

\* Mutant: a cleared mask replaces the value instead of clearing its bits.
EncodeOffOverwrites(d, v) ==
  [set |-> d.bits, on |-> (v \cup d.bits) \cap WordBits, off |-> LowBits \ d.bits,
   clear |-> LowBits \ d.bits, keep |-> v][d.how]

\* What the encoders make of the data d, on which they do not throw, when
\* m_currentVal is v.
Encode(d, v) ==
  [set |-> d.bits, on |-> (v \cup d.bits) \cap WordBits, off |-> Cleared(v, d.bits),
   clear |-> ClearedEach(v, d.bits), keep |-> v][d.how]

-----------------------------------------------------------------------------
(* The API thread: sensorDynRequest and request().                         *)

Accept(r, q) ==
  /\ api.pc = "idle"
  /\ phase[r] = "new"
  /\ api' = [ApiIdle EXCEPT !.pc = "dispatch", !.req = r, !.query = q]
  /\ phase' = [phase EXCEPT ![r] = "open"]
  /\ refs' = [refs EXCEPT ![r] = 1]
  /\ seen' = [seen EXCEPT ![r] = IF WritePending THEN {} ELSE {reg}]
  /\ UNCHANGED <<kind, connected, currentVal, eventActive, listeners, reg,
                 sdoq, done, loop, replies, answer, failed, written>>

Dispatching(action) == api.pc = "dispatch" /\ api.query.action = action

\* What the handler refuses before it does anything.
Refused ==
  \/ api.query.action = "none"
  \/ ~connected /\ api.query.action \in {"read", "write"}
  \/ api.query.action = "write" /\ ~CanEncode
  \/ api.query.action \in {"read", "subscribe", "unsubscribe"} /\ ~CanDecode

Refuse ==
  /\ api.pc = "dispatch"
  /\ Refused
  /\ Reply(api.req, "error", {})
  /\ api' = [api EXCEPT !.pc = "return"]
  /\ UNCHANGED <<kind, connected, currentVal, eventActive, listeners, reg,
                 sdoq, done, loop, phase, refs, seen, failed, written>>

\* write(): the encoder reads m_currentVal (a masked write builds on it).
EncodeWrite ==
  /\ Dispatching("write") /\ ~Refused
  /\ api.query.data.how # "bad"
  /\ api' = [api EXCEPT !.pc = "store",
                        !.tmp = Encode(api.query.data, currentVal)]
  /\ UNCHANGED <<kind, connected, currentVal, eventActive, listeners, reg,
                 sdoq, done, loop, requestState, written>>

\* encodeInt is noexcept and get_data_int32 throws: std::terminate, before
\* anything is written or answered.
EncodeThrows ==
  /\ Dispatching("write") /\ ~Refused
  /\ api.query.data.how = "bad"
  /\ api' = [api EXCEPT !.pc = "terminated"]
  /\ UNCHANGED <<kind, connected, currentVal, eventActive, listeners, reg,
                 sdoq, done, loop, requestState, written>>

\* The process of the binder is no more, and neither thread takes a step.
Terminated == api.pc = "terminated"

\* Mutant: the last known value is returned instead of the object.
ReadCBCached == currentVal

\* readCB of an RPDO sensor: the mapped object, not a copy of it.
ReadCB == reg

\* The synchronous read of an RPDO, up to the value it is to store.
FetchRpdo ==
  /\ Dispatching("read") /\ ~Refused
  /\ kind = "RPDO"
  /\ api' = [api EXCEPT !.pc = "store", !.tmp = ReadCB]
  /\ UNCHANGED <<kind, connected, currentVal, eventActive, listeners, reg,
                 sdoq, done, loop, requestState, written>>

\* m_currentVal = ..., in write() and in the synchronous read.
Store ==
  /\ api.pc = "store"
  /\ currentVal' = api.tmp
  /\ api' = [api EXCEPT !.pc = "use"]
  /\ IF api.query.action = "write" THEN Saw(api.tmp) ELSE UNCHANGED seen
  /\ UNCHANGED <<kind, connected, eventActive, listeners, reg, sdoq, done,
                 loop, phase, refs, replies, answer, failed, written>>

\* writeCB(this, m_currentVal), which reads m_currentVal again; then the reply.
\* A TPDO is written in place; an SDO write is submitted and its end ignored.
EmitWrite ==
  /\ api.pc = "use" /\ api.query.action = "write"
  /\ IF kind = "TPDO"
     THEN reg' = currentVal /\ UNCHANGED sdoq
     ELSE /\ sdoq' = Append(sdoq, [op |-> "write", owner |-> Nobody,
                                   val |-> currentVal])
          /\ UNCHANGED reg
  /\ written' = TRUE
  /\ Reply(api.req, "ok", {})
  /\ api' = [api EXCEPT !.pc = "return"]
  /\ UNCHANGED <<kind, connected, currentVal, eventActive, listeners, done,
                 loop, phase, refs, seen, failed>>

\* The synchronous read answers with what m_currentVal is by now.
ReplyRead ==
  /\ api.pc = "use" /\ api.query.action = "read"
  /\ Reply(api.req, "value", currentVal)
  /\ api' = [api EXCEPT !.pc = "return"]
  /\ UNCHANGED <<kind, connected, currentVal, eventActive, listeners, reg,
                 sdoq, done, loop, phase, refs, seen, failed, written>>

\* Mutant: no reference for the continuation.
ReadSdoUnreferenced ==
  /\ Dispatching("read") /\ ~Refused
  /\ kind = "SDO"
  /\ sdoq' = Append(sdoq, [op |-> "read", owner |-> api.req, val |-> {}])
  /\ api' = [api EXCEPT !.pc = "return"]
  /\ UNCHANGED <<kind, connected, currentVal, eventActive, listeners, reg,
                 done, loop, phase, refs, replies, answer, seen, failed,
                 written>>

\* The asynchronous read: a reference for the continuation, and the SDO read.
ReadSdo ==
  /\ Dispatching("read") /\ ~Refused
  /\ kind = "SDO"
  /\ Addref(api.req)
  /\ sdoq' = Append(sdoq, [op |-> "read", owner |-> api.req, val |-> {}])
  /\ api' = [api EXCEPT !.pc = "return"]
  /\ UNCHANGED <<kind, connected, currentVal, eventActive, listeners, reg,
                 done, loop, phase, replies, answer, seen, failed, written>>

\* subscribe(): first the flag ...
SubscribeMark ==
  /\ Dispatching("subscribe") /\ ~Refused
  /\ eventActive' = TRUE
  /\ api' = [api EXCEPT !.pc = "subscribe"]
  /\ UNCHANGED <<kind, connected, currentVal, listeners, reg, sdoq, done, loop,
                 requestState, written>>

\* ... then the framework's list of listeners, which may refuse.
SubscribeAdd ==
  /\ api.pc = "subscribe"
  /\ \/ /\ listeners' = listeners \cup {api.query.client}
        /\ Reply(api.req, "ok", {})
     \/ /\ UNCHANGED listeners
        /\ Reply(api.req, "error", {})
  /\ api' = [api EXCEPT !.pc = "return"]
  /\ UNCHANGED <<kind, connected, currentVal, eventActive, reg, sdoq, done,
                 loop, phase, refs, seen, failed, written>>

\* unsubscribe(): only the framework's list; the flag stays.
Unsubscribe ==
  /\ Dispatching("unsubscribe") /\ ~Refused
  /\ listeners' = listeners \ {api.query.client}
  /\ \/ Reply(api.req, "ok", {})
     \/ api.query.client \notin listeners /\ Reply(api.req, "error", {})
  /\ api' = [api EXCEPT !.pc = "return"]
  /\ UNCHANGED <<kind, connected, currentVal, eventActive, reg, sdoq, done,
                 loop, phase, refs, seen, failed, written>>

\* The handler returns: the framework drops the reference it held for it.
Return ==
  /\ api.pc = "return"
  /\ Unref(api.req)
  /\ api' = ApiIdle
  /\ UNCHANGED <<kind, connected, currentVal, eventActive, listeners, reg,
                 sdoq, done, loop, replies, answer, seen, failed, written>>

ApiStep ==
  \/ Refuse \/ EncodeWrite \/ EncodeThrows \/ FetchRpdo \/ Store \/ EmitWrite
  \/ ReplyRead \/ ReadSdo \/ SubscribeMark \/ SubscribeAdd \/ Unsubscribe
  \/ Return

-----------------------------------------------------------------------------
(* The loop thread.                                                        *)

\* CANopenSlaveDriver::OnHeartbeat.
OnHeartbeat(occurred) ==
  /\ loop.pc = "idle"
  /\ connected' = ~occurred
  /\ UNCHANGED <<kind, currentVal, eventActive, listeners, reg, sdoq, done,
                 threads, requestState, written>>

\* An RPDO writes v in the mapped object; OnRpdoWrite, then readThenPush up to
\* the read: m_event_active is tested and, if set, the object read.
OnRpdoWrite(v) ==
  /\ loop.pc = "idle"
  /\ kind = "RPDO"
  /\ reg' = v
  /\ Saw(v)
  /\ loop' = IF eventActive THEN [LoopIdle EXCEPT !.pc = "store", !.val = v]
                            ELSE loop
  /\ UNCHANGED <<kind, connected, currentVal, eventActive, listeners, sdoq,
                 done, api, phase, refs, replies, answer, failed, written>>

\* OnRpdoWrite for an SDO sensor whose register is also mapped in an RPDO: a
\* read is submitted if the event is active.
OnRpdoWriteSdo ==
  /\ loop.pc = "idle"
  /\ kind = "SDO"
  /\ eventActive
  /\ Len(sdoq) + Len(done) < MaxOps
  /\ sdoq' = Append(sdoq, [op |-> "read", owner |-> Nobody,
                           val |-> {}])
  /\ UNCHANGED <<kind, connected, currentVal, eventActive, listeners, reg,
                 done, threads, requestState, written>>

\* The continuation of an SDO read.  A failure was swallowed by the inner
\* continuation of the encoder: the value is then an indeterminate COdataType.
Continue ==
  /\ loop.pc = "idle"
  /\ done # <<>>
  /\ \E v \in Values :
       /\ Head(done).ok => v = Head(done).val
       /\ loop' = [LoopIdle EXCEPT !.pc = "store", !.val = v,
                                   !.owner = Head(done).owner]
  /\ done' = Tail(done)
  /\ UNCHANGED <<kind, connected, currentVal, eventActive, listeners, reg,
                 sdoq, api, requestState, written>>

\* Mutant: the continuation answers without having stored what it got.
LoopStoreDropped ==
  /\ loop.pc = "store"
  /\ loop' = [loop EXCEPT !.pc = IF loop.owner = Nobody THEN "push" ELSE "reply"]
  /\ UNCHANGED <<kind, connected, currentVal, eventActive, listeners, reg,
                 sdoq, done, api, requestState, written>>

\* m_currentVal = ..., in readThenPush and in the continuations.
LoopStore ==
  /\ loop.pc = "store"
  /\ currentVal' = loop.val
  /\ loop' = [loop EXCEPT !.pc = IF loop.owner = Nobody THEN "push" ELSE "reply"]
  /\ UNCHANGED <<kind, connected, eventActive, listeners, reg, sdoq, done, api,
                 requestState, written>>

\* The reply of the asynchronous read, decoded from m_currentVal.
LoopReply ==
  /\ loop.pc = "reply"
  /\ Reply(loop.owner, "value", currentVal)
  /\ loop' = [loop EXCEPT !.pc = "unref"]
  /\ UNCHANGED <<kind, connected, currentVal, eventActive, listeners, reg,
                 sdoq, done, api, phase, refs, seen, failed, written>>

\* Mutant: the continuation drops its reference twice.
LoopUnrefTwice ==
  /\ loop.pc = "unref"
  /\ refs' = [refs EXCEPT ![loop.owner] = @ - 2]
  /\ loop' = LoopIdle
  /\ UNCHANGED <<kind, connected, currentVal, eventActive, listeners, reg,
                 sdoq, done, api, phase, replies, answer, seen, failed,
                 written>>

\* Mutant: the continuation keeps its reference.
LoopUnrefForgotten ==
  /\ loop.pc = "unref"
  /\ loop' = LoopIdle
  /\ UNCHANGED <<kind, connected, currentVal, eventActive, listeners, reg,
                 sdoq, done, api, requestState, written>>

LoopUnref ==
  /\ loop.pc = "unref"
  /\ Unref(loop.owner)
  /\ loop' = LoopIdle
  /\ UNCHANGED <<kind, connected, currentVal, eventActive, listeners, reg,
                 sdoq, done, api, replies, answer, seen, failed, written>>

\* push(): m_currentVal is decoded and sent to the listeners of the moment.
Push ==
  /\ loop.pc = "push"
  /\ loop' = [loop EXCEPT !.pc = "pushed", !.val = currentVal,
                          !.heard = listeners # {}]
  /\ UNCHANGED <<kind, connected, currentVal, eventActive, listeners, reg,
                 sdoq, done, api, requestState, written>>

\* Mutant: the status of afb_event_push is ignored.
PushedIgnored ==
  /\ loop.pc = "pushed"
  /\ loop' = LoopIdle
  /\ UNCHANGED <<kind, connected, currentVal, eventActive, listeners, reg,
                 sdoq, done, api, requestState, written>>

\* push() with the status of afb_event_push: no listener, no longer active.
Pushed ==
  /\ loop.pc = "pushed"
  /\ eventActive' = (eventActive /\ loop.heard)
  /\ loop' = LoopIdle
  /\ UNCHANGED <<kind, connected, currentVal, listeners, reg, sdoq, done, api,
                 requestState, written>>

LoopStep ==
  Continue \/ LoopStore \/ LoopReply \/ LoopUnref \/ Push \/ Pushed

-----------------------------------------------------------------------------
(* The SDO client of lely and the device: operations end one by one, in    *)
(* the order of their submission, and may fail (abort, timeout).           *)

SdoRead(ok) ==
  /\ loop.pc = "idle"
  /\ sdoq # <<>> /\ Head(sdoq).op = "read"
  /\ done' = Append(done, [owner |-> Head(sdoq).owner, ok |-> ok,
                           val |-> IF ok THEN reg ELSE {}])
  /\ sdoq' = Tail(sdoq)
  /\ failed' = IF ok \/ Head(sdoq).owner = Nobody
               THEN failed ELSE failed \cup {Head(sdoq).owner}
  /\ UNCHANGED <<kind, connected, currentVal, eventActive, listeners, reg,
                 threads, phase, refs, replies, answer, seen, written>>

SdoWrite(ok) ==
  /\ loop.pc = "idle"
  /\ sdoq # <<>> /\ Head(sdoq).op = "write"
  /\ reg' = IF ok THEN Head(sdoq).val ELSE reg
  /\ Saw(reg')
  /\ sdoq' = Tail(sdoq)
  /\ UNCHANGED <<kind, connected, currentVal, eventActive, listeners, done,
                 threads, phase, refs, replies, answer, failed, written>>

Sdo == \E ok \in BOOLEAN : SdoRead(ok) \/ SdoWrite(ok)

\* The device changes a register of its own.
DeviceChange(v) ==
  /\ loop.pc = "idle"
  /\ kind = "SDO"
  /\ reg' = v
  /\ Saw(v)
  /\ UNCHANGED <<kind, connected, currentVal, eventActive, listeners, sdoq,
                 done, threads, phase, refs, replies, answer, failed, written>>

-----------------------------------------------------------------------------
Next ==
  /\ ~Terminated
  /\ \/ \E r \in Requests, q \in Queries : Accept(r, q)
     \/ ApiStep
     \/ LoopStep
     \/ Sdo
     \/ OnRpdoWriteSdo
     \/ \E v \in Values : OnRpdoWrite(v) \/ DeviceChange(v)
     \/ \E occurred \in BOOLEAN : OnHeartbeat(occurred)

\* As long as the process lives, both threads run their handlers to the end, and
\* lely ends every SDO operation, at the latest with its timeout.
Fairness ==
  /\ WF_vars(ApiStep)
  /\ WF_vars(~Terminated /\ LoopStep)
  /\ WF_vars(~Terminated /\ Sdo)

Spec == Init /\ [][Next]_vars
FairSpec == Spec /\ Fairness

-----------------------------------------------------------------------------
(* What holds.                                                             *)

\* r is in the hands of the SDO client or of a continuation.
InFlight(r) ==
  \/ \E i \in 1..Len(sdoq) : sdoq[i].owner = r
  \/ \E i \in 1..Len(done) : done[i].owner = r
  \/ loop.owner = r

\* A request whose SDO read is queued, ended or being answered is still
\* referenced, so the continuation never touches a request the framework has
\* freed, even when the handler returned first (afb_req_addref before
\* readAsyncCB, afb_req_unref at the end of the continuation).
RequestHeld ==
  \A r \in Requests : InFlight(r) => refs[r] > 0 /\ replies[r] <= 1

\* The verb of the sensor is a request service, whatever the action, the state of
\* the slave and the outcome of the SDO read: no request gets two answers, none is
\* released before its answer, and as long as the process is not terminated each
\* is answered and released.  An integer that cannot be converted does terminate
\* it, and leaves unanswered that write and every request waiting in the binding.
Service == INSTANCE RequestService WITH
  accepted <- {r \in Requests : phase[r] # "new"},
  released <- {r \in Requests : phase[r] = "gone"}

ServiceSpec == Service!SafeSpec /\ ([]~Terminated => Service!Fairness)

\* A successful read whose SDO read did not fail returns a value that the
\* register held, or that a write encoded, while the request was open and after
\* the writes accepted before it; m_currentVal being shared with the other
\* thread and overwritten at any time does not let an older value through.
ReadFresh ==
  \A r \in Requests \ failed :
    answer[r].status = "value" => answer[r].val \in seen[r]

\* A TPDO write acts on the mapped object as one read-modify-write, although the
\* encoder works on m_currentVal: from the second write on, what it writes is the
\* encoding of the data on the value the object holds.  The bits the client named
\* get the value it asked for and the others keep theirs when that value has 32
\* bits (set) or 8 (cleared); above them a mask clears bits nobody named.
Landing(d) ==
  /\ reg' = Encode(d, reg)
  /\ d.how = "on" /\ reg \subseteq WordBits => reg' = reg \cup (d.bits \cap WordBits)
  /\ d.how \in {"off", "clear"} /\ reg \subseteq LowBits => reg' = reg \ d.bits

WriteLands ==
  [][EmitWrite /\ kind = "TPDO" /\ written => Landing(api.query.data)]_vars

\* Once nobody listens any more and nothing is asked of the sensor, the RPDOs
\* that keep coming end up switching the event off, whatever subscriptions
\* failed or raced before (push() resets m_event_active).
EventQuiesces ==
  <>[](listeners = {} /\ api.pc = "idle")
    /\ []<><<\E v \in Values : OnRpdoWrite(v)>>_vars
  => <>[]~eventActive

-----------------------------------------------------------------------------
(* What the code or its documentation says and does not hold.              *)

\* docs: "the request is subscribed": once nothing is in progress, a sensor with
\* listeners is active, otherwise it never pushes to them.
SubscribedIsActive ==
  api.pc = "idle" /\ loop.pc = "idle" /\ listeners # {} => eventActive

\* "getting the value can raise the exception": a read whose SDO read failed is
\* answered with an error.
FailedReadReported ==
  \A r \in failed : answer[r].status # "value"
=============================================================================
