------------------------- MODULE CANopenSlaveDriver -------------------------
(***************************************************************************)
(* One slave: its configuration at boot (onconf, written item after item   *)
(* by doStartAction), what the driver knows of its state (m_connected),    *)
(* and its admin verb, that reads and writes any register.  The handlers   *)
(* of the verb run on the API thread, everything else on the thread of the *)
(* lely loop.  Configuration and admin requests share the SDO client of    *)
(* the slave, that ends one operation at a time, in order.                 *)
(***************************************************************************)
EXTENDS Naturals, Sequences

CONSTANTS
  Requests,    \* the requests clients may send to the admin verb
  Config,      \* the owner of the SDO writes of the configuration
  Onconfs,     \* the onconf lists tried, see ItemKinds
  MaxBoots     \* bound on the boots of the slave

\* An item of onconf: one that is written, one doStartAction skips (not parsed,
\* or integers out of range), one of invalid size, or a JSON null, that it takes
\* for the end of the list.
ItemKinds == {"write", "skip", "size", "null"}

\* A query to the admin verb: refused before anything is done (no JSON, unknown
\* action, missing field), refused while it is decoded (bad integer or size), or
\* a read or write that is submitted.
Queries == {"refused", "invalid", "submitted"}

ASSUME ConfigAssumption == Config \notin Requests
ASSUME OnconfsAssumption == Onconfs \subseteq Seq(ItemKinds) /\ Onconfs # {}
ASSUME MaxBootsAssumption == MaxBoots \in Nat

VARIABLES
  onconf,      \* m_onconfJ
  connected,   \* m_connected
  period,      \* the master has a communication cycle period (object 0x1006)
  boots,       \* boots so far
  conf,        \* the configuration of the current boot
  loop,        \* the loop thread: where it is, the request it serves
  sdoq,        \* SDO operations submitted to lely, in order
  done,        \* operations that ended, their continuations posted to the loop
  api,         \* the API thread: where it is, the request it handles
  phase,       \* of each request: "new", "open" or "gone" (no reference left)
  refs,        \* references the binding holds on each request
  replies,     \* how many answers each request got
  answer,      \* the status of the answer of each request
  outcome,     \* history: how the SDO operation of each request ended
  lost         \* history: the heartbeat timed out and was not seen since

requestState == <<phase, refs, replies, answer, outcome>>
bootState == <<onconf, connected, period, boots, conf, lost>>
vars == <<onconf, connected, period, boots, conf, loop, sdoq, done, api,
          phase, refs, replies, answer, outcome, lost>>

\* next is the item doStartAction is to look at, res how many times it called
\* the function OnConfig got from lely, tried the items it submitted; threw is a
\* history: lely refused to submit one.
ConfType == [state : {"none", "started", "ended", "booted"}, next : Nat,
             res : Nat, tried : Seq(Nat), threw : BOOLEAN]
NoConf == [state |-> "none", next |-> 1, res |-> 0, tried |-> <<>>,
           threw |-> FALSE]

Owners == Requests \cup {Config}
ApiIdle == [pc |-> "idle", req |-> Config, query |-> "refused"]
LoopIdle == [pc |-> "idle", owner |-> Config, ok |-> FALSE]

TypeOK ==
  /\ onconf \in Onconfs
  /\ connected \in BOOLEAN /\ period \in BOOLEAN /\ lost \in BOOLEAN
  /\ boots \in 0..MaxBoots
  /\ conf \in ConfType
  /\ loop \in [pc : {"idle", "config", "reply", "unref"}, owner : Owners,
               ok : BOOLEAN]
  /\ sdoq \in Seq(Owners)
  /\ done \in Seq([owner : Owners, ok : BOOLEAN])
  /\ api \in [pc : {"idle", "dispatch", "decode", "throw", "return"},
              req : Owners, query : Queries]
  /\ phase \in [Requests -> {"new", "open", "gone"}]
  /\ refs \in [Requests -> Nat]
  /\ replies \in [Requests -> Nat]
  /\ answer \in [Requests -> {"none", "ok", "error"}]
  /\ outcome \in [Requests -> {"none", "ok", "error"}]

Init ==
  /\ onconf \in Onconfs
  /\ connected = TRUE
  /\ period \in BOOLEAN
  /\ boots = 0 /\ conf = NoConf
  /\ loop = LoopIdle /\ api = ApiIdle
  /\ sdoq = <<>> /\ done = <<>>
  /\ phase = [r \in Requests |-> "new"]
  /\ refs = [r \in Requests |-> 0]
  /\ replies = [r \in Requests |-> 0]
  /\ answer = [r \in Requests |-> "none"]
  /\ outcome = [r \in Requests |-> "none"]
  /\ lost = FALSE

-----------------------------------------------------------------------------
(* The configuration.                                                      *)

\* From i on, doStartAction skips the items before j and finds none at j: the list
\* ends there, or has a null.
EndsAt(i, j) ==
  /\ j <= Len(onconf) => onconf[j] = "null"
  /\ \A k \in i..(j - 1) : onconf[k] = "skip"

\* The first item at i or after that doStartAction does not skip is j.
NextItem(i, j) ==
  onconf[j] \notin {"skip", "null"} /\ \A k \in i..(j - 1) : onconf[k] = "skip"

\* lely is told (res) that the configuration ended well; next is where.
Told(j) == [conf EXCEPT !.state = "ended", !.next = j, !.res = @ + 1]

\* AsyncWrite throws SdoError: the handler goes on from the item whose rank is one
\* more than the index of the register, not of the item.  The objects of a device
\* that one configures have indexes from 0x1000 on, and no list has as many items:
\* there is nothing there, and lely is told that all went well.
Thrown == [Told(Len(onconf) + 1) EXCEPT !.threw = TRUE]

\* Mutant: an item that cannot be parsed ends the configuration silently.
DoStartActionStops(i) ==
  \/ /\ i > Len(onconf)
     /\ conf' = Told(i)
     /\ UNCHANGED sdoq
  \/ /\ i <= Len(onconf) /\ onconf[i] # "write"
     /\ conf' = [conf EXCEPT !.next = i + 1]
     /\ UNCHANGED sdoq
  \/ /\ i <= Len(onconf) /\ onconf[i] = "write"
     /\ sdoq' = Append(sdoq, Config)
     /\ conf' = [conf EXCEPT !.next = i + 1, !.tried = Append(@, i)]

\* Mutant: the index is not incremented, the item is written again and again.
DoStartActionAgain(i) ==
  \/ /\ \E j \in i..(Len(onconf) + 1) : EndsAt(i, j) /\ conf' = Told(j)
     /\ UNCHANGED sdoq
  \/ \E j \in i..Len(onconf) :
       /\ NextItem(i, j) /\ onconf[j] = "size"
       /\ conf' = [conf EXCEPT !.next = j + 1]
       /\ UNCHANGED sdoq
  \/ \E j \in i..Len(onconf) :
       /\ NextItem(i, j) /\ onconf[j] = "write"
       /\ sdoq' = Append(sdoq, Config)
       /\ conf' = [conf EXCEPT !.next = j, !.tried = Append(@, j)]

\* doStartAction(i): the next item is submitted, unless lely throws; after the last
\* one lely is told; an item of invalid size ends it all without a word to lely.
DoStartAction(i) ==
  \/ /\ \E j \in i..(Len(onconf) + 1) : EndsAt(i, j) /\ conf' = Told(j)
     /\ UNCHANGED sdoq
  \/ \E j \in i..Len(onconf) :
       /\ NextItem(i, j) /\ onconf[j] = "size"
       /\ conf' = [conf EXCEPT !.next = j + 1]
       /\ UNCHANGED sdoq
  \/ \E j \in i..Len(onconf) :
       /\ NextItem(i, j) /\ onconf[j] = "write"
       /\ \/ /\ sdoq' = Append(sdoq, Config)
             /\ conf' = [conf EXCEPT !.next = j + 1, !.tried = Append(@, j)]
          \/ conf' = Thrown /\ UNCHANGED sdoq

\* lely boots the slave, which has just announced itself, and asks for its
\* configuration, one at a time.
OnConfig ==
  /\ loop.pc = "idle"
  /\ conf.state # "started"
  /\ boots < MaxBoots
  /\ boots' = boots + 1
  /\ connected' = FALSE
  /\ lost' = FALSE
  /\ conf' = [NoConf EXCEPT !.state = "started"]
  /\ loop' = [LoopIdle EXCEPT !.pc = "config"]
  /\ UNCHANGED <<onconf, period, sdoq, done, api, requestState>>

\* Mutant: the slave stays down until the configuration ends.
OnConfigActionDown ==
  /\ loop.pc = "config"
  /\ DoStartAction(1)
  /\ connected' = (conf'.state = "ended")
  /\ loop' = LoopIdle
  /\ UNCHANGED <<onconf, period, boots, lost, done, api, requestState>>

\* The first call of doStartAction; m_connected is set as soon as it returns,
\* before the items are written.
OnConfigAction ==
  /\ loop.pc = "config"
  /\ DoStartAction(1)
  /\ connected' = TRUE
  /\ loop' = LoopIdle
  /\ UNCHANGED <<onconf, period, boots, lost, done, api, requestState>>

\* The continuation of the write of an item, failed or not: the next item, or
\* the end, where OnConfig's function sets m_connected.
ConfigContinue ==
  /\ loop.pc = "idle"
  /\ done # <<>> /\ Head(done).owner = Config
  /\ done' = Tail(done)
  /\ DoStartAction(conf.next)
  /\ connected' = (connected \/ conf'.state = "ended")
  /\ UNCHANGED <<onconf, period, boots, lost, loop, api, requestState>>

\* lely got the result of the configuration and ends the boot: OnBoot gives the
\* master a cycle period if it has none.
OnBoot ==
  /\ loop.pc = "idle"
  /\ conf.state = "ended"
  /\ conf' = [conf EXCEPT !.state = "booted"]
  /\ period' = TRUE
  /\ UNCHANGED <<onconf, connected, boots, lost, loop, sdoq, done, api,
                 requestState>>

\* A heartbeat timeout (occurred) or the heartbeat again.
OnHeartbeat(occurred) ==
  /\ loop.pc = "idle"
  /\ connected' = ~occurred
  /\ lost' = occurred
  /\ UNCHANGED <<onconf, period, boots, conf, loop, sdoq, done, api,
                 requestState>>

-----------------------------------------------------------------------------
(* The admin verb on the API thread.                                       *)

Reply(r, status) ==
  /\ replies' = [replies EXCEPT ![r] = @ + 1]
  /\ answer' = [answer EXCEPT ![r] = status]

Addref(r) == refs' = [refs EXCEPT ![r] = @ + 1]

Unref(r) ==
  /\ refs' = [refs EXCEPT ![r] = @ - 1]
  /\ phase' = [phase EXCEPT ![r] = IF refs[r] = 1 THEN "gone" ELSE @]

Accept(r, q) ==
  /\ api.pc = "idle"
  /\ phase[r] = "new"
  /\ api' = [pc |-> "dispatch", req |-> r, query |-> q]
  /\ phase' = [phase EXCEPT ![r] = "open"]
  /\ refs' = [refs EXCEPT ![r] = 1]
  /\ UNCHANGED <<bootState, loop, sdoq, done, replies, answer, outcome>>

Refuse ==
  /\ api.pc = "dispatch" /\ api.query = "refused"
  /\ Reply(api.req, "error")
  /\ api' = [api EXCEPT !.pc = "return"]
  /\ UNCHANGED <<bootState, loop, sdoq, done, phase, refs, outcome>>

\* The reference for the continuation is taken before the query is decoded ...
Hold ==
  /\ api.pc = "dispatch" /\ api.query # "refused"
  /\ Addref(api.req)
  /\ api' = [api EXCEPT !.pc = "decode"]
  /\ UNCHANGED <<bootState, loop, sdoq, done, phase, replies, answer, outcome>>

\* ... which may throw: the handler answers and ...
Catch ==
  /\ api.pc = "decode" /\ api.query = "invalid"
  /\ Reply(api.req, "error")
  /\ api' = [api EXCEPT !.pc = "throw"]
  /\ UNCHANGED <<bootState, loop, sdoq, done, phase, refs, outcome>>

\* Mutant: the reference is not given back on the error path.
CatchUnrefForgotten ==
  /\ api.pc = "throw"
  /\ api' = [api EXCEPT !.pc = "return"]
  /\ UNCHANGED <<bootState, loop, sdoq, done, requestState>>

\* ... gives that reference back.
CatchUnref ==
  /\ api.pc = "throw"
  /\ Unref(api.req)
  /\ api' = [api EXCEPT !.pc = "return"]
  /\ UNCHANGED <<bootState, loop, sdoq, done, replies, answer, outcome>>

Submit ==
  /\ api.pc = "decode" /\ api.query = "submitted"
  /\ sdoq' = Append(sdoq, api.req)
  /\ api' = [api EXCEPT !.pc = "return"]
  /\ UNCHANGED <<bootState, loop, done, requestState>>

Return ==
  /\ api.pc = "return"
  /\ Unref(api.req)
  /\ api' = ApiIdle
  /\ UNCHANGED <<bootState, loop, sdoq, done, replies, answer, outcome>>

ApiStep == Refuse \/ Hold \/ Catch \/ CatchUnref \/ Submit \/ Return

-----------------------------------------------------------------------------
(* The continuations of the admin verb, and the SDO client.                *)

AdminContinue ==
  /\ loop.pc = "idle"
  /\ done # <<>> /\ Head(done).owner # Config
  /\ done' = Tail(done)
  /\ loop' = [pc |-> "reply", owner |-> Head(done).owner, ok |-> Head(done).ok]
  /\ UNCHANGED <<bootState, sdoq, api, requestState>>

\* Mutant: the error of the SDO operation is not looked at.
AdminReplyAlwaysOk ==
  /\ loop.pc = "reply"
  /\ Reply(loop.owner, "ok")
  /\ loop' = [loop EXCEPT !.pc = "unref"]
  /\ UNCHANGED <<bootState, sdoq, done, api, phase, refs, outcome>>

AdminReply ==
  /\ loop.pc = "reply"
  /\ Reply(loop.owner, IF loop.ok THEN "ok" ELSE "error")
  /\ loop' = [loop EXCEPT !.pc = "unref"]
  /\ UNCHANGED <<bootState, sdoq, done, api, phase, refs, outcome>>

\* Mutant: the continuation drops its reference twice.
AdminUnrefTwice ==
  /\ loop.pc = "unref"
  /\ refs' = [refs EXCEPT ![loop.owner] = @ - 2]
  /\ loop' = LoopIdle
  /\ UNCHANGED <<bootState, sdoq, done, api, phase, replies, answer, outcome>>

AdminUnref ==
  /\ loop.pc = "unref"
  /\ Unref(loop.owner)
  /\ loop' = LoopIdle
  /\ UNCHANGED <<bootState, sdoq, done, api, replies, answer, outcome>>

LoopStep ==
  OnConfigAction \/ ConfigContinue \/ AdminContinue \/ AdminReply \/ AdminUnref

\* The operation at the head of the queue ends, or fails (abort, timeout).
SdoEnd(ok) ==
  /\ loop.pc = "idle"
  /\ sdoq # <<>>
  /\ done' = Append(done, [owner |-> Head(sdoq), ok |-> ok])
  /\ sdoq' = Tail(sdoq)
  /\ outcome' = [r \in Requests |-> IF r # Head(sdoq) THEN outcome[r]
                                    ELSE IF ok THEN "ok" ELSE "error"]
  /\ UNCHANGED <<bootState, loop, api, phase, refs, replies, answer>>

Sdo == \E ok \in BOOLEAN : SdoEnd(ok)

-----------------------------------------------------------------------------
\* The rest of the system: the slave boots and its heartbeat comes and goes.
Bus == OnConfig \/ OnBoot \/ \E occurred \in BOOLEAN : OnHeartbeat(occurred)

Next ==
  \/ \E r \in Requests, q \in Queries : Accept(r, q)
  \/ ApiStep
  \/ LoopStep
  \/ Sdo
  \/ Bus

\* Both threads run their handlers to the end, and lely ends every SDO
\* operation, at the latest with its timeout.
Fairness == WF_vars(ApiStep) /\ WF_vars(LoopStep) /\ WF_vars(Sdo)

Spec == Init /\ [][Next]_vars
FairSpec == Spec /\ Fairness

-----------------------------------------------------------------------------
(* What holds.                                                             *)

\* However the SDO writes end and whatever the admin verb interleaves, the items
\* are submitted in the order of onconf, each once, none passed over and none after
\* a null, and lely is told once of the end of the configuration, when all of them
\* up to a null were, or when lely refused to submit one (the items after it are
\* then passed over in silence).
InOrder ==
  \A k \in 1..Len(conf.tried) :
    /\ onconf[conf.tried[k]] = "write"
    /\ \A j \in 1..(k - 1) : conf.tried[j] < conf.tried[k]
    /\ \A i \in 1..(conf.tried[k] - 1) :
         /\ onconf[i] # "null"
         /\ onconf[i] = "write" => \E j \in 1..(k - 1) : conf.tried[j] = i

AllTried ==
  \A i \in 1..Len(onconf) :
    onconf[i] = "write" => \/ \E k \in 1..Len(conf.tried) : conf.tried[k] = i
                          \/ \E n \in 1..(i - 1) : onconf[n] = "null"

ConfigInOrder ==
  /\ InOrder
  /\ conf.res = IF conf.state \in {"ended", "booted"} THEN 1 ELSE 0
  /\ conf.state \in {"ended", "booted"} => AllTried \/ conf.threw

\* If no item has an invalid size (doStartAction then returns without calling res,
\* and the boot of the slave waits for ever), each configuration ends: items that
\* cannot be parsed or written do not hold the boot of the slave.
ConfigEnds ==
  [](\A i \in 1..Len(onconf) : onconf[i] # "size")
    => (conf.state = "started" ~> conf.state # "started")

\* Out of OnConfig, the sensors of a slave refuse requests only after a heartbeat
\* timeout: a configuration that fails or never ends does not leave it down.
DownMeansLost == loop.pc # "config" /\ ~connected => lost

\* The admin verb says ok if and only if the SDO operation of this very request
\* succeeded, however it interleaves with the configuration and other requests.
AdminHonest ==
  \A r \in Requests :
    /\ answer[r] = "ok" => outcome[r] = "ok"
    /\ answer[r] = "error" => outcome[r] # "ok"

\* The admin verb is a request service: one answer per request on every path,
\* the ones that throw included, and the last reference dropped after it.
Service == INSTANCE RequestService WITH
  accepted <- {r \in Requests : phase[r] # "new"},
  released <- {r \in Requests : phase[r] = "gone"}

ServiceSpec == Service!Spec

-----------------------------------------------------------------------------
(* What the code says and does not hold.                                   *)

\* "heartbeat timeout, disconnect": from then on and until the slave is back, the
\* slave is not connected.
TimeoutDisconnects == lost => ~connected
=============================================================================
