-------------------------- MODULE CANopenMasterSet --------------------------
(***************************************************************************)
(* The masters (one per bus) from their creation at the pre-initialisation *)
(* of the API to their use by the verb get of the binary interface.        *)
(*                                                                         *)
(* The main thread adds the masters in the order of the configuration,     *)
(* starts the thread of the lely loop and waits for it, then starts each   *)
(* master.  A master is owned by two std::shared_ptr made from the same    *)
(* raw pointer, one in masters_ (by uid) and one in imasters_ (by index):  *)
(* each has its own count, so each deletes the master when it is replaced. *)
(*                                                                         *)
(* Once the binding serves, the API thread runs get, that reads objects of *)
(* the masters one after the other, while the loop thread updates them.    *)
(***************************************************************************)
EXTENDS Naturals, Sequences

CONSTANTS
  Configs,     \* the values of the entry "canopen" tried: sequences of buses
  Objects,     \* the PDO-mapped objects of a master
  Values,      \* the values of an object
  Zero,        \* the value get returns for an object that cannot be read
  Fits,        \* lely reads an object as a type: pairs of a Scalar and an object
  Requests,    \* the requests clients may send to the verb get
  Queries,     \* the queries of these requests, see QueryType
  Nobody,      \* the request of an API thread that handles none
  Faults       \* what may go wrong in the start: subset of FaultKinds

\* A bus of the configuration and what adding it comes to: a descriptor that is
\* not an object, an init() that fails, an init() in which opening the bus throws.
Uids == {"u1", "u2"}
BusType == [uid : Uids, index : Nat, add : {"ok", "wrong", "fails", "throws"}]

\* canopen_xchg_u8 ... canopen_xchg_i64, and any other value of the field type.
Scalar == [sign : {"u", "i"}, width : {8, 16, 32, 64}]
NoScalar == [sign |-> "none", width |-> 0]

\* An item of a get: an interface, an object, Zero standing for one that the
\* dictionary of the master does not have, and the type it is asked as.
ItemType == [itf : Nat, obj : Objects \cup {Zero}, type : Scalar \cup {NoScalar}]

\* The parameters of a get: invalid, or with an array of values that the handler
\* allocates, or with one of the client.
QueryType == [form : {"invalid", "alloc", "client"}, items : Seq(ItemType)]

\* pthread_create fails; pthread_cond_wait returns without a signal.
FaultKinds == {"create", "spurious"}

ASSUME ConfigsAssumption == Configs \subseteq Seq(BusType) /\ Configs # {}
ASSUME ObjectsAssumption == Zero \notin Values \cup Objects
ASSUME FitsAssumption == Fits \subseteq Scalar \X Objects
ASSUME QueriesAssumption == Queries \subseteq QueryType /\ Queries # {}
ASSUME NobodyAssumption == Nobody \notin Requests
ASSUME FaultsAssumption == Faults \subseteq FaultKinds

VARIABLES
  config,      \* the configuration
  faults,      \* what may go wrong in this start
  main,        \* where the main thread is
  pos,         \* the next bus of the configuration to add
  masters,     \* masters_: the master of each uid
  imasters,    \* imasters_: the master of each index, the first of index 0
  alive,       \* the masters allocated and not deleted
  running,     \* the masters started
  mutex,       \* who holds the mutex of synchro_exec_start
  loop,        \* where the loop thread is
  mapped,      \* the values of the objects of the master that serves
  api,         \* the API thread: where it is and the get it handles
  answer,      \* the answer of each request: a status and values
  dref,        \* references get holds on the array of values of each request
  seen         \* history: the values objects had while the current get ran

given == <<config, faults>>
setState == <<pos, masters, imasters, alive, running>>
getState == <<api, answer, dref, seen>>
vars == <<given, main, setState, mutex, loop, mapped, getState>>

\* The master of the bus config[i] is named i.
Null == 0
Masters == 1..Len(config)

NoQuery == CHOOSE q \in Queries : TRUE
NoAnswer == [status |-> "none", vals |-> <<>>]
ApiIdle == [pc |-> "idle", req |-> Nobody, query |-> NoQuery, vals |-> <<>>]

ValueType == Values \cup {Zero}

TypeOK ==
  /\ config \in Configs
  /\ faults \subseteq Faults
  /\ main \in {"add", "wait", "asleep", "woken", "start", "serving",
               "failed", "aborted", "undefined"}
  /\ pos \in 1..(Len(config) + 1)
  /\ masters \in [Uids -> Masters \cup {Null}]
  /\ imasters \in Seq(Masters \cup {Null})
  /\ alive \subseteq Masters /\ running \subseteq Masters
  /\ mutex \in {"none", "main", "loop"}
  /\ loop \in {"none", "created", "signal", "signalled", "running"}
  /\ mapped \in [Objects -> Values]
  /\ api \in [pc : {"idle", "dispatch", "read", "return"},
              req : Requests \cup {Nobody}, query : Queries, vals : Seq(ValueType)]
  /\ answer \in [Requests -> [status : {"none", "error", "values"},
                              vals : Seq(ValueType)]]
  /\ dref \in [Requests -> Nat]
  /\ seen \subseteq Objects \X Values

\* The constructor of the set makes a vector of four null pointers.
Init ==
  /\ config \in Configs
  /\ faults \in SUBSET Faults
  /\ main = "add" /\ pos = 1
  /\ masters = [u \in Uids |-> Null]
  /\ imasters = [i \in 1..4 |-> Null]
  /\ alive = {} /\ running = {}
  /\ mutex = "none" /\ loop = "none"
  /\ mapped \in [Objects -> Values]
  /\ api = ApiIdle
  /\ answer = [r \in Requests |-> NoAnswer]
  /\ dref = [r \in Requests |-> 0]
  /\ seen = {}

-----------------------------------------------------------------------------
(* Adding the masters.                                                     *)

\* CANopenMaster::index(): m_index keeps its initial value, init() reads the
\* index of the configuration and does not store it.
Index(i) == 0

\* Whoever is replaced in one of the two containers is deleted, even if the other
\* still points to it; deleting it again is undefined.
Record(i) ==
  LET old == masters[config[i].uid]
      oldAt == IF Index(i) < Len(imasters) THEN imasters[Index(i) + 1] ELSE Null
      afterUid == (alive \cup {i}) \ {old}
  IN
  /\ masters' = [masters EXCEPT ![config[i].uid] = i]
  /\ imasters' = [k \in 1..(IF Index(i) < Len(imasters) THEN Len(imasters)
                                                        ELSE Index(i) + 1) |->
                    IF k = Index(i) + 1 THEN i
                    ELSE IF k <= Len(imasters) THEN imasters[k] ELSE Null]
  /\ alive' = afterUid \ {oldAt}
  /\ main' = IF old \in alive \cup {Null} /\ oldAt \in afterUid \cup {Null} THEN main
             ELSE "undefined"

Adding(outcomes) ==
  /\ main = "add" /\ pos <= Len(config) /\ config[pos].add \in outcomes
  /\ pos' = pos + 1

\* add() of a bus that can be.
Add ==
  /\ Adding({"ok"})
  /\ Record(pos)
  /\ UNCHANGED <<given, running, mutex, loop, mapped, getState>>

\* Mutant: a bus that cannot be added is skipped.
AddFailsSkips ==
  /\ Adding({"wrong", "fails"})
  /\ UNCHANGED <<given, main, masters, imasters, alive, running, mutex, loop,
                 mapped, getState>>

\* The first failure ends the pre-initialisation; the master whose init() failed
\* is in no container and is not deleted.  The entry of the binding then deletes its
\* configuration, and with it each master recorded, once for each container.
AddFails ==
  /\ Adding({"wrong", "fails"})
  /\ main' = IF \A u \in Uids : masters[u] = Null THEN "failed" ELSE "undefined"
  /\ alive' = IF config[pos].add = "fails" THEN alive \cup {pos} ELSE alive
  /\ UNCHANGED <<given, masters, imasters, running, mutex, loop, mapped, getState>>

\* Nobody catches what opening the bus throws: the process aborts.
AddThrows ==
  /\ Adding({"throws"})
  /\ main' = "aborted"
  /\ UNCHANGED <<given, masters, imasters, alive, running, mutex, loop, mapped,
                 getState>>

-----------------------------------------------------------------------------
(* Starting the loop thread: the main thread waits for its signal.         *)

\* Mutant: the mutex is not taken before the thread is created.
ExecStartUnlocked ==
  /\ main = "add" /\ pos > Len(config)
  /\ \/ loop' = "created"
     \/ "create" \in faults /\ UNCHANGED loop
  /\ main' = "wait"
  /\ UNCHANGED <<given, setState, mutex, mapped, getState>>

\* The constructor takes the mutex; the status of pthread_create is not tested.
ExecStart ==
  /\ main = "add" /\ pos > Len(config)
  /\ mutex' = "main"
  /\ \/ loop' = "created"
     \/ "create" \in faults /\ UNCHANGED loop
  /\ main' = "wait"
  /\ UNCHANGED <<given, setState, mapped, getState>>

\* Mutant: start() does not wait.
ExecWaitSkipped ==
  /\ main = "wait"
  /\ mutex' = "none"
  /\ main' = "start"
  /\ UNCHANGED <<given, setState, loop, mapped, getState>>

\* pthread_cond_wait gives the mutex and sleeps ...
ExecWait ==
  /\ main = "wait"
  /\ mutex' = "none"
  /\ main' = "asleep"
  /\ UNCHANGED <<given, setState, loop, mapped, getState>>

ExecSpurious ==
  /\ main = "asleep" /\ "spurious" \in faults
  /\ main' = "woken"
  /\ UNCHANGED <<given, setState, mutex, loop, mapped, getState>>

\* ... and takes it again before it returns; the destructor releases it.
ExecWoken ==
  /\ main = "woken" /\ mutex = "none"
  /\ main' = "start"
  /\ UNCHANGED <<given, setState, mutex, loop, mapped, getState>>

\* The loop thread uses synchro_exec_start, a variable of start(): if start() has
\* returned, anything may happen.
Synchro(next) == IF main \in {"wait", "asleep", "woken"} THEN next ELSE "undefined"

LoopLock ==
  /\ loop = "created" /\ mutex = "none"
  /\ mutex' = "loop"
  /\ loop' = "signal"
  /\ main' = Synchro(main)
  /\ UNCHANGED <<given, setState, mapped, getState>>

\* pthread_cond_signal wakes main if it sleeps, and is lost otherwise.
LoopSignal ==
  /\ loop = "signal"
  /\ main' = Synchro(IF main = "asleep" THEN "woken" ELSE main)
  /\ loop' = "signalled"
  /\ UNCHANGED <<given, setState, mutex, mapped, getState>>

LoopUnlock ==
  /\ loop = "signalled"
  /\ mutex' = "none"
  /\ main' = Synchro(main)
  /\ loop' = "running"
  /\ UNCHANGED <<given, setState, mapped, getState>>

\* start() of the set: each master of masters_, deleted or not.  Opening the CAN
\* channel may throw.
Start ==
  /\ main = "start"
  /\ \E u \in Uids :
       /\ masters[u] \notin running \cup {Null}
       /\ \/ /\ masters[u] \in alive
             /\ running' = running \cup {masters[u]}
             /\ UNCHANGED main
          \/ /\ main' = IF masters[u] \in alive THEN "aborted" ELSE "undefined"
             /\ UNCHANGED running
  /\ UNCHANGED <<given, pos, masters, imasters, alive, mutex, loop, mapped,
                 getState>>

Started ==
  /\ main = "start"
  /\ \A u \in Uids : masters[u] \in running \cup {Null}
  /\ main' = "serving"
  /\ UNCHANGED <<given, setState, mutex, loop, mapped, getState>>

MainStep ==
  \/ Add \/ AddFails \/ AddThrows
  \/ ExecStart \/ ExecWait \/ ExecWoken \/ Start \/ Started
LoopStep == LoopLock \/ LoopSignal \/ LoopUnlock

-----------------------------------------------------------------------------
(* The verb get.                                                           *)

\* operator[]: at() throws out of the vector, and a null pointer throws too.
Resolves(itf) == itf < Len(imasters) /\ imasters[itf + 1] # Null

Accept(r, q) ==
  /\ main = "serving"
  /\ api.pc = "idle" /\ answer[r] = NoAnswer
  /\ api' = [pc |-> "dispatch", req |-> r, query |-> q, vals |-> <<>>]
  /\ seen' = {<<o, mapped[o]>> : o \in Objects}
  /\ UNCHANGED <<given, main, setState, mutex, loop, mapped, answer, dref>>

Reply(status, vals) ==
  /\ answer' = [answer EXCEPT ![api.req] = [status |-> status, vals |-> vals]]
  /\ api' = [api EXCEPT !.pc = "return"]

\* The parameters are invalid, there is no item, or the array cannot be allocated.
GetInvalid ==
  /\ api.pc = "dispatch"
  /\ api.query.form \in {"invalid", "alloc"} \/ api.query.items = <<>>
  /\ Reply("error", <<>>)
  /\ UNCHANGED <<given, main, setState, mutex, loop, mapped, dref, seen>>

\* The array of values is allocated, or a reference taken on that of the client.
GetArray ==
  /\ api.pc = "dispatch"
  /\ api.query.form # "invalid" /\ api.query.items # <<>>
  /\ dref' = [dref EXCEPT ![api.req] = @ + 1]
  /\ api' = [api EXCEPT !.pc = "read"]
  /\ UNCHANGED <<given, main, setState, mutex, loop, mapped, answer, seen>>

Item == api.query.items[Len(api.vals) + 1]
Remains == api.pc = "read" /\ Len(api.vals) < Len(api.query.items)

\* An object is read as the type of the other sign.
ReadAs(type) == [type EXCEPT !.sign = IF @ = "u" THEN "i" ELSE "u"]

Readable(item) == item.type \in Scalar /\ <<ReadAs(item.type), item.obj>> \in Fits

\* Mutant: an object that cannot be read leaves the value of the previous item.
GetItemKeeps ==
  /\ Remains /\ Resolves(Item.itf)
  /\ api' = [api EXCEPT !.vals = Append(@,
               IF Readable(Item) THEN mapped[Item.obj]
               ELSE IF @ = <<>> THEN Zero ELSE @[Len(@)])]
  /\ UNCHANGED <<given, main, setState, mutex, loop, mapped, answer, dref, seen>>

\* The read of an item, the same bits for both signs; what lely does not read as that
\* type is logged and leaves a value of zero.
GetItem ==
  /\ Remains /\ Resolves(Item.itf)
  /\ api' = [api EXCEPT !.vals = Append(@, IF Readable(Item) THEN mapped[Item.obj]
                                           ELSE Zero)]
  /\ UNCHANGED <<given, main, setState, mutex, loop, mapped, answer, dref, seen>>

\* Mutant: the array is not released when the read of an item throws.
GetCatchLeaks ==
  /\ Remains /\ ~Resolves(Item.itf)
  /\ Reply("error", <<>>)
  /\ UNCHANGED <<given, main, setState, mutex, loop, mapped, dref, seen>>

\* An item on an unknown interface throws: the array is released, all is lost.
GetCatch ==
  /\ Remains /\ ~Resolves(Item.itf)
  /\ dref' = [dref EXCEPT ![api.req] = @ - 1]
  /\ Reply("error", <<>>)
  /\ UNCHANGED <<given, main, setState, mutex, loop, mapped, seen>>

\* Mutant: the array is released after the reply that took it.
GetReplyReleases ==
  /\ api.pc = "read" /\ Len(api.vals) = Len(api.query.items)
  /\ dref' = [dref EXCEPT ![api.req] = @ - 2]
  /\ Reply("values", api.vals)
  /\ UNCHANGED <<given, main, setState, mutex, loop, mapped, seen>>

\* The reply takes the reference on the array.
GetReply ==
  /\ api.pc = "read" /\ Len(api.vals) = Len(api.query.items)
  /\ dref' = [dref EXCEPT ![api.req] = @ - 1]
  /\ Reply("values", api.vals)
  /\ UNCHANGED <<given, main, setState, mutex, loop, mapped, seen>>

Return ==
  /\ api.pc = "return"
  /\ api' = ApiIdle
  /\ seen' = {}
  /\ UNCHANGED <<given, main, setState, mutex, loop, mapped, answer, dref>>

ApiStep == GetInvalid \/ GetArray \/ GetItem \/ GetCatch \/ GetReply \/ Return

\* The loop thread updates an object with what a PDO brings.
OnPdo(o, v) ==
  /\ main = "serving" /\ loop = "running"
  /\ mapped' = [mapped EXCEPT ![o] = v]
  /\ seen' = IF api.pc = "idle" THEN seen ELSE seen \cup {<<o, v>>}
  /\ UNCHANGED <<given, main, setState, mutex, loop, api, answer, dref>>

-----------------------------------------------------------------------------
Next ==
  \/ MainStep \/ ExecSpurious
  \/ LoopStep
  \/ \E r \in Requests, q \in Queries : Accept(r, q)
  \/ ApiStep
  \/ \E o \in Objects, v \in Values : OnPdo(o, v)

\* The threads run.
Fairness == WF_vars(MainStep) /\ WF_vars(LoopStep) /\ WF_vars(ApiStep)

Spec == Init /\ [][Next]_vars
FairSpec == Spec /\ Fairness

-----------------------------------------------------------------------------
(* What holds.                                                             *)

\* The start of the executor ends: the signal of the loop thread cannot come
\* before the main thread waits for it, and cannot be missed.  It does not end if
\* the thread cannot be created.
ExecStarts ==
  [](main = "asleep" => loop # "none") => (main = "wait" ~> main = "start")

\* With one bus, nothing undefined happens: no master is used or deleted after its
\* deletion, and the loop thread is done with the variable synchro of start() when
\* start() returns, unless the wait returns without a signal (it does not test a
\* condition again).
NothingUndefined ==
  Len(config) <= 1 /\ "spurious" \notin faults => main # "undefined"

\* The binding serves only if every bus of the configuration was added, every
\* master started, and what get finds under an index is one of them.
ServesAll ==
  main = "serving" =>
    /\ \A i \in Masters : config[i].add = "ok"
    /\ {masters[u] : u \in Uids} \ {Null} = running
    /\ {imasters[k] : k \in DOMAIN imasters} \ {Null} = running

\* lely reads the object of an item as the type of its width and of the other sign.
ReadsOther(item) ==
  \E t \in Scalar : /\ t.width = item.type.width /\ t.sign # item.type.sign
                    /\ <<t, item.obj>> \in Fits

\* get is all or nothing: it answers with a value for each item, in the order of
\* the query, only if there is an item and every interface is known, and a query that
\* brings a good array is refused only if there is none or one is not.  The value is
\* one the object had while the request was handled, if lely reads the object as an
\* integer of the width asked for and of the other sign, and zero otherwise: no error
\* tells an object that does not exist, or one asked as the type that it has, from
\* one that is zero.
GetAllOrNothing ==
  api.pc = "return" =>
    LET a == answer[api.req]
        items == api.query.items
        known == \A k \in DOMAIN items : Resolves(items[k].itf)
    IN
    /\ a.status = "values" =>
         /\ known /\ items # <<>>
         /\ Len(a.vals) = Len(items)
         /\ \A k \in DOMAIN items :
              IF ReadsOther(items[k]) THEN <<items[k].obj, a.vals[k]>> \in seen
              ELSE a.vals[k] = Zero
    /\ a.status = "error" /\ api.query.form = "client" => ~known \/ items = <<>>

\* Whatever the path, get releases the reference it took on the array of values,
\* in the reply or in the handler of the exception.
ArrayReleased ==
  \A r \in Requests :
    dref[r] = IF api.pc = "read" /\ api.req = r THEN 1 ELSE 0

-----------------------------------------------------------------------------
(* What the documentation says and does not hold.                          *)

\* "when more than one bus is connected, an array holding the description of each
\* interface": the masters of an array can all be used.
BusesUsable == main # "undefined"
=============================================================================
