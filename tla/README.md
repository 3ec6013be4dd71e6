# A TLA+ verification of canopen-binding

The binding exposes the devices of CAN buses to the clients of the application
framework binder: one API verb per sensor, one admin verb per slave, root verbs
to subscribe to many sensors, and a binary interface to read mapped objects.
This directory holds TLA+ modules translated from its source, the TLC
configurations that check them and proofs that TLAPS checks.

Run `tlc -config X.cfg M` for each run of the table of section 3 (the module `M`
is given there), and `tlapm M.tla` for the modules of section 4.
`PROJECT.json` maps every definition to the lines it models, and lists the
hazards, the findings and the bug that each property is known to catch.

## 1. The system

### Threads

- The **API thread** handles the requests, one at a time (the API is created
  without concurrency, `CANopenBinding.cpp`).
- The **loop thread** runs the event loop of lely, the CANopen stack: events of
  the bus, and the continuations of SDO operations.
- The **main thread** reads the configuration, creates and starts everything.

No lock protects what the first two share (`m_currentVal`, `m_event_active`,
`m_connected`). A handler is therefore cut into steps in the models wherever it
reads or writes something that the other thread uses.

### Components

| Component | State | Operations | Interacts with | What is hard |
|---|---|---|---|---|
| Sensor, `CANopenSensor.cpp` | `m_currentVal`, `m_event_active`, the event and its listeners | construction; `request` (read, write, subscribe, unsubscribe), `readThenPush`, `push` | encoder; SDO client or PDO-mapped objects; the framework | two threads on unprotected fields; a request that outlives its handler; SDO errors |
| Encoder, `CANopenEncoder.cpp` | tables of formats | registration of codecs; read and write functions per type of sensor; coders per format | sensor, plugins | errors lost between continuations; widths and signs of integers; formats declared twice |
| Slave driver, `CANopenSlaveDriver.cpp` | `m_connected`, `m_onconfJ`, `m_regs` | construction; `OnConfig`, `doStartAction`, `OnBoot`, `OnHeartbeat`, `OnRpdoWrite`, admin verb | lely, its sensors | chain of continuations; one SDO client for all; heartbeat against configuration |
| Master, master set, `CANopenMaster*.cpp` | `masters_`, `imasters_`, `m_slaves`, `m_index` | `add`, `init`, `start`, `operator[]` | binding, slaves, channel | two owners of one object; failures half way |
| Executor, `CANopenExec.cpp` | condition and mutex of the start | `open`, `start`, the thread of the loop | binding | a handshake between two threads |
| Channel, `CANopenChannel.cpp` | controller, CAN channel, NMT master | open, start | master | exceptions |
| Binding, `CANopenBinding.cpp` | the configuration | `init`, pre-initialisation; ping, info, status, subscribe, unsubscribe, get | all | loops over items each of which may fail |
| King Pigeon plugin | none | coders, masked writes | encoder | masks, widths |
| Glue, `CANopenGlue.cpp` | none | integers of JSON | encoder | the same number in two notations |
| DCF links, `utils.cpp` | the working directory | links to the files a DCF requires | executor | what earlier runs left |
| JSON helpers, exchange types | none | conversions, registration | all | |
| `dcf2afb.py`, web page | none | offline generator, sample client | | |

What makes each correct, with the property that says it:

- a request is answered exactly once, as long as the process lives, and is
  referenced as long as a continuation may use it (`ServiceSpec`, `RequestHeld`);
- a read returns a value of its time (`ReadFresh`), a write does what was asked
  (`WriteLands`), an event is active when someone listens and not for ever
  otherwise (`EventQuiesces`);
- what goes through the codecs comes back, within limits that are stated
  exactly (`ReadsBack`, `RegisterGets`, `BoolsReadBack`, `ReadTells`), and a mask
  protects what it does not cover (`MaskLands`);
- the items of a slave's configuration, up to a null, are written in order, each
  once, and lely is told of the end once (`ConfigInOrder`, `ConfigEnds`); the
  first one before what clients ask of the sensors, which is all the code ensures
  (`FirstItemFirst`);
- sensors of one slave do not disturb one another (`SensorsSpec`), and the one
  that owns a register gets its events (`LastNotified`, `EventsDelivered`);
- an answer tells the truth (`AdminHonest`, `AnswerHonest`, `GetAllOrNothing`);
- the binding serves exactly the configurations that fit, with a verb for
  everything and no verb of what is gone (`Verdict`, `Complete`, `VerbsLive`),
  and only what was started (`ServesAll`, `NothingUndefined`).

## 2. The modules

**`RequestService`** is the abstract specification of a verb: requests are
accepted, answered once, released after their answer; under its fairness each
accepted request is eventually answered and released. Three modules implement
it, by refinement: `accepted` is the set of requests that are no longer new,
`released` that of the requests without reference left.

**`CANopenSensor`** is one sensor, of a `kind`: an SDO sensor reads and
writes the device by messages, an RPDO sensor reads an object the bus updates,
a TPDO sensor writes one the bus sends. A value is a number, as the set of its
bits (what masked writes need): `LowBits` are the 8 that the plugin protects when
it clears a mask, `WordBits` the 32 that it computes with. The API thread's actions are `Accept` (`sensorDynRequest`),
`Refuse` (every early error), `EncodeWrite`, `Store` and `EmitWrite` (`write`,
which computes a value from `m_currentVal`, stores it there and reads it again),
`EncodeThrows` (an integer that cannot be converted throws in a function that is
`noexcept`: the process is `Terminated` and nothing happens any more),
`FetchRpdo`, `Store` and `ReplyRead` (synchronous read), `ReadSdo` (asynchronous
read), `SubscribeMark` and `SubscribeAdd`, `Unsubscribe`, `Return`. The loop
thread's are `OnHeartbeat`, `OnRpdoWrite` and `OnRpdoWriteSdo` (`readThenPush`),
`Continue`, `LoopStore`, `LoopReply` and `LoopUnref` (the continuation of a read)
and `Push` and `Pushed` (`push`). `SdoRead`, `SdoWrite` and `DeviceChange` are
lely and the device: operations end in the order they were submitted, well or
not. The variables `seen`, `failed` and `written` are histories: no action of
the code depends on them.

**`CANopenCodecs`** is what happens to the value: a write encodes a number (of
JSON, or a string), booleans or bits under a mask into `m_currentVal`, cuts it to
the size of the register and sends it; a read fetches the register, without
sign, and decodes it. A word is the set of its bits, and the width of a byte is
a constant, so that TLC can go through the limits of all four sizes.

**`CANopenSlaveDriver`** is one slave: its boots (`OnConfig`, then
`OnConfigAction`, the first call of `doStartAction`, then one `ConfigContinue`
per written item, then `OnBoot`), its heartbeat, and its admin verb (`Hold`,
`Catch`, `CatchUnref`, `Submit` on the API thread; `AdminContinue`,
`AdminReply`, `AdminUnref` on the loop thread), with the queue of SDO operations
that the configuration and the admin verb share. An item of `onconf` is one that
is written, one the code skips, one of an invalid size, or a JSON null, that
`doStartAction` takes for the end of the list (`EndsAt`). lely may refuse to
submit an item (`Thrown`, the handler of `SdoError`).

**`CANopenSlave`** composes them: a slave, several sensors, two of which may
have the same register, one SDO client, one loop thread. Its actions are those
of the parts with what they share in one place; `Regs` is `m_regs`, where the
last sensor of a register wins. It implements `CANopenSensor` for each sensor
that has its register (`SensorsSpec`: the operations of the others look like a
device that changes its registers), and `CANopenSlaveDriver` (`DriverSpec`). The
requests here are those of the verbs of the sensors: the admin verb of the slave,
that submits to the same SDO client without a look at `m_connected`, and the
heartbeat stay in `CANopenSlaveDriver`.

**`CANopenSetup`** goes from the configuration to the verbs of one bus: the calls
by which plugins declare codecs (`Declare`, `Declared`), the verbs of the root,
the links to the files of the DCF (`Open`), then slaves and sensors one by one
(`StartSlave`, `AddSensor`, `EndSensors`, `Record`, `Serve`), each of which may
throw (`Throw`). `setup` is the configuration and does not change.

**`CANopenMasterSet`** goes from the creation of the masters to the verb get:
`Add` and its failures (`CANopenMasterSet::add`, `CANopenMaster::init`), the
handshake of the executor (`ExecStart` to `ExecWoken` on the main thread,
`LoopLock` to `LoopUnlock` on the new one), `Start`, then `Accept` to `Return`,
the handler of get item by item, with `OnPdo` on the loop thread. An item names a
type, which the code swaps for the one of the other sign (`ReadAs`); whether lely
reads an object as a type is the constant `Fits`. The ownership
of masters is explicit: `alive` is the set of masters not deleted, and `Record`
deletes what either container replaces. `main = "undefined"` is where the
program goes when it uses something deleted, or deletes it again. What happens within a bus is one
outcome here, and the subject of `CANopenSetup`.

**`CANopenSubscriptions`** is `subunsub` over all sensors: `StartItem` (one
pattern), `Visit` and `Event` (one sensor), `EndItem` (the test on `nidx`), with
a framework that may refuse and clients that disconnect. The other root verbs
answer in one step.

**`MC...`** modules give the constants small values. **`...Proof`** modules hold
the theorems about the module of their name; `CANopenSlaveProof` and
`CANopenSlaveSensorsProof`, on top of it, are both about `CANopenSlave`.

Next to some actions stands a variant marked "Mutant": a plausible bug of that
action, used only to show that a property can fail; no specification uses it.

## 3. The runs

| Run | Module | Checks | States |
|---|---|---|---|
| `sensor` | `MCCANopenSensor` | `TypeOK`, `RequestHeld`, `ReadFresh`, `WriteLands`, `EventQuiesces`, refinement of `RequestService` | 206 000 |
| `codecs` | `MCCANopenCodecs` | `TypeOK`, `ReadsBack`, `RegisterGets`, `BoolsReadBack`, `ReadTells`, `MaskLands` | 6 400 |
| `slave` | `MCCANopenSlaveDriver` | `TypeOK`, `ConfigInOrder`, `DownMeansLost`, `AdminHonest`, `ConfigEnds`, refinement of `RequestService` | 455 000 |
| `slave_sensors` | `MCCANopenSlave` | `TypeOK`, `FirstItemFirst`, `LastNotified`, `EventsDelivered`, refinement of both parts (`SensorsSpec`, `DriverSpec`) | 306 000 |
| `setup` | `MCCANopenSetup` | `TypeOK`, `VerbsLive`, `Verdict`, `Complete`, `FilesFound`, `CodecsStay` | 35 000 |
| `root_subscribe` | `MCCANopenSubscriptions` | `TypeOK`, `AnswerHonest`, `OnlyAsked`, refinement of `RequestService` | 230 000 |
| `masters` | `MCCANopenMasterSet` | `TypeOK`, `NothingUndefined`, `ServesAll`, `GetAllOrNothing`, `ArrayReleased`, `ExecStarts` | 607 000 |

Five more runs each check one statement of the documentation or of a comment
that the code does not satisfy. TLC finds the execution:

| Run | Statement | What happens |
|---|---|---|
| `sensor_lost_activation` | a subscribed client gets events (`SubscribedIsActive`) | `push` counted no listener, a `subscribe` comes, `push` clears `m_event_active`: the new client gets nothing |
| `sensor_failed_read` | an SDO error raises an exception (`FailedReadReported`) | the inner continuation swallows it: success with an indeterminate value |
| `slave_heartbeat` | "heartbeat timeout, disconnect" (`TimeoutDisconnects`) | the end of the configuration sets `m_connected` again |
| `root_empty_array` | the verbs accept an array (`ArrayAnswered`) | with an empty one the loop does not end |
| `masters_two_buses` | several buses can be configured (`BusesUsable`) | two owners per master: the first is deleted when the second is recorded, then used |

More disagreements show in the models and have no run of their own, because the
passing properties state exactly what the code does:

- the `index` of a bus (`docs/3-configuration.md:107`) is read and dropped, so
  get finds the bus under 0 (`Index` in `CANopenMasterSet`);
- a number above 31 bits differs by its notation (`CANopenGlue.cpp:82`), though
  both notations are documented as equivalent; a negative number written to a
  signed sensor of one or two bytes is not read back (`Kept` in `CANopenCodecs`);
- a mask that clears bits clears those above the eighth that it does not name, and
  keeps the one it names (`kingpigeon-plugin.cpp:38`, `:57`; `Cleared` and
  `ClearedEach` in `CANopenSensor`, `IntMask` and `ArrayMask` in `CANopenCodecs`),
  so `WriteLands` and `MaskLands` say that the other bits keep their value within
  8 bits only; and a masked write builds on the last value the binding saw, not on
  the register (`EncodeWrite`);
- a write of something that is no integer to a sensor of the built-in format
  terminates the process (`CANopenEncoder.cpp:126`, `EncodeThrows`): the requests
  then in the binding are never answered, and the refinement of `RequestService`
  by a sensor holds of its liveness only for a process that lives;
- a JSON null in `onconf` ends the configuration with a success, and the items
  after it are never written (`CANopenSlaveDriver.cpp:361`); after an `SdoError`
  the handler goes on at the index of the register plus one, past the end of any
  list, with a success too (`CANopenSlaveDriver.cpp:444`). `ConfigInOrder` says
  exactly this;
- get refuses a query without item (`CANopenBinding.cpp:503`), and reads each type
  as the one of the other sign (`CANopenBinding.cpp:546`): an item asked as the
  type its object has may be refused by lely, and is then a zero without error
  (`GetAllOrNothing`);
- when a bus fails after another was recorded, the configuration is deleted
  (`CANopenBinding.cpp:622`), and the recorded master with it, twice (`AddFails`);
- the admin verb does not test `m_connected`, so what is asked of it can get in
  before the first item of the configuration;
- between the two statements of `write` (`CANopenSensor.cpp:407`) the
  continuation of a read may replace `m_currentVal`: an SDO write then writes
  what was read (`EmitWrite`);
- only the first file a DCF requires is linked (`utils.cpp:78`), and in the
  working directory it is replaced by a link to itself (`FilesFound`);
- of two sensors on one register, one never fires (`LastNotified`);
- a slave whose configuration cannot be read is accepted when it is alone on its
  bus (`BusFits` in `CANopenSetup`).

### Bounds

- *Sensor.* Every kind. Two requests are enough to interleave a handler with the
  continuation of another request; three are used for the lost activation, where
  one subscribes, one unsubscribes and one subscribes again. The TPDO sensor has
  every write under every mask of three bits, one of each sort: below the ninth,
  below the 33rd, above; two writes are enough, since the property begins with the
  second. For the others the inputs of the run (`Inputs`) are of one bit: two
  values tell a stale one from a fresh one and a write that sets from one that
  clears. A mask of more than 32 bits is left out (`MasksAssumption`): the shift
  of the code is then undefined. `MaxOps` bounds only the reads that the bus
  triggers, to one waiting at a time: requests submit theirs whatever the queue.
- *Codecs.* Bytes of 3 bits keep the four sizes and their order, so that every
  limit (sign, 8 bits, 32 bits, 64 bits) exists and is met with its neighbours.
- *Slave.* Every list of up to two items of the four kinds, and longer ones
  with items to skip before, between and after, or a null among them. `Thrown`
  rests on indexes: the objects one configures begin at 0x1000, and no list is as
  long. Two boots, so that a
  configuration that did not end cannot leave a trace in the next; two admin
  requests and the configuration in one queue.
- *Slave with sensors.* Two sensors on the same register, of each kind, with
  lists of items that succeed, fail, stop or end with a null; one client
  subscribes while another request runs, or terminates the process.
- *Set up.* Up to two plugins out of six that use each of the four calls, up to
  two slaves and two sensors where one part at a time is wrong; up to three
  required files of two names, two directories, every combination of the files
  present and of the links left by earlier runs.
- *Root verbs.* Up to three patterns with overlapping matches, a sensor with no
  event, two clients, two requests. `MaxIdx` caps `nidx`, a `size_t`: past the
  longest array its value no longer matters.
- *Masters.* Every list of up to two buses of equal or distinct uid, each valid,
  malformed, failing, and one that throws; gets of no item, of known and unknown
  objects, as the type they have, as the one of the other sign, as another width
  and as no type, of indexes that are empty and out of range; two requests.
  `ExactFits` has lely read an object as its own type only. A get reads one
  master: with two buses the program does not come to serve.

The requests of a run are each sent at most once: the code keeps nothing of a
request after it. What is proved (section 4) does not depend on these bounds.

### Fairness

Weak fairness on the steps of each thread that are inside a handler, and on the
end of SDO operations: the threads run, no handler waits for another thread
except `ExecWait`, and lely ends each SDO operation, at the latest by its
timeout. Nothing that comes from outside (requests, PDO, heartbeats, boots,
disconnections) is fair: a property that needs them says so as a premise
(`EventQuiesces` and `EventsDelivered` assume that RPDO keep coming,
`ConfigEnds` that no item has an invalid size, `ExecStarts` that the thread was
created). No step is fair, or possible, once the process is terminated.
`CHECK_DEADLOCK FALSE` is said where the system really stops: the process when a
configuration fails (`CANopenMasterSet`) or a write terminates it
(`CANopenSensor`, `CANopenSlave`), the set up when it ends (`CANopenSetup`).

## 4. What is proved

Each theorem holds for every value of the constants that satisfies the named
assumptions of its module; TLC evaluates these in each run. `Inv` (`IInv` in
`CANopenSetupProof`) is the invariant proved by induction, with one lemma per
action or group of actions (`InitInv`, the steps, `NextInv`).

| Module | Theorems | What they say |
|---|---|---|
| `CANopenSensorProof` | `TypeCorrect`, `RequestsHeld`, `ReadsFresh`, `WritesLand`, `Refinement` | no reference is dropped twice; a request in the hands of the SDO client is referenced and answered at most once; `ReadFresh`, for any requests; `WriteLands`, for any width of the register, and of the bits under a mask as far as 8 and 32 bits allow; `Service!SafeSpec` |
| `CANopenCodecsProof` | `TypeCorrect`, `MasksLand`, `NumbersArrive`, `NumbersComeBack`, `BoolsComeBack`, `ReadsTell` | all the properties of the run `codecs`, for every width of a byte and any numbers, masks and registers |
| `CANopenSlaveProof` | `TypeCorrect`, `FirstItemProtected`, `OnlyTheLast`, `ImplementsDriver` | what is asked of a sensor after a boot began does not come before the first item of the configuration; only the last sensor of a register is notified; a slave with sensors implements its driver, for any sensors, lists of items and requests |
| `CANopenSlaveSensorsProof` | `ImplementsSensors` | a slave implements the specification of each sensor that has its register |
| `CANopenSlaveDriverProof` | `TypeCorrect`, `ConfigurationOrder`, `HonestAnswers`, `DownIsLost`, `Refinement` | `ConfigInOrder`, `AdminHonest` and `DownMeansLost` for any lists of items, with nulls and items lely refuses, any boots and requests; `Service!SafeSpec` |
| `CANopenSubscriptionsProof` | `TypeCorrect`, `HonestAnswers`, `AskedOnly`, `Refinement` | `AnswerHonest` for any sensors and patterns; `OnlyAsked`, provided that no query is an empty array (`NoEmptyArray`); `Service!SafeSpec` |
| `CANopenMasterSetProof` | `TypeCorrect`, `NeverUndefined`, `AllServed`, `AllOrNothing`, `NoLeak` | the safety properties of the run `masters`, for any list of buses, any queries and any types lely reads objects as |
| `CANopenSetupProof` | `TypeCorrect`, `Verdicts`, `LiveVerbs`, `AllServed`, `FirstFileOnly`, `FirstCodecStays` | the properties of the run `setup`, for any configuration |

None of the properties is inductive as it stands. The strengthenings:

- *Sensor.* `RequestHeld` does not say why a count of references is positive, so
  that a `Return` could take it to zero. `Shape` says whom the threads and the
  queues work for; `OnePlace`, that a request is at most once in the SDO queue,
  the ended reads and the loop thread together; `Books`, that its count is the
  number of its holders, and that who holds it tells its phase and whether it
  was answered. `AppendOwners` and `TailOwners` carry queueing and dequeueing.
- *Values of a sensor.* `ReadFresh` speaks of the answers only. `Fresh` follows
  the values on their way to them: what the register holds may answer a request
  that waits, unless a write is to end before its read (`RegSeen`); so may what
  the ended reads carry (`DoneSeen`), and what the two threads hold or have left
  in `m_currentVal` (`LoopSeen`, `ApiSeen`). `Kindly` says why the two threads do
  not spoil each other's value: the loop answers for SDO sensors only, whose
  handlers store nothing but writes, and the handler answers for RPDO sensors
  only, where what the loop stores is what the object holds. `Landed` ties
  `m_currentVal` to the object of a TPDO from the first write on.
- *Slave driver.* The same three, where the configuration is one more owner
  without books, and `EndsKnown` (an operation in the queues carries the outcome
  recorded for its request), `Progress` (what was tried is the list up to the
  next item, without the skipped ones) and `OneConfig` (at most one operation of
  the configuration is on its way).
- *Root verbs.* `Progress` relates the item, the sensors left to visit and what
  was accepted so far to the answer that will be given; `Served` is the same
  once it is given.
- *Masters.* `Owned` (who owns the masters that exist), `Handshake` (the mutex
  tells where both threads are), `Single` (the master of a single bus is never
  deleted) and `Reads` (the values read so far are of the objects asked for, at
  a time within the request).
- *Slave with sensors.* `Shape`, `OnePlace` and `Books` again, over queues that
  the sensors and the configuration share. `Configuring` (one item of the
  configuration at a time, and a slave that is not connected between `OnConfig`
  and the first item) and `Passed` (no request of this boot passes between the
  two) give `FirstItemFirst`; `Lasts` (an event reads for the last sensor of a
  register only) gives `LastNotified`. For the driver, the queue of the slave is
  seen without the operations of sensors. For one sensor it is seen without those
  of the others and of the configuration (`Mine`), each of which, when it ends, is
  a change of the device to this sensor or nothing; a boot is a heartbeat that
  comes or goes. `MineAppend` and `MineTail` say how the view follows the queue,
  by induction over its length, and `Fresh` that what a sensor has not yet
  accepted is as it began. `Whole` names the sensors whose register is theirs:
  of RPDO sensors that share one, only the last hears of its events, and a TPDO
  sensor that shares one does not know what the others wrote there.
- *Codecs.* `Agrees`: as long as the register has not changed, `m_currentVal`
  agrees with it on the bits of its size. `Records`: the register is the word of
  the last write, cut, and the last answer the decoding of the register. From
  `Records` on it is arithmetic. The provers know nothing of 2^n, so the lemmas
  begin with the number of the subsets of a set (`PowerCounts`, `PowerNext`);
  `SumsOfWord` says that a word of n is n modulo its size, `SumsTell` that a sum
  tells its bits, `SignedWord` and `ExtendedSame` what sign and extension do, and
  `NumberRead` what any size and decoder read of any number written.
- *Set up.* `Plugins` (what was declared so far fits, and is what the tables
  hold), `Bus` (what exists is what was met of the configuration, and the verbs
  are those of what exists, no more and no less), `Fits`, `Distinct` and
  `Recorded` (what exists fits). With `OneOwner`, that no two verbs have one
  name, the check of names made by the framework gives the conditions on uids of
  `BusFits`, which no line of the binding checks.

The refinements map each action to a step of the abstract specification or a
stutter under the invariant (`StepService`, and one lemma per action for the
slave).

Inductions are over a set of naturals: what holds of 0 and of each successor
holds up to n, because the complement has no least element (`UpTo`). Recursive
definitions are met through the function they define, whose existence is proved
the same way (`SumsExist`, `UptoExists`).

## 5. What is only model-checked

- Liveness: all the safety properties of the runs are proved, and none of the
  others (`EventQuiesces`, `ConfigEnds`, `ExecStarts`, `EventsDelivered`, that
  requests are eventually answered). Fairness needs `ENABLED`, which the prover
  does not handle.
- The passage of the theorems of the parts to a whole slave. That each sensor of
  a slave has `RequestHeld`, `ReadFresh` and `WriteLands` follows from
  `ImplementsSensors` and the theorems of `CANopenSensorProof`, and the order of
  the configuration from `ImplementsDriver`; the prover does not cite a theorem
  of a module under an instance with parameters, so this last step is by reading.

## 6. What is not modelled

- lely, libafb-helpers and the binder: modelled as the source uses them (the
  external definitions of `PROJECT.json`).
- Texts (info, dump, status, logs), the JSON helpers and the registration of
  the exchange types: no state. The names of events, that two sensors of one
  name on two slaves share, belong to the framework.
- Strings (the format "string", the size 5 of SDO sensors): a format and a size
  like others in `CANopenSetup`, and no value of `CANopenSensor`. What
  `m_currentVal` keeps of one is a pointer (`CANopenEncoder.hpp:47`) into a string
  of the inner future (`CANopenEncoder.cpp:268`) that is gone when the
  continuation decodes it: nothing that is shown of values holds of strings.
  The format "double" is not compiled in.
- The admin verb among the sensors of a slave: it is in `CANopenSlaveDriver`, with
  the configuration, and not in `CANopenSlave`.
- How lely compares the type of an object with the one it is read as: `Fits` is
  any relation.
- The sections of the configuration that libafb-helpers reads (metadata,
  onstart, events). A uid with a slash could look like the verb of a sensor;
  names are taken as atoms.
- `dcf2afb.py` and the web page: offline or generic, and without state.

## 7. Plan

What is left, in the order of its worth:

1. The admin verb in the composition, as one more client of the SDO queue.
2. A second slave there, to see two SDO clients on one loop.
3. Sections of the configuration read by libafb-helpers, if their source joins
   the repository.
