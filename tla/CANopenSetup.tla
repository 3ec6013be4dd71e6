---------------------------- MODULE CANopenSetup -----------------------------
(***************************************************************************)
(* From the configuration to the verbs of one bus: the plugins declare     *)
(* their codecs, the master opens its channel after it has linked the      *)
(* files its DCF requires, then builds its slaves, and each slave its      *)
(* sensors.  One thread does it all, in an order where each step may fail: *)
(* the exceptions of the constructors are caught by CANopenMaster::init,   *)
(* those of the plugins by nobody.                                         *)
(***************************************************************************)
EXTENDS Naturals, Sequences, SequencesExt

CONSTANTS
  Setups,      \* the configurations tried, see SetupType
  Names,       \* uids of slaves and sensors
  Formats,     \* names of formats
  Files,       \* names of the files that a DCF may require
  Dirs,        \* directories
  Cwd          \* the working directory

\* What the binding provides: its formats, its verbs.
BuiltIn == {"int", "uint", "string"}
RootVerbs == {"ping", "info", "status", "subscribe", "unsubscribe", "get"}

\* A plugin declares formats by calls to the encoder: one encoder or one decoder,
\* or a list of them; ok is false if it returns an error.
CallType == [call : {"enc", "encs", "dec", "decs"}, formats : Seq(Formats)]
PluginType == [calls : Seq(CallType), ok : BOOLEAN]

\* readable is false when a mandatory field is missing or of a wrong type.
SensorType == [readable : BOOLEAN, uid : Names, type : {"SDO", "RPDO", "TPDO"},
               size : Nat, format : Formats]
SlaveType == [readable : BOOLEAN, uid : Names, nodId : Nat, sensors : Seq(SensorType)]

\* The DCF, the files it requires (its lines UploadFile) and where it is; in the
\* working directory, earlier runs may have left links to other directories.
EntryType == {"none", "file"} \cup Dirs
SetupType == [plugins : Seq(PluginType), dir : Dirs, upload : Seq(Files),
              present : [Dirs -> SUBSET Files], left : [Files -> EntryType],
              slaves : Seq(SlaveType)]

ASSUME SetupsAssumption == Setups \subseteq SetupType
ASSUME NamesAssumption == BuiltIn \subseteq Formats
ASSUME DirsAssumption == Cwd \in Dirs /\ Dirs \cap {"none", "file"} = {}

VARIABLES
  setup,       \* the configuration, and the files it finds
  pc,          \* where the program is
  at,          \* the plugin or the slave it is at, and the call or the sensor
  enc, dec,    \* the tables of codecs: who declared each format, 0 the binding
  entry,       \* the entries of the working directory
  verbs,       \* the verbs of the API: of the root, of slaves, of sensors
  alive,       \* the slaves and the sensors that exist
  slaves       \* m_slaves: the slaves recorded by the master

vars == <<setup, pc, at, enc, dec, entry, verbs, alive, slaves>>

Root == <<0, 0>>

Init ==
  /\ setup \in Setups
  /\ pc = "plugins" /\ at = <<1, 1>>
  /\ enc = [f \in BuiltIn |-> 0] /\ dec = [f \in BuiltIn |-> 0]
  /\ entry = setup.left
  /\ verbs = {} /\ alive = {} /\ slaves = <<>>

-----------------------------------------------------------------------------
(* Codecs.                                                                 *)

\* Mutant: the last declaration of a format wins.
AddedReplaces(table, formats) ==
  [f \in DOMAIN table \cup ToSet(formats) |->
     IF f \in ToSet(formats) THEN at[1] ELSE table[f]]

\* emplace: a format that is there stays.
Added(table, formats) ==
  [f \in DOMAIN table \cup ToSet(formats) |->
     IF f \in DOMAIN table THEN table[f] ELSE at[1]]

Repeated(table, formats) ==
  ToSet(formats) \cap DOMAIN table # {} \/ ~IsInjective(formats)

\* canopenDeclareCodecs of a plugin, call by call.  A repeated encoder throws if
\* it is added alone, and is forgotten in a list; a repeated decoder, the other way
\* round.  Nothing catches what is thrown here, through the C of the framework.
Declare ==
  LET plugin == setup.plugins[at[1]]
      c == plugin.calls[at[2]]
  IN
  /\ pc = "plugins"
  /\ at[1] <= Len(setup.plugins) /\ at[2] <= Len(plugin.calls)
  /\ IF c.call \in {"dec", "decs"}
     THEN dec' = Added(dec, c.formats) /\ UNCHANGED enc
     ELSE enc' = Added(enc, c.formats) /\ UNCHANGED dec
  /\ IF \/ c.call = "decs" /\ Repeated(dec, c.formats)
        \/ c.call = "enc" /\ Repeated(enc, c.formats)
     THEN pc' = "terminated" /\ UNCHANGED at
     ELSE at' = <<at[1], at[2] + 1>> /\ UNCHANGED pc
  /\ UNCHANGED <<setup, entry, verbs, alive, slaves>>

\* _init_plugin_codecs_: the next plugin, or the end of the binding's init.
Declared ==
  LET plugin == setup.plugins[at[1]] IN
  /\ pc = "plugins"
  /\ at[1] <= Len(setup.plugins) /\ at[2] > Len(plugin.calls)
  /\ IF plugin.ok THEN at' = <<at[1] + 1, 1>> /\ UNCHANGED pc
     ELSE pc' = "failed" /\ UNCHANGED at
  /\ UNCHANGED <<setup, enc, dec, entry, verbs, alive, slaves>>

\* The API is created, then its pre-initialisation adds the verbs of the root.
RootVerbsAdded ==
  /\ pc = "plugins"
  /\ at[1] > Len(setup.plugins)
  /\ verbs' = {[name |-> <<v>>, of |-> Root] : v \in RootVerbs}
  /\ pc' = "open"
  /\ UNCHANGED <<setup, at, enc, dec, entry, alive, slaves>>

-----------------------------------------------------------------------------
(* The files of the DCF.                                                   *)

\* The directory of the file that the entry of a name leads to, if any: a link to
\* the working directory leads to itself.
Target(su, dirEntry, name) ==
  {d \in Dirs : \/ dirEntry = "file" /\ d = Cwd
                \/ dirEntry = d /\ d # Cwd /\ name \in su.present[d]}

\* fixDcfRequires: an entry that leads to a file is removed, then the link made,
\* unless an entry remains.
Relinked(name) ==
  IF entry[name] = "none" \/ Target(setup, entry[name], name) # {} THEN setup.dir
  ELSE entry[name]

\* Mutant: all the files that the DCF requires are linked.
OpenLinksAll ==
  /\ pc = "open"
  /\ entry' = [f \in Files |-> IF f \in ToSet(setup.upload) THEN Relinked(f) ELSE entry[f]]
  /\ pc' = "slave" /\ at' = <<1, 1>>
  /\ UNCHANGED <<setup, enc, dec, verbs, alive, slaves>>

\* CANopenExec::open: the scan of the DCF stops at its first UploadFile.
Open ==
  /\ pc = "open"
  /\ entry' = IF setup.upload = <<>> THEN entry
              ELSE [entry EXCEPT ![Head(setup.upload)] = Relinked(Head(setup.upload))]
  /\ pc' = "slave" /\ at' = <<1, 1>>
  /\ UNCHANGED <<setup, enc, dec, verbs, alive, slaves>>

-----------------------------------------------------------------------------
(* Slaves and sensors.                                                     *)

slave == setup.slaves[at[1]]
sensor == slave.sensors[at[2]]

\* Mutant: the exception stays in the constructor.
ThrowSwallowed ==
  /\ alive' = {o \in alive : o[1] # at[1]}
  /\ pc' = "record"
  /\ UNCHANGED <<verbs, at>>

\* Mutant: the master goes on with the next slave.
ThrowSkips ==
  /\ alive' = {o \in alive : o[1] # at[1]}
  /\ pc' = "slave" /\ at' = <<at[1] + 1, 1>>
  /\ UNCHANGED verbs

\* The constructor of the slave throws: the slave and its sensors are deleted,
\* their verbs remain; the master gives up.
Throw ==
  /\ alive' = {o \in alive : o[1] # at[1]}
  /\ pc' = "failed"
  /\ UNCHANGED <<verbs, at>>

HasVerb(name) == \E v \in verbs : v.name = name

AddVerb(name, of) == verbs' = verbs \cup {[name |-> name, of |-> of]}

\* A node number out of 1..127, or that lely already has a driver for.
BadNode ==
  \/ slave.nodId \notin 1..127
  \/ \E o \in alive : o[2] = 0 /\ setup.slaves[o[1]].nodId = slave.nodId

\* The slave, up to its admin verb.  One whose configuration cannot be read is
\* left without uid, and recorded as if nothing were wrong.
StartSlave ==
  /\ pc = "slave" /\ at[1] <= Len(setup.slaves)
  /\ \/ /\ BadNode \/ (slave.readable /\ HasVerb(<<slave.uid>>))
        /\ Throw
     \/ /\ ~BadNode /\ slave.readable /\ ~HasVerb(<<slave.uid>>)
        /\ alive' = alive \cup {<<at[1], 0>>}
        /\ AddVerb(<<slave.uid>>, <<at[1], 0>>)
        /\ pc' = "sensor"
        /\ UNCHANGED at
     \/ /\ ~BadNode /\ ~slave.readable
        /\ alive' = alive \cup {<<at[1], 0>>}
        /\ pc' = "record"
        /\ UNCHANGED <<verbs, at>>
  /\ UNCHANGED <<setup, enc, dec, entry, slaves>>

\* getfunctionCB: the sizes that the table of a type has.
HasFunctions(type, size) ==
  size \in IF type = "SDO" THEN {1, 2, 4, 5, 8} ELSE {1, 2, 4, 8}

\* Mutant: the decoder is looked for only if there is no encoder.
CodedOnce(s) ==
  IF s.type # "RPDO" THEN s.format \in DOMAIN enc ELSE s.format \in DOMAIN dec

\* The codecs that the functions of a sensor need.
Coded(s) ==
  /\ s.type # "RPDO" => s.format \in DOMAIN enc
  /\ s.type # "TPDO" => s.format \in DOMAIN dec

\* Mutant: the verb of a sensor has its name only.
SensorVerbShort == <<sensor.uid>>

\* The name of the slave, then the one of the sensor.
SensorVerb == <<slave.uid, sensor.uid>>

\* The constructor of a sensor; its verb comes last.
AddSensor ==
  LET good == /\ sensor.readable
              /\ HasFunctions(sensor.type, sensor.size)
              /\ Coded(sensor)
              /\ ~HasVerb(SensorVerb)
  IN
  /\ pc = "sensor" /\ at[2] <= Len(slave.sensors)
  /\ \/ ~good /\ Throw
     \/ /\ good
        /\ AddVerb(SensorVerb, at)
        /\ alive' = alive \cup {at}
        /\ at' = <<at[1], at[2] + 1>>
        /\ UNCHANGED pc
  /\ UNCHANGED <<setup, enc, dec, entry, slaves>>

EndSensors ==
  /\ pc = "sensor" /\ at[2] > Len(slave.sensors)
  /\ pc' = "record"
  /\ UNCHANGED <<setup, at, enc, dec, entry, verbs, alive, slaves>>

\* A slave whose configuration could not be read has no uid.
NoUid(i) == ~setup.slaves[i].readable

\* m_slaves[uid] = slave.  The map compares its keys with strcmp, that must not be
\* given a null uid: alone, it is not compared.
Record ==
  /\ pc = "record"
  /\ IF slaves # <<>> /\ (NoUid(at[1]) \/ \E i \in ToSet(slaves) : NoUid(i))
     THEN pc' = "terminated" /\ UNCHANGED <<at, slaves>>
     ELSE /\ slaves' = Append(slaves, at[1])
          /\ pc' = "slave" /\ at' = <<at[1] + 1, 1>>
  /\ UNCHANGED <<setup, enc, dec, entry, verbs, alive>>

Serve ==
  /\ pc = "slave" /\ at[1] > Len(setup.slaves)
  /\ pc' = "serving"
  /\ UNCHANGED <<setup, at, enc, dec, entry, verbs, alive, slaves>>

Next ==
  \/ Declare \/ Declared \/ RootVerbsAdded
  \/ Open
  \/ StartSlave \/ AddSensor \/ EndSensors \/ Record
  \/ Serve

Spec == Init /\ [][Next]_vars

-----------------------------------------------------------------------------
(* What holds.                                                             *)

TypeOK ==
  /\ pc \in {"plugins", "open", "slave", "sensor", "record", "serving", "failed",
             "terminated"}
  /\ at \in Nat \X Nat
  /\ DOMAIN enc \subseteq Formats /\ DOMAIN dec \subseteq Formats
  /\ entry \in [Files -> EntryType]
  /\ alive \subseteq Nat \X Nat
  /\ \A v \in verbs : v.of \in Nat \X Nat
  /\ \A i \in ToSet(slaves) : i \in DOMAIN setup.slaves /\ <<i, 0>> \in alive

\* Each verb has one owner, and when the binding serves every owner exists: the
\* verbs that a slave leaves behind when its constructor throws are never served.
VerbsLive ==
  /\ \A v, w \in verbs : v.name = w.name => v = w
  /\ pc = "serving" => \A v \in verbs : v.of \in alive \cup {Root}

\* The calls of a configuration that declare formats: the number of a plugin, and
\* the one of the call.
Calls(su) == UNION {{i} \X DOMAIN su.plugins[i].calls : i \in DOMAIN su.plugins}
CallAt(su, c) == su.plugins[c[1]].calls[c[2]]
Before(su, c) == {b \in Calls(su) : b[1] < c[1] \/ (b[1] = c[1] /\ b[2] < c[2])}

\* The formats declared by some calls of a kind, with the binding's.
Encoders == {"enc", "encs"}
Decoders == {"dec", "decs"}
Known(su, kinds, calls) ==
  BuiltIn \cup UNION {ToSet(CallAt(su, c).formats) :
                        c \in {b \in calls : CallAt(su, b).call \in kinds}}

CallFits(su, c) ==
  LET formats == CallAt(su, c).formats IN
  /\ CallAt(su, c).call = "enc" =>
       IsInjective(formats) /\ ToSet(formats) \cap Known(su, Encoders, Before(su, c)) = {}
  /\ CallAt(su, c).call = "decs" =>
       IsInjective(formats) /\ ToSet(formats) \cap Known(su, Decoders, Before(su, c)) = {}

PluginsFit(su) ==
  /\ \A i \in DOMAIN su.plugins : su.plugins[i].ok
  /\ \A c \in Calls(su) : CallFits(su, c)

SensorFits(su, s) ==
  /\ s.readable
  /\ s.size \in {1, 2, 4, 8} \/ (s.size = 5 /\ s.type = "SDO")
  /\ s.type \in {"SDO", "TPDO"} => s.format \in Known(su, Encoders, Calls(su))
  /\ s.type \in {"SDO", "RPDO"} => s.format \in Known(su, Decoders, Calls(su))

UidsOf(list) == [i \in DOMAIN list |-> list[i].uid]

SlaveFits(su, s) ==
  s.readable =>
    /\ s.uid \notin RootVerbs
    /\ IsInjective(UidsOf(s.sensors))
    /\ \A i \in DOMAIN s.sensors : SensorFits(su, s.sensors[i])

BusFits(su) ==
  /\ \A i \in DOMAIN su.slaves : su.slaves[i].nodId \in 1..127
  /\ \A i \in DOMAIN su.slaves : SlaveFits(su, su.slaves[i])
  /\ \A i, j \in DOMAIN su.slaves : i # j =>
       /\ su.slaves[i].nodId # su.slaves[j].nodId
       /\ su.slaves[i].readable /\ su.slaves[j].readable
       /\ su.slaves[i].uid # su.slaves[j].uid

\* The binding comes to serve exactly the configurations that fit, whatever the
\* order in which what does not fit is met; a slave that cannot be read is let in
\* when it is alone on its bus, and only then.
Verdict ==
  /\ pc = "serving" => PluginsFit(setup) /\ BusFits(setup)
  /\ pc \in {"failed", "terminated"} => ~(PluginsFit(setup) /\ BusFits(setup))

\* The binding serves the verbs of all that the configuration describes.
Complete ==
  pc = "serving" =>
    \A i \in DOMAIN setup.slaves :
      LET s == setup.slaves[i] IN
      s.readable =>
        /\ [name |-> <<s.uid>>, of |-> <<i, 0>>] \in verbs
        /\ \A j \in DOMAIN s.sensors :
             [name |-> <<s.uid, s.sensors[j].uid>>, of |-> <<i, j>>] \in verbs

\* A plugin never changes what a format means: the first declaration stays.
CodecsStay ==
  [][ /\ \A f \in DOMAIN enc : f \in DOMAIN enc' /\ enc'[f] = enc[f]
      /\ \A f \in DOMAIN dec : f \in DOMAIN dec' /\ dec'[f] = dec[f] ]_vars

\* A master that has opened its channel finds, in the working directory, a file
\* required by its DCF if and only if it is the first one and its link could be
\* made (an earlier link that leads nowhere is not removed), or an earlier run left
\* the right link; if the DCF is in the working directory, only if it is not the
\* first one, that the link to itself replaces.
Found(name) == Target(setup, entry[name], name) = {setup.dir}

FilesFound ==
  pc \in {"slave", "sensor", "record", "serving"} =>
    \A i \in DOMAIN setup.upload :
      LET f == setup.upload[i]
          first == f = setup.upload[1]
          free == setup.left[f] = "none" \/ Target(setup, setup.left[f], f) # {}
      IN Found(f) <=>
           IF setup.dir = Cwd THEN ~first /\ setup.left[f] = "file"
           ELSE /\ f \in setup.present[setup.dir]
                /\ setup.left[f] = setup.dir \/ (first /\ free)
=============================================================================
