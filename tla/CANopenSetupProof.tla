-------------------------- MODULE CANopenSetupProof --------------------------
(***************************************************************************)
(* Proofs about the set up of a bus: whatever the plugins, the slaves and  *)
(* the sensors of a configuration, the binding serves exactly what fits.   *)
(***************************************************************************)
EXTENDS CANopenSetup, TLAPS

-----------------------------------------------------------------------------
(* The inductive invariant.                                                *)

\* The channel is open, and nothing has failed.
Building == pc \in {"slave", "sensor", "record", "serving"}

CallsOf(su, i) == DOMAIN su.plugins[i].calls
SensorsOf(su, i) == DOMAIN su.slaves[i].sensors

Place ==
  /\ setup \in Setups
  /\ at \in Nat \X Nat /\ at[1] >= 1 /\ at[2] >= 1
  /\ pc = "plugins" => at[1] \in 1..(Len(setup.plugins) + 1)
  /\ pc = "plugins" /\ at[1] \in DOMAIN setup.plugins =>
       at[2] \in 1..(Len(setup.plugins[at[1]].calls) + 1)
  /\ Building => at[1] \in 1..(Len(setup.slaves) + 1)
  /\ pc = "slave" => at[2] = 1
  /\ pc \in {"sensor", "record"} => at[1] \in DOMAIN setup.slaves
  /\ pc = "sensor" => /\ setup.slaves[at[1]].readable
                      /\ at[2] \in 1..(Len(setup.slaves[at[1]].sensors) + 1)
  /\ pc = "serving" => at[1] = Len(setup.slaves) + 1

\* What the plugins declared so far fits, and is what the tables hold.
Plugins ==
  pc = "plugins" =>
    /\ \A i \in DOMAIN setup.plugins : i < at[1] => setup.plugins[i].ok
    /\ \A c \in Before(setup, at) : CallFits(setup, c)
    /\ DOMAIN enc = Known(setup, Encoders, Before(setup, at))
    /\ DOMAIN dec = Known(setup, Decoders, Before(setup, at))

Codecs ==
  pc = "open" \/ Building =>
    /\ PluginsFit(setup)
    /\ DOMAIN enc = Known(setup, Encoders, Calls(setup))
    /\ DOMAIN dec = Known(setup, Decoders, Calls(setup))

Early ==
  /\ pc \in {"plugins", "open"} => alive = {} /\ slaves = <<>> /\ entry = setup.left
  /\ pc = "plugins" => verbs = {}

\* The slaves met so far, and all the sensors built so far: those of the slaves
\* before, those of the slave that is being built.
Objects(su, where, place) ==
  {<<i, 0>> : i \in {k \in DOMAIN su.slaves :
                       k < place[1] \/ (k = place[1] /\ where \in {"sensor", "record"})}}
  \cup {o \in Nat \X (Nat \ {0}) :
          /\ o[1] \in DOMAIN su.slaves /\ su.slaves[o[1]].readable
          /\ o[2] \in SensorsOf(su, o[1])
          /\ \/ o[1] < place[1]
             \/ o[1] = place[1] /\ where = "record"
             \/ o[1] = place[1] /\ where = "sensor" /\ o[2] < place[2]}

\* The verb of a slave or of a sensor.
VerbOf(su, o) ==
  [name |-> IF o[2] = 0 THEN <<su.slaves[o[1]].uid>>
            ELSE <<su.slaves[o[1]].uid, su.slaves[o[1]].sensors[o[2]].uid>>,
   of |-> o]

RootVerbsOf == {[name |-> <<v>>, of |-> Root] : v \in RootVerbs}

VerbsFor(su, objects) ==
  RootVerbsOf \cup {VerbOf(su, o) : o \in {p \in objects : su.slaves[p[1]].readable}}

\* Every verb is the one of something that exists, and the other way round.
Bus ==
  /\ pc = "open" => verbs = RootVerbsOf
  /\ Building =>
       /\ alive = Objects(setup, pc, at)
       /\ verbs = VerbsFor(setup, alive)

\* What exists fits.
Fits ==
  Building =>
    \A o \in alive :
      /\ setup.slaves[o[1]].nodId \in 1..127
      /\ o[2] # 0 => SensorFits(setup, setup.slaves[o[1]].sensors[o[2]])

Distinct ==
  Building =>
    \A o, p \in alive : o[2] = 0 /\ p[2] = 0 /\ o # p =>
      setup.slaves[o[1]].nodId # setup.slaves[p[1]].nodId

Recorded ==
  /\ slaves \in Seq(Nat)
  /\ Building => /\ ToSet(slaves) = {i \in DOMAIN setup.slaves : i < at[1]}
                 /\ \A i, j \in ToSet(slaves) : i # j => setup.slaves[i].readable

OneOwner == \A v, w \in verbs : v.name = w.name => v = w

Rejected == pc \in {"failed", "terminated"} => ~(PluginsFit(setup) /\ BusFits(setup))

IInv ==
  /\ TypeOK /\ Place /\ Plugins /\ Codecs /\ Early /\ Bus /\ Fits /\ Distinct
  /\ Recorded /\ OneOwner /\ Rejected /\ FilesFound

-----------------------------------------------------------------------------
(* Types of a configuration, part by part.                                 *)

LEMMA PluginParts ==
  ASSUME NEW su \in SetupType
  PROVE  /\ Len(su.plugins) \in Nat /\ DOMAIN su.plugins = 1..Len(su.plugins)
         /\ \A i \in DOMAIN su.plugins :
              /\ Len(su.plugins[i].calls) \in Nat
              /\ CallsOf(su, i) = 1..Len(su.plugins[i].calls)
              /\ su.plugins[i].ok \in BOOLEAN
              /\ \A k \in CallsOf(su, i) : su.plugins[i].calls[k] \in CallType
<1>1. su.plugins \in Seq(PluginType) BY DEF SetupType
<1>2. ASSUME NEW i \in DOMAIN su.plugins
      PROVE  su.plugins[i] \in PluginType
  BY <1>1
<1>3. ASSUME NEW i \in DOMAIN su.plugins
      PROVE  su.plugins[i].calls \in Seq(CallType) /\ su.plugins[i].ok \in BOOLEAN
  BY <1>2 DEF PluginType
<1>4. ASSUME NEW i \in DOMAIN su.plugins, NEW k \in CallsOf(su, i)
      PROVE  su.plugins[i].calls[k] \in CallType
  BY <1>3 DEF CallsOf
<1> QED BY <1>1, <1>3, <1>4 DEF CallsOf

LEMMA CallParts ==
  ASSUME NEW su \in SetupType, NEW c \in Calls(su)
  PROVE  /\ CallAt(su, c).call \in {"enc", "encs", "dec", "decs"}
         /\ ToSet(CallAt(su, c).formats) \subseteq Formats
<1>1. c[1] \in DOMAIN su.plugins /\ c[2] \in CallsOf(su, c[1])
  BY DEF Calls, CallsOf
<1>2. CallAt(su, c) \in CallType BY <1>1, PluginParts DEF CallAt
<1>3. CallAt(su, c).formats \in Seq(Formats) BY <1>2 DEF CallType
<1> QED BY <1>2, <1>3 DEF CallType, ToSet

LEMMA SlaveParts ==
  ASSUME NEW su \in SetupType
  PROVE  /\ Len(su.slaves) \in Nat /\ DOMAIN su.slaves = 1..Len(su.slaves)
         /\ \A i \in DOMAIN su.slaves :
              /\ su.slaves[i].readable \in BOOLEAN /\ su.slaves[i].nodId \in Nat
              /\ Len(su.slaves[i].sensors) \in Nat
              /\ SensorsOf(su, i) = 1..Len(su.slaves[i].sensors)
              /\ \A j \in SensorsOf(su, i) : su.slaves[i].sensors[j] \in SensorType
<1>1. su.slaves \in Seq(SlaveType) BY DEF SetupType
<1>2. ASSUME NEW i \in DOMAIN su.slaves
      PROVE  su.slaves[i] \in SlaveType
  BY <1>1
<1>3. ASSUME NEW i \in DOMAIN su.slaves
      PROVE  /\ su.slaves[i].readable \in BOOLEAN /\ su.slaves[i].nodId \in Nat
             /\ su.slaves[i].sensors \in Seq(SensorType)
  BY <1>2 DEF SlaveType
<1>4. ASSUME NEW i \in DOMAIN su.slaves, NEW j \in SensorsOf(su, i)
      PROVE  su.slaves[i].sensors[j] \in SensorType
  BY <1>3 DEF SensorsOf
<1> QED BY <1>1, <1>3, <1>4 DEF SensorsOf

LEMMA FileParts ==
  ASSUME NEW su \in SetupType
  PROVE  /\ su.dir \in Dirs /\ su.left \in [Files -> EntryType]
         /\ su.present \in [Dirs -> SUBSET Files]
         /\ Len(su.upload) \in Nat /\ DOMAIN su.upload = 1..Len(su.upload)
         /\ \A i \in DOMAIN su.upload : su.upload[i] \in Files
         /\ su.upload # <<>> => Head(su.upload) = su.upload[1] /\ 1 \in DOMAIN su.upload
         /\ su.upload = <<>> => DOMAIN su.upload = {}
<1>1. /\ su.upload \in Seq(Files) /\ su.dir \in Dirs /\ su.left \in [Files -> EntryType]
      /\ su.present \in [Dirs -> SUBSET Files]
  BY DEF SetupType
<1>2. ASSUME NEW i \in DOMAIN su.upload
      PROVE  su.upload[i] \in Files
  BY <1>1
<1> QED BY <1>1, <1>2

-----------------------------------------------------------------------------
(* The calls that declare formats.                                         *)

LEMMA InCalls ==
  ASSUME NEW su, NEW c
  PROVE  c \in Calls(su) <=>
           /\ c = <<c[1], c[2]>>
           /\ c[1] \in DOMAIN su.plugins /\ c[2] \in CallsOf(su, c[1])
  BY DEF Calls, CallsOf

\* One more call adds its formats, if it is of the kind.
LEMMA KnownMore ==
  ASSUME NEW su, NEW kinds, NEW calls, NEW c
  PROVE  Known(su, kinds, calls \cup {c}) =
           Known(su, kinds, calls) \cup
             (IF CallAt(su, c).call \in kinds THEN ToSet(CallAt(su, c).formats) ELSE {})
<1>1. {b \in calls \cup {c} : CallAt(su, b).call \in kinds} =
        {b \in calls : CallAt(su, b).call \in kinds} \cup
          (IF CallAt(su, c).call \in kinds THEN {c} ELSE {})
  OBVIOUS
<1> QED BY <1>1 DEF Known

\* After a call come itself and those before it.
LEMMA BeforeCall ==
  ASSUME NEW su \in SetupType, NEW c \in Calls(su)
  PROVE  Before(su, <<c[1], c[2] + 1>>) = Before(su, c) \cup {c}
<1>1. \A b \in Calls(su) : b = <<b[1], b[2]>> /\ b[1] \in Nat /\ b[2] \in Nat
  BY InCalls, PluginParts
<1>2. \A b \in Calls(su) : b[1] = c[1] /\ b[2] = c[2] => b = c
  BY <1>1
<1>3. \A b \in Calls(su) :
        b[1] < c[1] \/ (b[1] = c[1] /\ b[2] < c[2] + 1)
          <=> b[1] < c[1] \/ (b[1] = c[1] /\ b[2] < c[2]) \/ b = c
  BY <1>1, <1>2
<1> QED BY <1>3 DEF Before

\* After the last call of a plugin come the calls of the next one.
LEMMA BeforePlugin ==
  ASSUME NEW su \in SetupType, NEW i \in DOMAIN su.plugins, NEW k \in Nat,
         k > Len(su.plugins[i].calls)
  PROVE  Before(su, <<i + 1, 1>>) = Before(su, <<i, k>>)
<1>1. \A b \in Calls(su) : b[1] \in DOMAIN su.plugins /\ b[2] \in CallsOf(su, b[1])
  BY InCalls
<1>p. /\ Len(su.plugins) \in Nat /\ DOMAIN su.plugins = 1..Len(su.plugins)
      /\ \A j \in DOMAIN su.plugins : /\ Len(su.plugins[j].calls) \in Nat
                                      /\ CallsOf(su, j) = 1..Len(su.plugins[j].calls)
  BY PluginParts
<1>2. i \in Nat /\ Len(su.plugins[i].calls) \in Nat BY <1>p
<1>3. ASSUME NEW b \in Calls(su)
      PROVE  /\ b[1] \in Nat /\ b[2] \in Nat /\ b[2] >= 1
             /\ b[1] = i => b[2] <= Len(su.plugins[i].calls)
  <2>1. b[1] \in DOMAIN su.plugins /\ b[2] \in CallsOf(su, b[1]) BY <1>1
  <2>2. b[1] \in Nat /\ b[2] \in 1..Len(su.plugins[b[1]].calls)
        /\ Len(su.plugins[b[1]].calls) \in Nat
    <3>1. CallsOf(su, b[1]) = 1..Len(su.plugins[b[1]].calls) BY <1>p, <2>1
    <3>2. Len(su.plugins[b[1]].calls) \in Nat BY <1>p, <2>1
    <3>3. b[1] \in Nat BY <1>p, <2>1
    <3> QED BY <2>1, <3>1, <3>2, <3>3
  <2> QED BY <2>2
<1>4. \A b \in Calls(su) :
        b[1] < i + 1 \/ (b[1] = i + 1 /\ b[2] < 1)
          <=> b[1] < i \/ (b[1] = i /\ b[2] < k)
  BY <1>2, <1>3
<1> QED BY <1>4 DEF Before

\* After the last plugin, all the calls are before.
LEMMA BeforeEnd ==
  ASSUME NEW su \in SetupType, NEW i \in Nat, i > Len(su.plugins), NEW k
  PROVE  Before(su, <<i, k>>) = Calls(su)
<1>1. \A b \in Calls(su) : b[1] < i
  BY InCalls, PluginParts
<1> QED BY <1>1 DEF Before

\* Before the first call, there is none.
LEMMA BeforeFirst ==
  ASSUME NEW su \in SetupType
  PROVE  Before(su, <<1, 1>>) = {}
<1>1. \A b \in Calls(su) : b[1] >= 1 /\ b[2] >= 1
  BY InCalls, PluginParts
<1>2. \A b \in Calls(su) : ~(b[1] < 1 \/ (b[1] = 1 /\ b[2] < 1))
  BY <1>1, InCalls, PluginParts
<1> QED BY <1>2 DEF Before

LEMMA KnownFormats ==
  ASSUME NEW su \in SetupType, NEW kinds, NEW calls \in SUBSET Calls(su)
  PROVE  Known(su, kinds, calls) \subseteq Formats
<1>1. \A c \in calls : ToSet(CallAt(su, c).formats) \subseteq Formats
  BY CallParts
<1> QED BY <1>1, NamesAssumption DEF Known

-----------------------------------------------------------------------------
(* The plugins.                                                            *)

LEMMA NoElement == ToSet(<<>>) = {}
BY DEF ToSet

LEMMA InitInv == Init => IInv
<1> SUFFICES ASSUME Init PROVE IInv OBVIOUS
<1>1. setup \in SetupType /\ at = <<1, 1>> /\ pc = "plugins"
  BY SetupsAssumption DEF Init
<1>2. Before(setup, at) = {} BY <1>1, BeforeFirst
<1>3. /\ Known(setup, Encoders, Before(setup, at)) = BuiltIn
      /\ Known(setup, Decoders, Before(setup, at)) = BuiltIn
  BY <1>2 DEF Known
<1>4. DOMAIN enc = BuiltIn /\ DOMAIN dec = BuiltIn BY DEF Init
<1>5. Plugins BY <1>1, <1>2, <1>3, <1>4, PluginParts DEF Plugins
<1>6. TypeOK
  <2>1. entry \in [Files -> EntryType] BY <1>1, FileParts DEF Init
  <2> QED BY <1>1, <1>4, <2>1, NamesAssumption, NoElement DEF Init, TypeOK
<1>7. Place BY <1>1, PluginParts DEF Place, Building, Init
<1>8. /\ Codecs /\ Early /\ Bus /\ Fits /\ Distinct /\ OneOwner /\ Rejected /\ FilesFound
  BY <1>1 DEF Init, Codecs, Early, Bus, Fits, Distinct, OneOwner, Rejected, FilesFound,
              Building
<1>9. Recorded BY <1>1 DEF Recorded, Building, Init
<1> QED BY <1>5, <1>6, <1>7, <1>8, <1>9 DEF IInv

\* As long as the channel is not open, little can go wrong.
LEMMA EarlyStep ==
  ASSUME pc' \in {"plugins", "terminated", "failed"}, verbs' = {}, slaves' = <<>>
  PROVE  Codecs' /\ Bus' /\ Fits' /\ Distinct' /\ Recorded' /\ OneOwner' /\ FilesFound'
<1>1. slaves' \in Seq(Nat) BY SMT
<1>2. ~Building' /\ pc' # "open" BY DEF Building
<1>3. Codecs' /\ Bus' /\ Fits' /\ Distinct' BY <1>2 DEF Codecs, Bus, Fits, Distinct
<1>4. OneOwner' BY DEF OneOwner
<1>5. FilesFound' BY DEF FilesFound
<1> QED BY <1>1, <1>2, <1>3, <1>4, <1>5 DEF Recorded

\* The declared formats join those of the table.
LEMMA AddedDomain ==
  ASSUME NEW table, NEW formats
  PROVE  DOMAIN Added(table, formats) = DOMAIN table \cup ToSet(formats)
BY DEF Added

LEMMA DeclareStep ==
  ASSUME IInv, Declare
  PROVE  IInv'
<1> DEFINE formats == CallAt(setup, at).formats
           call == CallAt(setup, at).call
           rejected == \/ call = "decs" /\ Repeated(dec, formats)
                       \/ call = "enc" /\ Repeated(enc, formats)
<1>1. setup \in SetupType BY SetupsAssumption DEF IInv, Place
<1>2. at[1] \in Nat /\ at[2] \in Nat /\ at = <<at[1], at[2]>> /\ at[1] >= 1 /\ at[2] >= 1
  BY DEF IInv, Place
<1>3. pc = "plugins" /\ at[1] \in DOMAIN setup.plugins /\ at[2] \in CallsOf(setup, at[1])
  <2>1. /\ pc = "plugins" /\ at[1] <= Len(setup.plugins)
        /\ at[2] <= Len(setup.plugins[at[1]].calls)
    BY DEF Declare
  <2>2. Len(setup.plugins) \in Nat /\ DOMAIN setup.plugins = 1..Len(setup.plugins)
    BY <1>1, PluginParts
  <2>3. at[1] \in DOMAIN setup.plugins BY <1>2, <2>1, <2>2
  <2>4. /\ Len(setup.plugins[at[1]].calls) \in Nat
        /\ CallsOf(setup, at[1]) = 1..Len(setup.plugins[at[1]].calls)
    BY <1>1, <2>3, PluginParts
  <2> QED BY <1>2, <2>1, <2>3, <2>4
<1>4. at \in Calls(setup) BY <1>2, <1>3, InCalls
<1>5. call \in {"enc", "encs", "dec", "decs"} /\ ToSet(formats) \subseteq Formats
  BY <1>1, <1>4, CallParts
<1>6. setup' = setup /\ entry' = entry /\ verbs' = {} /\ alive' = {} /\ slaves' = <<>>
  BY <1>3 DEF Declare, IInv, Early
<1>7. /\ DOMAIN enc' = DOMAIN enc \cup (IF call \in Encoders THEN ToSet(formats) ELSE {})
      /\ DOMAIN dec' = DOMAIN dec \cup (IF call \in Decoders THEN ToSet(formats) ELSE {})
  <2>1. IF call \in Decoders
        THEN dec' = Added(dec, formats) /\ enc' = enc
        ELSE enc' = Added(enc, formats) /\ dec' = dec
    BY DEF Declare, CallAt, Decoders
  <2>2. call \in Encoders <=> call \notin Decoders BY <1>5 DEF Encoders, Decoders
  <2>3. CASE call \in Decoders BY <2>1, <2>2, <2>3, AddedDomain
  <2>4. CASE call \notin Decoders BY <2>1, <2>2, <2>4, AddedDomain
  <2> QED BY <2>3, <2>4
<1>8. /\ DOMAIN enc = Known(setup, Encoders, Before(setup, at))
      /\ DOMAIN dec = Known(setup, Decoders, Before(setup, at))
      /\ \A i \in DOMAIN setup.plugins : i < at[1] => setup.plugins[i].ok
      /\ \A c \in Before(setup, at) : CallFits(setup, c)
  BY <1>3 DEF IInv, Plugins
<1>10. \/ rejected /\ pc' = "terminated" /\ at' = at
       \/ ~rejected /\ at' = <<at[1], at[2] + 1>> /\ pc' = "plugins"
  BY <1>3 DEF Declare, CallAt
<1>9. TypeOK' /\ Early'
  <2>1. DOMAIN enc' \subseteq Formats /\ DOMAIN dec' \subseteq Formats
    BY <1>5, <1>7 DEF IInv, TypeOK
  <2>2. pc' \in {"plugins", "terminated"} /\ at' \in Nat \X Nat
    <3>1. at[2] + 1 \in Nat BY <1>2
    <3> HIDE DEF rejected
    <3> QED BY <1>2, <1>10, <3>1
  <2>3. entry = setup.left BY <1>3 DEF IInv, Early
  <2>4. entry' \in [Files -> EntryType] BY <1>6 DEF IInv, TypeOK
  <2>5. TypeOK' BY <1>6, <2>1, <2>2, <2>4, NoElement DEF TypeOK
  <2>6. Early' BY <1>6, <2>3 DEF Early
  <2> QED BY <2>5, <2>6
<1>11. pc' \in {"plugins", "terminated", "failed"} BY <1>10
<1>12. /\ Codecs' /\ Bus' /\ Fits' /\ Distinct' /\ Recorded' /\ OneOwner' /\ FilesFound'
  BY <1>6, <1>11, EarlyStep
<1>13. CASE rejected /\ pc' = "terminated" /\ at' = at
  <2>1. ~CallFits(setup, at)
    BY <1>8, <1>13 DEF CallFits, Repeated
  <2>2. ~PluginsFit(setup) BY <2>1, <1>4 DEF PluginsFit
  <2>3. Rejected' BY <2>2, <1>6 DEF Rejected
  <2>4. Place' BY <1>2, <1>6, <1>13 DEF IInv, Place, Building
  <2>5. Plugins' BY <1>13 DEF Plugins
  <2> QED BY <1>9, <1>12, <2>3, <2>4, <2>5 DEF IInv
<1>14. CASE ~rejected /\ at' = <<at[1], at[2] + 1>> /\ pc' = "plugins"
  <2>1. CallFits(setup, at) BY <1>8, <1>14 DEF CallFits, Repeated
  <2>2. Before(setup, at') = Before(setup, at) \cup {at}
    BY <1>1, <1>4, <1>14, BeforeCall
  <2>3. \A c \in Before(setup, at') : CallFits(setup, c) BY <1>8, <2>1, <2>2
  <2>4. /\ DOMAIN enc' = Known(setup, Encoders, Before(setup, at'))
        /\ DOMAIN dec' = Known(setup, Decoders, Before(setup, at'))
    BY <1>7, <1>8, <2>2, KnownMore
  <2>5. \A i \in DOMAIN setup.plugins : i < at'[1] => setup.plugins[i].ok
    BY <1>8, <1>14
  <2>6. Plugins' BY <1>6, <2>3, <2>4, <2>5 DEF Plugins
  <2>7. Place'
    <3>1. at' \in Nat \X Nat /\ at'[1] = at[1] /\ at'[2] = at[2] + 1 BY <1>2, <1>14
    <3>2. at'[2] \in 1..(Len(setup.plugins[at[1]].calls) + 1)
      BY <1>1, <1>2, <1>3, <3>1, PluginParts
    <3> QED BY <1>2, <1>3, <1>6, <1>14, <3>1, <3>2 DEF IInv, Place, Building
  <2>8. Rejected' BY <1>14 DEF Rejected
  <2> QED BY <1>9, <1>12, <2>6, <2>7, <2>8 DEF IInv
<1> QED BY <1>10, <1>13, <1>14

LEMMA DeclaredStep ==
  ASSUME IInv, Declared
  PROVE  IInv'
<1>1. setup \in SetupType BY SetupsAssumption DEF IInv, Place
<1>2. at[1] \in Nat /\ at[2] \in Nat /\ at = <<at[1], at[2]>> /\ at[1] >= 1 /\ at[2] >= 1
  BY DEF IInv, Place
<1>3. /\ pc = "plugins" /\ at[1] \in DOMAIN setup.plugins
      /\ at[2] > Len(setup.plugins[at[1]].calls)
  BY <1>1, <1>2, PluginParts DEF Declared
<1>4. /\ setup' = setup /\ enc' = enc /\ dec' = dec /\ entry' = entry
      /\ verbs' = {} /\ alive' = {} /\ slaves' = <<>> /\ entry' = setup.left
  BY <1>3 DEF Declared, IInv, Early
<1>5. \/ setup.plugins[at[1]].ok /\ at' = <<at[1] + 1, 1>> /\ pc' = "plugins"
      \/ ~setup.plugins[at[1]].ok /\ pc' = "failed" /\ at' = at
  BY <1>3 DEF Declared
<1>6. pc' \in {"plugins", "terminated", "failed"} /\ at' \in Nat \X Nat BY <1>2, <1>5
<1>7. /\ Codecs' /\ Bus' /\ Fits' /\ Distinct' /\ Recorded' /\ OneOwner' /\ FilesFound'
  BY <1>4, <1>6, EarlyStep
<1>8. TypeOK' BY <1>4, <1>6, NoElement DEF IInv, TypeOK
<1>9. Early' BY <1>4 DEF Early
<1>10. CASE ~setup.plugins[at[1]].ok /\ pc' = "failed" /\ at' = at
  <2>1. Rejected' BY <1>3, <1>4, <1>10 DEF Rejected, PluginsFit
  <2>2. Place' BY <1>2, <1>4, <1>10 DEF IInv, Place, Building
  <2>3. Plugins' BY <1>10 DEF Plugins
  <2> QED BY <1>7, <1>8, <1>9, <2>1, <2>2, <2>3 DEF IInv
<1>11. CASE setup.plugins[at[1]].ok /\ at' = <<at[1] + 1, 1>> /\ pc' = "plugins"
  <2>1. Before(setup, at') = Before(setup, at)
    BY <1>1, <1>2, <1>3, <1>11, BeforePlugin
  <2>2. \A i \in DOMAIN setup.plugins : i < at'[1] => setup.plugins[i].ok
    <3>1. \A i \in DOMAIN setup.plugins : i < at[1] => setup.plugins[i].ok
      BY <1>3 DEF IInv, Plugins
    <3>2. \A i \in DOMAIN setup.plugins : i < at'[1] => i < at[1] \/ i = at[1]
      BY <1>1, <1>2, <1>11, PluginParts
    <3> QED BY <1>11, <3>1, <3>2
  <2>3. Plugins' BY <1>3, <1>4, <2>1, <2>2 DEF IInv, Plugins
  <2>4. Place'
    <3>1. at'[1] = at[1] + 1 /\ at'[2] = 1 BY <1>11
    <3>2. at'[1] \in 1..(Len(setup.plugins) + 1) BY <1>1, <1>3, <3>1, PluginParts
    <3>3. at'[1] \in DOMAIN setup.plugins =>
            at'[2] \in 1..(Len(setup.plugins[at'[1]].calls) + 1)
      BY <1>1, <3>1, PluginParts
    <3> QED BY <1>4, <1>6, <1>11, <3>1, <3>2, <3>3 DEF IInv, Place, Building
  <2>5. Rejected' BY <1>11 DEF Rejected
  <2> QED BY <1>7, <1>8, <1>9, <2>3, <2>4, <2>5 DEF IInv
<1> QED BY <1>5, <1>10, <1>11

LEMMA RootVerbsAddedStep ==
  ASSUME IInv, RootVerbsAdded
  PROVE  IInv'
<1>1. setup \in SetupType BY SetupsAssumption DEF IInv, Place
<1>2. at[1] \in Nat /\ at[2] \in Nat /\ at = <<at[1], at[2]>> BY DEF IInv, Place
<1>3. /\ pc = "plugins" /\ at[1] > Len(setup.plugins) /\ pc' = "open"
      /\ setup' = setup /\ at' = at /\ enc' = enc /\ dec' = dec
      /\ verbs' = RootVerbsOf
  BY DEF RootVerbsAdded, RootVerbsOf
<1>4. alive' = {} /\ slaves' = <<>> /\ entry' = entry /\ entry = setup.left
  BY <1>3 DEF RootVerbsAdded, IInv, Early
<1>5. Before(setup, at) = Calls(setup) BY <1>1, <1>2, <1>3, BeforeEnd
<1>6. \A i \in DOMAIN setup.plugins : i < at[1] BY <1>1, <1>2, <1>3, PluginParts
<1>7. /\ \A i \in DOMAIN setup.plugins : setup.plugins[i].ok
      /\ \A c \in Calls(setup) : CallFits(setup, c)
      /\ DOMAIN enc = Known(setup, Encoders, Calls(setup))
      /\ DOMAIN dec = Known(setup, Decoders, Calls(setup))
  BY <1>3, <1>5, <1>6 DEF IInv, Plugins
<1>8. Codecs' BY <1>3, <1>7 DEF Codecs, PluginsFit
<1>9. TypeOK'
  <2>1. \A v \in RootVerbsOf : v.of \in Nat \X Nat BY DEF RootVerbsOf, Root
  <2> QED BY <1>3, <1>4, <2>1, NoElement DEF IInv, TypeOK
<1>10. Place' BY <1>3 DEF IInv, Place, Building
<1>11. Early' /\ Plugins' BY <1>3, <1>4 DEF Early, Plugins
<1>12. Bus' /\ Fits' /\ Distinct' /\ Rejected' /\ FilesFound'
  BY <1>3 DEF Bus, Fits, Distinct, Rejected, FilesFound, Building
<1>13. Recorded'
  <2>1. slaves' \in Seq(Nat) BY <1>4, SMT
  <2> QED BY <1>3, <2>1 DEF Recorded, Building
<1>14. OneOwner'
  <2>1. \A v, w \in RootVerbsOf : v.name = w.name => v = w BY DEF RootVerbsOf
  <2> QED BY <1>3, <2>1 DEF OneOwner
<1> QED BY <1>8, <1>9, <1>10, <1>11, <1>12, <1>13, <1>14 DEF IInv

-----------------------------------------------------------------------------
(* The files of the DCF.                                                   *)

\* An entry leads to one directory at most.
LEMMA TargetIs ==
  ASSUME NEW su, NEW e, NEW f, NEW d \in Dirs
  PROVE  Target(su, e, f) = {d} <=>
           (e = "file" /\ d = Cwd) \/ (e = d /\ d # Cwd /\ f \in su.present[d])
<1>1. \A x \in Target(su, e, f), y \in Target(su, e, f) : x = y
  BY DirsAssumption DEF Target
<1>2. d \in Target(su, e, f) <=>
        (e = "file" /\ d = Cwd) \/ (e = d /\ d # Cwd /\ f \in su.present[d])
  BY DEF Target
<1> QED BY <1>1, <1>2

LEMMA OpenStep ==
  ASSUME IInv, Open
  PROVE  IInv'
<1>1. setup \in SetupType BY SetupsAssumption DEF IInv, Place
<1>2. /\ pc = "open" /\ pc' = "slave" /\ at' = <<1, 1>> /\ setup' = setup
      /\ enc' = enc /\ dec' = dec /\ verbs' = verbs /\ verbs = RootVerbsOf
      /\ alive' = {} /\ slaves' = <<>> /\ entry = setup.left
  BY DEF Open, IInv, Early, Bus
<1>3. entry \in [Files -> EntryType] BY DEF IInv, TypeOK
<1>4. \A f \in Files : Relinked(f) \in EntryType
  BY <1>1, <1>3, FileParts DEF Relinked, EntryType
<1>5. /\ setup.upload # <<>> => setup.upload[1] \in Files
      /\ \A f \in Files : entry'[f] =
           IF setup.upload # <<>> /\ f = setup.upload[1] THEN Relinked(f) ELSE entry[f]
      /\ entry' \in [Files -> EntryType]
  <2>1. CASE setup.upload = <<>>
    BY <1>3, <2>1 DEF Open
  <2>2. CASE setup.upload # <<>>
    <3>1. Head(setup.upload) = setup.upload[1] /\ setup.upload[1] \in Files
      BY <1>1, <2>2, FileParts
    <3>2. entry' = [entry EXCEPT ![setup.upload[1]] = Relinked(setup.upload[1])]
      BY <2>2, <3>1 DEF Open
    <3> QED BY <1>3, <1>4, <2>2, <3>1, <3>2
  <2> QED BY <2>1, <2>2
<1>6. TypeOK' 
  BY <1>2, <1>5, NoElement DEF IInv, TypeOK
<1>7. Place' BY <1>1, <1>2, SlaveParts DEF IInv, Place, Building
<1>8. Plugins' /\ Codecs' /\ Early' BY <1>2 DEF IInv, Plugins, Codecs, Early, Building
<1>9. Bus'
  <2>1. Objects(setup, "slave", <<1, 1>>) = {}
    BY <1>1, SlaveParts DEF Objects
  <2>2. VerbsFor(setup, {}) = RootVerbsOf BY DEF VerbsFor
  <2> QED BY <1>2, <2>1, <2>2 DEF Bus, Building
<1>10. Fits' /\ Distinct' /\ Rejected' BY <1>2 DEF Fits, Distinct, Rejected
<1>11. Recorded'
  <2>1. slaves' \in Seq(Nat) BY <1>2, SMT
  <2>2. {i \in DOMAIN setup.slaves : i < 1} = {} BY <1>1, SlaveParts
  <2> QED BY <1>2, <2>1, <2>2, NoElement DEF Recorded
<1>12. OneOwner' BY <1>2 DEF IInv, OneOwner
<1>13. FilesFound'
  <2>1. ASSUME NEW i \in DOMAIN setup.upload
        PROVE  LET f == setup.upload[i]
                   first == f = setup.upload[1]
                   free == setup.left[f] = "none" \/ Target(setup, setup.left[f], f) # {}
               IN Target(setup, entry'[f], f) = {setup.dir} <=>
                    IF setup.dir = Cwd THEN ~first /\ setup.left[f] = "file"
                    ELSE /\ f \in setup.present[setup.dir]
                         /\ setup.left[f] = setup.dir \/ (first /\ free)
    <3> DEFINE f == setup.upload[i]
               first == f = setup.upload[1]
               free == setup.left[f] = "none" \/ Target(setup, setup.left[f], f) # {}
               d == setup.dir
    <3>1. f \in Files /\ setup.upload # <<>> /\ d \in Dirs BY <1>1, FileParts
    <3>2. entry'[f] = IF first THEN Relinked(f) ELSE setup.left[f] BY <1>2, <1>5, <3>1
    <3>3. Relinked(f) = IF free THEN d ELSE setup.left[f] BY <1>2 DEF Relinked
    <3>4. Target(setup, entry'[f], f) = {d} <=>
            \/ entry'[f] = "file" /\ d = Cwd
            \/ entry'[f] = d /\ d # Cwd /\ f \in setup.present[d]
      <4>1. \A e, g : Target(setup, e, g) = {setup.dir} <=>
              \/ e = "file" /\ setup.dir = Cwd
              \/ e = setup.dir /\ setup.dir # Cwd /\ g \in setup.present[setup.dir]
        BY <3>1, TargetIs
      <4> QED BY <4>1
    <3>5. d # "file" /\ d # "none" BY <3>1, DirsAssumption
    <3>6. setup.left[f] = "file" => free
      BY DirsAssumption DEF Target
    <3> HIDE DEF f, first, free, d
    <3>7. Target(setup, entry'[f], f) = {d} <=>
            IF d = Cwd THEN ~first /\ setup.left[f] = "file"
            ELSE f \in setup.present[d] /\ (setup.left[f] = d \/ (first /\ free))
      BY <3>2, <3>3, <3>4, <3>5, <3>6
    <3> QED BY <3>7 DEF f, first, free, d
  <2> QED BY <1>2, <2>1 DEF FilesFound, Found
<1> QED BY <1>6, <1>7, <1>8, <1>9, <1>10, <1>11, <1>12, <1>13 DEF IInv

-----------------------------------------------------------------------------
(* What exists of the bus, and its verbs.                                  *)

LEMMA InObjects ==
  ASSUME NEW su, NEW where, NEW place, NEW o
  PROVE  o \in Objects(su, where, place) <=>
           \/ /\ o = <<o[1], 0>> /\ o[1] \in DOMAIN su.slaves
              /\ o[1] < place[1] \/ (o[1] = place[1] /\ where \in {"sensor", "record"})
           \/ /\ o \in Nat \X (Nat \ {0})
              /\ o[1] \in DOMAIN su.slaves /\ su.slaves[o[1]].readable
              /\ o[2] \in SensorsOf(su, o[1])
              /\ \/ o[1] < place[1]
                 \/ o[1] = place[1] /\ where = "record"
                 \/ o[1] = place[1] /\ where = "sensor" /\ o[2] < place[2]
BY DEF Objects

LEMMA ObjectParts ==
  ASSUME NEW su \in SetupType, NEW where, NEW place, NEW o \in Objects(su, where, place)
  PROVE  /\ o = <<o[1], o[2]>> /\ o[1] \in Nat /\ o[2] \in Nat
         /\ o[1] \in DOMAIN su.slaves
         /\ o[1] < place[1] \/ o[1] = place[1]
         /\ o[2] # 0 => su.slaves[o[1]].readable /\ o[2] \in SensorsOf(su, o[1])
         /\ where = "slave" => o[1] < place[1]
         /\ o[1] = place[1] /\ where = "sensor" /\ o[2] # 0 => o[2] < place[2]
BY InObjects, SlaveParts

LEMMA StartObjects ==
  ASSUME NEW su \in SetupType, NEW i \in DOMAIN su.slaves
  PROVE  /\ Objects(su, "sensor", <<i, 1>>) = Objects(su, "slave", <<i, 1>>) \cup {<<i, 0>>}
         /\ ~su.slaves[i].readable =>
              Objects(su, "record", <<i, 1>>) = Objects(su, "slave", <<i, 1>>) \cup {<<i, 0>>}
<1> DEFINE S == Objects(su, "slave", <<i, 1>>)
<1>1. i \in Nat BY SlaveParts
<1>2. ASSUME NEW o
      PROVE  o \in Objects(su, "sensor", <<i, 1>>) <=> o \in S \cup {<<i, 0>>}
  <2>1. o \in Nat \X (Nat \ {0}) /\ o[2] \in Nat => ~(o[2] < 1) OBVIOUS
  <2>2. o = <<o[1], 0>> /\ o[1] = i <=> o = <<i, 0>> OBVIOUS
  <2> QED BY <1>1, <2>1, <2>2, InObjects
<1>3. ASSUME ~su.slaves[i].readable, NEW o
      PROVE  o \in Objects(su, "record", <<i, 1>>) <=> o \in S \cup {<<i, 0>>}
  <2>1. o = <<o[1], 0>> /\ o[1] = i <=> o = <<i, 0>> OBVIOUS
  <2> QED BY <1>1, <1>3, <2>1, InObjects
<1> QED BY <1>2, <1>3

LEMMA SensorObjects ==
  ASSUME NEW su \in SetupType, NEW i \in DOMAIN su.slaves, NEW j \in SensorsOf(su, i),
         su.slaves[i].readable
  PROVE  Objects(su, "sensor", <<i, j + 1>>) = Objects(su, "sensor", <<i, j>>) \cup {<<i, j>>}
<1>1. i \in Nat /\ j \in Nat /\ j # 0 BY SlaveParts
<1>2. ASSUME NEW o
      PROVE  o \in Objects(su, "sensor", <<i, j + 1>>) <=>
               o \in Objects(su, "sensor", <<i, j>>) \cup {<<i, j>>}
  <2>1. o \in Nat \X (Nat \ {0}) /\ o[1] = i =>
          (o[2] < j + 1 <=> o[2] < j \/ o = <<i, j>>)
    BY <1>1
  <2>2. <<i, j>> \in Nat \X (Nat \ {0}) BY <1>1
  <2>3. o = <<i, j>> => o # <<o[1], 0>> BY <1>1
  <2> QED BY <1>1, <2>1, <2>2, <2>3, InObjects
<1> QED BY <1>2

LEMMA EndObjects ==
  ASSUME NEW su \in SetupType, NEW i \in DOMAIN su.slaves, NEW j \in Nat,
         j > Len(su.slaves[i].sensors)
  PROVE  Objects(su, "record", <<i, j>>) = Objects(su, "sensor", <<i, j>>)
<1>1. \A k \in SensorsOf(su, i) : k < j BY SlaveParts
<1>2. ASSUME NEW o
      PROVE  o \in Objects(su, "record", <<i, j>>) <=> o \in Objects(su, "sensor", <<i, j>>)
  BY <1>1, InObjects
<1> QED BY <1>2

LEMMA RecordObjects ==
  ASSUME NEW su \in SetupType, NEW i \in DOMAIN su.slaves, NEW j
  PROVE  Objects(su, "slave", <<i + 1, 1>>) = Objects(su, "record", <<i, j>>)
<1>1. i \in Nat BY SlaveParts
<1>2. \A k \in DOMAIN su.slaves : k < i + 1 <=> k < i \/ k = i BY <1>1, SlaveParts
<1>3. ASSUME NEW o
      PROVE  o \in Objects(su, "slave", <<i + 1, 1>>) <=> o \in Objects(su, "record", <<i, j>>)
  BY <1>1, <1>2, InObjects
<1> QED BY <1>3

LEMMA ServeObjects ==
  ASSUME NEW su, NEW place
  PROVE  Objects(su, "serving", place) = Objects(su, "slave", place)
<1>1. ASSUME NEW o
      PROVE  o \in Objects(su, "serving", place) <=> o \in Objects(su, "slave", place)
  BY InObjects
<1> QED BY <1>1

\* The name of a verb tells whose it is.
LEMMA VerbNames ==
  ASSUME NEW su, NEW o
  PROVE  /\ VerbOf(su, o).of = o
         /\ o[2] = 0 => VerbOf(su, o).name = <<su.slaves[o[1]].uid>>
         /\ o[2] # 0 => VerbOf(su, o).name =
                          <<su.slaves[o[1]].uid, su.slaves[o[1]].sensors[o[2]].uid>>
BY DEF VerbOf

LEMMA InVerbsFor ==
  ASSUME NEW su, NEW objects, NEW v
  PROVE  v \in VerbsFor(su, objects) <=>
           \/ v \in RootVerbsOf
           \/ \E o \in objects : su.slaves[o[1]].readable /\ v = VerbOf(su, o)
BY DEF VerbsFor

LEMMA RootNames ==
  ASSUME NEW v \in RootVerbsOf
  PROVE  v.of = Root /\ \E x \in RootVerbs : v.name = <<x>>
BY DEF RootVerbsOf

LEMMA NamesDiffer ==
  ASSUME NEW x, NEW y, NEW z
  PROVE  /\ <<x>> # <<y, z>>
         /\ <<x>> = <<y>> => x = y
OBVIOUS

-----------------------------------------------------------------------------
(* The slaves and the sensors.                                             *)

\* Once the channel is open, the configuration, the tables and the files stay.
LEMMA BusFrame ==
  ASSUME IInv, pc \in {"slave", "sensor", "record"},
         pc' \in {"slave", "sensor", "record", "serving", "failed", "terminated"},
         UNCHANGED <<setup, enc, dec, entry>>
  PROVE  Plugins' /\ Codecs' /\ Early' /\ FilesFound'
<1>1. Plugins' /\ Early' BY DEF Plugins, Early
<1>2. Codecs' BY DEF IInv, Codecs, Building
<1>3. FilesFound' BY DEF IInv, FilesFound, Found
<1> QED BY <1>1, <1>2, <1>3

\* A constructor that throws, because something does not fit.
LEMMA ThrowStep ==
  ASSUME IInv, Throw, pc \in {"slave", "sensor"}, at[1] \in DOMAIN setup.slaves,
         UNCHANGED <<setup, enc, dec, entry, slaves>>, ~BusFits(setup)
  PROVE  IInv'
<1>1. /\ pc' = "failed" /\ verbs' = verbs /\ at' = at /\ setup' = setup
      /\ alive' = {o \in alive : o[1] # at[1]}
      /\ enc' = enc /\ dec' = dec /\ entry' = entry /\ slaves' = slaves
  BY DEF Throw
<1>2. setup \in SetupType BY SetupsAssumption DEF IInv, Place
<1>3. Plugins' /\ Codecs' /\ Early' /\ FilesFound' BY <1>1, BusFrame
<1>4. Place' BY <1>1 DEF IInv, Place, Building
<1>5. Bus' /\ Fits' /\ Distinct' BY <1>1 DEF Bus, Fits, Distinct, Building
<1>6. Recorded' BY <1>1 DEF IInv, Recorded, Building
<1>7. OneOwner' BY <1>1 DEF IInv, OneOwner
<1>8. Rejected' BY <1>1 DEF Rejected
<1>9. TypeOK'
  <2>1. ToSet(slaves) = {i \in DOMAIN setup.slaves : i < at[1]}
    BY DEF IInv, Recorded, Building
  <2>2. \A i \in ToSet(slaves) : i # at[1] BY <1>2, <2>1, SlaveParts
  <2>3. \A i \in ToSet(slaves') : i \in DOMAIN setup'.slaves /\ <<i, 0>> \in alive'
    BY <1>1, <2>2 DEF IInv, TypeOK
  <2>4. \A v \in verbs' : v.of \in Nat \X Nat BY <1>1 DEF IInv, TypeOK
  <2>5. alive' \subseteq Nat \X Nat BY <1>1 DEF IInv, TypeOK
  <2>6. /\ at' \in Nat \X Nat /\ entry' \in [Files -> EntryType]
        /\ DOMAIN enc' \subseteq Formats /\ DOMAIN dec' \subseteq Formats
    BY <1>1 DEF IInv, TypeOK
  <2> QED BY <1>1, <2>3, <2>4, <2>5, <2>6 DEF TypeOK
<1> QED BY <1>3, <1>4, <1>5, <1>6, <1>7, <1>8, <1>9 DEF IInv

\* One more object, with its verb if it has one, whose name nobody has.
LEMMA MoreVerbs ==
  ASSUME NEW su, NEW objects, NEW o,
         ~su.slaves[o[1]].readable
  PROVE  VerbsFor(su, objects \cup {o}) = VerbsFor(su, objects)
<1>1. \A v : v \in VerbsFor(su, objects \cup {o}) <=> v \in VerbsFor(su, objects)
  BY InVerbsFor
<1> QED BY <1>1

LEMMA OneMoreVerb ==
  ASSUME NEW su, NEW objects, NEW o, su.slaves[o[1]].readable
  PROVE  VerbsFor(su, objects \cup {o}) = VerbsFor(su, objects) \cup {VerbOf(su, o)}
<1>1. \A v : v \in VerbsFor(su, objects \cup {o}) <=>
               v \in VerbsFor(su, objects) \cup {VerbOf(su, o)}
  BY InVerbsFor
<1> QED BY <1>1

LEMMA OneMoreOwner ==
  ASSUME OneOwner, NEW v, verbs' = verbs \cup {v}, ~HasVerb(v.name)
  PROVE  OneOwner'
BY DEF OneOwner, HasVerb

\* A name of one part is the one of the root, or of a slave.
LEMMA SlaveName ==
  ASSUME NEW su, NEW objects, NEW x, NEW v \in VerbsFor(su, objects), v.name = <<x>>
  PROVE  \/ x \in RootVerbs
         \/ \E o \in objects : /\ o[2] = 0 /\ su.slaves[o[1]].readable
                               /\ su.slaves[o[1]].uid = x
<1>1. CASE v \in RootVerbsOf BY <1>1, RootNames, NamesDiffer
<1>2. ASSUME NEW o \in objects, su.slaves[o[1]].readable, v = VerbOf(su, o)
      PROVE  o[2] = 0 /\ su.slaves[o[1]].uid = x
  BY <1>2, VerbNames, NamesDiffer
<1> QED BY <1>1, <1>2, InVerbsFor

\* A name of two parts is the one of a sensor.
LEMMA SensorName ==
  ASSUME NEW su, NEW objects, NEW x, NEW y, NEW v \in VerbsFor(su, objects),
         v.name = <<x, y>>
  PROVE  \E o \in objects : /\ o[2] # 0 /\ su.slaves[o[1]].readable
                            /\ su.slaves[o[1]].uid = x
                            /\ su.slaves[o[1]].sensors[o[2]].uid = y
<1>1. v \notin RootVerbsOf BY RootNames, NamesDiffer
<1>2. PICK o \in objects : su.slaves[o[1]].readable /\ v = VerbOf(su, o)
  BY <1>1, InVerbsFor
<1>3. o[2] # 0 BY <1>2, VerbNames, NamesDiffer
<1>4. <<su.slaves[o[1]].uid, su.slaves[o[1]].sensors[o[2]].uid>> = <<x, y>>
  BY <1>2, <1>3, VerbNames
<1>5. su.slaves[o[1]].uid = x /\ su.slaves[o[1]].sensors[o[2]].uid = y BY <1>4
<1> QED BY <1>2, <1>3, <1>5

\* What a slave and a sensor must be, in the words of BusFits.
LEMMA BadBus ==
  ASSUME NEW su, NEW i \in DOMAIN su.slaves
  PROVE  /\ su.slaves[i].nodId \notin 1..127 => ~BusFits(su)
         /\ ~SlaveFits(su, su.slaves[i]) => ~BusFits(su)
         /\ \A k \in DOMAIN su.slaves :
              /\ k # i
              /\ \/ su.slaves[i].nodId = su.slaves[k].nodId
                 \/ ~su.slaves[i].readable \/ ~su.slaves[k].readable
                 \/ su.slaves[i].uid = su.slaves[k].uid
              => ~BusFits(su)
BY DEF BusFits

LEMMA StartSlaveStep ==
  ASSUME IInv, StartSlave
  PROVE  IInv'
<1> DEFINE i == at[1]
           s == setup.slaves[i]
           o == <<i, 0>>
<1>1. setup \in SetupType BY SetupsAssumption DEF IInv, Place
<1>2. /\ pc = "slave" /\ Building /\ i \in DOMAIN setup.slaves /\ i \in Nat
      /\ at = <<i, 1>> /\ at \in Nat \X Nat
  BY <1>1, SlaveParts DEF IInv, Place, StartSlave, Building
<1>3. setup' = setup /\ enc' = enc /\ dec' = dec /\ entry' = entry /\ slaves' = slaves
  BY DEF StartSlave
<1>4. /\ alive = Objects(setup, "slave", at) /\ verbs = VerbsFor(setup, alive)
      /\ ToSet(slaves) = {k \in DOMAIN setup.slaves : k < i}
  BY <1>2 DEF IInv, Bus, Recorded
<1>5. \A p \in alive : p[1] \in DOMAIN setup.slaves /\ p[1] < i /\ p[1] # i
  BY <1>1, <1>2, <1>4, ObjectParts
<1>6. CASE (BadNode \/ (s.readable /\ HasVerb(<<s.uid>>))) /\ Throw
  <2>1. CASE s.nodId \notin 1..127
    BY <1>1, <1>2, <1>3, <1>6, <2>1, BadBus, ThrowStep
  <2>2. CASE \E p \in alive : p[2] = 0 /\ setup.slaves[p[1]].nodId = s.nodId
    <3>1. PICK p \in alive : p[2] = 0 /\ setup.slaves[p[1]].nodId = s.nodId BY <2>2
    <3>2. ~BusFits(setup) BY <1>2, <1>5, <3>1, BadBus
    <3> QED BY <1>2, <1>3, <1>6, <3>2, ThrowStep
  <2>3. CASE s.readable /\ HasVerb(<<s.uid>>)
    <3>1. PICK v \in verbs : v.name = <<s.uid>> BY <2>3 DEF HasVerb
    <3>2. \/ s.uid \in RootVerbs
          \/ \E p \in alive : p[2] = 0 /\ setup.slaves[p[1]].readable
                                /\ setup.slaves[p[1]].uid = s.uid
      BY <1>4, <3>1, SlaveName
    <3>3. CASE s.uid \in RootVerbs
      <4>1. ~SlaveFits(setup, s) BY <2>3, <3>3 DEF SlaveFits
      <4>2. ~BusFits(setup) BY <1>2, <4>1, BadBus
      <4> QED BY <1>2, <1>3, <1>6, <4>2, ThrowStep
    <3>4. CASE \E p \in alive : p[2] = 0 /\ setup.slaves[p[1]].readable
                                  /\ setup.slaves[p[1]].uid = s.uid
      <4>1. ~BusFits(setup) BY <1>2, <1>5, <3>4, BadBus
      <4> QED BY <1>2, <1>3, <1>6, <4>1, ThrowStep
    <3> QED BY <3>2, <3>3, <3>4
  <2>4. \/ s.nodId \notin 1..127
        \/ \E p \in alive : p[2] = 0 /\ setup.slaves[p[1]].nodId = s.nodId
        \/ s.readable /\ HasVerb(<<s.uid>>)
    BY <1>6 DEF BadNode, slave
  <2> QED BY <2>1, <2>2, <2>3, <2>4
<1>7. CASE /\ ~BadNode /\ alive' = alive \cup {o} /\ at' = at
           /\ \/ /\ s.readable /\ pc' = "sensor" /\ ~HasVerb(<<s.uid>>)
                 /\ AddVerb(<<s.uid>>, o)
              \/ ~s.readable /\ pc' = "record" /\ verbs' = verbs
  <2>1. Plugins' /\ Codecs' /\ Early' /\ FilesFound' BY <1>2, <1>3, <1>7, BusFrame
  <2>2. /\ verbs' = VerbsFor(setup, alive') /\ OneOwner'
        /\ \A v \in verbs' : v.of \in Nat \X Nat
    <3>1. CASE s.readable /\ ~HasVerb(<<s.uid>>) /\ AddVerb(<<s.uid>>, o)
      <4>1. VerbOf(setup, o) = [name |-> <<s.uid>>, of |-> o] BY DEF VerbOf
      <4>2. verbs' = verbs \cup {VerbOf(setup, o)} BY <3>1, <4>1 DEF AddVerb
      <4>3. verbs' = VerbsFor(setup, alive') BY <1>4, <1>7, <3>1, <4>2, OneMoreVerb
      <4>4. VerbOf(setup, o).name = <<s.uid>> /\ VerbOf(setup, o).of = o BY <4>1
      <4>5. OneOwner' BY <3>1, <4>2, <4>4, OneMoreOwner DEF IInv
      <4>6. o \in Nat \X Nat BY <1>2
      <4>7. \A v \in verbs' : v.of \in Nat \X Nat
        BY <4>2, <4>4, <4>6 DEF IInv, TypeOK
      <4> QED BY <4>3, <4>5, <4>7
    <3>2. CASE ~s.readable /\ verbs' = verbs
      <4>1. verbs' = VerbsFor(setup, alive') BY <1>4, <1>7, <3>2, MoreVerbs
      <4>2. OneOwner' BY <3>2 DEF IInv, OneOwner
      <4>3. \A v \in verbs : v.of \in Nat \X Nat BY DEF IInv, TypeOK
      <4> QED BY <3>2, <4>1, <4>2, <4>3
    <3> QED BY <1>7, <3>1, <3>2
  <2>3. alive' = Objects(setup, pc', at')
    BY <1>1, <1>2, <1>4, <1>7, StartObjects
  <2>4. Bus' BY <1>3, <1>7, <2>2, <2>3 DEF Bus
  <2>5. s.nodId \in 1..127
        /\ \A p \in alive : p[2] = 0 => setup.slaves[p[1]].nodId # s.nodId
    BY <1>7 DEF BadNode, slave
  <2>6. Fits'
    <3>1. \A p \in alive : /\ setup.slaves[p[1]].nodId \in 1..127
                           /\ p[2] # 0 => SensorFits(setup, setup.slaves[p[1]].sensors[p[2]])
      BY <1>2 DEF IInv, Fits
    <3>2. o[1] = i /\ o[2] = 0 OBVIOUS
    <3>3. alive' = alive \cup {o} /\ setup' = setup BY <1>3, <1>7
    <3>4. \A p \in alive' : /\ setup.slaves[p[1]].nodId \in 1..127
                            /\ p[2] # 0 => SensorFits(setup, setup.slaves[p[1]].sensors[p[2]])
      BY <2>5, <3>1, <3>2, <3>3
    <3> QED BY <3>3, <3>4 DEF Fits
  <2>7. Distinct'
    <3>1. \A p, q \in alive : p[2] = 0 /\ q[2] = 0 /\ p # q =>
            setup.slaves[p[1]].nodId # setup.slaves[q[1]].nodId
      BY <1>2 DEF IInv, Distinct
    <3>2. o[1] = i OBVIOUS
    <3>3. alive' = alive \cup {o} /\ setup' = setup BY <1>3, <1>7
    <3>4. \A p \in alive : p[2] = 0 =>
            setup.slaves[p[1]].nodId # setup.slaves[o[1]].nodId
      BY <2>5, <3>2
    <3>5. \A p, q \in alive' : p[2] = 0 /\ q[2] = 0 /\ p # q =>
            setup.slaves[p[1]].nodId # setup.slaves[q[1]].nodId
      BY <3>1, <3>3, <3>4
    <3> QED BY <3>3, <3>5 DEF Distinct
  <2>8. Recorded' BY <1>2, <1>3, <1>7 DEF IInv, Recorded
  <2>9. Rejected' BY <1>7 DEF Rejected
  <2>10. Place'
    <3>1. at'[1] = i /\ at'[2] = 1 BY <1>2, <1>7
    <3>2. 1 \in 1..(Len(s.sensors) + 1) BY <1>1, <1>2, SlaveParts
    <3>3. i \in 1..(Len(setup.slaves) + 1) BY <1>1, <1>2, SlaveParts
    <3> QED BY <1>2, <1>3, <1>7, <3>1, <3>2, <3>3 DEF IInv, Place
  <2>11. TypeOK'
    <3>1. o \in Nat \X Nat BY <1>2
    <3>2. alive' \subseteq Nat \X Nat BY <1>7, <3>1 DEF IInv, TypeOK
    <3>3. \A k \in ToSet(slaves') : k \in DOMAIN setup'.slaves /\ <<k, 0>> \in alive'
      BY <1>3, <1>7 DEF IInv, TypeOK
    <3>4. /\ at' \in Nat \X Nat /\ entry' \in [Files -> EntryType]
          /\ DOMAIN enc' \subseteq Formats /\ DOMAIN dec' \subseteq Formats
      BY <1>3, <1>7 DEF IInv, TypeOK
    <3> QED BY <1>7, <2>2, <3>2, <3>3, <3>4 DEF TypeOK
  <2> QED BY <2>1, <2>2, <2>4, <2>6, <2>7, <2>8, <2>9, <2>10, <2>11 DEF IInv
<1>8. \/ (BadNode \/ (s.readable /\ HasVerb(<<s.uid>>))) /\ Throw
      \/ /\ ~BadNode /\ alive' = alive \cup {o} /\ at' = at
         /\ \/ /\ s.readable /\ pc' = "sensor" /\ ~HasVerb(<<s.uid>>)
               /\ AddVerb(<<s.uid>>, o)
            \/ ~s.readable /\ pc' = "record" /\ verbs' = verbs
  BY DEF StartSlave, slave
<1> QED BY <1>6, <1>7, <1>8

\* A sensor that is not good does not fit, or its name is taken.
LEMMA BadSensor ==
  ASSUME NEW su \in SetupType, NEW i \in DOMAIN su.slaves, su.slaves[i].readable,
         NEW j \in SensorsOf(su, i)
  PROVE  /\ ~SensorFits(su, su.slaves[i].sensors[j]) => ~BusFits(su)
         /\ \A k \in SensorsOf(su, i) :
              k # j /\ su.slaves[i].sensors[k].uid = su.slaves[i].sensors[j].uid
                => ~BusFits(su)
<1>1. ~SensorFits(su, su.slaves[i].sensors[j]) => ~SlaveFits(su, su.slaves[i])
  BY DEF SlaveFits, SensorsOf
<1>2. ASSUME NEW k \in SensorsOf(su, i),
             k # j, su.slaves[i].sensors[k].uid = su.slaves[i].sensors[j].uid
      PROVE  ~SlaveFits(su, su.slaves[i])
  <2>1. DOMAIN UidsOf(su.slaves[i].sensors) = SensorsOf(su, i)
    BY DEF UidsOf, SensorsOf
  <2>2. UidsOf(su.slaves[i].sensors)[k] = UidsOf(su.slaves[i].sensors)[j]
    BY <1>2 DEF UidsOf, SensorsOf
  <2>3. ~IsInjective(UidsOf(su.slaves[i].sensors))
    BY <1>2, <2>1, <2>2 DEF IsInjective
  <2> QED BY <2>3 DEF SlaveFits
<1> QED BY <1>1, <1>2, BadBus

\* The checks of the constructor are those of SensorFits.
LEMMA GoodSensor ==
  ASSUME NEW su \in SetupType, NEW i \in DOMAIN su.slaves, NEW j \in SensorsOf(su, i),
         DOMAIN enc = Known(su, Encoders, Calls(su)),
         DOMAIN dec = Known(su, Decoders, Calls(su))
  PROVE  LET s == su.slaves[i].sensors[j] IN
         SensorFits(su, s) <=> s.readable /\ HasFunctions(s.type, s.size) /\ Coded(s)
<1> DEFINE s == su.slaves[i].sensors[j]
<1>1. s.type \in {"SDO", "RPDO", "TPDO"} BY SlaveParts DEF SensorType
<1>2. HasFunctions(s.type, s.size) <=>
        s.size \in {1, 2, 4, 8} \/ (s.size = 5 /\ s.type = "SDO")
  BY <1>1 DEF HasFunctions
<1>3. Coded(s) <=> /\ s.type \in {"SDO", "TPDO"} => s.format \in Known(su, Encoders, Calls(su))
                   /\ s.type \in {"SDO", "RPDO"} => s.format \in Known(su, Decoders, Calls(su))
  BY <1>1 DEF Coded
<1> QED BY <1>2, <1>3 DEF SensorFits

LEMMA AddSensorStep ==
  ASSUME IInv, AddSensor
  PROVE  IInv'
<1> DEFINE i == at[1]
           j == at[2]
           s == setup.slaves[i].sensors[j]
           uid == setup.slaves[i].uid
           good == /\ s.readable /\ HasFunctions(s.type, s.size) /\ Coded(s)
                   /\ ~HasVerb(<<uid, s.uid>>)
<1>1. setup \in SetupType BY SetupsAssumption DEF IInv, Place
<1>2. /\ pc = "sensor" /\ Building /\ i \in DOMAIN setup.slaves /\ i \in Nat /\ j \in Nat
      /\ at = <<i, j>> /\ at \in Nat \X Nat /\ setup.slaves[i].readable
      /\ j \in SensorsOf(setup, i) /\ j # 0
  BY <1>1, SlaveParts DEF IInv, Place, AddSensor, Building, slave
<1>3. setup' = setup /\ enc' = enc /\ dec' = dec /\ entry' = entry /\ slaves' = slaves
  BY DEF AddSensor
<1>4. alive = Objects(setup, "sensor", at) /\ verbs = VerbsFor(setup, alive)
  BY <1>2 DEF IInv, Bus
<1>5. /\ DOMAIN enc = Known(setup, Encoders, Calls(setup))
      /\ DOMAIN dec = Known(setup, Decoders, Calls(setup))
  BY <1>2 DEF IInv, Codecs
<1>6. SensorFits(setup, s) <=> s.readable /\ HasFunctions(s.type, s.size) /\ Coded(s)
  BY <1>1, <1>2, <1>5, GoodSensor
<1>7. CASE ~good /\ Throw
  <2>1. CASE ~SensorFits(setup, s)
    <3>1. ~BusFits(setup) BY <1>1, <1>2, <2>1, BadSensor
    <3> QED BY <1>2, <1>3, <1>7, <3>1, ThrowStep
  <2>2. CASE SensorFits(setup, s)
    <3>1. HasVerb(<<uid, s.uid>>) BY <1>6, <1>7, <2>2
    <3>2. PICK v \in verbs : v.name = <<uid, s.uid>> BY <3>1 DEF HasVerb
    <3>3. PICK p \in alive : /\ p[2] # 0 /\ setup.slaves[p[1]].readable
                             /\ setup.slaves[p[1]].uid = uid
                             /\ setup.slaves[p[1]].sensors[p[2]].uid = s.uid
      <4>1. v \in VerbsFor(setup, alive) BY <1>4
      <4> HIDE DEF s, uid
      <4> QED BY <3>2, <4>1, SensorName
    <3>4. /\ p[1] \in DOMAIN setup.slaves
          /\ p[2] \in SensorsOf(setup, p[1])
          /\ p[1] = i => p[2] < j
      BY <1>1, <1>2, <1>4, <3>3, ObjectParts
    <3>5. p[1] = i => p[2] # j BY <1>2, <3>4
    <3>6. ~BusFits(setup)
      <4>1. CASE p[1] = i
        <5>1. p[2] \in SensorsOf(setup, i) /\ p[2] # j BY <3>4, <3>5, <4>1
        <5>2. setup.slaves[i].sensors[p[2]].uid = setup.slaves[i].sensors[j].uid
          BY <3>3, <4>1
        <5> HIDE DEF i, j
        <5> QED BY <1>1, <1>2, <5>1, <5>2, BadSensor
      <4>2. CASE p[1] # i BY <1>2, <3>3, <3>4, <4>2, BadBus
      <4> QED BY <4>1, <4>2
    <3> QED BY <1>2, <1>3, <1>7, <3>6, ThrowStep
  <2> QED BY <2>1, <2>2
<1>8. CASE /\ good /\ AddVerb(<<uid, s.uid>>, at) /\ alive' = alive \cup {at}
           /\ at' = <<i, j + 1>> /\ pc' = "sensor"
  <2>1. Plugins' /\ Codecs' /\ Early' /\ FilesFound' BY <1>2, <1>3, <1>8, BusFrame
  <2>2. VerbOf(setup, at) = [name |-> <<uid, s.uid>>, of |-> at] BY <1>2 DEF VerbOf
  <2>3. verbs' = verbs \cup {VerbOf(setup, at)} BY <1>8, <2>2 DEF AddVerb
  <2>4. verbs' = VerbsFor(setup, alive') BY <1>2, <1>4, <1>8, <2>3, OneMoreVerb
  <2>5. VerbOf(setup, at).name = <<uid, s.uid>> /\ VerbOf(setup, at).of = at BY <2>2
  <2>6. OneOwner' BY <1>8, <2>3, <2>5, OneMoreOwner DEF IInv
  <2> DEFINE next == <<i, j + 1>>
  <2>15. /\ alive' = alive \cup {at} /\ at' = next /\ pc' = "sensor"
         /\ next[1] = i /\ next[2] = j + 1
    BY <1>8
  <2>16. next \in Nat \X Nat BY <1>2
  <2>7. alive' = Objects(setup, pc', at')
    <3>1. Objects(setup, "sensor", next) = Objects(setup, "sensor", <<i, j>>) \cup {<<i, j>>}
      BY <1>1, <1>2, SensorObjects
    <3> HIDE DEF i, j, next
    <3> QED BY <1>2, <1>4, <2>15, <3>1
  <2>8. Bus' BY <1>3, <1>8, <2>4, <2>7 DEF Bus
  <2>9. Fits'
    <3>1. SensorFits(setup, s) BY <1>6, <1>8
    <3>2. <<i, 0>> \in alive /\ <<i, 0>>[1] = i BY <1>1, <1>2, <1>4, InObjects
    <3>3. \A p \in alive : /\ setup.slaves[p[1]].nodId \in 1..127
                           /\ p[2] # 0 => SensorFits(setup, setup.slaves[p[1]].sensors[p[2]])
      BY <1>2 DEF IInv, Fits
    <3>4. setup.slaves[i].nodId \in 1..127 BY <3>2, <3>3
    <3> QED BY <1>3, <1>8, <3>1, <3>3, <3>4 DEF Fits
  <2>10. Distinct' BY <1>2, <1>3, <1>8 DEF IInv, Distinct
  <2>11. Recorded'
    <3>1. at'[1] = i BY <1>8
    <3> QED BY <1>2, <1>3, <1>8, <3>1 DEF IInv, Recorded
  <2>12. Rejected' BY <1>8 DEF Rejected
  <2>13. Place'
    <3>1. at'[1] = i /\ at'[2] = j + 1 /\ at' \in Nat \X Nat BY <2>15, <2>16
    <3>2. j + 1 \in 1..(Len(setup.slaves[i].sensors) + 1) BY <1>1, <1>2, SlaveParts
    <3>3. i \in 1..(Len(setup.slaves) + 1) BY <1>1, <1>2, SlaveParts
    <3>4. setup \in Setups /\ j + 1 >= 1 /\ i >= 1
      BY <1>1, <1>2, SlaveParts DEF IInv, Place
    <3> HIDE DEF i, j, next
    <3> QED BY <1>2, <1>3, <2>15, <3>1, <3>2, <3>3, <3>4 DEF Place, Building
  <2>14. TypeOK'
    <3>1. at' \in Nat \X Nat BY <2>15, <2>16
    <3>2. alive' \subseteq Nat \X Nat BY <1>2, <1>8 DEF IInv, TypeOK
    <3>3. \A k \in ToSet(slaves') : k \in DOMAIN setup'.slaves /\ <<k, 0>> \in alive'
      BY <1>3, <1>8 DEF IInv, TypeOK
    <3>4. /\ entry' \in [Files -> EntryType]
          /\ DOMAIN enc' \subseteq Formats /\ DOMAIN dec' \subseteq Formats
      BY <1>3 DEF IInv, TypeOK
    <3>5. \A v \in verbs' : v.of \in Nat \X Nat
      BY <1>2, <2>3, <2>5 DEF IInv, TypeOK
    <3> QED BY <1>8, <3>1, <3>2, <3>3, <3>4, <3>5 DEF TypeOK
  <2> QED BY <2>1, <2>6, <2>8, <2>9, <2>10, <2>11, <2>12, <2>13, <2>14 DEF IInv
<1>9. \/ ~good /\ Throw
      \/ /\ good /\ AddVerb(<<uid, s.uid>>, at) /\ alive' = alive \cup {at}
         /\ at' = <<i, j + 1>> /\ pc' = "sensor"
  BY <1>2 DEF AddSensor, slave, sensor, SensorVerb
<1> QED BY <1>7, <1>8, <1>9

LEMMA EndSensorsStep ==
  ASSUME IInv, EndSensors
  PROVE  IInv'
<1>1. setup \in SetupType BY SetupsAssumption DEF IInv, Place
<1>2. /\ pc = "sensor" /\ pc' = "record" /\ at[1] \in DOMAIN setup.slaves
      /\ at = <<at[1], at[2]>> /\ at[2] \in Nat
      /\ at[2] > Len(setup.slaves[at[1]].sensors)
      /\ UNCHANGED <<setup, at, enc, dec, entry, verbs, alive, slaves>>
  BY DEF IInv, Place, EndSensors, slave
<1>3. Plugins' /\ Codecs' /\ Early' /\ FilesFound' BY <1>2, BusFrame
<1>4. alive = Objects(setup, "sensor", at) /\ verbs = VerbsFor(setup, alive)
  BY <1>2 DEF IInv, Bus, Building
<1>5. Objects(setup, "record", at) = Objects(setup, "sensor", at)
  BY <1>1, <1>2, EndObjects
<1>6. Bus' BY <1>2, <1>4, <1>5 DEF Bus
<1>7. Fits' BY <1>2 DEF IInv, Fits, Building
<1>8. Distinct' BY <1>2 DEF IInv, Distinct, Building
<1>9. Recorded' BY <1>2 DEF IInv, Recorded, Building
<1>10. OneOwner' /\ Rejected' BY <1>2 DEF IInv, OneOwner, Rejected
<1>11. Place' BY <1>2 DEF IInv, Place, Building
<1>12. TypeOK' BY <1>2 DEF IInv, TypeOK
<1> QED BY <1>3, <1>6, <1>7, <1>8, <1>9, <1>10, <1>11, <1>12 DEF IInv

LEMMA Appended ==
  ASSUME NEW list \in Seq(Nat), NEW i \in Nat
  PROVE  Append(list, i) \in Seq(Nat) /\ ToSet(Append(list, i)) = ToSet(list) \cup {i}
<1>1. /\ Append(list, i) \in Seq(Nat) /\ Len(Append(list, i)) = Len(list) + 1
      /\ \A k \in 1..Len(list) : Append(list, i)[k] = list[k]
      /\ Append(list, i)[Len(list) + 1] = i /\ Len(list) \in Nat
  OBVIOUS
<1>2. DOMAIN list = 1..Len(list) /\ DOMAIN Append(list, i) = 1..(Len(list) + 1)
  BY <1>1
<1>3. ASSUME NEW x
      PROVE  x \in ToSet(Append(list, i)) <=> x \in ToSet(list) \/ x = i
  <2>1. ASSUME x \in ToSet(Append(list, i)) PROVE x \in ToSet(list) \/ x = i
    <3>1. PICK k \in 1..(Len(list) + 1) : x = Append(list, i)[k]
      BY <1>2, <2>1 DEF ToSet
    <3>2. CASE k = Len(list) + 1 BY <1>1, <3>1, <3>2
    <3>3. CASE k \in 1..Len(list) BY <1>1, <1>2, <3>1, <3>3 DEF ToSet
    <3> QED BY <1>1, <3>2, <3>3
  <2>2. ASSUME x \in ToSet(list) PROVE x \in ToSet(Append(list, i))
    <3>1. PICK k \in 1..Len(list) : x = list[k] BY <1>2, <2>2 DEF ToSet
    <3>2. k \in 1..(Len(list) + 1) /\ x = Append(list, i)[k] BY <1>1, <3>1
    <3> QED BY <1>2, <3>2 DEF ToSet
  <2>3. ASSUME x = i PROVE x \in ToSet(Append(list, i))
    <3>1. Len(list) + 1 \in 1..(Len(list) + 1) BY <1>1
    <3> QED BY <1>1, <1>2, <2>3, <3>1 DEF ToSet
  <2> QED BY <2>1, <2>2, <2>3
<1> QED BY <1>1, <1>3

LEMMA NotEmpty ==
  ASSUME NEW list \in Seq(Nat)
  PROVE  list = <<>> <=> ToSet(list) = {}
<1>1. list # <<>> => 1 \in DOMAIN list OBVIOUS
<1> QED BY <1>1, NoElement DEF ToSet

LEMMA RecordStep ==
  ASSUME IInv, Record
  PROVE  IInv'
<1> DEFINE i == at[1]
<1>1. setup \in SetupType BY SetupsAssumption DEF IInv, Place
<1>2. /\ pc = "record" /\ Building /\ i \in DOMAIN setup.slaves /\ i \in Nat
      /\ at = <<i, at[2]>> /\ at \in Nat \X Nat
      /\ setup' = setup /\ enc' = enc /\ dec' = dec /\ entry' = entry
      /\ verbs' = verbs /\ alive' = alive
  BY <1>1, SlaveParts DEF IInv, Place, Record, Building
<1>3. /\ alive = Objects(setup, "record", at) /\ verbs = VerbsFor(setup, alive)
      /\ slaves \in Seq(Nat) /\ ToSet(slaves) = {k \in DOMAIN setup.slaves : k < i}
      /\ \A k, l \in ToSet(slaves) : k # l => setup.slaves[k].readable
  BY <1>2 DEF IInv, Bus, Recorded
<1>4. \A k \in ToSet(slaves) : k \in DOMAIN setup.slaves /\ k # i
  BY <1>1, <1>2, <1>3, SlaveParts
<1>5. OneOwner' BY <1>2 DEF IInv, OneOwner
<1>6. CASE /\ slaves # <<>> /\ (NoUid(i) \/ \E k \in ToSet(slaves) : NoUid(k))
           /\ pc' = "terminated" /\ at' = at /\ slaves' = slaves
  <2>1. PICK k \in ToSet(slaves) :
          ~setup.slaves[k].readable \/ ~setup.slaves[i].readable
    <3>1. \E k \in ToSet(slaves) : TRUE BY <1>3, <1>6, NotEmpty
    <3> QED BY <1>6, <3>1 DEF NoUid
  <2>2. ~BusFits(setup) BY <1>2, <1>4, <2>1, BadBus
  <2>3. Rejected' BY <1>2, <2>2 DEF Rejected
  <2>4. Plugins' /\ Codecs' /\ Early' /\ FilesFound' BY <1>2, <1>6, BusFrame
  <2>5. Bus' /\ Fits' /\ Distinct' BY <1>6 DEF Bus, Fits, Distinct, Building
  <2>6. Recorded' BY <1>3, <1>6 DEF Recorded, Building
  <2>7. Place' BY <1>2, <1>6 DEF IInv, Place, Building
  <2>8. TypeOK' BY <1>2, <1>6 DEF IInv, TypeOK
  <2> QED BY <1>5, <2>3, <2>4, <2>5, <2>6, <2>7, <2>8 DEF IInv
<1>7. CASE /\ slaves = <<>> \/ (~NoUid(i) /\ \A k \in ToSet(slaves) : ~NoUid(k))
           /\ slaves' = Append(slaves, i) /\ pc' = "slave" /\ at' = <<i + 1, 1>>
  <2> DEFINE next == <<i + 1, 1>>
  <2>1. slaves' \in Seq(Nat) /\ ToSet(slaves') = ToSet(slaves) \cup {i}
    BY <1>2, <1>3, <1>7, Appended
  <2>2. /\ at' = next /\ pc' = "slave" /\ next[1] = i + 1 /\ next[2] = 1
        /\ next \in Nat \X Nat
    BY <1>2, <1>7
  <2>3. Plugins' /\ Codecs' /\ Early' /\ FilesFound' BY <1>2, <2>2, BusFrame
  <2>4. Bus'
    <3>1. Objects(setup, "slave", next) = Objects(setup, "record", <<i, at[2]>>)
      BY <1>1, <1>2, RecordObjects
    <3>2. alive' = Objects(setup, "slave", next) BY <1>2, <1>3, <3>1
    <3> HIDE DEF i, next
    <3> QED BY <1>2, <1>3, <2>2, <3>2 DEF Bus
  <2>5. Fits' /\ Distinct'
    <3>1. Fits' BY <1>2, <2>2 DEF IInv, Fits
    <3>2. Distinct' BY <1>2, <2>2 DEF IInv, Distinct
    <3> QED BY <3>1, <3>2
  <2>6. Recorded'
    <3>1. \A k \in DOMAIN setup.slaves : k < i + 1 <=> k < i \/ k = i
      BY <1>1, <1>2, SlaveParts
    <3>2. ToSet(slaves') = {k \in DOMAIN setup.slaves : k < i + 1}
      BY <1>2, <1>3, <2>1, <3>1
    <3>3. \A k, l \in ToSet(slaves') : k # l => setup.slaves[k].readable
      <4>1. CASE slaves = <<>>
        <5>1. ToSet(slaves') = {i} BY <2>1, <4>1, NoElement
        <5> QED BY <5>1
      <4>2. CASE ~NoUid(i) /\ \A k \in ToSet(slaves) : ~NoUid(k)
        BY <2>1, <4>2 DEF NoUid
      <4> QED BY <1>7, <4>1, <4>2
    <3> QED BY <1>2, <2>1, <2>2, <3>2, <3>3 DEF Recorded
  <2>7. Rejected' BY <2>2 DEF Rejected
  <2>8. Place'
    <3>1. i + 1 \in 1..(Len(setup.slaves) + 1) BY <1>1, <1>2, SlaveParts
    <3>2. i + 1 >= 1 /\ setup \in Setups BY <1>2 DEF IInv, Place
    <3> HIDE DEF i, next
    <3> QED BY <1>2, <2>2, <3>1, <3>2 DEF Place, Building
  <2>9. TypeOK'
    <3>1. <<i, 0>> \in alive BY <1>2, <1>3, InObjects
    <3>2. \A k \in ToSet(slaves') : k \in DOMAIN setup.slaves /\ <<k, 0>> \in alive
      BY <1>2, <2>1, <3>1 DEF IInv, TypeOK
    <3>3. /\ alive' \subseteq Nat \X Nat /\ entry' \in [Files -> EntryType]
          /\ DOMAIN enc' \subseteq Formats /\ DOMAIN dec' \subseteq Formats
          /\ \A v \in verbs' : v.of \in Nat \X Nat
      BY <1>2 DEF IInv, TypeOK
    <3> QED BY <1>2, <2>2, <3>2, <3>3 DEF TypeOK
  <2> QED BY <1>5, <2>3, <2>4, <2>5, <2>6, <2>7, <2>8, <2>9 DEF IInv
<1>8. \/ /\ slaves # <<>> /\ (NoUid(i) \/ \E k \in ToSet(slaves) : NoUid(k))
         /\ pc' = "terminated" /\ at' = at /\ slaves' = slaves
      \/ /\ slaves = <<>> \/ (~NoUid(i) /\ \A k \in ToSet(slaves) : ~NoUid(k))
         /\ slaves' = Append(slaves, i) /\ pc' = "slave" /\ at' = <<i + 1, 1>>
  BY DEF Record
<1> QED BY <1>6, <1>7, <1>8

LEMMA ServeStep ==
  ASSUME IInv, Serve
  PROVE  IInv'
<1>1. setup \in SetupType BY SetupsAssumption DEF IInv, Place
<1>2. /\ pc = "slave" /\ pc' = "serving" /\ at[1] > Len(setup.slaves)
      /\ UNCHANGED <<setup, at, enc, dec, entry, verbs, alive, slaves>>
  BY DEF Serve
<1>3. Plugins' /\ Codecs' /\ Early' /\ FilesFound' BY <1>2, BusFrame
<1>4. Bus' BY <1>2, ServeObjects DEF IInv, Bus, Building
<1>5. Fits' BY <1>2 DEF IInv, Fits, Building
<1>6. Distinct' BY <1>2 DEF IInv, Distinct, Building
<1>7. Recorded' BY <1>2 DEF IInv, Recorded, Building
<1>8. OneOwner' /\ Rejected' BY <1>2 DEF IInv, OneOwner, Rejected
<1>9. Place'
  <2>1. at[1] = Len(setup.slaves) + 1
    BY <1>1, <1>2, SlaveParts DEF IInv, Place, Building
  <2> QED BY <1>2, <2>1 DEF IInv, Place, Building
<1>10. TypeOK' BY <1>2 DEF IInv, TypeOK
<1> QED BY <1>3, <1>4, <1>5, <1>6, <1>7, <1>8, <1>9, <1>10 DEF IInv

LEMMA NextInv == IInv /\ [Next]_vars => IInv'
<1> SUFFICES ASSUME IInv, [Next]_vars PROVE IInv' OBVIOUS
<1>1. CASE Declare BY <1>1, DeclareStep
<1>2. CASE Declared BY <1>2, DeclaredStep
<1>3. CASE RootVerbsAdded BY <1>3, RootVerbsAddedStep
<1>4. CASE Open BY <1>4, OpenStep
<1>5. CASE StartSlave BY <1>5, StartSlaveStep
<1>6. CASE AddSensor BY <1>6, AddSensorStep
<1>7. CASE EndSensors BY <1>7, EndSensorsStep
<1>8. CASE Record BY <1>8, RecordStep
<1>9. CASE Serve BY <1>9, ServeStep
<1>10. CASE UNCHANGED vars
  <2>1. /\ setup' = setup /\ pc' = pc /\ at' = at /\ enc' = enc /\ dec' = dec
        /\ entry' = entry /\ verbs' = verbs /\ alive' = alive /\ slaves' = slaves
    BY <1>10 DEF vars
  <2>2. TypeOK' /\ OneOwner' /\ Rejected' BY <2>1 DEF IInv, TypeOK, OneOwner, Rejected
  <2>3. Place' /\ Early' BY <2>1 DEF IInv, Place, Early, Building
  <2>4. Plugins' /\ Codecs' BY <2>1 DEF IInv, Plugins, Codecs, Building
  <2>5. Bus' /\ Fits' BY <2>1 DEF IInv, Bus, Fits, Building
  <2>6. Distinct' /\ Recorded' BY <2>1 DEF IInv, Distinct, Recorded, Building
  <2>7. FilesFound' BY <2>1 DEF IInv, FilesFound, Found
  <2> QED BY <2>2, <2>3, <2>4, <2>5, <2>6, <2>7 DEF IInv
<1> QED BY <1>1, <1>2, <1>3, <1>4, <1>5, <1>6, <1>7, <1>8, <1>9, <1>10 DEF Next

THEOREM Invariance == Spec => []IInv
BY InitInv, NextInv, PTL DEF Spec

-----------------------------------------------------------------------------
(* What holds of every configuration.                                      *)

\* The types of the variables; a slave that is recorded exists.
THEOREM TypeCorrect == Spec => []TypeOK
<1>1. IInv => TypeOK BY DEF IInv
<1> QED BY <1>1, Invariance, PTL

\* In the end, every slave and every sensor of the configuration exists.
LEMMA AllBuilt ==
  ASSUME IInv, pc = "serving"
  PROVE  /\ \A i \in DOMAIN setup.slaves :
              /\ <<i, 0>> \in alive
              /\ setup.slaves[i].readable =>
                   \A j \in SensorsOf(setup, i) : <<i, j>> \in alive
         /\ verbs = VerbsFor(setup, alive)
<1>1. setup \in SetupType BY SetupsAssumption DEF IInv, Place
<1>2. at[1] = Len(setup.slaves) + 1 /\ alive = Objects(setup, "serving", at)
  BY DEF IInv, Place, Bus, Building
<1>3. ASSUME NEW i \in DOMAIN setup.slaves
      PROVE  i < at[1] /\ i \in Nat
  BY <1>1, <1>2, SlaveParts
<1>4. ASSUME NEW i \in DOMAIN setup.slaves
      PROVE  <<i, 0>> \in alive
  BY <1>2, <1>3, InObjects
<1>5. ASSUME NEW i \in DOMAIN setup.slaves, setup.slaves[i].readable,
             NEW j \in SensorsOf(setup, i)
      PROVE  <<i, j>> \in alive
  <2>1. <<i, j>> \in Nat \X (Nat \ {0}) BY <1>1, <1>3, SlaveParts
  <2> QED BY <1>2, <1>3, <1>5, <2>1, InObjects
<1>6. verbs = VerbsFor(setup, alive) BY DEF IInv, Bus, Building
<1> QED BY <1>4, <1>5, <1>6

\* No verb has two owners; when the binding serves, each owner exists.
THEOREM LiveVerbs == Spec => []VerbsLive
<1>1. IInv => VerbsLive
  <2> SUFFICES ASSUME IInv PROVE VerbsLive OBVIOUS
  <2>1. \A v, w \in verbs : v.name = w.name => v = w BY DEF IInv, OneOwner
  <2>2. ASSUME pc = "serving", NEW v \in verbs
        PROVE  v.of \in alive \cup {Root}
    BY <2>2, AllBuilt, InVerbsFor, RootNames, VerbNames
  <2> QED BY <2>1, <2>2 DEF VerbsLive
<1> QED BY <1>1, Invariance, PTL

\* The binding that serves has the verbs of all that is configured.
THEOREM AllServed == Spec => []Complete
<1>1. IInv => Complete
  <2> SUFFICES ASSUME IInv, pc = "serving", NEW i \in DOMAIN setup.slaves,
                      setup.slaves[i].readable
               PROVE  LET s == setup.slaves[i] IN
                      /\ [name |-> <<s.uid>>, of |-> <<i, 0>>] \in verbs
                      /\ \A j \in DOMAIN s.sensors :
                           [name |-> <<s.uid, s.sensors[j].uid>>, of |-> <<i, j>>] \in verbs
    BY DEF Complete
  <2>1. setup \in SetupType BY SetupsAssumption DEF IInv, Place
  <2>2. [name |-> <<setup.slaves[i].uid>>, of |-> <<i, 0>>] \in verbs
    <3>1. VerbOf(setup, <<i, 0>>) = [name |-> <<setup.slaves[i].uid>>, of |-> <<i, 0>>]
      BY DEF VerbOf
    <3>2. <<i, 0>> \in alive /\ <<i, 0>>[1] = i BY AllBuilt
    <3>3. VerbOf(setup, <<i, 0>>) \in VerbsFor(setup, alive) BY <3>2, InVerbsFor
    <3> QED BY <3>1, <3>3, AllBuilt
  <2>3. ASSUME NEW j \in DOMAIN setup.slaves[i].sensors
        PROVE  [name |-> <<setup.slaves[i].uid, setup.slaves[i].sensors[j].uid>>,
                of |-> <<i, j>>] \in verbs
    <3>1. j \in SensorsOf(setup, i) /\ j # 0 BY <2>1, SlaveParts DEF SensorsOf
    <3>2. VerbOf(setup, <<i, j>>) =
            [name |-> <<setup.slaves[i].uid, setup.slaves[i].sensors[j].uid>>,
             of |-> <<i, j>>]
      BY <3>1 DEF VerbOf
    <3>3. <<i, j>> \in alive /\ <<i, j>>[1] = i BY <3>1, AllBuilt
    <3>4. VerbOf(setup, <<i, j>>) \in VerbsFor(setup, alive) BY <3>3, InVerbsFor
    <3> QED BY <3>2, <3>4, AllBuilt
  <2> QED BY <2>2, <2>3
<1> QED BY <1>1, Invariance, PTL

LEMMA ServedFits ==
  ASSUME IInv, pc = "serving"
  PROVE  BusFits(setup)
<1>1. setup \in SetupType BY SetupsAssumption DEF IInv, Place
<1>2. \A o \in alive :
        /\ setup.slaves[o[1]].nodId \in 1..127
        /\ o[2] # 0 => SensorFits(setup, setup.slaves[o[1]].sensors[o[2]])
  BY DEF IInv, Fits, Building
<1>3. \A v, w \in verbs : v.name = w.name => v = w BY DEF IInv, OneOwner
<1>4. \A o \in alive : setup.slaves[o[1]].readable => VerbOf(setup, o) \in verbs
  BY AllBuilt, InVerbsFor
<1>5. ASSUME NEW i \in DOMAIN setup.slaves
      PROVE  /\ <<i, 0>> \in alive /\ <<i, 0>>[1] = i /\ <<i, 0>>[2] = 0
             /\ setup.slaves[i].readable =>
                  /\ VerbOf(setup, <<i, 0>>) \in verbs
                  /\ VerbOf(setup, <<i, 0>>).name = <<setup.slaves[i].uid>>
                  /\ VerbOf(setup, <<i, 0>>).of = <<i, 0>>
  <2>1. <<i, 0>> \in alive /\ <<i, 0>>[1] = i /\ <<i, 0>>[2] = 0 BY AllBuilt
  <2>2. setup.slaves[i].readable => VerbOf(setup, <<i, 0>>) \in verbs BY <1>4, <2>1
  <2>3. /\ VerbOf(setup, <<i, 0>>).of = <<i, 0>>
        /\ VerbOf(setup, <<i, 0>>).name = <<setup.slaves[i].uid>>
    BY <2>1, VerbNames
  <2> QED BY <2>1, <2>2, <2>3
<1>6. ASSUME NEW i \in DOMAIN setup.slaves
      PROVE  setup.slaves[i].nodId \in 1..127
  BY <1>2, <1>5
<1>7. ASSUME NEW i \in DOMAIN setup.slaves
      PROVE  SlaveFits(setup, setup.slaves[i])
  <2> DEFINE s == setup.slaves[i]
             f == UidsOf(s.sensors)
  <2> SUFFICES ASSUME s.readable
               PROVE  /\ s.uid \notin RootVerbs /\ IsInjective(f)
                      /\ \A j \in DOMAIN s.sensors : SensorFits(setup, s.sensors[j])
    BY DEF SlaveFits
  <2>1. ASSUME s.uid \in RootVerbs PROVE FALSE
    <3>1. [name |-> <<s.uid>>, of |-> Root] \in verbs
      BY <2>1, AllBuilt, InVerbsFor DEF RootVerbsOf
    <3> DEFINE v == [name |-> <<s.uid>>, of |-> Root]
    <3>3. v.name = VerbOf(setup, <<i, 0>>).name /\ v.of = Root BY <1>5
    <3>4. v = VerbOf(setup, <<i, 0>>) BY <1>3, <1>5, <3>1, <3>3
    <3>2. <<i, 0>> = Root BY <1>5, <3>3, <3>4
    <3> QED BY <1>1, <3>2, SlaveParts DEF Root
  <2>2. ASSUME NEW j \in DOMAIN s.sensors
        PROVE  /\ j # 0 /\ <<i, j>> \in alive /\ <<i, j>>[1] = i /\ <<i, j>>[2] = j
               /\ VerbOf(setup, <<i, j>>) \in verbs
               /\ VerbOf(setup, <<i, j>>).of = <<i, j>>
               /\ VerbOf(setup, <<i, j>>).name = <<s.uid, s.sensors[j].uid>>
    <3>1. j \in SensorsOf(setup, i) /\ j # 0 BY <1>1, SlaveParts DEF SensorsOf
    <3>2. <<i, j>> \in alive /\ <<i, j>>[1] = i /\ <<i, j>>[2] = j BY <3>1, AllBuilt
    <3>3. VerbOf(setup, <<i, j>>) \in verbs BY <1>4, <3>2
    <3> QED BY <3>1, <3>2, <3>3, VerbNames
  <2>3. \A j \in DOMAIN s.sensors : SensorFits(setup, s.sensors[j]) BY <1>2, <2>2
  <2>4. ASSUME NEW j \in DOMAIN s.sensors, NEW k \in DOMAIN s.sensors,
               s.sensors[j].uid = s.sensors[k].uid
        PROVE  j = k
    <3>1. VerbOf(setup, <<i, j>>).name = VerbOf(setup, <<i, k>>).name BY <2>2, <2>4
    <3>2. VerbOf(setup, <<i, j>>) = VerbOf(setup, <<i, k>>) BY <1>3, <2>2, <3>1
    <3>3. <<i, j>> = <<i, k>> BY <2>2, <3>2
    <3> QED BY <3>3
  <2>5. IsInjective(f)
    <3>1. DOMAIN f = DOMAIN s.sensors /\ \A j \in DOMAIN f : f[j] = s.sensors[j].uid
      BY DEF UidsOf
    <3> QED BY <2>4, <3>1 DEF IsInjective
  <2> QED BY <2>1, <2>3, <2>5
<1>8. ASSUME NEW i \in DOMAIN setup.slaves, NEW k \in DOMAIN setup.slaves, i # k
      PROVE  /\ setup.slaves[i].nodId # setup.slaves[k].nodId
             /\ setup.slaves[i].readable /\ setup.slaves[k].readable
             /\ setup.slaves[i].uid # setup.slaves[k].uid
  <2>1. <<i, 0>> # <<k, 0>> BY <1>8
  <2>2. \A o, p \in alive : o[2] = 0 /\ p[2] = 0 /\ o # p =>
          setup.slaves[o[1]].nodId # setup.slaves[p[1]].nodId
    BY DEF IInv, Distinct, Building
  <2>3. setup.slaves[i].nodId # setup.slaves[k].nodId BY <1>5, <2>1, <2>2
  <2>4. i \in ToSet(slaves) /\ k \in ToSet(slaves)
    <3>1. ToSet(slaves) = {l \in DOMAIN setup.slaves : l < at[1]}
      BY DEF IInv, Recorded, Building
    <3>2. at[1] = Len(setup.slaves) + 1 BY DEF IInv, Place
    <3> QED BY <1>1, <3>1, <3>2, SlaveParts
  <2>5. setup.slaves[i].readable /\ setup.slaves[k].readable
    BY <1>8, <2>4 DEF IInv, Recorded, Building
  <2>6. ASSUME setup.slaves[i].uid = setup.slaves[k].uid PROVE FALSE
    <3>1. VerbOf(setup, <<i, 0>>).name = VerbOf(setup, <<k, 0>>).name
      BY <1>5, <2>5, <2>6
    <3>2. VerbOf(setup, <<i, 0>>) = VerbOf(setup, <<k, 0>>) BY <1>3, <1>5, <2>5, <3>1
    <3> QED BY <1>5, <2>1, <2>5, <3>2
  <2> QED BY <2>3, <2>5, <2>6
<1> QED BY <1>6, <1>7, <1>8 DEF BusFits

\* The binding serves what fits, and rejects what does not.
THEOREM Verdicts == Spec => []Verdict
<1>1. IInv => Verdict
  <2> SUFFICES ASSUME IInv PROVE Verdict OBVIOUS
  <2>1. pc = "serving" => PluginsFit(setup) BY DEF IInv, Codecs, Building
  <2>2. pc = "serving" => BusFits(setup) BY ServedFits
  <2>3. pc \in {"failed", "terminated"} => ~(PluginsFit(setup) /\ BusFits(setup))
    BY DEF IInv, Rejected
  <2> QED BY <2>1, <2>2, <2>3 DEF Verdict
<1> QED BY <1>1, Invariance, PTL

\* Which of the files that the DCF requires are found, and which are not.
THEOREM FirstFileOnly == Spec => []FilesFound
<1>1. IInv => FilesFound BY DEF IInv
<1> QED BY <1>1, Invariance, PTL

\* A format keeps its first codec.
Kept ==
  /\ \A f \in DOMAIN enc : f \in DOMAIN enc' /\ enc'[f] = enc[f]
  /\ \A f \in DOMAIN dec : f \in DOMAIN dec' /\ dec'[f] = dec[f]

THEOREM FirstCodecStays == Spec => CodecsStay
<1>1. [Next]_vars => [Kept]_vars
  <2> SUFFICES ASSUME [Next]_vars PROVE Kept OBVIOUS
  <2>1. ASSUME NEW table, NEW formats, NEW f \in DOMAIN table
        PROVE  f \in DOMAIN Added(table, formats) /\ Added(table, formats)[f] = table[f]
    BY DEF Added
  <2>2. CASE Declare
    <3>1. PICK formats : \/ enc' = Added(enc, formats) /\ dec' = dec
                         \/ dec' = Added(dec, formats) /\ enc' = enc
      BY <2>2 DEF Declare
    <3> QED BY <2>1, <3>1 DEF Kept
  <2>3. CASE UNCHANGED <<enc, dec>> BY <2>3 DEF Kept
  <2>4. Declare \/ UNCHANGED <<enc, dec>>
    BY DEF Next, vars, Declared, RootVerbsAdded, Open, StartSlave, AddSensor, EndSensors,
           Record, Serve
  <2> QED BY <2>2, <2>3, <2>4
<1> QED BY <1>1, PTL DEF Spec, CodecsStay, Kept
=============================================================================
