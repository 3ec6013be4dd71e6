--------------------------- MODULE MCCANopenSetup ----------------------------
(* Configurations made of one part that varies and of others that fit.      *)
EXTENDS CANopenSetup

CONSTANTS d1, d2, f1, f2

NameSet == {"a", "b", "info"}
FormatSet == BuiltIn \cup {"kp4", "kp2"}

Call(call, formats) == [call |-> call, formats |-> formats]

\* The plugin of the repository, and others that use the other calls.
Kp == [calls |-> <<Call("decs", <<"kp4", "kp2">>), Call("enc", <<"kp4">>)>>, ok |-> TRUE]
Lists == [calls |-> <<Call("encs", <<"int", "kp2">>), Call("decs", <<"kp2">>)>>, ok |-> TRUE]
Single == [calls |-> <<Call("enc", <<"kp4">>), Call("dec", <<"kp4">>)>>, ok |-> TRUE]
EncoderOnly == [calls |-> <<Call("enc", <<"kp2">>)>>, ok |-> TRUE]
Other == [calls |-> <<>>, ok |-> TRUE]
Broken == [calls |-> <<Call("decs", <<"kp4">>)>>, ok |-> FALSE]

PluginLists ==
  {<<>>} \cup {<<p>> : p \in {Kp, Lists, Single, EncoderOnly, Other, Broken}}
    \cup {<<p, q>> : p, q \in {Kp, Lists, EncoderOnly, Other}}

SensorOf(readable, uid, type, size, format) ==
  [readable |-> readable, uid |-> uid, type |-> type, size |-> size, format |-> format]

SomeSensors ==
  {SensorOf(TRUE, "a", type, size, format) :
     type \in {"SDO", "RPDO", "TPDO"}, size \in {1, 5}, format \in {"int", "kp4", "kp2"}}
  \cup {SensorOf(FALSE, "a", "SDO", 1, "int"), SensorOf(TRUE, "b", "SDO", 4, "uint"),
        SensorOf(TRUE, "a", "TPDO", 3, "int")}

Two == [readable |-> TRUE, uid |-> "b", nodId |-> 2,
        sensors |-> <<SensorOf(TRUE, "a", "SDO", 5, "string")>>]

SlaveOf(readable, uid, nodId, sensors) ==
  [readable |-> readable, uid |-> uid, nodId |-> nodId, sensors |-> sensors]

SlaveLists ==
  {<<SlaveOf(TRUE, "a", 1, list)>> : list \in {<<s>> : s \in SomeSensors}}
  \cup {<<Two, SlaveOf(TRUE, "a", 1, <<SensorOf(TRUE, "b", "SDO", 4, "uint"), s>>)>> :
          s \in SomeSensors}
  \cup {<<SlaveOf(readable, uid, nodId, <<>>)>> :
          readable \in BOOLEAN, uid \in NameSet, nodId \in {0, 1, 127, 128}}
  \cup {<<Two, SlaveOf(readable, uid, nodId, <<>>)>> :
          readable \in BOOLEAN, uid \in NameSet, nodId \in {0, 1, 2}}
  \cup {<<SlaveOf(FALSE, "a", nodId, <<>>), Two>> : nodId \in {1, 2}}

NoFiles == [d \in {d1, d2} |-> {}]
Nothing == [f \in {f1, f2} |-> "none"]

SomeSetups ==
  {[plugins |-> p, dir |-> d2, upload |-> <<>>, present |-> NoFiles, left |-> Nothing,
    slaves |-> s] : p \in PluginLists, s \in SlaveLists}
  \cup
  {[plugins |-> p, dir |-> d, upload |-> upload, present |-> present, left |-> left,
    slaves |-> <<Two>>] :
     p \in {<<>>, <<Broken>>}, d \in {d1, d2}, upload \in {<<f1>>, <<f1, f2>>, <<f1, f2, f1>>},
     present \in [{d1, d2} -> SUBSET {f1, f2}],
     left \in [{f1, f2} -> {"none", "file", d1, d2}]}
=============================================================================
