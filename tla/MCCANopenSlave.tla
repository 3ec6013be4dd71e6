--------------------------- MODULE MCCANopenSlave ----------------------------
(* Two sensors on one register, of the pairs of kinds that read it or that  *)
(* only write it, and lists of items that end in each way.                  *)
EXTENDS CANopenSlave, TLC

CONSTANTS b1, x, c1, r1, r2

NoData == [how |-> "keep", bits |-> {}]
Ask(action) == [action |-> action, data |-> NoData, client |-> c1]

\* One client subscribes, another request follows.
SlaveAsks ==
  r1 :> {Ask("subscribe")} @@
  r2 :> {Ask("read"), Ask("unsubscribe"),
         [action |-> "write", data |-> [how |-> "set", bits |-> {b1}], client |-> c1],
         [action |-> "write", data |-> [how |-> "bad", bits |-> {}], client |-> c1]}

On1(k, l) == <<[kind |-> k, id |-> x], [kind |-> l, id |-> x]>>
Item(kind, val) == [kind |-> kind, id |-> x, val |-> val]
Set == Item("write", {b1})
Clear == Item("write", {})
Skip == Item("skip", {})
Null == Item("null", {})

SomeSlaves ==
  {[sensors |-> On1("SDO", "SDO"), onconf |-> <<Clear>>],
   [sensors |-> On1("RPDO", "RPDO"), onconf |-> <<Item("size", {})>>],
   [sensors |-> On1("TPDO", "TPDO"), onconf |-> <<Set, Skip, Clear, Null>>]}
=============================================================================
