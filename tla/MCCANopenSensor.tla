-------------------------- MODULE MCCANopenSensor ---------------------------
(* Small instances of one sensor. *)
EXTENDS CANopenSensor

CONSTANTS b1, b9, b33, c1

NoData == [how |-> "keep", bits |-> {}]
Q(action, data, client) == [action |-> action, data |-> data, client |-> client]
Write(how, bits) == Q("write", [how |-> how, bits |-> bits], c1)

\* Every action but write, and no action.
OtherQueries ==
  {Q(a, NoData, c1) : a \in {"read", "subscribe", "unsubscribe", "none"}}

\* A plain write, one that a mask clears, and one that the encoder throws on.
SomeWrites == {Write("set", {b1}), Write("off", {b1}), Write("bad", {})}

\* Every write, under every mask in every form.
AllWrites ==
  {Write("set", bits) : bits \in SUBSET Bits}
    \cup {Write(how, bits) : how \in {"on", "off", "clear"}, bits \in SUBSET WordBits}
    \cup {Write(how, {}) : how \in {"keep", "bad"}}

AllQueries == OtherQueries \cup SomeWrites \cup AllWrites

\* Only what an RPDO does.
RpdoQueries ==
  {Q(a, NoData, c1) : a \in {"read", "subscribe", "unsubscribe"}}

-----------------------------------------------------------------------------
(* Inputs by type of sensor: what is written under masks is for the TPDO   *)
(* sensor, that has them on its object at once; to the others a value is   *)
(* one bit.  A type of sensor refuses what it has no function for.         *)

MCInit == Init /\ (kind # "TPDO" => reg \subseteq {b1})

Writes == IF kind = "TPDO" THEN AllWrites ELSE SomeWrites

Inputs ==
  /\ api'.pc # "idle" => api'.query \in OtherQueries \cup Writes
  /\ kind # "TPDO" => reg' \subseteq {b1} /\ loop'.val \subseteq {b1}

MCNext == Next /\ Inputs

MCSpec == MCInit /\ [][MCNext]_vars /\ Fairness
=============================================================================
