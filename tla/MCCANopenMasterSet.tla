------------------------- MODULE MCCANopenMasterSet -------------------------
(* Small configurations and queries for CANopenMasterSet.                  *)
EXTENDS CANopenMasterSet, SequencesExt

CONSTANTS o1, o2, v1, v2

Bus(u, i, a) == [uid |-> u, index |-> i, add |-> a]
Valid(u, i) == Bus(u, i, "ok")

\* No bus, any bus, any two buses, and one whose channel cannot be opened.
AnyBuses == SeqOf({Bus(u, 0, a) : u \in Uids, a \in {"ok", "wrong", "fails"}}, 2)
              \cup {<<Bus("u1", 0, "throws")>>}
TwoBuses == {<<Valid("u1", 1), Valid("u2", 2)>>}

\* o1 is an INTEGER8 and o2 an UNSIGNED16, read as such only.
Typed(sign, width) == [sign |-> sign, width |-> width]
ExactFits == {<<Typed("i", 8), o1>>, <<Typed("u", 16), o2>>}

\* Items that are read, and items asked as the type that the object has, as one of
\* another width, or as none.
At(i, o, t) == [itf |-> i, obj |-> o, type |-> t]
First(i) == At(i, o1, Typed("u", 8))
Second(i) == At(i, o2, Typed("i", 16))
Items == {<<>>, <<First(0)>>, <<First(0), Second(0)>>,
          <<Second(0), At(0, Zero, Typed("u", 8)), First(0)>>,
          <<First(0), At(0, o1, Typed("i", 8)), At(0, o2, Typed("i", 32))>>,
          <<First(0), At(0, o1, NoScalar)>>, <<First(0), First(1)>>, <<First(4)>>}
Gets == [form : {"invalid", "alloc", "client"}, items : Items]
OneGet == {[form |-> "client", items |-> <<First(0)>>]}
=============================================================================
