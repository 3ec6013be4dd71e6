----------------------- MODULE MCCANopenSubscriptions -----------------------
(* Small sets of queries for CANopenSubscriptions.                         *)
EXTENDS CANopenSubscriptions

CONSTANTS s1, s2, s3, c1, c2

Pattern(matched) == [kind |-> "pattern", matches |-> matched]
Bad == [kind |-> "bad", matches |-> {}]
Query(v, c, i) == [verb |-> v, client |-> c, items |-> i]

\* No parameter (or null), one string, arrays of one to three items.
Lists == {<<Null>>, <<Bad>>, <<Pattern({s1})>>, <<Pattern({s1, s3})>>,
          <<Bad, Pattern({s2})>>, <<Pattern({s1}), Null>>,
          <<Pattern({s1}), Bad, Pattern({s1, s2})>>}

OneOfEach ==
  {Query(v, c, i) : v \in {"subscribe", "unsubscribe"}, c \in Clients, i \in Lists}
  \cup {Query(v, c1, <<Null>>) : v \in {"other", "invalid"}}

EmptyArray == {Query("subscribe", c1, <<>>), Query("other", c1, <<Null>>)}
=============================================================================
