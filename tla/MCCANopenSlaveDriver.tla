------------------------ MODULE MCCANopenSlaveDriver ------------------------
(* Small instances of one slave. *)
EXTENDS CANopenSlaveDriver

\* Every list of at most two items, and some longer ones with items to skip
\* before, between and after the written ones, or a null among them.
AllOnconfs ==
  UNION {[1..n -> ItemKinds] : n \in 0..2}
    \cup {<<"skip", "skip", "write">>, <<"write", "skip", "write">>,
          <<"write", "write", "skip">>, <<"write", "skip", "size">>,
          <<"write", "null", "write">>, <<"skip", "write", "null">>}
=============================================================================
