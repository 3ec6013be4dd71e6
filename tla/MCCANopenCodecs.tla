-------------------------- MODULE MCCANopenCodecs ---------------------------
(* Bytes of 3 bits: the registers have 3, 6, 12 and 24 bits, int32_t has 12. *)
EXTENDS CANopenCodecs

\* The limits of each size, with and without sign, and their neighbours.
Limits ==
  {-(2^11) - 1, -(2^11), -33, -32, -5, -4, -1, 0, 1, 3, 4, 7, 8, 31, 32, 63, 64,
   2^11 - 1, 2^11, 2^12 - 1, 2^12, 2^22}

\* Nothing, one bit or several, in the first byte and above.
SomeMasks == {{}, {0}, {1, 2}, {2, 3}, {4, 7}, {11}}

SomeRegisters == {Word(n, 8) : n \in {0, -1, 5, 8, 2^11, 2^23 - 1}}
=============================================================================
