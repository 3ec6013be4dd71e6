--------------------------- MODULE CANopenCodecs ----------------------------
(***************************************************************************)
(* What the codecs of a sensor do to the numbers and the bits that go      *)
(* through them: JSON to m_currentVal (encoders), m_currentVal to the      *)
(* register (write functions), the register to m_currentVal (read          *)
(* functions), m_currentVal to JSON (decoders).  A word is the set of its  *)
(* bits at 1, and integers are cut where the code cuts them; a byte has    *)
(* Byte bits, so that TLC computes with the four sizes of the code.  The   *)
(* operations follow one another: their interleavings are those of         *)
(* CANopenSensor.                                                          *)
(***************************************************************************)
EXTENDS Integers, FiniteSetsExt

CONSTANTS
  Byte,        \* bits of a byte, 8 in the code
  Inputs,      \* digital inputs the plugin decodes, 4 in the code
  Formats,     \* the formats tried: "int", "uint", "kp4" or "kp2"
  Numbers,     \* the numbers clients write
  Masks,       \* the masks clients write under, and the arrays of booleans
  Registers    \* the words the device may put in its register

ASSUME ByteAssumption == Byte \in Nat \ {0} /\ Inputs \in 0..Byte
ASSUME FormatsAssumption == Formats \subseteq {"int", "uint", "kp4", "kp2"}
ASSUME NumbersAssumption == Numbers \subseteq Int

\* The keys of the function tables that stand for numbers.
Sizes == {1, 2, 4, 8}

Bits(size) == 0..(size * Byte - 1)

ASSUME MasksAssumption == Masks \subseteq SUBSET Bits(4)
ASSUME RegistersAssumption == Registers \subseteq SUBSET Bits(8)

VARIABLES
  format,      \* m_format
  size,        \* m_size
  cur,         \* m_currentVal, a word of 8 bytes
  reg,         \* the register
  asked,       \* history: the last write, if it gave a whole value
  said,        \* history: what the read after it said
  changed      \* history: the register changed since the binding last saw it

vars == <<format, size, cur, reg, asked, said, changed>>

-----------------------------------------------------------------------------
(* Words and integers.                                                     *)

\* The two's complement of n, cut at a size.
Word(n, s) == {i \in Bits(s) : (n \div 2^i) % 2 = 1}

\* The integer that the bits of w are, from the sums of its low bits.
Unsigned(w) ==
  LET sums[i \in 0..(8 * Byte)] ==
        IF i = 0 THEN 0 ELSE sums[i - 1] + (IF i - 1 \in w THEN 2^(i - 1) ELSE 0)
  IN sums[8 * Byte]

\* The integer of s bytes that the low bits of w are.
Signed(w, s) ==
  Unsigned(w \cap Bits(s)) - IF s * Byte - 1 \in w THEN 2^(s * Byte) ELSE 0

MaxInt32 == 2^(4 * Byte - 1) - 1
MinInt32 == -(2^(4 * Byte - 1))

\* COdataType of an int32_t: the sign fills the upper half.
Extended(w) ==
  IF 4 * Byte - 1 \in w THEN w \cup (Bits(8) \ Bits(4)) ELSE w

\* json_object_get_int: a number of JSON that is too large is the largest one.
Saturated(n) ==
  Word(IF n > MaxInt32 THEN MaxInt32 ELSE IF n < MinInt32 THEN MinInt32 ELSE n, 4)

\* Mutant: a string saturates as a number does.
FromStringSaturates(n) == Saturated(n)

\* The branch of get_data_int32 for strings: strtol, cut at 32 bits.
FromString(n) == Word(n, 4)

\* get_data_int32.
GetDataInt32(notation, n) ==
  IF notation = "string" THEN FromString(n) ELSE Saturated(n)

-----------------------------------------------------------------------------
(* Masks of the plugin.                                                    *)

Low == Bits(1)

\* setBoolArrayFromIntMask: or with the mask, and with 0xFF ^ mask.
IntMask(w, on, mask) ==
  IF on THEN (w \cap Bits(4)) \cup mask ELSE w \cap Bits(4) \cap SymDiff(Low, mask)

\* Mutant: each element of the mask starts from 0.
ArrayMaskForgets(w, on, mask) ==
  IF on THEN mask
  ELSE {b \in w \cap Bits(4) : \A i \in mask : b \in SymDiff(Low, {i})}

\* setBoolArrayFromArrayMask: the same for each element that is true, in turn.
ArrayMask(w, on, mask) ==
  IF on THEN (w \cap Bits(4)) \cup mask
  ELSE {b \in w \cap Bits(4) : \A i \in mask : b \in SymDiff(Low, {i})}

\* The word under either form of a mask.
Masked(w, on, mask, form) ==
  IF form = "array" THEN ArrayMask(w, on, mask) ELSE IntMask(w, on, mask)

-----------------------------------------------------------------------------
(* Decoders.                                                               *)

Flag(w, i) == IF i \in w THEN 1 ELSE 0

\* Mutant: the decoder of unsigned numbers is the one of signed numbers.
DecodeSigned(w) ==
  CASE format \in {"int", "uint"} -> <<Signed(w, 4)>>
    [] format = "kp4"  -> [i \in 1..Inputs |-> Flag(w, i - 1)]
    [] format = "kp2"  -> <<Unsigned(w \cap Bits(2)),
                            Unsigned({i - 2 * Byte : i \in (w \cap Bits(4)) \ Bits(2)})>>

\* decodeInt, decodeUint and the two decoders of the plugin, as the list of the
\* numbers they give.
Decode(w) ==
  CASE format = "int"  -> <<Signed(w, 4)>>
    [] format = "uint" -> <<Signed(w, 8)>>
    [] format = "kp4"  -> [i \in 1..Inputs |-> Flag(w, i - 1)]
    [] format = "kp2"  -> <<Unsigned(w \cap Bits(2)),
                            Unsigned({i - 2 * Byte : i \in (w \cap Bits(4)) \ Bits(2)})>>

-----------------------------------------------------------------------------
(* Operations.                                                             *)

Nothing == [how |-> "none", number |-> 0, bools |-> {}]
AskedType == [how : {"none", "number", "string", "bools"}, number : Int,
              bools : SUBSET Bits(4)]

TypeOK ==
  /\ format \in Formats
  /\ size \in Sizes
  /\ cur \subseteq Bits(8)
  /\ reg \subseteq Bits(size)
  /\ asked \in AskedType
  /\ changed \in BOOLEAN

\* The register has a value the binding does not know.
Init ==
  /\ format \in Formats
  /\ size \in Sizes
  /\ cur = {}
  /\ \E w \in Registers : reg = w \cap Bits(size)
  /\ asked = Nothing /\ said = <<>>
  /\ changed = TRUE

\* Mutant: the register gets the word uncut.
WriteUncut(w, what) ==
  /\ cur' = w
  /\ reg' = w
  /\ asked' = what /\ said' = <<>>
  /\ changed' = FALSE
  /\ UNCHANGED <<format, size>>

\* Mutant: only the bits that are set get out.
WriteOrs(w, what) ==
  /\ cur' = w
  /\ reg' = reg \cup (w \cap Bits(size))
  /\ asked' = what /\ said' = <<>>
  /\ changed' = FALSE
  /\ UNCHANGED <<format, size>>

\* m_currentVal takes the word, the write function cuts it at the size of the
\* register.
Write(w, what) ==
  /\ cur' = w
  /\ reg' = w \cap Bits(size)
  /\ asked' = what /\ said' = <<>>
  /\ changed' = FALSE
  /\ UNCHANGED <<format, size>>

\* encodeInt of a number in one of its notations.
WriteInteger(n, notation) ==
  /\ format \in {"int", "uint"}
  /\ Write(Extended(GetDataInt32(notation, n)),
           [Nothing EXCEPT !.how = notation, !.number = n])

\* The encoder of the plugin: an integer or an array of booleans, bare or as the
\* value of an object without mask.
WriteValue(n) ==
  /\ format = "kp4"
  /\ Write(Extended(Saturated(n)), [Nothing EXCEPT !.how = "number", !.number = n])

WriteBools(bools) ==
  /\ format = "kp4"
  /\ Write(bools, [how |-> "bools", number |-> 0, bools |-> bools])

\* ... a boolean and a mask, ...
WriteMasked(on, mask, form) ==
  /\ format = "kp4"
  /\ Write(Masked(cur, on, mask, form), Nothing)

\* ... or anything else: what m_currentVal holds is written again.
WriteUnknown ==
  /\ format = "kp4"
  /\ Write(cur, Nothing)

\* Mutant: the bits above the register are those of the last value.
ReadDirty ==
  /\ cur' = (cur \ Bits(size)) \cup reg
  /\ said' = Decode(cur')
  /\ changed' = FALSE
  /\ UNCHANGED <<format, size, reg, asked>>

\* The read functions are of unsigned types: the upper bits are cleared.
Read ==
  /\ cur' = reg
  /\ said' = Decode(cur')
  /\ changed' = FALSE
  /\ UNCHANGED <<format, size, reg, asked>>

\* The device changes its register.
DeviceChange(w) ==
  /\ reg' = w \cap Bits(size)
  /\ asked' = Nothing /\ said' = <<>>
  /\ changed' = TRUE
  /\ UNCHANGED <<format, size, cur>>

Next ==
  \/ \E n \in Numbers, notation \in {"number", "string"} : WriteInteger(n, notation)
  \/ \E n \in Numbers : WriteValue(n)
  \/ \E mask \in Masks :
       \/ WriteBools(mask)
       \/ \E on \in BOOLEAN, form \in {"int", "array"} : WriteMasked(on, mask, form)
  \/ WriteUnknown
  \/ Read
  \/ \E w \in Registers : DeviceChange(w)

Spec == Init /\ [][Next]_vars

-----------------------------------------------------------------------------
(* What holds.                                                             *)

Numeric == asked.how \in {"number", "string"}

\* The numbers that a sensor gives back as they were written.
Kept ==
  IF size < 4 THEN 0..(2^(size * Byte) - 1)
  ELSE IF format = "uint" /\ size = 4
       THEN 0..(IF asked.how = "string" THEN 2^(4 * Byte) - 1 ELSE MaxInt32)
       ELSE MinInt32..MaxInt32

\* A number written to a sensor is read back as it was if and only if it is in
\* Kept: because the read functions are unsigned a negative number is lost in an
\* "int" sensor of one or two bytes and kept in a "uint" one of eight, and above
\* 31 bits the notation of the number decides.
ReadsBack ==
  Numeric /\ format # "kp4" /\ said # <<>>
    => (said = <<asked.number>> <=> asked.number \in Kept)

\* Whatever the encoder, the notation and the size, the register gets the two's
\* complement of a number of 32 bits with sign, cut at its size; from a string,
\* of a number of 32 bits without sign too, up to four bytes.
RegisterGets ==
  /\ Numeric
  /\ asked.number \in MinInt32..(IF asked.how = "string" /\ size <= 4
                                 THEN 2^(4 * Byte) - 1 ELSE MaxInt32)
  => reg = Word(asked.number, size)

\* The booleans written by the plugin are the ones it reads back, for each input
\* and each size, whatever was in the register.
BoolsReadBack ==
  asked.how = "bools" /\ said # <<>>
    => \A i \in 1..Inputs : said[i] = 1 <=> i - 1 \in asked.bools

\* A masked write, that works on m_currentVal, changes in the register the bits
\* under its mask and no other, in both forms of the mask, provided that the
\* register did not change since the binding last saw it and that it fits in 32
\* bits (set) or 8 bits (cleared).  To clear with an integer mask, 8 bits are
\* the exact limit: above, the other bits are cleared and those under the mask
\* are not.
Exact(on, mask) ==
  reg' = (IF on THEN reg \cup (mask \cap Bits(size)) ELSE reg \ mask)

Fits(on) == reg \subseteq (IF on THEN Bits(4) ELSE Low)

MaskStep ==
  \A on \in BOOLEAN, mask \in Masks, form \in {"int", "array"} :
    WriteMasked(on, mask, form) /\ ~changed =>
      /\ Fits(on) => Exact(on, mask)
      /\ form = "int" /\ Exact(on, mask) => Fits(on)

MaskLands == [][MaskStep]_vars

\* The bits of the register a format shows.
Shown == IF format = "kp4" THEN 0..(Inputs - 1)
         ELSE IF format = "uint" THEN Bits(8) ELSE Bits(4)

\* What a read says tells the register: two words get the same answer if and only
\* if they are the same in the bits the format shows.
ReadTells ==
  said # <<>> =>
    \A w \in Registers :
      Decode(w \cap Bits(size)) = said <=> w \cap Bits(size) \cap Shown = reg \cap Shown
=============================================================================
