------------------------- MODULE CANopenCodecsProof -------------------------
(***************************************************************************)
(* What the codecs do to numbers and bits, for bytes of any width, any     *)
(* registers, any numbers and any masks.  Masked writes land as MaskLands  *)
(* says, because between two changes of the device m_currentVal agrees     *)
(* with the register on all of its bits (Agrees).  Numbers and booleans    *)
(* arrive and come back as RegisterGets, ReadsBack, BoolsReadBack and      *)
(* ReadTells say, because the register is the word of the last write, cut, *)
(* and the last answer its decoding (Records); from there on all is        *)
(* arithmetic, and as the provers know nothing of 2^n that starts from the *)
(* number of the subsets of a set.                                         *)
(***************************************************************************)
EXTENDS CANopenCodecs, FiniteSetTheorems, NaturalsInduction, WellFoundedInduction, TLAPS

\* The cached word is the register, as far as the register goes, until the device
\* changes it.
Agrees == ~changed => cur \cap Bits(size) = reg

Inv == TypeOK /\ Agrees

\* The sizes are nested.
LEMMA BitsNested ==
  /\ Low \subseteq Bits(4) /\ Bits(4) \subseteq Bits(8)
  /\ \A s \in Sizes : Low \subseteq Bits(s) /\ Bits(s) \subseteq Bits(8)
BY ByteAssumption DEF Low, Bits, Sizes

\* What the encoders give is a word of eight bytes.
LEMMA WordTypes ==
  /\ \A n, s : Word(n, s) \subseteq Bits(s)
  /\ \A n, notation : Extended(GetDataInt32(notation, n)) \subseteq Bits(8)
  /\ \A n : Extended(Saturated(n)) \subseteq Bits(8)
<1>1. \A n, s : Word(n, s) \subseteq Bits(s)
  BY DEF Word
<1>2. \A n : Saturated(n) \subseteq Bits(4) /\ FromString(n) \subseteq Bits(4)
  BY <1>1 DEF Saturated, FromString
<1>3. \A n, notation : GetDataInt32(notation, n) \subseteq Bits(4)
  BY <1>2 DEF GetDataInt32
<1>4. \A w : w \subseteq Bits(4) => Extended(w) \subseteq Bits(8)
  BY BitsNested DEF Extended
<1>. QED  BY <1>1, <1>2, <1>3, <1>4

\* Setting or clearing bits under a mask gives a word of four bytes.
LEMMA MaskTypes ==
  ASSUME NEW w, NEW on \in BOOLEAN, NEW mask \in Masks
  PROVE  IntMask(w, on, mask) \subseteq Bits(4) /\ ArrayMask(w, on, mask) \subseteq Bits(4)
BY MasksAssumption DEF IntMask, ArrayMask

\* A write keeps the invariant, whatever word it writes.
LEMMA WriteInv ==
  ASSUME TypeOK, NEW w \in SUBSET Bits(8), NEW what \in AskedType, Write(w, what)
  PROVE  Inv'
BY DEF Write, Inv, TypeOK, Agrees

LEMMA Initial == Init => Inv
BY FormatsAssumption DEF Init, Inv, TypeOK, Agrees, Nothing, AskedType, Bits

LEMMA Inductive == Inv /\ [Next]_vars => Inv'
<1>. SUFFICES ASSUME Inv, [Next]_vars
              PROVE  Inv'
  OBVIOUS
<1>. USE DEF Inv
<1>0. Nothing \in AskedType
  BY DEF Nothing, AskedType
<1>1. ASSUME NEW n \in Numbers, NEW notation \in {"number", "string"},
             WriteInteger(n, notation)
      PROVE  Inv'
  <2>1. [Nothing EXCEPT !.how = notation, !.number = n] \in AskedType
    BY NumbersAssumption DEF Nothing, AskedType
  <2>. QED  BY <1>1, <2>1, WordTypes, WriteInv DEF WriteInteger
<1>2. ASSUME NEW n \in Numbers, WriteValue(n)
      PROVE  Inv'
  <2>1. [Nothing EXCEPT !.how = "number", !.number = n] \in AskedType
    BY NumbersAssumption DEF Nothing, AskedType
  <2>. QED  BY <1>2, <2>1, WordTypes, WriteInv DEF WriteValue
<1>3. ASSUME NEW mask \in Masks, WriteBools(mask)
      PROVE  Inv'
  <2>1. [how |-> "bools", number |-> 0, bools |-> mask] \in AskedType
    BY MasksAssumption DEF AskedType
  <2>2. mask \in SUBSET Bits(8)
    BY MasksAssumption, BitsNested
  <2>. QED  BY <1>3, <2>1, <2>2, WriteInv DEF WriteBools
<1>4. ASSUME NEW mask \in Masks, NEW on \in BOOLEAN, NEW form \in {"int", "array"},
             WriteMasked(on, mask, form)
      PROVE  Inv'
  <2>1. Masked(cur, on, mask, form) \in SUBSET Bits(8)
    BY MaskTypes, BitsNested DEF Masked
  <2>2. Write(Masked(cur, on, mask, form), Nothing)
    BY <1>4 DEF WriteMasked
  <2>. QED  BY <1>0, <2>1, <2>2, WriteInv
<1>5. CASE WriteUnknown
  BY <1>0, <1>5, WriteInv DEF WriteUnknown, TypeOK
<1>6. CASE Read
  <2>1. reg \subseteq Bits(8)
    BY BitsNested DEF TypeOK
  <2>. QED  BY <1>6, <2>1 DEF Read, TypeOK, Agrees
<1>7. ASSUME NEW w \in Registers, DeviceChange(w)
      PROVE  Inv'
  BY <1>0, <1>7 DEF DeviceChange, TypeOK, Agrees
<1>8. CASE UNCHANGED vars
  BY <1>8 DEF vars, TypeOK, Agrees
<1>. QED  BY <1>1, <1>2, <1>3, <1>4, <1>5, <1>6, <1>7, <1>8 DEF Next

\* The words and the history of a sensor are well typed, for any width of a byte.
THEOREM TypeCorrect == Spec => []TypeOK
<1>1. Spec => []Inv
  BY Initial, Inductive, PTL DEF Spec
<1>. QED  BY <1>1, PTL DEF Inv

-----------------------------------------------------------------------------

\* What a mask does to the s low bytes of w when they are r.
Effect(w, r, s, mask, form) ==
  /\ r \subseteq Bits(4)
       => Masked(w, TRUE, mask, form) \cap Bits(s) = r \cup (mask \cap Bits(s))
  /\ Masked(w, TRUE, mask, "int") \cap Bits(s) = r \cup (mask \cap Bits(s))
       => r \subseteq Bits(4)
  /\ r \subseteq Low => Masked(w, FALSE, mask, form) \cap Bits(s) = r \ mask
  /\ Masked(w, FALSE, mask, "int") \cap Bits(s) = r \ mask => r \subseteq Low

\* Both forms of a mask, on a word that agrees with the register.
LEMMA MaskEffect ==
  ASSUME NEW w, NEW r, NEW s \in Sizes, NEW mask \in Masks, NEW form \in {"int", "array"},
         r = w \cap Bits(s)
  PROVE  Effect(w, r, s, mask, form)
<1>0. mask \subseteq Bits(4) /\ Low \subseteq Bits(4)
  BY MasksAssumption, BitsNested
<1>1. Masked(w, TRUE, mask, form) = (w \cap Bits(4)) \cup mask
  BY DEF Masked, ArrayMask, IntMask
<1>2. Masked(w, TRUE, mask, "int") = (w \cap Bits(4)) \cup mask
  BY DEF Masked, IntMask
<1>3. Masked(w, FALSE, mask, "int") = w \cap Bits(4) \cap SymDiff(Low, mask)
  BY DEF Masked, IntMask
<1>4. Masked(w, FALSE, mask, "array")
        = {b \in w \cap Bits(4) : \A i \in mask : b \in SymDiff(Low, {i})}
  BY DEF Masked, ArrayMask
<1>5. r \subseteq Bits(4)
        => ((w \cap Bits(4)) \cup mask) \cap Bits(s) = r \cup (mask \cap Bits(s))
  BY <1>0
<1>6. ((w \cap Bits(4)) \cup mask) \cap Bits(s) = r \cup (mask \cap Bits(s))
        => r \subseteq Bits(4)
  BY <1>0
<1>7. r \subseteq Low => w \cap Bits(4) \cap SymDiff(Low, mask) \cap Bits(s) = r \ mask
  BY <1>0 DEF SymDiff
<1>8. w \cap Bits(4) \cap SymDiff(Low, mask) \cap Bits(s) = r \ mask => r \subseteq Low
  BY <1>0 DEF SymDiff
<1>9. ASSUME r \subseteq Low
      PROVE  {b \in w \cap Bits(4) : \A i \in mask : b \in SymDiff(Low, {i})} \cap Bits(s)
               = r \ mask
  <2>1. \A b \in r : (\A i \in mask : b \in SymDiff(Low, {i})) <=> b \notin mask
    BY <1>9 DEF SymDiff
  <2>2. r \subseteq Bits(4)
    BY <1>0, <1>9
  <2>. QED  BY <2>1, <2>2
<1>. QED  BY <1>1, <1>2, <1>3, <1>4, <1>5, <1>6, <1>7, <1>8, <1>9 DEF Effect

\* A masked write changes the bits under its mask and no other, up to the limits
\* that MaskLands gives, for any width of a byte, any register and any mask.
THEOREM MasksLand == Spec => MaskLands
<1>1. Spec => []Inv
  BY Initial, Inductive, PTL DEF Spec
<1>2. Inv => MaskStep
  <2>. SUFFICES ASSUME Inv, NEW on \in BOOLEAN, NEW mask \in Masks,
                       NEW form \in {"int", "array"},
                       WriteMasked(on, mask, form), ~changed
                PROVE  /\ Fits(on) => Exact(on, mask)
                       /\ form = "int" /\ Exact(on, mask) => Fits(on)
    BY DEF MaskStep
  <2>1. cur \cap Bits(size) = reg /\ size \in Sizes
    BY DEF Inv, TypeOK, Agrees
  <2>2. reg' = Masked(cur, on, mask, form) \cap Bits(size)
    BY DEF WriteMasked, Write
  <2>3. Effect(cur, reg, size, mask, form)
    BY <2>1, MaskEffect
  <2>4. CASE on = TRUE
    BY <2>2, <2>3, <2>4 DEF Exact, Fits, Effect
  <2>5. CASE on = FALSE
    BY <2>2, <2>3, <2>5 DEF Exact, Fits, Effect
  <2>. QED  BY <2>4, <2>5
<1>. QED  BY <1>1, <1>2, PTL DEF MaskLands

-----------------------------------------------------------------------------
(* Induction over the naturals, for a set of them: by its least element     *)
(* the complement of such a set is empty.                                   *)

LEMMA LessThan == OpToRel(<, Nat) = {p \in Nat \X Nat : p[1] < p[2]}
  BY Zenon DEF OpToRel

LEMMA Least ==
  ASSUME NEW T, T \subseteq Nat, T # {}
  PROVE  \E x \in T : \A y \in T : x <= y
<1>1. PICK x \in T : \A y \in T : <<y, x>> \notin OpToRel(<, Nat)
  BY NatLessThanWellFounded, WFMin
<1>2. \A y \in T : ~(y < x)
  BY <1>1, LessThan
<1>. QED  BY <1>2

\* What holds of 0, and of n + 1 when it holds of n, holds up to N.
LEMMA UpTo ==
  ASSUME NEW N \in Nat, NEW T, 0 \in T,
         \A n \in 0..(N - 1) : n \in T => n + 1 \in T
  PROVE  \A n \in 0..N : n \in T
<1>. DEFINE F == (0..N) \ T
<1>1. SUFFICES ASSUME F # {} PROVE FALSE
  OBVIOUS
<1>2. F \subseteq Nat
  OBVIOUS
<1>. HIDE DEF F
<1>3. PICK x \in F : \A y \in F : x <= y
  BY <1>1, <1>2, Least
<1>4. x \in 0..N /\ x \notin T /\ x # 0
  BY <1>3 DEF F
<1>5. x - 1 \in 0..(N - 1) /\ (x - 1) + 1 = x /\ x - 1 < x
  BY <1>4
<1>6. x - 1 \notin F
  BY <1>2, <1>3, <1>5
<1>7. x - 1 \in T
  BY <1>5, <1>6 DEF F
<1>. QED  BY <1>4, <1>5, <1>7

-----------------------------------------------------------------------------
(* Powers of two.                                                          *)

\* 2^n counts the sets of numbers below n.
Below(n) == SUBSET (0..(n - 1))

LEMMA PowerCounts ==
  ASSUME NEW n \in Nat
  PROVE  IsFiniteSet(Below(n)) /\ Cardinality(Below(n)) = 2^n
<1>1. IsFiniteSet(0..(n - 1)) /\ Cardinality(0..(n - 1)) = n
  BY FS_Interval
<1>. QED  BY <1>1, FS_SUBSET DEF Below

LEMMA PowerZero == 2^0 = 1
<1>1. Below(0) = {{}}
  BY DEF Below
<1>. QED  BY <1>1, PowerCounts, FS_Singleton

LEMMA PowerNext ==
  ASSUME NEW n \in Nat
  PROVE  2^(n + 1) = 2^n + 2^n
<1>. DEFINE A == Below(n)
            B == {s \in Below(n + 1) : n \in s}
            f == [s \in A |-> s \cup {n}]
<1>1. A \cup B = Below(n + 1) /\ A \cap B = {}
  <2>1. 0..((n + 1) - 1) = (0..(n - 1)) \cup {n} /\ n \notin 0..(n - 1)
    OBVIOUS
  <2>. QED  BY <2>1 DEF Below
<1>2. f \in Bijection(A, B)
  <2>1. 0..((n + 1) - 1) = (0..(n - 1)) \cup {n} /\ n \notin 0..(n - 1)
    OBVIOUS
  <2>2. f \in [A -> B]
    BY <2>1 DEF Below
  <2>3. \A s, t \in A : f[s] = f[t] => s = t
    BY <2>1 DEF Below
  <2>4. ASSUME NEW t \in B PROVE \E s \in A : f[s] = t
    <3>1. t \ {n} \in A /\ (t \ {n}) \cup {n} = t
      BY <2>1 DEF Below
    <3>. QED  BY <3>1
  <2>. QED  BY <2>2, <2>3, <2>4 DEF Bijection, Injection, IsInjective, Surjection
<1>3. IsFiniteSet(A) /\ Cardinality(A) = 2^n
  BY PowerCounts
<1>4. IsFiniteSet(B) /\ Cardinality(B) = 2^n
  BY <1>2, <1>3, FS_Bijection DEF ExistsBijection
<1>5. Cardinality(A \cup B) = Cardinality(A) + Cardinality(B) - Cardinality(A \cap B)
  BY <1>3, <1>4, FS_Union
<1>6. Cardinality(A \cap B) = 0
  BY <1>1, FS_EmptySet
<1>7. Cardinality(A) \in Nat
  BY <1>3, FS_CardinalityType
<1>8. 2^(n + 1) = Cardinality(A \cup B)
  <2>1. n + 1 \in Nat
    OBVIOUS
  <2>2. Cardinality(Below(n + 1)) = 2^(n + 1)
    BY <2>1, PowerCounts
  <2>. QED  BY <1>1, <2>2
<1>. QED  BY <1>3, <1>4, <1>5, <1>6, <1>7, <1>8

LEMMA PowerPositive ==
  ASSUME NEW n \in Nat
  PROVE  2^n \in Nat /\ 2^n > 0
<1>1. IsFiniteSet(Below(n)) /\ Cardinality(Below(n)) = 2^n
  BY PowerCounts
<1>2. Below(n) # {}
  BY DEF Below
<1>. QED  BY <1>1, <1>2, FS_CardinalityType, FS_EmptySet

\* The quotient and the remainder are the only ones.
LEMMA DivIs ==
  ASSUME NEW a \in Int, NEW b \in Nat, b > 0, NEW q \in Int, NEW r \in Int,
         0 <= r, r < b, a = b * q + r
  PROVE  a \div b = q /\ a % b = r
<1>. DEFINE p == a \div b
            t == a % b
<1>1. p \in Int /\ t \in Int /\ 0 <= t /\ t < b /\ a = b * p + t
  OBVIOUS
<1>. HIDE DEF p, t
<1>2. b * (p - q) = r - t
  BY <1>1
<1>3. p - q < 1
  <2>. SUFFICES ASSUME p - q >= 1 PROVE FALSE
    BY <1>1
  <2>1. b * (p - q) >= b
    BY <1>1
  <2>. QED  BY <1>1, <1>2, <2>1
<1>4. q - p < 1
  <2>. SUFFICES ASSUME q - p >= 1 PROVE FALSE
    BY <1>1
  <2>1. b * (q - p) >= b
    BY <1>1
  <2>2. b * (q - p) = t - r
    BY <1>1
  <2>. QED  BY <1>1, <2>1, <2>2
<1>5. p = q
  BY <1>1, <1>3, <1>4
<1>6. t = r
  BY <1>1, <1>5
<1>. QED  BY <1>5, <1>6 DEF p, t

LEMMA DivHas ==
  ASSUME NEW a \in Int, NEW b \in Nat, b > 0
  PROVE  /\ a \div b \in Int /\ a % b \in Int
         /\ 0 <= a % b /\ a % b < b
         /\ a = b * (a \div b) + (a % b)
<1>. DEFINE p == a \div b
            t == a % b
<1>1. p \in Int /\ t \in Int /\ 0 <= t /\ t < b /\ a = b * p + t
  OBVIOUS
<1>. QED  BY <1>1 DEF p, t
-----------------------------------------------------------------------------
(* The integer of a word is the last of the sums of its low bits.           *)

\* What bit i of w adds.
Weight(w, i) == IF i \in w THEN 2^i ELSE 0

\* The definition of the sums of w, and the sums.
NextSum(w, i, sums) ==
  IF i = 0 THEN 0 ELSE sums[i - 1] + (IF i - 1 \in w THEN 2^(i - 1) ELSE 0)

Sums(w) == CHOOSE sums : sums = [i \in 0..(8 * Byte) |-> NextSum(w, i, sums)]

LEMMA UnsignedIsSum ==
  ASSUME NEW w
  PROVE  Unsigned(w) = Sums(w)[8 * Byte]
BY DEF Unsigned, Sums, NextSum

LEMMA SumsExist ==
  ASSUME NEW w
  PROVE  Sums(w) = [i \in 0..(8 * Byte) |-> NextSum(w, i, Sums(w))]
<1>. DEFINE N == 8 * Byte
            Partial(m, f) == f = [n \in 0..m |-> NextSum(w, n, f)]
            T == {m \in 0..N : \E f : Partial(m, f)}
<1>0. N \in Nat
  BY ByteAssumption
<1>1. 0 \in T
  <2>. DEFINE f == [n \in 0..0 |-> 0]
  <2>1. Partial(0, f)
    BY DEF NextSum
  <2>. QED  BY <1>0, <2>1
<1>2. ASSUME NEW m \in 0..(N - 1), m \in T
      PROVE  m + 1 \in T
  <2>1. PICK f : Partial(m, f)
    BY <1>2
  <2>. DEFINE g == [n \in 0..(m + 1) |-> IF n = m + 1 THEN NextSum(w, m + 1, f) ELSE f[n]]
  <2>2. \A n \in 0..(m + 1) : NextSum(w, n, g) = NextSum(w, n, f)
    BY <1>0 DEF NextSum
  <2>3. \A n \in 0..m : f[n] = NextSum(w, n, f)
    BY <2>1
  <2>4. \A n \in 0..(m + 1) : g[n] = NextSum(w, n, g)
    BY <2>2, <2>3
  <2>5. \E h : Partial(m + 1, h)
    BY <2>4
  <2>6. m + 1 \in 0..N
    BY <1>0
  <2>. QED  BY <2>5, <2>6
<1>3. N \in T
  <2>. HIDE DEF T, N
  <2>1. \A n \in 0..N : n \in T
    BY <1>0, <1>1, <1>2, UpTo
  <2>. QED  BY <1>0, <2>1
<1>4. \E f : f = [n \in 0..N |-> NextSum(w, n, f)]
  BY <1>3
<1>. QED  BY <1>4 DEF Sums

\* Each sum adds one bit to the one before.
LEMMA SumsStep ==
  ASSUME NEW w
  PROVE  /\ Sums(w)[0] = 0
         /\ \A i \in 0..(8 * Byte - 1) : Sums(w)[i + 1] = Sums(w)[i] + Weight(w, i)
<1>. DEFINE N == 8 * Byte
<1>0. N \in Nat
  BY ByteAssumption
<1>1. \A i \in 0..N : Sums(w)[i] = NextSum(w, i, Sums(w))
  BY SumsExist
<1>. HIDE DEF N
<1>2. ASSUME NEW i \in 0..(N - 1)
      PROVE  Sums(w)[i + 1] = Sums(w)[i] + Weight(w, i)
  <2>1. i + 1 \in 0..N /\ i + 1 # 0 /\ (i + 1) - 1 = i
    BY <1>0
  <2>2. Sums(w)[i + 1] = NextSum(w, i + 1, Sums(w))
    BY <1>1, <2>1
  <2>. QED  BY <2>1, <2>2 DEF NextSum, Weight
<1>3. Sums(w)[0] = 0
  BY <1>0, <1>1 DEF NextSum
<1>. QED  BY <1>2, <1>3 DEF N

\* The i low bits make a number below 2^i.
LEMMA SumsBounded ==
  ASSUME NEW w
  PROVE  \A i \in 0..(8 * Byte) : Sums(w)[i] \in Nat /\ Sums(w)[i] < 2^i
<1>. DEFINE N == 8 * Byte
            T == {i \in 0..N : Sums(w)[i] \in Nat /\ Sums(w)[i] < 2^i}
<1>0. N \in Nat
  BY ByteAssumption
<1>s. /\ Sums(w)[0] = 0
      /\ \A i \in 0..(N - 1) : Sums(w)[i + 1] = Sums(w)[i] + Weight(w, i)
  BY SumsStep
<1>. HIDE DEF N
<1>1. 0 \in T
  BY <1>0, <1>s, PowerZero
<1>2. ASSUME NEW i \in 0..(N - 1), i \in T
      PROVE  i + 1 \in T
  <2>1. i \in Nat /\ i + 1 \in 0..N
    BY <1>0
  <2>2. 2^(i + 1) = 2^i + 2^i /\ 2^i \in Nat
    BY <2>1, PowerNext, PowerPositive
  <2>3. Weight(w, i) \in Nat /\ Weight(w, i) <= 2^i
    BY <2>2 DEF Weight
  <2>4. Sums(w)[i + 1] = Sums(w)[i] + Weight(w, i)
    BY <1>s
  <2>5. Sums(w)[i] \in Nat /\ Sums(w)[i] < 2^i
    BY <1>2
  <2>6. Sums(w)[i + 1] \in Nat /\ Sums(w)[i + 1] < 2^(i + 1)
    BY <2>2, <2>3, <2>4, <2>5
  <2>. QED  BY <2>1, <2>6
<1>3. \A i \in 0..N : i \in T
  <2>. HIDE DEF T
  <2>. QED  BY <1>0, <1>1, <1>2, UpTo
<1>. QED  BY <1>3 DEF N

\* Words have the same sum if and only if they have the same bits.
LEMMA SumsTell ==
  ASSUME NEW v, NEW w, NEW i \in 0..(8 * Byte)
  PROVE  Sums(v)[i] = Sums(w)[i] <=> \A k \in 0..(i - 1) : k \in v <=> k \in w
<1>. DEFINE N == 8 * Byte
            Alike(j) == \A k \in 0..(j - 1) : k \in v <=> k \in w
            T == {j \in 0..N : Sums(v)[j] = Sums(w)[j] <=> Alike(j)}
<1>0. N \in Nat
  BY ByteAssumption
<1>1. 0 \in T
  BY <1>0, SumsStep
<1>2. ASSUME NEW j \in 0..(N - 1), j \in T
      PROVE  j + 1 \in T
  <2>1. j \in Nat /\ j + 1 \in 0..N /\ j \in 0..N
    BY <1>0
  <2>2. 2^j \in Nat /\ 2^j > 0
    BY <2>1, PowerPositive
  <2>3. /\ Sums(v)[j + 1] = Sums(v)[j] + Weight(v, j)
        /\ Sums(w)[j + 1] = Sums(w)[j] + Weight(w, j)
    BY SumsStep
  <2>4. /\ Sums(v)[j] \in Nat /\ Sums(v)[j] < 2^j
        /\ Sums(w)[j] \in Nat /\ Sums(w)[j] < 2^j
    BY <2>1, SumsBounded
  <2>5. Sums(v)[j + 1] = Sums(w)[j + 1]
          <=> Sums(v)[j] = Sums(w)[j] /\ (j \in v <=> j \in w)
    BY <2>2, <2>3, <2>4 DEF Weight
  <2>6. Alike(j + 1) <=> Alike(j) /\ (j \in v <=> j \in w)
    <3>1. 0..((j + 1) - 1) = (0..(j - 1)) \cup {j}
      BY <2>1
    <3>. QED  BY <3>1
  <2>7. Sums(v)[j] = Sums(w)[j] <=> Alike(j)
    BY <1>2
  <2>. HIDE DEF Alike
  <2>. QED  BY <2>1, <2>5, <2>6, <2>7
<1>3. i \in T
  <2>. HIDE DEF T, N
  <2>1. \A n \in 0..N : n \in T
    BY <1>0, <1>1, <1>2, UpTo
  <2>. QED  BY <2>1 DEF N
<1>. QED  BY <1>3

\* Bits at 0 above bit j count for nothing.
LEMMA SumsAbove ==
  ASSUME NEW w, NEW j \in 0..(8 * Byte), NEW i \in j..(8 * Byte),
         \A k \in j..(8 * Byte - 1) : k \notin w
  PROVE  Sums(w)[i] = Sums(w)[j]
<1>. DEFINE N == 8 * Byte
            T == {m \in 0..N : m >= j => Sums(w)[m] = Sums(w)[j]}
<1>0. N \in Nat /\ j \in Nat
  BY ByteAssumption
<1>1. \A m \in 0..N : Sums(w)[m] \in Nat
  BY SumsBounded
<1>2. 0 \in T
  BY <1>0
<1>3. ASSUME NEW m \in 0..(N - 1), m \in T
      PROVE  m + 1 \in T
  <2>1. m \in Nat /\ m + 1 \in 0..N /\ m \in 0..N
    BY <1>0
  <2>2. CASE m >= j
    <3>1. Sums(w)[m + 1] = Sums(w)[m] + Weight(w, m)
      BY SumsStep
    <3>2. m \notin w
      BY <2>1, <2>2, <1>0
    <3>3. Sums(w)[m] = Sums(w)[j] /\ Sums(w)[m] \in Nat
      BY <1>1, <1>3, <2>1, <2>2
    <3>4. Sums(w)[m + 1] = Sums(w)[j]
      BY <3>1, <3>2, <3>3 DEF Weight
    <3>. QED  BY <2>1, <3>4
  <2>3. CASE ~(m >= j)
    <3>1. m + 1 >= j => m + 1 = j
      BY <1>0, <2>1, <2>3
    <3>. QED  BY <2>1, <3>1
  <2>. QED  BY <2>2, <2>3
<1>4. i \in T
  <2>. HIDE DEF T, N
  <2>1. \A n \in 0..N : n \in T
    BY <1>0, <1>2, <1>3, UpTo
  <2>2. i \in 0..N
    BY <1>0 DEF N
  <2>. QED  BY <2>1, <2>2
<1>. QED  BY <1>0, <1>4

-----------------------------------------------------------------------------
(* Words of integers.                                                       *)

\* The i + 1 low bits of n are the i low ones and bit i.
LEMMA LowBits ==
  ASSUME NEW n \in Int, NEW i \in Nat
  PROVE  /\ (n \div 2^i) % 2 = 1 => n % 2^(i + 1) = (n % 2^i) + 2^i
         /\ (n \div 2^i) % 2 # 1 => n % 2^(i + 1) = n % 2^i
<1>. DEFINE p == 2^i
            q == n \div p
            r == n % p
            h == q \div 2
            b == q % 2
<1>1. p \in Nat /\ p > 0 /\ 2^(i + 1) = p + p
  BY PowerPositive, PowerNext
<1>2. q \in Int /\ r \in Int /\ 0 <= r /\ r < p /\ n = p * q + r
  <2>. HIDE DEF p
  <2>. QED  BY <1>1, DivHas
<1>. HIDE DEF p, q, r
<1>3. h \in Int /\ b \in {0, 1} /\ q = 2 * h + b
  BY <1>2
<1>. HIDE DEF h, b
<1>4. p + p \in Nat /\ p + p > 0
  BY <1>1
<1>5. CASE b = 0
  <2>1. n = (p + p) * h + r
    <3>1. p * (2 * h) = (p + p) * h
      BY <1>1, <1>3
    <3>. QED  BY <1>2, <1>3, <1>5, <3>1
  <2>2. r < p + p
    BY <1>1, <1>2
  <2>3. n % (p + p) = r
    BY <1>2, <1>3, <1>4, <2>1, <2>2, DivIs
  <2>. QED  BY <1>1, <1>5, <2>3 DEF b, q, r, p
<1>6. CASE b = 1
  <2>1. n = (p + p) * h + (p + r)
    <3>1. p * (2 * h + 1) = (p + p) * h + p
      BY <1>1, <1>3
    <3>. QED  BY <1>1, <1>2, <1>3, <1>6, <3>1
  <2>2. p + r \in Int /\ 0 <= p + r /\ p + r < p + p
    BY <1>1, <1>2
  <2>3. n % (p + p) = p + r
    BY <1>3, <1>4, <2>1, <2>2, DivIs
  <2>4. n % (p + p) = r + p
    BY <1>1, <1>2, <2>3
  <2>. QED  BY <1>1, <1>6, <2>4 DEF b, q, r, p
<1>. QED  BY <1>3, <1>5, <1>6

\* The number of bits of a register, and of its sign.
LEMMA Widths ==
  ASSUME NEW s \in Sizes
  PROVE  /\ s * Byte \in Nat /\ s * Byte > 0 /\ s * Byte \in 0..(8 * Byte)
         /\ s * Byte - 1 \in Nat /\ s * Byte - 1 \in 0..(8 * Byte - 1)
         /\ (s * Byte - 1) + 1 = s * Byte
         /\ s # 8 => s * Byte <= 4 * Byte
         /\ s < 4 => s * Byte <= 4 * Byte - 1
<1>1. s \in {1, 2, 4, 8} /\ Byte \in Nat /\ Byte > 0
  BY ByteAssumption DEF Sizes
<1>. QED  BY <1>1

\* The word of n at a size is n cut at that size.
LEMMA SumsOfWord ==
  ASSUME NEW n \in Int, NEW s \in Sizes, NEW i \in 0..(s * Byte)
  PROVE  Sums(Word(n, s))[i] = n % 2^i
<1>. DEFINE N == s * Byte
            w == Word(n, s)
            T == {j \in 0..N : Sums(w)[j] = n % 2^j}
<1>0. N \in Nat /\ 8 * Byte \in Nat /\ N <= 8 * Byte
  BY Widths, ByteAssumption
<1>1. 0 \in T
  <2>1. n % 1 = 0
    OBVIOUS
  <2>2. Sums(w)[0] = 0
    BY SumsStep
  <2>. QED  BY <1>0, <2>1, <2>2, PowerZero
<1>2. ASSUME NEW j \in 0..(N - 1), j \in T
      PROVE  j + 1 \in T
  <2>1. j \in Nat /\ j + 1 \in 0..N /\ j \in 0..(8 * Byte - 1) /\ j \in 0..(8 * Byte)
    <3>. HIDE DEF N
    <3>. QED  BY <1>0
  <2>2. j \in w <=> (n \div 2^j) % 2 = 1
    BY DEF Word, Bits
  <2>3. Sums(w)[j + 1] = Sums(w)[j] + Weight(w, j)
    BY <2>1, SumsStep
  <2>4. Sums(w)[j] = n % 2^j
    BY <1>2
  <2>. HIDE DEF w
  <2>5. CASE j \in w
    <3>1. n % 2^(j + 1) = (n % 2^j) + 2^j
      BY <2>1, <2>2, <2>5, LowBits
    <3>. QED  BY <2>1, <2>3, <2>4, <2>5, <3>1 DEF Weight
  <2>6. CASE j \notin w
    <3>1. n % 2^(j + 1) = n % 2^j
      BY <2>1, <2>2, <2>6, LowBits
    <3>2. Sums(w)[j] \in Nat
      BY <2>1, SumsBounded
    <3>3. Sums(w)[j + 1] = Sums(w)[j]
      BY <2>3, <2>6, <3>2 DEF Weight
    <3>. QED  BY <2>1, <2>4, <3>1, <3>3
  <2>. QED  BY <2>5, <2>6
<1>3. i \in T
  <2>. HIDE DEF T, N
  <2>1. \A m \in 0..N : m \in T
    BY <1>0, <1>1, <1>2, UpTo
  <2>. QED  BY <2>1 DEF N
<1>. QED  BY <1>3

\* A word within s bytes counts by its sum there, below 2 to its number of bits.
LEMMA UnsignedWithin ==
  ASSUME NEW s \in Sizes, NEW w \in SUBSET Bits(s)
  PROVE  Unsigned(w) = Sums(w)[s * Byte] /\ Unsigned(w) \in 0..(2^(s * Byte) - 1)
<1>1. s * Byte \in 0..(8 * Byte) /\ 8 * Byte \in (s * Byte)..(8 * Byte)
  BY Widths, ByteAssumption
<1>2. \A k \in (s * Byte)..(8 * Byte - 1) : k \notin w
  BY Widths DEF Bits
<1>3. Unsigned(w) = Sums(w)[s * Byte]
  BY <1>1, <1>2, SumsAbove, UnsignedIsSum
<1>4. Sums(w)[s * Byte] \in Nat /\ Sums(w)[s * Byte] < 2^(s * Byte)
  BY <1>1, SumsBounded
<1>5. 2^(s * Byte) \in Nat
  BY Widths, PowerPositive
<1>. QED  BY <1>3, <1>4, <1>5

LEMMA UnsignedWord ==
  ASSUME NEW n \in Int, NEW s \in Sizes
  PROVE  Unsigned(Word(n, s)) = n % 2^(s * Byte)
<1>1. Word(n, s) \in SUBSET Bits(s)
  BY DEF Word
<1>2. s * Byte \in 0..(s * Byte)
  BY Widths
<1>. QED  BY <1>1, <1>2, UnsignedWithin, SumsOfWord

LEMMA UnsignedTells ==
  ASSUME NEW v \in SUBSET Bits(8), NEW w \in SUBSET Bits(8)
  PROVE  Unsigned(v) = Unsigned(w) <=> v = w
<1>1. 8 * Byte \in 0..(8 * Byte)
  BY ByteAssumption
<1>2. Sums(v)[8 * Byte] = Sums(w)[8 * Byte] <=> \A k \in 0..(8 * Byte - 1) : k \in v <=> k \in w
  BY <1>1, SumsTell
<1>3. Unsigned(v) = Unsigned(w) <=> \A k \in Bits(8) : k \in v <=> k \in w
  BY <1>2, UnsignedIsSum DEF Bits
<1>. QED  BY <1>3

\* The weight of the sign of s bytes, and the limit of s bytes without sign.
LEMMA Halves ==
  ASSUME NEW s \in Sizes
  PROVE  /\ 2^(s * Byte - 1) \in Nat /\ 2^(s * Byte - 1) > 0
         /\ 2^(s * Byte) = 2^(s * Byte - 1) + 2^(s * Byte - 1)
<1>1. s * Byte - 1 \in Nat /\ (s * Byte - 1) + 1 = s * Byte
  BY Widths
<1>2. 2^((s * Byte - 1) + 1) = 2^(s * Byte - 1) + 2^(s * Byte - 1)
  BY <1>1, PowerNext
<1>. QED  BY <1>1, <1>2, PowerPositive

\* The sign of a word of s bytes parts the numbers that it can be.
LEMMA Sign ==
  ASSUME NEW s \in Sizes, NEW w \in SUBSET Bits(s)
  PROVE  s * Byte - 1 \in w <=> Unsigned(w) >= 2^(s * Byte - 1)
<1>. DEFINE t == s * Byte - 1
<1>1. t \in 0..(8 * Byte - 1) /\ t \in 0..(8 * Byte) /\ t + 1 = s * Byte
  BY Widths, ByteAssumption
<1>2. Unsigned(w) = Sums(w)[s * Byte]
  BY UnsignedWithin
<1>. HIDE DEF t
<1>3. Sums(w)[t + 1] = Sums(w)[t] + Weight(w, t)
  BY <1>1, SumsStep
<1>4. Sums(w)[t] \in Nat /\ Sums(w)[t] < 2^t
  BY <1>1, SumsBounded
<1>5. 2^t \in Nat
  BY <1>1, PowerPositive
<1>6. t \in w <=> Unsigned(w) >= 2^t
  BY <1>1, <1>2, <1>3, <1>4, <1>5 DEF Weight
<1>. QED  BY <1>6 DEF t

LEMMA SignedIs ==
  ASSUME NEW s \in Sizes, NEW w
  PROVE  Signed(w, s) = IF s * Byte - 1 \in w \cap Bits(s)
                        THEN Unsigned(w \cap Bits(s)) - 2^(s * Byte)
                        ELSE Unsigned(w \cap Bits(s))
<1>. DEFINE u == Unsigned(w \cap Bits(s))
<1>1. s * Byte - 1 \in Bits(s)
  BY Widths DEF Bits
<1>2. u \in Nat
  BY UnsignedWithin, Halves
<1>3. Signed(w, s) = u - IF s * Byte - 1 \in w THEN 2^(s * Byte) ELSE 0
  BY DEF Signed
<1>. HIDE DEF u
<1>4. CASE s * Byte - 1 \in w
  BY <1>1, <1>3, <1>4 DEF u
<1>5. CASE s * Byte - 1 \notin w
  <2>1. Signed(w, s) = u
    BY <1>2, <1>3, <1>5
  <2>. QED  BY <1>5, <2>1 DEF u
<1>. QED  BY <1>4, <1>5

\* Words give the same number with sign if and only if they have the same low bits.
LEMMA SignedTells ==
  ASSUME NEW s \in Sizes, NEW v \in SUBSET Bits(8), NEW w \in SUBSET Bits(8)
  PROVE  Signed(v, s) = Signed(w, s) <=> v \cap Bits(s) = w \cap Bits(s)
<1>. DEFINE x == v \cap Bits(s)
            y == w \cap Bits(s)
            H == 2^(s * Byte - 1)
            P == 2^(s * Byte)
<1>1. H \in Nat /\ H > 0 /\ P = H + H
  BY Halves
<1>2. Unsigned(x) \in 0..(P - 1) /\ Unsigned(y) \in 0..(P - 1)
  BY UnsignedWithin
<1>3. /\ s * Byte - 1 \in x <=> Unsigned(x) >= H
      /\ s * Byte - 1 \in y <=> Unsigned(y) >= H
  BY Sign
<1>4. Unsigned(x) = Unsigned(y) <=> x = y
  BY UnsignedTells
<1>5. /\ Signed(v, s) = IF s * Byte - 1 \in x THEN Unsigned(x) - P ELSE Unsigned(x)
      /\ Signed(w, s) = IF s * Byte - 1 \in y THEN Unsigned(y) - P ELSE Unsigned(y)
  BY SignedIs
<1>. HIDE DEF x, y, H, P
<1>6. Signed(v, s) = Signed(w, s) <=> x = y
  BY <1>1, <1>2, <1>3, <1>4, <1>5
<1>. QED  BY <1>6 DEF x, y

\* The number with sign of a word of s bytes is the one the word was made of if that
\* fits, and a number that fits in any case.
LEMMA SignedWord ==
  ASSUME NEW n \in Int, NEW s \in Sizes
  PROVE  /\ Signed(Word(n, s), s) \in -(2^(s * Byte - 1))..(2^(s * Byte - 1) - 1)
         /\ n \in -(2^(s * Byte - 1))..(2^(s * Byte - 1) - 1) => Signed(Word(n, s), s) = n
<1>. DEFINE w == Word(n, s)
            H == 2^(s * Byte - 1)
            P == 2^(s * Byte)
            u == Unsigned(w)
<1>1. H \in Nat /\ H > 0 /\ P = H + H
  BY Halves
<1>2. w \in SUBSET Bits(s) /\ w \cap Bits(s) = w
  BY DEF Word
<1>3. u \in 0..(P - 1) /\ (s * Byte - 1 \in w <=> u >= H)
  <2>. HIDE DEF w
  <2>. QED  BY <1>2, UnsignedWithin, Sign
<1>4. Signed(w, s) = IF s * Byte - 1 \in w THEN u - P ELSE u
  <2>. HIDE DEF w
  <2>. QED  BY <1>2, SignedIs
<1>5. u = n % P
  BY UnsignedWord
<1>. HIDE DEF w, H, P, u
<1>6. Signed(w, s) \in -H..(H - 1)
  BY <1>1, <1>3, <1>4
<1>7. ASSUME n \in -H..(H - 1)
      PROVE  Signed(w, s) = n
  <2>1. CASE n >= 0
    <3>1. n = P * 0 + n /\ n < P /\ P \in Nat /\ P > 0
      BY <1>1, <1>7, <2>1
    <3>2. n % P = n
      BY <2>1, <3>1, DivIs
    <3>. QED  BY <1>1, <1>3, <1>4, <1>5, <1>7, <3>2
  <2>2. CASE n < 0
    <3>1. n = P * (-1) + (n + P) /\ 0 <= n + P /\ n + P < P /\ P \in Nat /\ P > 0
      BY <1>1, <1>7, <2>2
    <3>2. n % P = n + P
      BY <3>1, <1>1, DivIs
    <3>. QED  BY <1>1, <1>3, <1>4, <1>5, <1>7, <3>2
  <2>. QED  BY <2>1, <2>2, <1>7
<1>. QED  BY <1>6, <1>7 DEF w, H

\* 2^n grows with n.
LEMMA PowerGrows ==
  ASSUME NEW n \in Nat, NEW m \in Nat, m <= n
  PROVE  2^m <= 2^n
<1>. DEFINE T == {k \in 0..n : k >= m => 2^m <= 2^k}
<1>1. \A k \in Nat : 2^k \in Nat /\ 2^(k + 1) = 2^k + 2^k
  BY PowerPositive, PowerNext
<1>2. 0 \in T
  <2>1. CASE m = 0
    BY <2>1
  <2>2. CASE m # 0
    BY <2>2
  <2>. QED  BY <2>1, <2>2
<1>3. ASSUME NEW k \in 0..(n - 1), k \in T
      PROVE  k + 1 \in T
  <2>1. k \in Nat /\ k + 1 \in 0..n
    OBVIOUS
  <2>2. CASE k >= m
    BY <1>1, <1>3, <2>1, <2>2
  <2>3. CASE ~(k >= m)
    <3>1. k + 1 >= m => k + 1 = m
      BY <2>1, <2>3
    <3>. QED  BY <1>1, <2>1, <3>1
  <2>. QED  BY <2>2, <2>3
<1>4. n \in T
  <2>. HIDE DEF T
  <2>1. \A k \in 0..n : k \in T
    BY <1>2, <1>3, UpTo
  <2>. QED  BY <2>1
<1>. QED  BY <1>4

\* A number is the one it is cut to if and only if it fits.
LEMMA ModKeeps ==
  ASSUME NEW n \in Int, NEW p \in Nat, p > 0
  PROVE  /\ n % p = n <=> n \in 0..(p - 1)
         /\ n % p \in 0..(p - 1)
<1>1. n % p \in Int /\ 0 <= n % p /\ n % p < p
  BY DivHas
<1>2. ASSUME n \in 0..(p - 1)
      PROVE  n % p = n
  <2>1. n = p * 0 + n /\ 0 <= n /\ n < p
    BY <1>2
  <2>. QED  BY <2>1, DivIs
<1>. QED  BY <1>1, <1>2

\* The number of 32 bits that a notation of n gives, before it is cut.
Cut(notation, n) ==
  IF notation = "string" \/ n \in MinInt32..MaxInt32 THEN n
  ELSE IF n > MaxInt32 THEN MaxInt32 ELSE MinInt32

LEMMA GetDataIs ==
  ASSUME NEW n \in Int, NEW notation
  PROVE  /\ Cut(notation, n) \in Int
         /\ GetDataInt32(notation, n) = Word(Cut(notation, n), 4)
<1>1. MaxInt32 \in Int /\ MinInt32 \in Int /\ MinInt32 <= MaxInt32
  <2>1. 4 \in Sizes
    BY DEF Sizes
  <2>2. 2^(4 * Byte - 1) \in Nat /\ 2^(4 * Byte - 1) > 0
    BY <2>1, Halves
  <2>. QED  BY <2>2 DEF MaxInt32, MinInt32
<1>2. CASE notation = "string"
  BY <1>2 DEF Cut, GetDataInt32, FromString
<1>3. CASE notation # "string"
  <2>1. GetDataInt32(notation, n) = Saturated(n)
    BY <1>3 DEF GetDataInt32
  <2>2. CASE n > MaxInt32
    BY <1>1, <1>3, <2>1, <2>2 DEF Cut, Saturated
  <2>3. CASE n < MinInt32
    BY <1>1, <1>3, <2>1, <2>3 DEF Cut, Saturated
  <2>4. CASE n \in MinInt32..MaxInt32
    BY <1>1, <1>3, <2>1, <2>4 DEF Cut, Saturated
  <2>. QED  BY <1>1, <2>2, <2>3, <2>4
<1>. QED  BY <1>2, <1>3

\* Up to four bytes the extension of the sign is cut off.
LEMMA WordCut ==
  ASSUME NEW m \in Int, NEW s \in Sizes, s # 8
  PROVE  Extended(Word(m, 4)) \cap Bits(s) = Word(m, s)
<1>1. Bits(s) \subseteq Bits(4)
  <2>1. s * Byte \in Nat /\ 4 * Byte \in Nat /\ s * Byte <= 4 * Byte
    BY Widths, ByteAssumption
  <2>. QED  BY <2>1 DEF Bits
<1>2. Word(m, 4) \cap Bits(s) = Word(m, s)
  BY <1>1 DEF Word
<1>3. Extended(Word(m, 4)) \cap Bits(4) = Word(m, 4)
  BY DEF Extended, Word
<1>. QED  BY <1>1, <1>2, <1>3

\* The high bits of a number of 32 bits are all its sign.
LEMMA HighBits ==
  ASSUME NEW m \in MinInt32..MaxInt32, NEW i \in Nat, i >= 4 * Byte - 1
  PROVE  (m \div 2^i) % 2 = 1 <=> m < 0
<1>. DEFINE H == 2^(4 * Byte - 1)
            p == 2^i
<1>1. 4 * Byte - 1 \in Nat /\ H \in Nat /\ p \in Nat /\ p > 0 /\ H <= p
  <2>1. 4 * Byte - 1 \in Nat
    BY ByteAssumption
  <2>. QED  BY <2>1, PowerPositive, PowerGrows
<1>2. m \in Int /\ -H <= m /\ m < H
  BY <1>1 DEF MinInt32, MaxInt32
<1>. HIDE DEF H, p
<1>3. CASE m < 0
  <2>1. m = p * (-1) + (m + p) /\ m + p \in Int /\ 0 <= m + p /\ m + p < p
    BY <1>1, <1>2, <1>3
  <2>2. m \div p = -1
    BY <1>1, <1>2, <2>1, DivIs
  <2>3. PICK a \in Int : a = -1 /\ a = 2 * (-1) + 1
    OBVIOUS
  <2>4. a % 2 \in {0, 1} /\ a = 2 * (a \div 2) + (a % 2) /\ a \div 2 \in Int
    OBVIOUS
  <2>5. a % 2 = 1
    BY <2>3, <2>4
  <2>. QED  BY <1>3, <2>2, <2>3, <2>5 DEF p
<1>4. CASE m >= 0
  <2>1. m = p * 0 + m /\ 0 <= m /\ m < p
    BY <1>1, <1>2, <1>4
  <2>2. m \div p = 0
    BY <1>1, <1>2, <2>1, DivIs
  <2>3. (m \div p) % 2 # 1
    BY <2>2
  <2>. QED  BY <1>2, <1>4, <2>3 DEF p
<1>. QED  BY <1>2, <1>3, <1>4

\* Extended, a number of 32 bits is the same number in 64 bits.
LEMMA WordExtended ==
  ASSUME NEW m \in MinInt32..MaxInt32
  PROVE  Extended(Word(m, 4)) = Word(m, 8)
<1>1. 4 * Byte - 1 \in Nat /\ 4 * Byte - 1 \in Bits(4) /\ Bits(4) \subseteq Bits(8)
  BY ByteAssumption DEF Bits
<1>2. 4 * Byte - 1 \in Word(m, 4) <=> m < 0
  <2>1. \A i \in Nat : i >= 4 * Byte - 1 => ((m \div 2^i) % 2 = 1 <=> m < 0)
    BY HighBits
  <2>2. 4 * Byte - 1 >= 4 * Byte - 1
    BY <1>1
  <2>. QED  BY <1>1, <2>1, <2>2 DEF Word
<1>3. \A i \in Bits(8) \ Bits(4) : i \in Word(m, 8) <=> m < 0
  <2>1. \A i \in Bits(8) \ Bits(4) : i \in Nat /\ i >= 4 * Byte - 1
    BY ByteAssumption DEF Bits
  <2>. QED  BY <2>1, HighBits DEF Word
<1>4. \A i \in Bits(4) : i \in Word(m, 8) <=> i \in Word(m, 4)
  BY <1>1 DEF Word
<1>5. Word(m, 4) \subseteq Bits(4) /\ Word(m, 8) \subseteq Bits(8)
  BY DEF Word
<1>6. CASE m < 0
  <2>1. Extended(Word(m, 4)) = Word(m, 4) \cup (Bits(8) \ Bits(4))
    BY <1>2, <1>6 DEF Extended
  <2>. QED  BY <1>1, <1>3, <1>4, <1>5, <1>6, <2>1
<1>7. CASE ~(m < 0)
  <2>1. Extended(Word(m, 4)) = Word(m, 4)
    BY <1>2, <1>7 DEF Extended
  <2>. QED  BY <1>1, <1>3, <1>4, <1>5, <1>7, <2>1
<1>. QED  BY <1>6, <1>7

\* What four bytes hold is a number of 32 bits with sign, whose extension is read as
\* the same number by both decoders.
LEMMA ExtendedSame ==
  ASSUME NEW m \in Int
  PROVE  /\ Signed(Extended(Word(m, 4)), 4) = Signed(Word(m, 4), 4)
         /\ Signed(Extended(Word(m, 4)), 8) = Signed(Word(m, 4), 4)
<1>. DEFINE n == Signed(Word(m, 4), 4)
<1>0. 4 \in Sizes /\ 8 \in Sizes
  BY DEF Sizes
<1>1. n \in MinInt32..MaxInt32 /\ n \in Int
  <2>1. 2^(4 * Byte - 1) \in Nat
    BY <1>0, Halves
  <2>2. n \in -(2^(4 * Byte - 1))..(2^(4 * Byte - 1) - 1)
    BY <1>0, SignedWord
  <2>. QED  BY <2>1, <2>2 DEF MinInt32, MaxInt32
<1>. HIDE DEF n
<1>2. Signed(Word(n, 4), 4) = n
  BY <1>0, <1>1, SignedWord DEF MinInt32, MaxInt32
<1>3. Word(n, 4) = Word(m, 4)
  <2>1. /\ Word(n, 4) \in SUBSET Bits(8) /\ Word(n, 4) \cap Bits(4) = Word(n, 4)
        /\ Word(m, 4) \in SUBSET Bits(8) /\ Word(m, 4) \cap Bits(4) = Word(m, 4)
    BY ByteAssumption DEF Word, Bits
  <2>2. Signed(Word(n, 4), 4) = Signed(Word(m, 4), 4)
    BY <1>2 DEF n
  <2>. QED  BY <1>0, <2>1, <2>2, SignedTells
<1>4. Extended(Word(m, 4)) = Word(n, 8)
  BY <1>1, <1>3, WordExtended
<1>5. Signed(Word(n, 8), 8) = n
  <2>1. 2^(4 * Byte - 1) <= 2^(8 * Byte - 1) /\ 2^(8 * Byte - 1) \in Nat
    BY <1>0, Widths, ByteAssumption, PowerGrows, PowerPositive
  <2>2. 2^(4 * Byte - 1) \in Nat
    BY <1>0, Halves
  <2>3. n \in -(2^(8 * Byte - 1))..(2^(8 * Byte - 1) - 1)
    BY <1>1, <2>1, <2>2 DEF MinInt32, MaxInt32
  <2>. QED  BY <1>0, <1>1, <2>3, SignedWord
<1>6. Signed(Extended(Word(m, 4)), 4) = Signed(Word(m, 4), 4)
  <2>1. Extended(Word(m, 4)) \cap Bits(4) = Word(m, 4) \cap Bits(4)
    BY DEF Extended, Word
  <2>. QED  BY <1>0, <2>1, SignedIs
<1>. QED  BY <1>4, <1>5, <1>6 DEF n

\* What the read of a register of s bytes gives after the write of m, k bytes of it
\* with sign.
NumberOf(m, s, k) ==
  IF s < 4 \/ (s = 4 /\ k = 8) THEN m % 2^(s * Byte) ELSE Signed(Word(m, 4), 4)

LEMMA NumberRead ==
  ASSUME NEW m \in Int, NEW s \in Sizes, NEW k \in {4, 8}
  PROVE  Signed(Extended(Word(m, 4)) \cap Bits(s), k) = NumberOf(m, s, k)
<1>. DEFINE w == Extended(Word(m, 4)) \cap Bits(s)
<1>w. w = Extended(Word(m, 4)) \cap Bits(s)
  OBVIOUS
<1>. HIDE DEF w
<1>0. k \in Sizes /\ 4 \in Sizes /\ 8 \in Sizes
  BY DEF Sizes
<1>1. s # 8 => w = Word(m, s)
  BY <1>w, WordCut
<1>2. ASSUME s # 8, s * Byte <= k * Byte - 1
      PROVE  Signed(w, k) = m % 2^(s * Byte)
  <2>1. w \cap Bits(k) = w
    BY <1>0, <1>1, <1>2, Widths DEF Word, Bits
  <2>2. k * Byte - 1 \notin w
    BY <1>0, <1>1, <1>2, Widths DEF Word, Bits
  <2>3. Unsigned(w) = m % 2^(s * Byte)
    BY <1>1, <1>2, UnsignedWord
  <2>. QED  BY <1>0, <2>1, <2>2, <2>3, SignedIs
<1>. SUFFICES Signed(w, k) = NumberOf(m, s, k)
  BY <1>w
<1>3. CASE s < 4
  <2>1. s * Byte <= k * Byte - 1 /\ s # 8
    BY <1>3, ByteAssumption DEF Sizes
  <2>. QED  BY <1>2, <1>3, <2>1 DEF NumberOf
<1>4. CASE s = 4
  <2>1. k = 8 => Signed(w, k) = m % 2^(4 * Byte)
    BY <1>2, <1>4, ByteAssumption
  <2>2. k = 4 => Signed(w, k) = Signed(Word(m, 4), 4)
    BY <1>1, <1>4
  <2>. QED  BY <1>4, <2>1, <2>2 DEF NumberOf
<1>5. CASE s = 8
  <2>1. w = Extended(Word(m, 4))
    BY <1>w, <1>5, ByteAssumption DEF Extended, Word, Bits
  <2>2. Signed(w, k) = Signed(Word(m, 4), 4)
    BY <2>1, ExtendedSame
  <2>. QED  BY <1>5, <2>2 DEF NumberOf
<1>. QED  BY <1>3, <1>4, <1>5 DEF Sizes

-----------------------------------------------------------------------------
(* What the register and the last read are, from the last write.           *)

\* The register is the word of the last write that gave a whole value, cut at its
\* size, and the last read tells what is in the register.
Records ==
  /\ Numeric => /\ format # "kp2"
                /\ reg = Extended(GetDataInt32(asked.how, asked.number)) \cap Bits(size)
  /\ asked.how = "bools" => format = "kp4" /\ reg = asked.bools \cap Bits(size)
  /\ said # <<>> => said = Decode(reg)

LEMMA WriteRecords ==
  ASSUME NEW w, NEW what, Write(w, what),
         what.how \in {"number", "string"}
           => format # "kp2" /\ w = Extended(GetDataInt32(what.how, what.number)),
         what.how = "bools" => format = "kp4" /\ w = what.bools
  PROVE  Records'
<1>1. /\ reg' = w \cap Bits(size) /\ asked' = what /\ said' = <<>>
      /\ format' = format /\ size' = size
  BY DEF Write
<1>. QED  BY <1>1 DEF Records, Numeric

LEMMA NothingRecords ==
  ASSUME NEW w, Write(w, Nothing)
  PROVE  Records'
BY WriteRecords DEF Nothing

LEMMA RecordsInit == Init => Records
BY DEF Init, Records, Numeric, Nothing

LEMMA RecordsStep == Records /\ Inv /\ [Next]_vars => Records'
<1>. SUFFICES ASSUME Records, Inv, [Next]_vars
              PROVE  Records'
  OBVIOUS
<1>1. ASSUME NEW n \in Numbers, NEW notation \in {"number", "string"},
             WriteInteger(n, notation)
      PROVE  Records'
  <2>. DEFINE what == [Nothing EXCEPT !.how = notation, !.number = n]
  <2>1. what.how = notation /\ what.number = n
    BY DEF Nothing
  <2>2. format # "kp2" /\ Write(Extended(GetDataInt32(notation, n)), what)
    BY <1>1 DEF WriteInteger
  <2>. HIDE DEF what
  <2>. QED  BY <2>1, <2>2, WriteRecords
<1>2. ASSUME NEW n \in Numbers, WriteValue(n)
      PROVE  Records'
  <2>. DEFINE what == [Nothing EXCEPT !.how = "number", !.number = n]
  <2>1. what.how = "number" /\ what.number = n
    BY DEF Nothing
  <2>2. format = "kp4" /\ Write(Extended(GetDataInt32("number", n)), what)
    BY <1>2 DEF WriteValue, GetDataInt32
  <2>. HIDE DEF what
  <2>. QED  BY <2>1, <2>2, WriteRecords
<1>3. ASSUME NEW mask \in Masks, WriteBools(mask)
      PROVE  Records'
  <2>. DEFINE what == [how |-> "bools", number |-> 0, bools |-> mask]
  <2>1. what.how = "bools" /\ what.bools = mask
    OBVIOUS
  <2>2. format = "kp4" /\ Write(mask, what)
    BY <1>3 DEF WriteBools
  <2>. HIDE DEF what
  <2>. QED  BY <2>1, <2>2, WriteRecords
<1>4. ASSUME NEW mask \in Masks, NEW on \in BOOLEAN, NEW form \in {"int", "array"},
             WriteMasked(on, mask, form)
      PROVE  Records'
  BY <1>4, NothingRecords DEF WriteMasked
<1>5. CASE WriteUnknown
  BY <1>5, NothingRecords DEF WriteUnknown
<1>6. CASE Read
  <2>1. /\ cur' = reg /\ said' = Decode(cur') /\ format' = format /\ size' = size
        /\ reg' = reg /\ asked' = asked
    BY <1>6 DEF Read
  <2>2. said' = Decode(reg)'
    BY <2>1 DEF Decode
  <2>. QED  BY <2>1, <2>2 DEF Records, Numeric
<1>7. ASSUME NEW w \in Registers, DeviceChange(w)
      PROVE  Records'
  <2>1. asked' = Nothing /\ said' = <<>>
    BY <1>7 DEF DeviceChange
  <2>. QED  BY <2>1 DEF Records, Numeric, Nothing
<1>8. CASE UNCHANGED vars
  <2>1. /\ reg' = reg /\ asked' = asked /\ said' = said
        /\ format' = format /\ size' = size
    BY <1>8 DEF vars
  <2>2. Decode(reg)' = Decode(reg)
    BY <2>1 DEF Decode
  <2>. QED  BY <2>1, <2>2 DEF Records, Numeric
<1>. QED  BY <1>1, <1>2, <1>3, <1>4, <1>5, <1>6, <1>7, <1>8 DEF Next

LEMMA Recorded == Spec => [](Inv /\ Records)
<1>1. Init => Inv /\ Records
  BY Initial, RecordsInit
<1>2. Inv /\ Records /\ [Next]_vars => Inv' /\ Records'
  BY Inductive, RecordsStep
<1>. QED  BY <1>1, <1>2, PTL DEF Spec

\* The decoders, one by one.
LEMMA DecodeIs ==
  ASSUME NEW w
  PROVE  /\ format = "int" => Decode(w) = <<Signed(w, 4)>>
         /\ format = "uint" => Decode(w) = <<Signed(w, 8)>>
         /\ format = "kp4" => Decode(w) = [i \in 1..Inputs |-> Flag(w, i - 1)]
         /\ format = "kp2" =>
              Decode(w) = <<Unsigned(w \cap Bits(2)),
                            Unsigned({i - 2 * Byte : i \in (w \cap Bits(4)) \ Bits(2)})>>
<1>1. format = "int" => Decode(w) = <<Signed(w, 4)>>
  BY DEF Decode
<1>2. format = "uint" => Decode(w) = <<Signed(w, 8)>>
  BY DEF Decode
<1>3. format = "kp4" => Decode(w) = [i \in 1..Inputs |-> Flag(w, i - 1)]
  BY DEF Decode
<1>4. format = "kp2" =>
        Decode(w) = <<Unsigned(w \cap Bits(2)),
                      Unsigned({i - 2 * Byte : i \in (w \cap Bits(4)) \ Bits(2)})>>
  BY DEF Decode
<1>. QED  BY <1>1, <1>2, <1>3, <1>4

\* The booleans that the plugin writes are the ones it reads back, as BoolsReadBack
\* says, for any width of a byte and any arrays.
THEOREM BoolsComeBack == Spec => []BoolsReadBack
<1>1. Inv /\ Records => BoolsReadBack
  <2>. SUFFICES ASSUME Inv, Records, asked.how = "bools", said # <<>>,
                       NEW i \in 1..Inputs
                PROVE  said[i] = 1 <=> i - 1 \in asked.bools
    BY DEF BoolsReadBack
  <2>1. format = "kp4" /\ reg = asked.bools \cap Bits(size) /\ said = Decode(reg)
    BY DEF Records
  <2>2. said = [j \in 1..Inputs |-> Flag(reg, j - 1)]
    BY <2>1, DecodeIs
  <2>3. i - 1 \in Low /\ Low \subseteq Bits(size)
    <3>1. i - 1 \in Low
      BY ByteAssumption DEF Low, Bits
    <3>. QED  BY <3>1, BitsNested DEF Inv, TypeOK
  <2>4. said[i] = Flag(reg, i - 1)
    BY <2>2
  <2>. QED  BY <2>1, <2>3, <2>4 DEF Flag
<1>. QED  BY <1>1, Recorded, PTL

\* The limits of the numbers of 32 bits.
LEMMA Limits32 ==
  /\ MaxInt32 \in Nat /\ MinInt32 \in Int /\ MinInt32 = -MaxInt32 - 1
  /\ 2^(4 * Byte) = (MaxInt32 + 1) + (MaxInt32 + 1)
  /\ 2^(4 * Byte - 1) = MaxInt32 + 1
<1>1. 4 \in Sizes
  BY DEF Sizes
<1>2. /\ 2^(4 * Byte - 1) \in Nat /\ 2^(4 * Byte - 1) > 0
      /\ 2^(4 * Byte) = 2^(4 * Byte - 1) + 2^(4 * Byte - 1)
  BY <1>1, Halves
<1>. QED  BY <1>2 DEF MaxInt32, MinInt32

\* The register gets the two's complement of the number, as RegisterGets says, for
\* any width of a byte and any numbers.
THEOREM NumbersArrive == Spec => []RegisterGets
<1>1. Inv /\ Records => RegisterGets
  <2>. DEFINE n == asked.number
  <2>. SUFFICES ASSUME Inv, Records, Numeric,
                       n \in MinInt32..(IF asked.how = "string" /\ size <= 4
                                        THEN 2^(4 * Byte) - 1 ELSE MaxInt32)
                PROVE  reg = Word(n, size)
    BY DEF RegisterGets
  <2>1. n \in Int /\ size \in Sizes
    BY DEF Inv, TypeOK, AskedType
  <2>2. reg = Extended(GetDataInt32(asked.how, n)) \cap Bits(size)
    BY DEF Records
  <2>3. Cut(asked.how, n) = n
    <3>1. CASE asked.how = "string"
      BY <3>1 DEF Cut
    <3>2. CASE asked.how # "string"
      BY <3>2 DEF Cut
    <3>. QED  BY <3>1, <3>2
  <2>4. reg = Extended(Word(n, 4)) \cap Bits(size)
    BY <2>1, <2>2, <2>3, GetDataIs
  <2>5. CASE size # 8
    BY <2>1, <2>4, <2>5, WordCut
  <2>6. CASE size = 8
    <3>1. n \in MinInt32..MaxInt32
      BY <2>6
    <3>2. Extended(Word(n, 4)) = Word(n, 8)
      BY <3>1, WordExtended
    <3>. QED  BY <2>4, <2>6, <3>2 DEF Word
  <2>. QED  BY <2>5, <2>6
<1>. QED  BY <1>1, Recorded, PTL

\* The number that a read gives is the one that was written exactly if it is in Kept.
LEMMA KeptComesBack ==
  ASSUME Inv, Numeric, format \in {"int", "uint"}, NEW k,
         k = (IF format = "int" THEN 4 ELSE 8),
         reg = Extended(GetDataInt32(asked.how, asked.number)) \cap Bits(size)
  PROVE  Signed(reg, k) = asked.number <=> asked.number \in Kept
<1>. DEFINE n == asked.number
            m == Cut(asked.how, n)
            M == MaxInt32
            P == 2^(4 * Byte)
<1>1. n \in Int /\ size \in Sizes /\ k \in {4, 8}
  BY DEF Inv, TypeOK, AskedType
<1>2. m \in Int /\ reg = Extended(Word(m, 4)) \cap Bits(size)
  BY <1>1, GetDataIs
<1>3. M \in Nat /\ MinInt32 = -M - 1 /\ P = (M + 1) + (M + 1)
  BY Limits32
<1>4. m = IF asked.how = "string" \/ n \in MinInt32..M THEN n
          ELSE IF n > M THEN M ELSE MinInt32
  BY DEF Cut
<1>. HIDE DEF m
<1>5. /\ size < 4 => Signed(reg, k) = m % 2^(size * Byte)
      /\ size = 4 /\ k = 8 => Signed(reg, k) = m % P
      /\ size = 4 /\ k = 4 => Signed(reg, k) = Signed(Word(m, 4), 4)
      /\ size = 8 => Signed(reg, k) = Signed(Word(m, 4), 4)
  <2>. HIDE DEF n, M
  <2>1. m \in Int /\ size \in Sizes /\ k \in {4, 8}
    BY <1>1, <1>2
  <2>2. Signed(reg, k) = NumberOf(m, size, k)
    BY <1>2, <2>1, NumberRead
  <2>. QED  BY <2>1, <2>2 DEF NumberOf, P
<1>6. /\ Signed(Word(m, 4), 4) \in MinInt32..M
      /\ m \in MinInt32..M => Signed(Word(m, 4), 4) = m
  <2>1. 4 \in Sizes
    BY DEF Sizes
  <2>2. /\ Signed(Word(m, 4), 4) \in -(2^(4 * Byte - 1))..(2^(4 * Byte - 1) - 1)
        /\ m \in -(2^(4 * Byte - 1))..(2^(4 * Byte - 1) - 1) => Signed(Word(m, 4), 4) = m
    BY <1>2, <2>1, SignedWord
  <2>. QED  BY <2>2 DEF MinInt32, MaxInt32
<1>7. CASE size < 4
  <2>. DEFINE Q == 2^(size * Byte)
  <2>1. Q \in Nat /\ Q > 0 /\ Q <= M + 1
    <3>1. size * Byte \in Nat /\ 4 * Byte - 1 \in Nat /\ size * Byte <= 4 * Byte - 1
      BY <1>1, <1>7, Widths, ByteAssumption
    <3>. QED  BY <3>1, PowerPositive, PowerGrows, Limits32
  <2>2. (m % Q = m <=> m \in 0..(Q - 1)) /\ m % Q \in 0..(Q - 1)
    <3>. HIDE DEF Q
    <3>. QED  BY <1>2, <2>1, ModKeeps
  <2>3. Kept = 0..(Q - 1)
    BY <1>7 DEF Kept
  <2>4. Signed(reg, k) = m % Q
    BY <1>5, <1>7
  <2>. HIDE DEF Q, M, n
  <2>5. m % Q = n <=> n \in 0..(Q - 1)
    <3>1. CASE m = n
      BY <2>2, <3>1
    <3>2. CASE m # n
      <4>1. n \notin MinInt32..M
        BY <1>4, <3>2
      <4>2. n \notin 0..(Q - 1)
        BY <1>1, <1>3, <2>1, <4>1
      <4>. QED  BY <2>2, <4>2
    <3>. QED  BY <3>1, <3>2
  <2>. QED  BY <2>3, <2>4, <2>5 DEF n
<1>8. CASE size = 8 \/ (size = 4 /\ format = "int")
  <2>1. Kept = MinInt32..M
    BY <1>8, <1>1 DEF Kept
  <2>2. Signed(reg, k) = Signed(Word(m, 4), 4)
    BY <1>5, <1>8
  <2>. HIDE DEF M, n
  <2>3. Signed(Word(m, 4), 4) = n <=> n \in MinInt32..M
    BY <1>4, <1>6
  <2>. QED  BY <2>1, <2>2, <2>3 DEF n
<1>9. CASE size = 4 /\ format = "uint"
  <2>1. Kept = 0..(IF asked.how = "string" THEN P - 1 ELSE M)
    BY <1>9 DEF Kept
  <2>2. Signed(reg, k) = m % P
    BY <1>5, <1>9
  <2>. HIDE DEF M, n, P
  <2>3. P \in Nat /\ P > 0
    BY <1>3
  <2>4. \A x \in Int : (x % P = x <=> x \in 0..(P - 1)) /\ x % P \in 0..(P - 1)
    BY <2>3, ModKeeps
  <2>5. CASE asked.how = "string"
    BY <1>1, <1>4, <2>1, <2>2, <2>4, <2>5 DEF n
  <2>6. CASE asked.how # "string" /\ n \in MinInt32..M
    <3>1. m = n
      BY <1>4, <2>6
    <3>2. n \in 0..(P - 1) <=> n \in 0..M
      BY <1>1, <1>3, <2>6
    <3>. QED  BY <1>1, <2>1, <2>2, <2>4, <2>6, <3>1, <3>2 DEF n
  <2>7. CASE asked.how # "string" /\ n \notin MinInt32..M
    <3>1. n \notin 0..M
      BY <1>1, <1>3, <2>7
    <3>2. CASE n > M
      <4>1. m = M
        BY <1>4, <2>7, <3>2
      <4>2. m % P = M
        BY <1>2, <1>3, <2>4, <4>1
      <4>3. m % P # n
        BY <1>1, <1>3, <3>2, <4>2
      <4>. QED  BY <2>1, <2>2, <2>7, <3>1, <4>3 DEF n
    <3>3. CASE ~(n > M)
      <4>1. n < 0
        BY <1>1, <1>3, <2>7, <3>3
      <4>2. m % P # n
        BY <1>1, <1>2, <2>4, <4>1
      <4>. QED  BY <2>1, <2>2, <2>7, <3>1, <4>2 DEF n
    <3>. QED  BY <3>2, <3>3
  <2>. QED  BY <2>5, <2>6, <2>7
<1>. QED  BY <1>1, <1>7, <1>8, <1>9 DEF Sizes

\* Which numbers come back as they were written, as ReadsBack says, for any width of
\* a byte and any numbers.
THEOREM NumbersComeBack == Spec => []ReadsBack
<1>1. Inv /\ Records => ReadsBack
  <2>. SUFFICES ASSUME Inv, Records, Numeric, format # "kp4", said # <<>>
                PROVE  said = <<asked.number>> <=> asked.number \in Kept
    BY DEF ReadsBack
  <2>. DEFINE k == IF format = "int" THEN 4 ELSE 8
  <2>1. /\ format # "kp2" /\ said = Decode(reg)
        /\ reg = Extended(GetDataInt32(asked.how, asked.number)) \cap Bits(size)
    BY DEF Records
  <2>2. format \in {"int", "uint"}
    BY <2>1, FormatsAssumption DEF Inv, TypeOK
  <2>3. said = <<Signed(reg, k)>>
    BY <2>1, <2>2, DecodeIs
  <2>4. Signed(reg, k) = asked.number <=> asked.number \in Kept
    <3>1. k = IF format = "int" THEN 4 ELSE 8
      OBVIOUS
    <3>. HIDE DEF k
    <3>. QED  BY <2>1, <2>2, <3>1, KeptComesBack
  <2>. HIDE DEF k
  <2>. QED  BY <2>3, <2>4
<1>. QED  BY <1>1, Recorded, PTL

\* The upper half of four bytes tells its bits.
LEMMA HighTells ==
  ASSUME NEW v, NEW w
  PROVE  Unsigned({i - 2 * Byte : i \in (v \cap Bits(4)) \ Bits(2)})
           = Unsigned({i - 2 * Byte : i \in (w \cap Bits(4)) \ Bits(2)})
         <=> (v \cap Bits(4)) \ Bits(2) = (w \cap Bits(4)) \ Bits(2)
<1>. DEFINE B == Bits(4) \ Bits(2)
            Down(x) == {i - 2 * Byte : i \in (x \cap Bits(4)) \ Bits(2)}
<1>1. \A i \in B : i \in Int /\ i - 2 * Byte \in Bits(8)
  BY ByteAssumption DEF Bits
<1>2. Down(v) \in SUBSET Bits(8) /\ Down(w) \in SUBSET Bits(8)
  BY <1>1
<1>3. \A i, j \in B : i - 2 * Byte = j - 2 * Byte => i = j
  BY <1>1, ByteAssumption
<1>4. \A i \in B : /\ i \in v <=> i - 2 * Byte \in Down(v)
                   /\ i \in w <=> i - 2 * Byte \in Down(w)
  BY <1>3
<1>5. Down(v) = Down(w) => (v \cap Bits(4)) \ Bits(2) = (w \cap Bits(4)) \ Bits(2)
  BY <1>4
<1>6. (v \cap Bits(4)) \ Bits(2) = (w \cap Bits(4)) \ Bits(2) => Down(v) = Down(w)
  OBVIOUS
<1>7. Unsigned(Down(v)) = Unsigned(Down(w)) <=> Down(v) = Down(w)
  <2>. HIDE DEF Down
  <2>. QED  BY <1>2, UnsignedTells
<1>. QED  BY <1>5, <1>6, <1>7

\* What a read says tells the register, as ReadTells says, for any width of a byte
\* and any registers.
THEOREM ReadsTell == Spec => []ReadTells
<1>1. Inv /\ Records => ReadTells
  <2>. SUFFICES ASSUME Inv, Records, said # <<>>, NEW u \in Registers
                PROVE  Decode(u \cap Bits(size)) = said
                       <=> u \cap Bits(size) \cap Shown = reg \cap Shown
    BY DEF ReadTells
  <2>. DEFINE v == u \cap Bits(size)
  <2>1. said = Decode(reg)
    BY DEF Records
  <2>2. size \in Sizes /\ v \in SUBSET Bits(8) /\ reg \in SUBSET Bits(8)
    BY BitsNested DEF Inv, TypeOK
  <2>3. format \in {"int", "uint", "kp4", "kp2"}
    BY FormatsAssumption DEF Inv, TypeOK
  <2>4. 4 \in Sizes /\ 8 \in Sizes
    BY DEF Sizes
  <2>. HIDE DEF v
  <2>5. CASE format = "int"
    <3>1. Decode(v) = <<Signed(v, 4)>> /\ Decode(reg) = <<Signed(reg, 4)>>
      BY <2>5, DecodeIs
    <3>2. Signed(v, 4) = Signed(reg, 4) <=> v \cap Bits(4) = reg \cap Bits(4)
      BY <2>2, <2>4, SignedTells
    <3>3. Shown = Bits(4)
      BY <2>5 DEF Shown
    <3>. QED  BY <2>1, <3>1, <3>2, <3>3 DEF v
  <2>6. CASE format = "uint"
    <3>1. Decode(v) = <<Signed(v, 8)>> /\ Decode(reg) = <<Signed(reg, 8)>>
      BY <2>6, DecodeIs
    <3>2. Signed(v, 8) = Signed(reg, 8) <=> v \cap Bits(8) = reg \cap Bits(8)
      BY <2>2, <2>4, SignedTells
    <3>3. Shown = Bits(8)
      BY <2>6 DEF Shown
    <3>. QED  BY <2>1, <3>1, <3>2, <3>3 DEF v
  <2>7. CASE format = "kp4"
    <3>1. /\ Decode(v) = [i \in 1..Inputs |-> Flag(v, i - 1)]
          /\ Decode(reg) = [i \in 1..Inputs |-> Flag(reg, i - 1)]
      BY <2>7, DecodeIs
    <3>2. Decode(v) = Decode(reg) <=> \A i \in 1..Inputs : Flag(v, i - 1) = Flag(reg, i - 1)
      BY <3>1
    <3>3. \A i \in 1..Inputs : Flag(v, i - 1) = Flag(reg, i - 1) <=> (i - 1 \in v <=> i - 1 \in reg)
      BY DEF Flag
    <3>4. Shown = 0..(Inputs - 1)
      BY <2>7 DEF Shown
    <3>5. (\A i \in 1..Inputs : i - 1 \in v <=> i - 1 \in reg)
            <=> v \cap (0..(Inputs - 1)) = reg \cap (0..(Inputs - 1))
      <4>1. \A j \in 0..(Inputs - 1) : j + 1 \in 1..Inputs /\ (j + 1) - 1 = j
        BY ByteAssumption
      <4>2. \A i \in 1..Inputs : i - 1 \in 0..(Inputs - 1)
        BY ByteAssumption
      <4>. QED  BY <4>1, <4>2
    <3>. QED  BY <2>1, <3>2, <3>3, <3>4, <3>5 DEF v
  <2>8. CASE format = "kp2"
    <3>. DEFINE Down(x) == {i - 2 * Byte : i \in (x \cap Bits(4)) \ Bits(2)}
    <3>1. /\ Decode(v) = <<Unsigned(v \cap Bits(2)), Unsigned(Down(v))>>
          /\ Decode(reg) = <<Unsigned(reg \cap Bits(2)), Unsigned(Down(reg))>>
      BY <2>8, DecodeIs
    <3>2. Unsigned(v \cap Bits(2)) = Unsigned(reg \cap Bits(2))
            <=> v \cap Bits(2) = reg \cap Bits(2)
      BY <2>2, UnsignedTells
    <3>3. Unsigned(Down(v)) = Unsigned(Down(reg))
            <=> (v \cap Bits(4)) \ Bits(2) = (reg \cap Bits(4)) \ Bits(2)
      BY HighTells
    <3>. HIDE DEF Down
    <3>4. Decode(v) = Decode(reg) <=> /\ v \cap Bits(2) = reg \cap Bits(2)
                                      /\ (v \cap Bits(4)) \ Bits(2) = (reg \cap Bits(4)) \ Bits(2)
      BY <3>1, <3>2, <3>3
    <3>5. Bits(2) \subseteq Bits(4)
      BY ByteAssumption DEF Bits
    <3>6. Shown = Bits(4)
      BY <2>8 DEF Shown
    <3>. QED  BY <2>1, <3>4, <3>5, <3>6 DEF v
  <2>. QED  BY <2>3, <2>5, <2>6, <2>7, <2>8
<1>. QED  BY <1>1, Recorded, PTL
=============================================================================
