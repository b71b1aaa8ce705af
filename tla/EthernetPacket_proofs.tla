----------------------- MODULE EthernetPacket_proofs -----------------------
(***************************************************************************)
(* Proofs about the numbers of MkvUint, the buffers of MemoryBuffer and    *)
(* their use by the interface of EthernetPacket, for bytes of any size and *)
(* any storage, chunks, frames and lengths of addresses: types, what       *)
(* numbers read back as, the refinement of ByteFile, the frames that are   *)
(* read completely and the bytes of the replies.                           *)
(***************************************************************************)
EXTENDS EthernetPacket, ArithmeticLemmas, SequenceTheorems, TLAPS

-----------------------------------------------------------------------------
(* Numbers of fixed width. *)

Radix == 2^Bits

\* Of the byte that k bytes follow.
Weight(k) == 2^(Bits * k)

LEMMA BitsType == Bits \in Nat /\ Bits >= 2 /\ \A k \in Nat : Bits * k \in Nat
BY BitsAssumption

LEMMA WeightType == \A k \in Nat : Weight(k) \in Nat \ {0}
BY BitsType, PowerType DEF Weight

LEMMA RadixType == Radix \in Nat \ {0}
BY BitsType, PowerType DEF Radix

LEMMA WeightSum == \A j, k \in Nat : Weight(j + k) = Weight(j) * Weight(k)
<1> SUFFICES ASSUME NEW j \in Nat, NEW k \in Nat PROVE Weight(j + k) = Weight(j) * Weight(k)
  OBVIOUS
<1>1. Bits * (j + k) = Bits * j + Bits * k
  BY BitsType
<1>2. Bits * j \in Nat /\ Bits * k \in Nat
  BY BitsType
<1>3. 2^(Bits * j + Bits * k) = 2^(Bits * j) * 2^(Bits * k)
  BY <1>2, PowerSum
<1> QED BY <1>1, <1>3 DEF Weight

LEMMA WeightZeroOne == Weight(0) = 1 /\ Weight(1) = Radix
<1>1. Bits * 0 = 0 /\ Bits * 1 = Bits /\ 2^0 = 1
  BY BitsType
<1> QED BY <1>1 DEF Weight, Radix

LEMMA WeightStep == \A k \in Nat : Weight(k + 1) = Weight(k) * Radix
BY WeightSum, WeightZeroOne

\* Bytes, the number they stand for, and what the first bytes of it stand for.
Digit(n, w, i) == (n \div Weight(w - i)) % Radix

LEMMA BigEndianDigits ==
    ASSUME NEW n \in Int, NEW w \in Nat
    PROVE  /\ BigEndian(n, w) \in [1..w -> Bytes]
           /\ Len(BigEndian(n, w)) = w
           /\ \A i \in 1..w : BigEndian(n, w)[i] = Digit(n, w, i)
<1>1. BigEndian(n, w) = [i \in 1..w |-> Digit(n, w, i)]
  BY DEF BigEndian, Digit, Weight, Radix
<1>2. \A i \in 1..w : Digit(n, w, i) \in Bytes
  <2> SUFFICES ASSUME NEW i \in 1..w PROVE Digit(n, w, i) \in Bytes
    OBVIOUS
  <2>1. Weight(w - i) \in Nat \ {0}
    BY WeightType
  <2>2. n \div Weight(w - i) \in Int
    BY <2>1, Quotient
  <2>3. Digit(n, w, i) \in 0..(Radix - 1)
    BY <2>2, RadixType, Quotient DEF Digit
  <2> QED BY <2>3 DEF Bytes, Radix
<1>3. BigEndian(n, w) \in [1..w -> Bytes]
  BY <1>1, <1>2
<1> QED BY <1>1, <1>3

Leading(n, w, i) == n \div Weight(w - i)

LEMMA LeadingBytes ==
    ASSUME NEW w \in Nat, NEW n \in 0..(Weight(w) - 1)
    PROVE  /\ \A i \in 0..w : Leading(n, w, i) \in Int
           /\ Leading(n, w, 0) = 0
           /\ Leading(n, w, w) = n
           /\ \A i \in 1..w : Leading(n, w, i) = Leading(n, w, i - 1) * Radix + Digit(n, w, i)
<1>1. n \in Int /\ \A i \in 0..w : w - i \in Nat
  BY WeightType
<1>2. \A i \in 0..w : Weight(w - i) \in Nat \ {0} /\ Leading(n, w, i) \in Int
  BY <1>1, WeightType, Quotient DEF Leading
<1>3. Leading(n, w, 0) = 0
  <2>1. w - 0 = w /\ Weight(w) \in Nat \ {0} /\ n = Weight(w) * 0 + n
    BY <1>1, WeightType
  <2> QED BY <1>1, <2>1, QuotientUnique DEF Leading
<1>4. Leading(n, w, w) = n
  <2>1. w - w = 0 /\ Weight(0) = 1 /\ n \div 1 = n
    BY <1>1, WeightZeroOne
  <2> QED BY <2>1 DEF Leading
<1>5. ASSUME NEW i \in 1..w
      PROVE  Leading(n, w, i) = Leading(n, w, i - 1) * Radix + Digit(n, w, i)
  <2>1. w - i \in Nat /\ w - (i - 1) = (w - i) + 1 /\ i \in 0..w
    OBVIOUS
  <2>2. Weight(w - (i - 1)) = Weight(w - i) * Radix /\ Weight(w - i) \in Nat \ {0}
    BY <2>1, WeightStep, WeightType
  <2>3. Leading(n, w, i - 1) = Leading(n, w, i) \div Radix
    BY <1>1, <2>2, RadixType, QuotientOfQuotient DEF Leading
  <2>4. Leading(n, w, i) \in Int
    BY <1>2, <2>1
  <2>5. Leading(n, w, i) = Radix * (Leading(n, w, i) \div Radix) + (Leading(n, w, i) % Radix)
        /\ Leading(n, w, i) \div Radix \in Int
    BY <2>4, RadixType, Quotient
  <2>6. Digit(n, w, i) = Leading(n, w, i) % Radix
    BY DEF Digit, Leading
  <2>7. \A k \in Int : Radix * k = k * Radix
    BY RadixType
  <2> QED BY <2>3, <2>5, <2>6, <2>7
<1> QED BY <1>2, <1>3, <1>4, <1>5

UpTo(bytes) ==
    CHOOSE upTo : upTo = [i \in 0..Len(bytes) |->
                             IF i = 0 THEN 0 ELSE upTo[i - 1] * 2^Bits + bytes[i]]

\* What is decoded is what was encoded.
LEMMA UnsignedReads ==
    ASSUME NEW w \in Nat, NEW n \in 0..(Weight(w) - 1), NEW bytes, Len(bytes) = w,
           \A i \in 1..w : bytes[i] = Digit(n, w, i)
    PROVE  Unsigned(bytes) = n
<1> DEFINE Entry(u, i) == IF i = 0 THEN 0 ELSE u[i - 1] * Radix + bytes[i]
           f == [i \in 0..w |-> Leading(n, w, i)]
           u == UpTo(bytes)
           T == {i \in Nat : i <= w => u[i] = Leading(n, w, i)}
<1>1. f = [i \in 0..w |-> Entry(f, i)]
  <2>1. ASSUME NEW i \in 0..w PROVE f[i] = Entry(f, i)
    <3>1. CASE i = 0
      BY <3>1, LeadingBytes
    <3>2. CASE i # 0
      <4>1. i \in 1..w /\ i - 1 \in 0..w
        BY <3>2
      <4>2. f[i] = Leading(n, w, i) /\ f[i - 1] = Leading(n, w, i - 1)
        BY <4>1
      <4>3. bytes[i] = Digit(n, w, i)
        BY <4>1
      <4>4. Leading(n, w, i) = Leading(n, w, i - 1) * Radix + Digit(n, w, i)
        BY <4>1, LeadingBytes
      <4> QED BY <3>2, <4>2, <4>3, <4>4
    <3> QED BY <3>1, <3>2
  <2> QED BY <2>1
<1>2. \E g : g = [i \in 0..w |-> Entry(g, i)]
  <2> HIDE DEF f
  <2> QED BY <1>1
<1>3. u = [i \in 0..w |-> Entry(u, i)]
  BY <1>2 DEF UpTo, Radix
<1>4. Unsigned(bytes) = u[w]
  BY DEF Unsigned, UpTo
<1> HIDE DEF u
<1>5. u[0] = 0 /\ \A i \in 1..w : u[i] = u[i - 1] * Radix + bytes[i]
  BY <1>3
<1>6. 0 \in T
  BY <1>5, LeadingBytes
<1>7. ASSUME NEW i \in Nat, i \in T PROVE i + 1 \in T
  <2> SUFFICES ASSUME i + 1 <= w PROVE u[i + 1] = Leading(n, w, i + 1)
    OBVIOUS
  <2>1. i + 1 \in 1..w /\ (i + 1) - 1 = i /\ i <= w
    OBVIOUS
  <2>2. u[i] = Leading(n, w, i)
    BY <1>7, <2>1
  <2>3. u[i + 1] = u[i] * Radix + bytes[i + 1] /\ bytes[i + 1] = Digit(n, w, i + 1)
    BY <1>5, <2>1
  <2>4. Leading(n, w, i + 1) = Leading(n, w, i) * Radix + Digit(n, w, i + 1)
    BY <2>1, LeadingBytes
  <2> QED BY <2>2, <2>3, <2>4
<1>8. Nat \subseteq T
  <2> HIDE DEF T
  <2> QED BY <1>6, <1>7, NatInductive
<1>9. u[w] = Leading(n, w, w)
  BY <1>8
<1> QED BY <1>4, <1>9, LeadingBytes

\* The bytes of a number are those of any other that differs in higher bytes.
LEMMA SameDigits ==
    ASSUME NEW w \in Nat, NEW n \in Int, NEW m \in Int
    PROVE  \A i \in 1..w : Digit(n + Weight(w) * m, w, i) = Digit(n, w, i)
<1> SUFFICES ASSUME NEW i \in 1..w
             PROVE  Digit(n + Weight(w) * m, w, i) = Digit(n, w, i)
  OBVIOUS
<1> DEFINE d == Weight(w - i)
           e == Weight(i - 1)
           q == n \div d
<1>1. w - i \in Nat /\ i - 1 \in Nat /\ (i - 1) + 1 = i /\ (w - i) + i = w
  OBVIOUS
<1>2. d \in Nat \ {0} /\ e \in Nat \ {0} /\ Radix \in Nat \ {0}
  BY <1>1, WeightType, RadixType
<1>3. Weight(w) = d * (e * Radix)
  <2>1. Weight(w) = d * Weight(i)
    BY <1>1, WeightSum
  <2>2. Weight(i) = e * Radix
    BY <1>1, WeightStep
  <2> QED BY <2>1, <2>2
<1>4. Digit(n, w, i) = q % Radix
  BY DEF Digit
<1>5. Digit(n + Weight(w) * m, w, i) = ((n + Weight(w) * m) \div d) % Radix
  BY DEF Digit
<1>6. q \in Int
  BY <1>2, Quotient
<1> HIDE DEF d, e
<1>7. Weight(w) * m = d * (Radix * (e * m)) /\ e * m \in Int /\ Radix * (e * m) \in Int
  <2>1. \A a, b, c \in Nat : (a * (b * c)) * m = a * (c * (b * m))
    OBVIOUS
  <2> QED BY <1>2, <1>3, <2>1
<1>8. (n + d * (Radix * (e * m))) \div d = q + Radix * (e * m)
  BY <1>2, <1>7, QuotientOfSum
<1> HIDE DEF q
<1>9. (q + Radix * (e * m)) % Radix = q % Radix
  BY <1>2, <1>6, <1>7, QuotientOfSum
<1> QED BY <1>4, <1>5, <1>7, <1>8, <1>9

\* A number without sign, of any width, reads back.
LEMMA UnsignedReadsBack ==
    ASSUME NEW w \in Nat, NEW n \in 0..(Weight(w) - 1)
    PROVE  Unsigned(BigEndian(n, w)) = n
<1>1. n \in Int
  BY WeightType
<1> QED BY <1>1, BigEndianDigits, UnsignedReads

\* Half the numbers of a width are read as negative ones.
LEMMA HalfWeight ==
    ASSUME NEW w \in Nat \ {0}
    PROVE  /\ 2^(Bits * w - 1) \in Nat \ {0}
           /\ Weight(w) = 2 * 2^(Bits * w - 1)
<1>1. Bits * w \in Nat /\ Bits * w >= 1
  <2>1. \A a, b \in Nat \ {0} : a * b \in Nat /\ a * b >= 1
    OBVIOUS
  <2> QED BY <2>1, BitsType
<1>2. Bits * w - 1 \in Nat /\ (Bits * w - 1) + 1 = Bits * w
  BY <1>1
<1> QED BY <1>2, PowerType, PowerStep DEF Weight

\* The numbers of a width, with a sign or without.
LEMMA SignedReadsBack ==
    ASSUME NEW w \in Nat \ {0},
           NEW n \in -(2^(Bits * w - 1))..(2^(Bits * w - 1) - 1)
    PROVE  Signed(BigEndian(n, w)) = n
<1> DEFINE sign == 2^(Bits * w - 1)
           bytes == BigEndian(n, w)
           x == Unsigned(bytes)
<1>1. sign \in Nat \ {0} /\ Weight(w) = 2 * sign
  BY HalfWeight
<1>2. n \in Int /\ -sign <= n /\ n < sign
  BY <1>1
<1>3. Len(bytes) = w /\ \A i \in 1..w : bytes[i] = Digit(n, w, i)
  BY <1>2, BigEndianDigits
<1> HIDE DEF bytes
<1>4. Signed(bytes) = IF (x \div sign) % 2 = 1 THEN x - 2 * sign ELSE x
  BY <1>3 DEF Signed
<1> HIDE DEF sign
<1>5. CASE n >= 0
  <2>1. n \in 0..(Weight(w) - 1)
    BY <1>1, <1>2, <1>5
  <2>2. x = n
    BY <1>3, <2>1, UnsignedReads
  <2>3. x \div sign = 0
    <3>1. n = sign * 0 + n /\ n \in 0..(sign - 1)
      BY <1>1, <1>2, <1>5
    <3> QED BY <1>1, <1>2, <2>2, <3>1, QuotientUnique
  <2> QED BY <1>4, <2>2, <2>3 DEF bytes
<1>6. CASE n < 0
  <2> DEFINE m == n + Weight(w) * 1
  <2>1. m \in 0..(Weight(w) - 1) /\ m = n + 2 * sign
    BY <1>1, <1>2, <1>6
  <2>2. \A i \in 1..w : Digit(m, w, i) = Digit(n, w, i)
    BY <1>2, SameDigits
  <2> HIDE DEF m
  <2>3. x = m
    BY <1>3, <2>1, <2>2, UnsignedReads
  <2>4. x \div sign = 1
    <3>1. m = sign * 1 + (n + sign) /\ n + sign \in 0..(sign - 1) /\ m \in Int
      BY <1>1, <1>2, <1>6, <2>1
    <3> QED BY <1>1, <2>3, <3>1, QuotientUnique
  <2>5. Signed(bytes) = x - 2 * sign
    BY <1>4, <2>4
  <2> QED BY <1>1, <1>2, <2>1, <2>3, <2>5 DEF bytes
<1> QED BY <1>2, <1>5, <1>6

-----------------------------------------------------------------------------
(* Numbers of variable width. *)

\* The marker is one of the upper bits of the first byte.
LEMMA MarkerType ==
    ASSUME NEW w \in 1..Bits
    PROVE  /\ Marker(w) \in Nat \ {0}
           /\ 2 * Marker(w) <= Radix
           /\ \E c \in Nat \ {0} : Radix = Marker(w) * (2 * c)
           /\ \A v \in 1..Bits : v < w => 2 * Marker(w) <= Marker(v)
<1>1. Bits \in Nat /\ Bits - w \in Nat /\ w - 1 \in Nat /\ w \in Nat
  BY BitsType
<1>2. Marker(w) \in Nat \ {0} /\ 2^(w - 1) \in Nat \ {0} /\ 2^w \in Nat
  BY <1>1, PowerType DEF Marker
<1>3. Radix = Marker(w) * (2 * 2^(w - 1))
  <2>1. (Bits - w) + w = Bits /\ (w - 1) + 1 = w
    BY <1>1
  <2>2. Radix = Marker(w) * 2^w
    BY <1>1, <2>1, PowerSum DEF Marker, Radix
  <2>3. 2^w = 2 * 2^(w - 1)
    BY <1>1, <2>1, PowerStep
  <2> QED BY <2>2, <2>3
<1>4. 2 * Marker(w) <= Radix
  <2>1. \A a, c \in Nat \ {0} : 2 * a <= a * (2 * c)
    OBVIOUS
  <2> QED BY <1>2, <1>3, <2>1
<1>5. ASSUME NEW v \in 1..Bits, v < w PROVE 2 * Marker(w) <= Marker(v)
  <2>1. (Bits - w) + 1 \in Nat /\ Bits - v \in Nat /\ (Bits - w) + 1 <= Bits - v
    BY <1>1, <1>5
  <2>2. 2^((Bits - w) + 1) = 2 * Marker(w)
    BY <1>1, PowerStep DEF Marker
  <2>3. 2^((Bits - w) + 1) <= 2^(Bits - v)
    BY <2>1, PowerGrows
  <2> QED BY <2>2, <2>3 DEF Marker
<1> QED BY <1>2, <1>3, <1>4, <1>5

\* From a first byte between a marker and the next the width can be told.
LEMMA WidthTold ==
    ASSUME NEW w \in 1..Bits, NEW byte \in Nat, Marker(w) <= byte, byte < 2 * Marker(w)
    PROVE  byte_to_size_table[byte] = w /\ byte \in Bytes
<1> DEFINE Told(v) == Marker(v) <= byte /\ byte < 2 * Marker(v)
<1>1. Marker(w) \in Nat \ {0} /\ 2 * Marker(w) <= Radix /\ Radix \in Nat
  BY MarkerType, RadixType
<1>2. byte \in Bytes /\ byte # 0
  BY <1>1 DEF Bytes, Radix
<1>3. ASSUME NEW v \in 1..Bits, Told(v) PROVE v = w
  <2>1. Marker(v) \in Nat
    BY MarkerType
  <2>2. v \in Int /\ w \in Int
    BY BitsType
  <2>3. CASE v < w
    <3>1. 2 * Marker(w) <= Marker(v)
      BY <2>3, MarkerType
    <3> QED BY <1>1, <1>3, <2>1, <3>1
  <2>4. CASE w < v
    <3>1. 2 * Marker(v) <= Marker(w)
      BY <2>4, MarkerType
    <3> QED BY <1>1, <1>3, <2>1, <3>1
  <2> QED BY <2>2, <2>3, <2>4
<1>4. byte_to_size_table[byte] = CHOOSE v \in 1..Bits : Told(v)
  BY <1>2 DEF byte_to_size_table
<1>5. Told(w)
  OBVIOUS
<1> HIDE DEF Told
<1>6. (CHOOSE v \in 1..Bits : Told(v)) = w
  BY <1>3, <1>5
<1> QED BY <1>2, <1>4, <1>6

LEMMA WidthFits ==
    ASSUME NEW n \in Int
    PROVE  /\ Width(n) \in 1..Bits
           /\ n < AllOnes(Bits) => n < AllOnes(Width(n))
<1> DEFINE Widths == {w \in 1..(Bits - 1) : Fits(n, w)}
<1>1. Bits \in Nat /\ Bits >= 2 /\ Bits \in 1..Bits /\ \A w \in 1..(Bits - 1) : w \in 1..Bits
  BY BitsType
<1>2. \A w \in 1..Bits : AllOnes(w) \in Int
  <2> SUFFICES ASSUME NEW w \in 1..Bits PROVE AllOnes(w) \in Int
    OBVIOUS
  <2>1. (Bits - 1) * w \in Nat
    BY <1>1
  <2> QED BY <2>1, PowerType DEF AllOnes
<1>3. CASE Widths = {}
  <2>1. Width(n) = Bits
    BY <1>3 DEF Width
  <2> QED BY <1>1, <2>1
<1>4. CASE Widths # {}
  <2>1. Widths \in SUBSET Nat
    BY <1>1
  <2> HIDE DEF Widths
  <2>2. \E w \in Widths : \A v \in Widths : w <= v
    BY <1>4, <2>1, NatMinimum
  <2>3. Width(n) \in Widths
    BY <1>4, <2>2 DEF Width, Widths
  <2>4. Width(n) \in 1..(Bits - 1) /\ Fits(n, Width(n))
    BY <2>3 DEF Widths
  <2>5. n < AllOnes(Width(n))
    BY <1>1, <1>2, <2>4 DEF Fits
  <2> QED BY <1>1, <2>4, <2>5
<1> QED BY <1>3, <1>4

\* OR sets the marker and no other bit: the result is a byte.
LEMMA OrByteType ==
    ASSUME NEW byte \in Bytes, NEW w \in 1..Bits
    PROVE  OrByte(byte, Marker(w)) \in Bytes
<1> DEFINE m == Marker(w)
           k == byte \div m
           r == byte % m
<1>1. m \in Nat \ {0} /\ Radix \in Nat \ {0}
  BY MarkerType, RadixType
<1>2. PICK c \in Nat \ {0} : Radix = m * (2 * c)
  BY MarkerType
<1>3. byte \in 0..(Radix - 1) /\ byte \in Int
  BY <1>1 DEF Bytes, Radix
<1> HIDE DEF m
<1>4. k \in Int /\ r \in 0..(m - 1) /\ byte = m * k + r
  BY <1>1, <1>3, Quotient
<1>5. CASE k % 2 = 1
  BY <1>5 DEF OrByte, m
<1>6. CASE k % 2 # 1
  <2>1. OrByte(byte, m) = byte + m
    BY <1>6 DEF OrByte
  <2> HIDE DEF k, r
  <2>2. k < 2 * c
    <3>1. \A a, b \in Int : a >= b => m * a >= m * b
      BY <1>1
    <3>2. k >= 2 * c => m * k >= Radix
      BY <1>2, <1>4, <3>1
    <3> QED BY <1>1, <1>2, <1>3, <1>4, <3>2
  <2>3. k + 1 < 2 * c
    <3>1. k # 2 * c - 1
      <4>1. (2 * c - 1) % 2 = 1
        BY <1>2
      <4> QED BY <1>6, <4>1
    <3> QED BY <1>2, <1>4, <2>2, <3>1
  <2>4. m * (k + 2) <= Radix
    <3>1. \A a, b \in Int : a <= b => m * a <= m * b
      BY <1>1
    <3>2. k + 2 <= 2 * c /\ k + 2 \in Int /\ 2 * c \in Int
      BY <1>2, <1>4, <2>3
    <3> QED BY <1>2, <3>1, <3>2
  <2>5. m * (k + 2) = m * k + m + m
    BY <1>1, <1>4
  <2>6. byte + m \in 0..(Radix - 1)
    BY <1>1, <1>3, <1>4, <2>4, <2>5
  <2> QED BY <2>1, <2>6 DEF Bytes, Radix, m
<1> QED BY <1>5, <1>6

LEMMA EncodeType ==
    ASSUME NEW n \in Int
    PROVE  Encode(n) \in [1..Width(n) -> Bytes]
<1> DEFINE w == Width(n)
<1>1. w \in 1..Bits /\ w \in Nat
  BY WidthFits, BitsType
<1>2. BigEndian(n, w) \in [1..w -> Bytes]
  BY <1>1, BigEndianDigits
<1>3. Encode(n) = [BigEndian(n, w) EXCEPT ![1] = OrByte(BigEndian(n, w)[1], Marker(w))]
  BY DEF Encode
<1> HIDE DEF w
<1>4. 1 \in 1..w
  BY <1>1
<1>5. OrByte(BigEndian(n, w)[1], Marker(w)) \in Bytes
  BY <1>1, <1>2, <1>4, OrByteType
<1>6. Encode(n) \in [1..w -> Bytes]
  BY <1>2, <1>3, <1>5
<1> QED BY <1>6 DEF w

\* All numbers but the largest leave the bits of the marker and those above it
\* clear, so that OR adds the marker, and all bytes together are those of the
\* sum of the two.
LEMMA EncodeDigits ==
    ASSUME NEW n \in 0..(AllOnes(Bits) - 1)
    PROVE  LET w == Width(n)
               sum == n + Weight(w - 1) * Marker(w)
           IN /\ sum \in 0..(Weight(w) - 1)
              /\ \A i \in 1..w : Encode(n)[i] = Digit(sum, w, i)
              /\ Marker(w) <= Encode(n)[1]
              /\ Encode(n)[1] < 2 * Marker(w)
              /\ Encode(n)[1] \in Nat
              /\ n # AllOnes(w)
<1> DEFINE w == Width(n)
           m == Marker(w)
           d == Weight(w - 1)
           first == n \div d
           sum == n + d * m
<1>1. AllOnes(Bits) \in Int
  <2>1. (Bits - 1) * Bits \in Nat
    BY BitsType
  <2> QED BY <2>1, PowerType DEF AllOnes
<1>2. n \in Int /\ 0 <= n /\ n < AllOnes(Bits)
  BY <1>1
<1>3. w \in 1..Bits /\ n < AllOnes(w)
  BY <1>2, WidthFits
<1> HIDE DEF w
<1>4. w \in Nat \ {0} /\ w - 1 \in Nat /\ Bits \in Nat /\ Bits - w \in Nat
  BY <1>3, BitsType
<1>5. m \in Nat \ {0} /\ 2 * m <= Radix /\ Radix \in Nat \ {0}
  BY <1>3, MarkerType, RadixType
<1>6. d \in Nat \ {0} /\ Weight(w) = d * Radix
  <2>1. (w - 1) + 1 = w
    BY <1>4
  <2> QED BY <1>4, <2>1, WeightType, WeightStep
<1>7. AllOnes(w) = d * m - 1
  <2>1. (Bits - 1) * w = Bits * (w - 1) + (Bits - w) /\ Bits * (w - 1) \in Nat
    BY <1>4, BitsType
  <2>2. 2^((Bits - 1) * w) = d * m
    BY <1>4, <2>1, PowerSum DEF Weight, Marker
  <2> QED BY <2>2 DEF AllOnes
<1> HIDE DEF m, d
<1>8. d * m \in Nat /\ n < d * m - 1
  BY <1>3, <1>5, <1>6, <1>7
<1>9. first \in Int /\ 0 <= first /\ first < m
  <2>1. first \in Int /\ n % d \in 0..(d - 1) /\ n = d * first + (n % d)
    BY <1>2, <1>6, Quotient
  <2> HIDE DEF first
  <2>2. first >= m => d * first >= d * m
    BY <1>5, <1>6, <2>1
  <2>3. first < 0 => d * first <= -d
    BY <1>6, <2>1
  <2>4. d * first \in Int /\ d \in Nat
    BY <1>6, <2>1
  <2> QED BY <1>2, <1>5, <1>8, <2>1, <2>2, <2>3, <2>4
<1>10. Encode(n) = [BigEndian(n, w) EXCEPT ![1] = OrByte(BigEndian(n, w)[1], m)]
  BY DEF Encode, w, m
<1>11. /\ BigEndian(n, w) \in [1..w -> Bytes]
       /\ \A i \in 1..w : BigEndian(n, w)[i] = Digit(n, w, i)
  BY <1>2, <1>4, BigEndianDigits
<1>12. Encode(n)[1] = first + m
  <2>1. Digit(n, w, 1) = first % Radix
    BY DEF Digit, first, d
  <2>2. first % Radix = first
    <3>1. first = Radix * 0 + first /\ first \in 0..(Radix - 1)
      BY <1>5, <1>9
    <3> QED BY <1>5, <1>9, <3>1, QuotientUnique
  <2>3. first \div m = 0
    <3>1. first = m * 0 + first /\ first \in 0..(m - 1)
      BY <1>5, <1>9
    <3> QED BY <1>5, <1>9, <3>1, QuotientUnique
  <2> HIDE DEF first
  <2>4. OrByte(first, m) = first + m
    BY <2>3 DEF OrByte
  <2>5. 1 \in 1..w
    BY <1>4
  <2>6. BigEndian(n, w)[1] = first
    BY <1>11, <2>1, <2>2, <2>5
  <2>7. Encode(n)[1] = OrByte(first, m)
    BY <1>10, <1>11, <2>5, <2>6
  <2> QED BY <2>4, <2>7
<1>13. \A i \in 2..w : Encode(n)[i] = Digit(n, w, i)
  <2>1. \A i \in 2..w : i \in 1..w /\ i # 1
    BY <1>4
  <2> QED BY <1>10, <1>11, <2>1
<1>14. sum \in 0..(Weight(w) - 1)
  <2>1. d * (2 * m) <= d * Radix /\ d * (2 * m) = d * m + d * m /\ d * Radix \in Nat
    BY <1>5, <1>6
  <2> QED BY <1>2, <1>6, <1>8, <2>1
<1>15. \A i \in 1..w : Encode(n)[i] = Digit(sum, w, i)
  <2> SUFFICES ASSUME NEW i \in 1..w PROVE Encode(n)[i] = Digit(sum, w, i)
    OBVIOUS
  <2>1. CASE i = 1
    <3>1. Digit(sum, w, 1) = (sum \div d) % Radix
      BY DEF Digit, d
    <3>2. sum \div d = first + m
      <4>1. m \in Int
        BY <1>5
      <4> QED BY <1>2, <1>6, <4>1, QuotientOfSum
    <3>3. (first + m) % Radix = first + m
      <4> DEFINE s == first + m
      <4>1. s = Radix * 0 + s /\ s \in 0..(Radix - 1) /\ s \in Int
        BY <1>5, <1>9
      <4> HIDE DEF s
      <4>2. s % Radix = s
        BY <1>5, <4>1, QuotientUnique
      <4> QED BY <4>2 DEF s
    <3> QED BY <1>12, <2>1, <3>1, <3>2, <3>3
  <2>2. CASE i # 1
    <3>1. i \in 2..w /\ w - i \in Nat /\ i - 2 \in Nat /\ w - 1 = (w - i) + ((i - 2) + 1)
      BY <1>4, <2>2
    <3> DEFINE e == Weight(w - i)
               g == Weight(i - 2)
               q == n \div e
               k == g * m
    <3>2. d = e * (g * Radix)
      <4> DEFINE p == w - i
                 j == i - 2
                 h == j + 1
      <4>1. p \in Nat /\ j \in Nat /\ h \in Nat /\ w - 1 = p + h
        BY <3>1
      <4> HIDE DEF p, j
      <4>2. Weight(h) = Weight(j) * Radix
        BY <4>1, WeightStep
      <4> HIDE DEF h
      <4>3. d = Weight(p) * Weight(h)
        BY <4>1, WeightSum DEF d
      <4> QED BY <4>2, <4>3 DEF p, j
    <3>3. e \in Nat \ {0} /\ g \in Nat \ {0}
      BY <3>1, WeightType
    <3>4. Digit(sum, w, i) = (sum \div e) % Radix /\ Digit(n, w, i) = q % Radix
      BY DEF Digit
    <3> HIDE DEF e, g
    <3>5. q \in Int
      BY <1>2, <3>3, Quotient
    <3> HIDE DEF q
    <3>6. k \in Int /\ d * m = e * (Radix * k) /\ Radix * k \in Int
      BY <1>5, <3>2, <3>3
    <3> HIDE DEF k
    <3>7. sum \div e = q + Radix * k
      <4>1. (n + e * (Radix * k)) \div e = n \div e + Radix * k
        BY <1>2, <3>3, <3>6, QuotientOfSum
      <4> QED BY <3>6, <4>1 DEF q
    <3>8. (q + Radix * k) % Radix = q % Radix
      BY <1>5, <3>5, <3>6, QuotientOfSum
    <3> QED BY <1>13, <3>1, <3>4, <3>7, <3>8
  <2> QED BY <2>1, <2>2
<1>16. m <= first + m /\ first + m < 2 * m /\ first + m \in Nat
  BY <1>5, <1>9
<1>17. n # AllOnes(w)
  BY <1>2, <1>7, <1>8
<1> HIDE DEF sum, first
<1> QED BY <1>12, <1>14, <1>15, <1>16, <1>17 DEF w, m, d, sum

\* From the first byte of a number the width can be told; its bytes stand for
\* the number, which is not the one whose bits are all set.
LEMMA VariableReadsBack ==
    ASSUME NEW n \in 0..(AllOnes(Bits) - 1)
    PROVE  /\ byte_to_size_table[Encode(n)[1]] = Width(n)
           /\ Value(Encode(n)) = n
           /\ n # AllOnes(Width(n))
<1> DEFINE w == Width(n)
           bytes == Encode(n)
           sum == n + Weight(w - 1) * Marker(w)
<1>1. n \in Int /\ w \in 1..Bits
  <2>1. (Bits - 1) * Bits \in Nat
    BY BitsType
  <2>2. AllOnes(Bits) \in Int
    BY <2>1, PowerType DEF AllOnes
  <2> QED BY <2>2, WidthFits
<1>2. /\ sum \in 0..(Weight(w) - 1)
      /\ \A i \in 1..w : bytes[i] = Digit(sum, w, i)
      /\ Marker(w) <= bytes[1]
      /\ bytes[1] < 2 * Marker(w)
      /\ bytes[1] \in Nat
      /\ n # AllOnes(w)
  BY EncodeDigits
<1>3. bytes \in [1..w -> Bytes]
  BY <1>1, EncodeType
<1> HIDE DEF bytes, w
<1>4. w \in Nat \ {0} /\ Len(bytes) = w /\ w - 1 \in Nat
  BY <1>1, <1>3, BitsType
<1>5. byte_to_size_table[bytes[1]] = w
  BY <1>1, <1>2, WidthTold
<1>6. Unsigned(bytes) = sum
  <2> HIDE DEF sum
  <2> QED BY <1>2, <1>4, UnsignedReads
<1>7. Value(bytes) = n
  <2>1. Value(bytes) = sum - Marker(w) * Weight(w - 1)
    BY <1>4, <1>6 DEF Value, Weight
  <2>2. Marker(w) \in Nat /\ Weight(w - 1) \in Nat
    BY <1>1, <1>4, MarkerType, WeightType
  <2>3. \A a, b \in Nat : n + a * b - b * a = n
    BY <1>1
  <2> QED BY <2>1, <2>2, <2>3
<1> QED BY <1>2, <1>5, <1>7 DEF bytes, w

-----------------------------------------------------------------------------
(* Storage. *)

Cells == Bytes \cup {NotWritten}

\* Storage that nobody has written to is not part of the data.
Clean == \A i \in 1..written : storage[i] \in Bytes

\* A buffer that can be used, and any buffer.
BufferInv == TypeOK /\ Clean /\ ~Lost

AnyBuffer == TypeOK /\ (~Lost => Clean)

LEMMA SpaceType ==
    ASSUME NEW n \in Nat
    PROVE  Space(n) \in Seq(Cells) /\ Len(Space(n)) = n
<1>1. Space(n) \in [1..n -> Cells]
  BY DEF Space, Cells
<1> QED BY <1>1

LEMMA ChunksAreCells == ASSUME NEW s \in Seq(Bytes) PROVE s \in Seq(Cells)
<1>1. s \in [1..Len(s) -> Cells] /\ Len(s) \in Nat
  BY DEF Cells
<1> QED BY <1>1

\* More storage keeps what is in it.
LEMMA Extended ==
    ASSUME NEW s \in Seq(Cells), NEW n \in Nat
    PROVE  /\ s \o Space(n) \in Seq(Cells)
           /\ Len(s \o Space(n)) = Len(s) + n
           /\ \A i \in 1..Len(s) : (s \o Space(n))[i] = s[i]
<1> DEFINE t == Space(n)
<1>1. t \in Seq(Cells) /\ Len(t) = n
  BY SpaceType
<1> HIDE DEF t
<1>2. /\ s \o t \in Seq(Cells)
      /\ Len(s \o t) = Len(s) + n
      /\ \A i \in 1..Len(s) : (s \o t)[i] = s[i]
  BY <1>1
<1> QED BY <1>2 DEF t

LEMMA ReservedStorage ==
    ASSUME storage \in Seq(Cells), NEW size \in Nat
    PROVE  /\ Reserved(size) \in Seq(Cells)
           /\ Len(Reserved(size)) >= size
           /\ Len(Reserved(size)) >= Len(storage)
           /\ \A i \in 1..Len(storage) : Reserved(size)[i] = storage[i]
<1>1. CASE Allocated >= size
  BY <1>1 DEF Reserved, Allocated
<1>2. CASE ~(Allocated >= size)
  <2> DEFINE n == size + ChunkSize - Allocated
  <2>1. n \in Nat /\ Len(storage) + n >= size /\ Len(storage) \in Nat
    BY <1>2, SizesAssumption DEF Allocated
  <2>2. Reserved(size) = storage \o Space(n)
    BY <1>2 DEF Reserved
  <2> HIDE DEF n
  <2>3. /\ storage \o Space(n) \in Seq(Cells)
        /\ Len(storage \o Space(n)) = Len(storage) + n
        /\ \A i \in 1..Len(storage) : (storage \o Space(n))[i] = storage[i]
    BY <2>1, Extended
  <2>4. Len(Reserved(size)) = Len(storage) + n
    BY <2>2, <2>3
  <2>5. Len(Reserved(size)) >= size /\ Len(Reserved(size)) >= Len(storage)
    BY <2>1, <2>4
  <2> QED BY <2>2, <2>3, <2>5
<1> QED BY <1>1, <1>2

LEMMA StoredCells ==
    ASSUME NEW cells \in Seq(Cells), NEW at \in Nat, NEW data \in Seq(Bytes)
    PROVE  /\ Stored(cells, at, data) \in Seq(Cells)
           /\ Len(Stored(cells, at, data)) = Len(cells)
           /\ \A i \in 1..Len(cells) :
                /\ i \in (at + 1)..(at + Len(data)) => Stored(cells, at, data)[i] \in Bytes
                /\ i \in (at + 1)..(at + Len(data)) => Stored(cells, at, data)[i] = data[i - at]
                /\ i \notin (at + 1)..(at + Len(data)) => Stored(cells, at, data)[i] = cells[i]
<1> DEFINE n == Len(cells)
           k == Len(data)
<1>1. n \in Nat /\ k \in Nat
  OBVIOUS
<1>2. \A i \in (at + 1)..(at + k) : data[i - at] \in Bytes
  BY <1>1
<1>3. \A i \in 1..n : cells[i] \in Cells
  OBVIOUS
<1>4. Stored(cells, at, data)
        = [i \in 1..n |-> IF i \in (at + 1)..(at + k) THEN data[i - at] ELSE cells[i]]
  BY DEF Stored
<1> HIDE DEF n, k
<1>5. Stored(cells, at, data) \in [1..n -> Cells]
  BY <1>2, <1>3, <1>4 DEF Cells
<1>6. Stored(cells, at, data) \in Seq(Cells) /\ Len(Stored(cells, at, data)) = n
  BY <1>1, <1>5
<1>7. \A i \in 1..n :
        /\ i \in (at + 1)..(at + k) => Stored(cells, at, data)[i] \in Bytes
        /\ i \in (at + 1)..(at + k) => Stored(cells, at, data)[i] = data[i - at]
        /\ i \notin (at + 1)..(at + k) => Stored(cells, at, data)[i] = cells[i]
  BY <1>2, <1>4
<1> QED BY <1>6, <1>7 DEF n, k

\* The data are what was written at the start of the storage.
LEMMA Data ==
    ASSUME NEW s, NEW w \in Nat, \A i \in 1..w : s[i] \in Bytes
    PROVE  /\ SubSeq(s, 1, w) \in Seq(Bytes)
           /\ Len(SubSeq(s, 1, w)) = w
           /\ \A i \in 1..w : SubSeq(s, 1, w)[i] = s[i]
BY SubSeqProperties

LEMMA SameData ==
    ASSUME NEW s, NEW t, NEW w \in Nat, \A i \in 1..w : s[i] \in Bytes,
           \A i \in 1..w : t[i] = s[i]
    PROVE  SubSeq(t, 1, w) = SubSeq(s, 1, w)
<1>1. \A i \in 1..w : t[i] \in Bytes
  OBVIOUS
<1> DEFINE c == SubSeq(s, 1, w)
           d == SubSeq(t, 1, w)
<1>2. c \in Seq(Bytes) /\ Len(c) = w /\ \A i \in 1..w : c[i] = s[i]
  BY Data
<1>3. d \in Seq(Bytes) /\ Len(d) = w /\ \A i \in 1..w : d[i] = t[i]
  BY <1>1, Data
<1> HIDE DEF c, d
<1>4. c = d
  BY <1>2, <1>3, SeqEqual
<1> QED BY <1>4 DEF c, d

-----------------------------------------------------------------------------
(* The operations of the buffer keep the types and are steps of a file. *)

LEMMA NewTypes ==
    ASSUME storage' \in Seq(Cells), written' \in 0..Len(storage'), position' \in 0..written',
           growing' \in BOOLEAN, read' \in Seq(Bytes) \cup {<<>>}, thrown' \in BOOLEAN
    PROVE  TypeOK' /\ ~Lost'
<1>1. growing' \in BOOLEAN /\ thrown' \in BOOLEAN
  OBVIOUS
<1>2. read' \in Seq(Bytes)
  <2>1. <<>> \in Seq(Bytes)
    OBVIOUS
  <2> QED BY <2>1
<1>3. storage' \in Seq(Bytes \cup {NotWritten})
  BY DEF Cells
<1>4. /\ written' \in Nat /\ position' \in Nat /\ position' <= written'
      /\ ~(written' > Len(storage')) /\ ~(position' > Len(storage'))
  <2>1. Len(storage') \in Nat
    OBVIOUS
  <2> QED BY <2>1
<1>5. ~Lost'
  BY <1>4 DEF Lost, Allocated
<1>6. TypeOK'
  BY <1>1, <1>2, <1>3, <1>4 DEF TypeOK
<1> QED BY <1>5, <1>6

\* Data that are replaced as a whole.
LEMMA NewData ==
    ASSUME storage' \in Seq(Cells), written' \in 0..Len(storage'),
           \A i \in 1..written' : storage'[i] \in Bytes
    PROVE  /\ SubSeq(storage', 1, written') \in Seq(Bytes)
           /\ Len(SubSeq(storage', 1, written')) = written'
           /\ \A i \in 1..written' : SubSeq(storage', 1, written')[i] = storage'[i]
<1>1. written' \in Nat
  OBVIOUS
<1> QED BY <1>1, Data

LEMMA ContentType ==
    ASSUME BufferInv
    PROVE  /\ Content \in Seq(Bytes) /\ Len(Content) = written
           /\ \A i \in 1..written : Content[i] = storage[i]
           /\ written \in Nat /\ position \in Nat /\ Len(storage) \in Nat
           /\ storage \in Seq(Cells) /\ written <= Len(storage) /\ position <= written
<1>1. /\ written \in Nat /\ position \in Nat /\ position <= written
      /\ ~(written > Len(storage)) /\ storage \in Seq(Cells)
  BY DEF BufferInv, TypeOK, Lost, Allocated, Cells
<1>2. /\ Content \in Seq(Bytes) /\ Len(Content) = written
      /\ \A i \in 1..written : Content[i] = storage[i]
  BY <1>1, Data DEF Content, BufferInv, Clean
<1>3. Len(storage) \in Nat /\ written <= Len(storage)
  BY <1>1
<1> QED BY <1>1, <1>2, <1>3

\* The file that a buffer is.
LEMMA FileOf ==
    ASSUME BufferInv
    PROVE  FileContent = Content /\ FilePosition = position /\ Lost = FALSE
BY DEF BufferInv, FileContent, FilePosition, Content, Lost

LEMMA NextFileOf ==
    ASSUME BufferInv'
    PROVE  FileContent' = Content' /\ FilePosition' = position' /\ Lost' = FALSE
BY DEF BufferInv, FileContent, FilePosition, Content, Lost

LEMMA SameCells ==
    ASSUME BufferInv, storage' = storage, written' = written
    PROVE  Content' = Content /\ Clean'
BY DEF BufferInv, Clean, Content

\* The parts of a sequence.
LEMMA PartOf ==
    ASSUME NEW S, NEW c \in Seq(S), NEW m \in Nat, NEW n \in Nat, m <= n, n <= Len(c)
    PROVE  /\ SubSeq(c, m + 1, n) \in Seq(S)
           /\ Len(SubSeq(c, m + 1, n)) = n - m
           /\ \A i \in 1..(n - m) : SubSeq(c, m + 1, n)[i] = c[m + i]
<1> DEFINE d == SubSeq(c, m + 1, n)
           k == n - m
<1>1. k \in Nat /\ n - (m + 1) + 1 = k /\ (IF m + 1 <= n THEN n - (m + 1) + 1 ELSE 0) = k
  OBVIOUS
<1>2. \A i \in (m + 1)..n : c[i] \in S
  OBVIOUS
<1>3. /\ d \in Seq(S)
      /\ Len(d) = IF m + 1 <= n THEN n - (m + 1) + 1 ELSE 0
      /\ \A i \in 1..(n - (m + 1) + 1) : d[i] = c[(m + 1) + i - 1]
  BY <1>2, SubSeqProperties
<1> HIDE DEF d
<1>4. \A i \in 1..k : (m + 1) + i - 1 = m + i
  OBVIOUS
<1>5. \A i \in 1..k : d[i] = c[m + i]
  BY <1>1, <1>3, <1>4
<1> QED BY <1>1, <1>3, <1>5 DEF d, k

\* What replaces a part of a sequence and may go on behind it.
LEMMA Overwritten ==
    ASSUME NEW c \in Seq(Bytes), NEW data \in Seq(Bytes), NEW p \in Nat, p <= Len(c),
           NEW d \in Seq(Bytes),
           Len(d) = IF p + Len(data) > Len(c) THEN p + Len(data) ELSE Len(c),
           \A i \in 1..Len(d) :
             /\ i \in (p + 1)..(p + Len(data)) => d[i] = data[i - p]
             /\ i \notin (p + 1)..(p + Len(data)) => d[i] = c[i]
    PROVE  d = SubSeq(c, 1, p) \o data \o SubSeq(c, p + Len(data) + 1, Len(c))
<1> DEFINE k == Len(data)
           n == Len(c)
           a == SubSeq(c, 1, p)
           b == SubSeq(c, p + k + 1, n)
           ad == a \o data
           e == ad \o b
<1>1. k \in Nat /\ n \in Nat /\ p + k \in Nat /\ p <= n /\ 0 <= p
  OBVIOUS
<1>2. a \in Seq(Bytes) /\ Len(a) = p /\ \A i \in 1..p : a[i] = c[i]
  <2>1. \A i \in 1..p : c[i] \in Bytes
    OBVIOUS
  <2> QED BY <2>1, Data
<1>3. /\ b \in Seq(Bytes) /\ Len(b) = IF p + k > n THEN 0 ELSE n - (p + k)
      /\ \A i \in 1..Len(b) : b[i] = c[p + k + i]
  <2>1. CASE p + k > n
    <3>1. n < p + k + 1
      BY <1>1, <2>1
    <3>2. b = <<>>
      BY <1>1, <3>1, SubSeqEmpty
    <3> QED BY <2>1, <3>2
  <2>2. CASE ~(p + k > n)
    <3>1. p + k <= n
      BY <1>1, <2>2
    <3>2. b \in Seq(Bytes) /\ Len(b) = n - (p + k) /\ \A i \in 1..(n - (p + k)) : b[i] = c[p + k + i]
      BY <1>1, <3>1, PartOf
    <3> QED BY <2>2, <3>2
  <2> QED BY <2>1, <2>2
<1>4. /\ d \in Seq(Bytes) /\ Len(d) = IF p + k > n THEN p + k ELSE n
      /\ \A i \in 1..Len(d) :
             /\ i \in (p + 1)..(p + k) => d[i] = data[i - p]
             /\ i \notin (p + 1)..(p + k) => d[i] = c[i]
  OBVIOUS
<1> HIDE DEF k, n, a, b
<1>5. /\ ad \in Seq(Bytes) /\ Len(ad) = p + k
      /\ \A i \in 1..(p + k) : ad[i] = IF i <= p THEN a[i] ELSE data[i - p]
  <2>1. Len(data) = k
    BY DEF k
  <2> QED BY <1>2, <2>1, ConcatProperties
<1> HIDE DEF ad
<1>6. /\ e \in Seq(Bytes) /\ Len(e) = Len(ad) + Len(b)
      /\ \A i \in 1..(Len(ad) + Len(b)) : e[i] = IF i <= Len(ad) THEN ad[i] ELSE b[i - Len(ad)]
  <2>1. ad \in Seq(Bytes) /\ b \in Seq(Bytes)
    BY <1>3, <1>5
  <2> QED BY <2>1, ConcatProperties
<1> HIDE DEF e
<1>7. Len(b) \in Nat /\ Len(d) = p + k + Len(b)
  <2>1. /\ Len(b) = IF p + k > n THEN 0 ELSE n - (p + k)
        /\ Len(d) = IF p + k > n THEN p + k ELSE n
    BY <1>3, <1>4
  <2>2. CASE p + k > n
    <3>1. Len(b) = 0 /\ Len(d) = p + k
      BY <2>1, <2>2
    <3> QED BY <1>1, <3>1
  <2>3. CASE ~(p + k > n)
    <3>1. Len(b) = n - (p + k) /\ Len(d) = n
      BY <2>1, <2>3
    <3>2. n - (p + k) \in Nat /\ n = p + k + (n - (p + k))
      BY <1>1, <2>3
    <3> QED BY <3>1, <3>2
  <2> QED BY <2>2, <2>3
<1>8. Len(e) = Len(d)
  BY <1>5, <1>6, <1>7
<1>9. ASSUME NEW i \in 1..Len(d) PROVE d[i] = e[i]
  <2>1. i \in Nat /\ 1 <= i /\ i <= p + k + Len(b)
    BY <1>1, <1>7
  <2>2. CASE i <= p
    <3>1. i \in 1..p /\ i \notin (p + 1)..(p + k) /\ i <= p + k
      BY <1>1, <2>1, <2>2
    <3>2. d[i] = c[i] /\ a[i] = c[i]
      BY <1>2, <1>4, <3>1
    <3>3. i \in 1..(Len(ad) + Len(b)) /\ i <= Len(ad) /\ i \in 1..(p + k)
      BY <1>1, <1>5, <1>7, <2>1, <3>1
    <3>4. e[i] = ad[i] /\ ad[i] = a[i]
      BY <1>5, <1>6, <2>2, <3>3
    <3> QED BY <3>2, <3>4
  <2>3. CASE ~(i <= p) /\ i <= p + k
    <3>1. i \in (p + 1)..(p + k) /\ i \in 1..(p + k)
      BY <1>1, <2>1, <2>3
    <3>2. d[i] = data[i - p]
      BY <1>4, <3>1
    <3>3. i \in 1..(Len(ad) + Len(b)) /\ i <= Len(ad)
      BY <1>1, <1>5, <1>7, <2>1, <2>3
    <3>4. e[i] = ad[i] /\ ad[i] = data[i - p]
      BY <1>5, <1>6, <2>3, <3>1, <3>3
    <3> QED BY <3>2, <3>4
  <2>4. CASE ~(i <= p + k)
    <3>1. i \notin (p + 1)..(p + k)
      BY <2>4
    <3>2. d[i] = c[i]
      BY <1>4, <3>1
    <3>3. /\ i \in 1..(Len(ad) + Len(b)) /\ ~(i <= Len(ad)) /\ i - Len(ad) \in 1..Len(b)
          /\ i - Len(ad) \in Nat /\ p + k + (i - Len(ad)) = i
      BY <1>1, <1>5, <1>7, <2>1, <2>4
    <3>4. e[i] = b[i - Len(ad)]
      BY <1>6, <3>3
    <3>5. b[i - Len(ad)] = c[p + k + (i - Len(ad))]
      BY <1>3, <3>3
    <3> QED BY <3>2, <3>3, <3>4, <3>5
  <2> QED BY <1>1, <2>1, <2>2, <2>3, <2>4
<1>10. d = e
  BY <1>4, <1>6, <1>8, <1>9, SeqEqual
<1> QED BY <1>10 DEF e, ad, a, b, k, n

LEMMA PutStep ==
    ASSUME BufferInv, NEW cells \in Seq(Cells), NEW data \in Seq(Bytes),
           position + Len(data) <= Len(cells), written <= Len(cells),
           \A i \in 1..written : cells[i] = storage[i],
           Put(cells, data)
    PROVE  BufferInv' /\ File!Overwrite(data)
<1> DEFINE k == Len(data)
           n == Len(cells)
<1>1. k \in Nat /\ n \in Nat /\ written \in Nat /\ position \in Nat /\ position <= written
  BY ContentType
<1>2. \A i \in 1..written : storage[i] \in Bytes
  BY DEF BufferInv, Clean
<1>3. /\ storage' \in Seq(Cells) /\ Len(storage') = n
      /\ \A i \in 1..n :
           /\ i \in (position + 1)..(position + k) =>
                storage'[i] \in Bytes /\ storage'[i] = data[i - position]
           /\ i \notin (position + 1)..(position + k) => storage'[i] = cells[i]
  BY <1>1, StoredCells DEF Put
<1>4. /\ position' = position + k
      /\ written' = IF position' > written THEN position' ELSE written
      /\ read' = <<>> /\ thrown' = FALSE /\ growing' = growing
  BY DEF Put, WrittenUpTo, Returns
<1>5. position + k <= n /\ written <= n
  OBVIOUS
<1>6. \A i \in 1..written : cells[i] = storage[i]
  OBVIOUS
<1> HIDE DEF k, n
<1>7. written' \in 0..n /\ position' \in 0..written'
  BY <1>1, <1>4, <1>5
<1>8. \A i \in 1..written' :
        /\ i \in 1..n
        /\ i \in (position + 1)..(position + k) \/ i \in 1..written
  BY <1>1, <1>4, <1>5
<1>9. \A i \in 1..written' :
        /\ storage'[i] \in Bytes
        /\ i \in (position + 1)..(position + k) => storage'[i] = data[i - position]
        /\ i \notin (position + 1)..(position + k) => storage'[i] = storage[i]
  BY <1>2, <1>3, <1>6, <1>8
<1>10. TypeOK' /\ ~Lost'
  <2>1. growing' \in BOOLEAN
    BY <1>4 DEF BufferInv, TypeOK
  <2> QED BY <1>3, <1>4, <1>7, <2>1, NewTypes
<1>11. BufferInv'
  BY <1>9, <1>10 DEF BufferInv, Clean
<1> DEFINE c == Content
           d == SubSeq(storage', 1, written')
<1>12. d \in Seq(Bytes) /\ Len(d) = written' /\ \A i \in 1..written' : d[i] = storage'[i]
  BY <1>3, <1>7, <1>9, NewData
<1>13. c \in Seq(Bytes) /\ Len(c) = written /\ \A i \in 1..written : c[i] = storage[i]
  BY ContentType
<1>14. FileContent = c /\ FilePosition = position
  BY FileOf
<1>15. FileContent' = d /\ FilePosition' = position' /\ Lost' = FALSE
  BY <1>11, NextFileOf DEF Content
<1> HIDE DEF c, d
<1>16. /\ Len(d) = IF position + k > Len(c) THEN position + k ELSE Len(c)
       /\ \A i \in 1..Len(d) :
            /\ i \in (position + 1)..(position + k) => d[i] = data[i - position]
            /\ i \notin (position + 1)..(position + k) => d[i] = c[i]
  BY <1>4, <1>8, <1>9, <1>12, <1>13
<1>17. d = SubSeq(c, 1, position) \o data \o SubSeq(c, position + k + 1, Len(c))
  <2>1. position <= Len(c)
    BY <1>1, <1>13
  <2> QED BY <1>1, <1>12, <1>13, <1>16, <2>1, Overwritten DEF k
<1>18. File!Overwrite(data)
  BY <1>4, <1>14, <1>15, <1>17 DEF File!Overwrite, File!Returns, k
<1> QED BY <1>11, <1>18

\* Data that are stored behind the others.
LEMMA ExtendStep ==
    ASSUME BufferInv, NEW cells \in Seq(Cells), NEW data \in Seq(Bytes),
           written + Len(data) <= Len(cells),
           \A i \in 1..written : cells[i] = storage[i],
           storage' = Stored(cells, written, data),
           written' = written + Len(data),
           position' = position, Returns(<<>>)
    PROVE  BufferInv' /\ File!Extend(data)
<1> DEFINE k == Len(data)
           n == Len(cells)
<1>1. k \in Nat /\ n \in Nat /\ written \in Nat /\ position \in Nat /\ position <= written
  BY ContentType
<1>2. \A i \in 1..written : storage[i] \in Bytes
  BY DEF BufferInv, Clean
<1>3. /\ storage' \in Seq(Cells) /\ Len(storage') = n
      /\ \A i \in 1..n :
           /\ i \in (written + 1)..(written + k) =>
                storage'[i] \in Bytes /\ storage'[i] = data[i - written]
           /\ i \notin (written + 1)..(written + k) => storage'[i] = cells[i]
  BY <1>1, StoredCells
<1>4. /\ position' = position /\ written' = written + k /\ written + k <= n
      /\ read' = <<>> /\ thrown' = FALSE /\ growing' = growing
  BY DEF Returns
<1>5. \A i \in 1..written : cells[i] = storage[i]
  OBVIOUS
<1> HIDE DEF k, n
<1>6. written' \in 0..n /\ position' \in 0..written'
  BY <1>1, <1>4
<1>7. \A i \in 1..written' :
        /\ i \in 1..n
        /\ i <= written => i \in 1..written /\ i \notin (written + 1)..(written + k)
        /\ ~(i <= written) => i \in (written + 1)..(written + k)
  BY <1>1, <1>4
<1>8. \A i \in 1..written' :
        /\ storage'[i] \in Bytes
        /\ storage'[i] = IF i <= written THEN storage[i] ELSE data[i - written]
  BY <1>2, <1>3, <1>5, <1>7
<1>9. TypeOK' /\ ~Lost'
  <2>1. growing' \in BOOLEAN
    BY <1>4 DEF BufferInv, TypeOK
  <2> QED BY <1>3, <1>4, <1>6, <2>1, NewTypes
<1>10. BufferInv'
  BY <1>8, <1>9 DEF BufferInv, Clean
<1> DEFINE c == Content
           d == SubSeq(storage', 1, written')
           e == c \o data
<1>11. d \in Seq(Bytes) /\ Len(d) = written' /\ \A i \in 1..written' : d[i] = storage'[i]
  BY <1>3, <1>6, <1>8, NewData
<1>12. c \in Seq(Bytes) /\ Len(c) = written /\ \A i \in 1..written : c[i] = storage[i]
  BY ContentType
<1>13. FileContent = c /\ FilePosition = position
  BY FileOf
<1>14. FileContent' = d /\ FilePosition' = position' /\ Lost' = FALSE
  BY <1>10, NextFileOf DEF Content
<1> HIDE DEF c, d
<1>15. /\ e \in Seq(Bytes) /\ Len(e) = written + k
       /\ \A i \in 1..(written + k) : e[i] = IF i <= written THEN c[i] ELSE data[i - written]
  BY <1>12, ConcatProperties DEF k
<1> HIDE DEF e
<1>16. ASSUME NEW i \in 1..Len(d) PROVE d[i] = e[i]
  <2>1. i \in 1..written' /\ i \in 1..(written + k)
    BY <1>4, <1>11
  <2>2. d[i] = IF i <= written THEN storage[i] ELSE data[i - written]
    BY <1>8, <1>11, <2>1
  <2>3. e[i] = IF i <= written THEN c[i] ELSE data[i - written]
    BY <1>15, <2>1
  <2>4. i <= written => c[i] = storage[i]
    BY <1>7, <1>12, <2>1
  <2> QED BY <2>2, <2>3, <2>4
<1>17. d = e
  BY <1>4, <1>11, <1>15, <1>16, SeqEqual
<1>18. File!Extend(data)
  BY <1>4, <1>13, <1>14, <1>17 DEF File!Extend, File!Returns, e
<1> QED BY <1>10, <1>18

\* Data that are replaced.
LEMMA NewBuffer ==
    ASSUME storage' \in Seq(Cells), written' \in 0..Len(storage'),
           \A i \in 1..written' : storage'[i] \in Bytes,
           growing' \in BOOLEAN, position' = 0, read' = <<>>, thrown' \in BOOLEAN
    PROVE  /\ BufferInv' /\ Lost' = FALSE
           /\ FileContent' = SubSeq(storage', 1, written') /\ FilePosition' = 0
<1>1. TypeOK' /\ ~Lost'
  <2>1. 0 \in 0..written'
    OBVIOUS
  <2> QED BY <2>1, NewTypes
<1>2. BufferInv'
  BY <1>1 DEF BufferInv, Clean
<1> QED BY <1>2, NextFileOf DEF Content

LEMMA RefuseStep ==
    ASSUME BufferInv, Refuse
    PROVE  BufferInv' /\ File!Refuse
<1>1. /\ storage' = storage /\ written' = written /\ position' = position
      /\ growing' = growing /\ read' = <<>> /\ thrown' = TRUE
  BY DEF Refuse, Throws
<1>2. BufferInv'
  BY <1>1 DEF BufferInv, Clean, TypeOK, Allocated, Lost
<1>3. File!Refuse
  BY <1>1 DEF File!Refuse, FileContent, FilePosition, Lost, Allocated
<1> QED BY <1>2, <1>3

\* A caller who wrote beyond the storage.
LEMMA OverrunStep ==
    ASSUME BufferInv, Throws, storage' = storage, written' \in Nat, position' \in Nat,
           written' > Allocated \/ position' > Allocated
    PROVE  AnyBuffer' /\ File!Overrun
<1>1. growing' = growing /\ read' = <<>> /\ thrown' = TRUE
  BY DEF Throws
<1>2. Lost'
  BY DEF Lost, Allocated
<1>3. TypeOK'
  BY <1>1, <1>2 DEF BufferInv, TypeOK, Allocated
<1>4. FileContent' = <<>> /\ FilePosition' = 0 /\ Lost' = TRUE
  BY <1>2 DEF FileContent, FilePosition, Lost
<1> QED BY <1>1, <1>2, <1>3, <1>4 DEF AnyBuffer, File!Overrun

LEMMA UnreadData ==
    ASSUME BufferInv
    PROVE  /\ File!Unread \in Seq(Bytes) /\ Len(File!Unread) = BytesLeft
           /\ \A i \in 1..BytesLeft : File!Unread[i] = storage[position + i]
           /\ BytesLeft \in Nat /\ position + BytesLeft = written
<1> DEFINE c == Content
           u == SubSeq(c, position + 1, Len(c))
<1>1. /\ c \in Seq(Bytes) /\ Len(c) = written /\ \A i \in 1..written : c[i] = storage[i]
      /\ written \in Nat /\ position \in Nat /\ position <= written
  BY ContentType
<1>2. u = File!Unread
  BY FileOf DEF File!Unread
<1> HIDE DEF c
<1>3. /\ u \in Seq(Bytes) /\ Len(u) = written - position
      /\ \A i \in 1..(written - position) : u[i] = c[position + i]
  BY <1>1, PartOf
<1> HIDE DEF u
<1>4. \A i \in 1..(written - position) : position + i \in 1..written
  BY <1>1
<1>5. \A i \in 1..(written - position) : u[i] = storage[position + i]
  BY <1>1, <1>3, <1>4
<1>6. written - position \in Nat /\ position + (written - position) = written
  BY <1>1
<1> QED BY <1>2, <1>3, <1>5, <1>6 DEF BytesLeft

LEMMA TakenStep ==
    ASSUME BufferInv, NEW n \in Nat, position + n <= written, Taken(n)
    PROVE  /\ BufferInv' /\ File!Take(n)
           /\ read' \in Seq(Bytes) /\ Len(read') = n
<1> DEFINE u == File!Unread
           r == SubSeq(storage, position + 1, position + n)
<1>1. /\ u \in Seq(Bytes) /\ Len(u) = BytesLeft
      /\ \A i \in 1..BytesLeft : u[i] = storage[position + i]
  BY UnreadData
<1>2. /\ written \in Nat /\ position \in Nat /\ position <= written
      /\ n \in 0..BytesLeft /\ BytesLeft \in Nat
  BY ContentType, UnreadData
<1>3. /\ position' = position + n /\ read' = r
      /\ thrown' = FALSE /\ storage' = storage /\ written' = written /\ growing' = growing
  BY DEF Taken, Returns
<1> HIDE DEF u
<1>4. \A i \in 1..n : u[i] \in Bytes /\ u[i] = storage[position + i]
  BY <1>1, <1>2
<1>5. \A i \in (position + 1)..(position + n) : storage[i] \in Bytes
  <2>1. \A i \in (position + 1)..(position + n) : i \in 1..written
    BY <1>2
  <2> QED BY <2>1 DEF BufferInv, Clean
<1>6. r \in Seq(Bytes) /\ Len(r) = n /\ \A i \in 1..n : r[i] = storage[position + i]
  <2>1. /\ r \in Seq(Bytes)
        /\ Len(r) = IF position + 1 <= position + n THEN (position + n) - (position + 1) + 1 ELSE 0
        /\ \A i \in 1..((position + n) - (position + 1) + 1) : r[i] = storage[(position + 1) + i - 1]
    BY <1>2, <1>5, SubSeqProperties
  <2> HIDE DEF r
  <2>2. Len(r) = n /\ 1..((position + n) - (position + 1) + 1) = 1..n
    BY <1>2, <2>1
  <2>3. \A i \in 1..n : (position + 1) + i - 1 = position + i
    BY <1>2
  <2>4. \A i \in 1..n : r[i] = storage[position + i]
    BY <2>1, <2>2, <2>3
  <2> QED BY <2>1, <2>2, <2>4
<1> HIDE DEF r
<1>7. SubSeq(u, 1, n) = r
  <2> DEFINE v == SubSeq(u, 1, n)
  <2>1. v \in Seq(Bytes) /\ Len(v) = n /\ \A i \in 1..n : v[i] = u[i]
    BY <1>4, Data
  <2> HIDE DEF v
  <2>2. v = r
    BY <1>4, <1>6, <2>1, SeqEqual
  <2> QED BY <2>2 DEF v
<1>8. position' \in 0..written' /\ written' \in 0..Len(storage') /\ storage' \in Seq(Cells)
  BY <1>2, <1>3, ContentType
<1>9. BufferInv'
  <2>1. growing' \in BOOLEAN
    BY <1>3 DEF BufferInv, TypeOK
  <2>2. TypeOK' /\ ~Lost'
    BY <1>3, <1>6, <1>8, <2>1, NewTypes
  <2>3. Clean'
    BY <1>3, SameCells
  <2> QED BY <2>2, <2>3 DEF BufferInv
<1>10. File!Take(n)
  <2>1. FileContent' = FileContent
    BY <1>3, <1>9, FileOf, NextFileOf, SameCells
  <2>2. FilePosition' = FilePosition + n /\ Lost' = FALSE
    BY <1>3, <1>9, FileOf, NextFileOf
  <2> QED BY <1>3, <1>7, <2>1, <2>2 DEF File!Take, File!Returns, u
<1> QED BY <1>3, <1>6, <1>9, <1>10

LEMMA SeekStep ==
    ASSUME BufferInv, NEW p \in Nat, seek(p)
    PROVE  BufferInv' /\ File!Seek(p)
<1>0. /\ written \in Nat /\ Len(FileContent) = written
  BY ContentType, FileOf
<1>1. CASE p > written
  <2>1. Refuse
    BY <1>1 DEF seek
  <2> QED BY <1>0, <1>1, <2>1, RefuseStep DEF File!Seek
<1>2. CASE ~(p > written)
  <2>1. /\ position' = p /\ read' = <<>> /\ thrown' = FALSE /\ growing' = growing
        /\ storage' = storage /\ written' = written
    BY <1>2 DEF seek, Returns
  <2>2. p \in 0..written
    BY <1>0, <1>2
  <2>3. BufferInv'
    <3>1. storage' \in Seq(Cells) /\ written' \in 0..Len(storage')
      BY <2>1, ContentType
    <3>2. growing' \in BOOLEAN /\ thrown' \in BOOLEAN
      BY <2>1 DEF BufferInv, TypeOK
    <3>3. TypeOK' /\ ~Lost'
      BY <2>1, <2>2, <3>1, <3>2, NewTypes
    <3> QED BY <2>1, <3>3, SameCells DEF BufferInv
  <2>4. FileContent' = FileContent /\ FilePosition' = p /\ Lost' = FALSE
    BY <2>1, <2>3, FileOf, NextFileOf, SameCells
  <2>5. File!Seek(p)
    BY <1>0, <1>2, <2>1, <2>4 DEF File!Seek, File!Returns
  <2> QED BY <2>3, <2>5
<1> QED BY <1>1, <1>2

LEMMA WriteFixedStep ==
    ASSUME BufferInv, NEW data \in Seq(Bytes), WriteFixed(data)
    PROVE  BufferInv' /\ (File!Overwrite(data) \/ File!Refuse)
<1>1. CASE position + Len(data) > Allocated
  <2>1. Refuse
    BY <1>1 DEF WriteFixed
  <2> QED BY <2>1, RefuseStep
<1>2. CASE ~(position + Len(data) > Allocated)
  <2>1. Put(storage, data)
    BY <1>2 DEF WriteFixed
  <2>2. /\ storage \in Seq(Cells) /\ position + Len(data) <= Len(storage)
        /\ written <= Len(storage)
    BY <1>2, ContentType DEF Allocated
  <2> QED BY <2>1, <2>2, PutStep
<1> QED BY <1>1, <1>2

LEMMA WriteGrowingStep ==
    ASSUME BufferInv, NEW data \in Seq(Bytes), WriteGrowing(data)
    PROVE  BufferInv' /\ File!Overwrite(data)
<1> DEFINE size == position + Len(data)
           cells == Reserved(size)
<1>1. /\ size \in Nat /\ written \in Nat /\ written <= Len(storage)
      /\ Len(storage) \in Nat /\ storage \in Seq(Cells)
  BY ContentType
<1>2. Put(cells, data)
  BY DEF WriteGrowing
<1>3. /\ cells \in Seq(Cells) /\ Len(cells) >= size /\ Len(cells) >= Len(storage)
      /\ \A i \in 1..Len(storage) : cells[i] = storage[i]
  BY <1>1, ReservedStorage
<1> HIDE DEF cells
<1>4. size <= Len(cells) /\ written <= Len(cells) /\ \A i \in 1..written : cells[i] = storage[i]
  <2>1. Len(cells) \in Nat
    BY <1>3
  <2> QED BY <1>1, <1>3, <2>1
<1> QED BY <1>2, <1>3, <1>4, PutStep

LEMMA EncodedBytes ==
    ASSUME NEW number \in Numbers
    PROVE  Encode(number) \in Seq(Bytes) /\ Len(Encode(number)) \in Nat /\ Len(Encode(number)) <= Bits
<1> DEFINE data == Encode(number)
<1>1. PICK width \in 1..Bits : data \in [1..width -> Bytes]
  <2>1. number \in Int
    BY NumbersAssumption
  <2> QED BY <2>1, EncodeType, WidthFits
<1> HIDE DEF data
<1>2. width \in Nat /\ width <= Bits
  BY <1>1, BitsAssumption
<1>3. data \in Seq(Bytes) /\ Len(data) = width
  BY <1>1, <1>2
<1> QED BY <1>2, <1>3 DEF data

LEMMA wmkvuintStep ==
    ASSUME BufferInv, NEW number \in Numbers, wmkvuint(number)
    PROVE  BufferInv' /\ (File!Overwrite(Encode(number)) \/ File!Refuse)
<1>1. CASE position + Bits > Allocated
  <2>1. Refuse
    BY <1>1 DEF wmkvuint
  <2> QED BY <2>1, RefuseStep
<1>2. CASE ~(position + Bits > Allocated)
  <2> DEFINE data == Encode(number)
  <2>1. Put(storage, data)
    BY <1>2 DEF wmkvuint
  <2>2. data \in Seq(Bytes) /\ Len(data) \in Nat /\ Len(data) <= Bits
    BY EncodedBytes
  <2> HIDE DEF data
  <2>3. /\ storage \in Seq(Cells) /\ position + Len(data) <= Len(storage)
        /\ written <= Len(storage)
    BY <1>2, <2>2, ContentType, BitsAssumption DEF Allocated
  <2>4. BufferInv' /\ File!Overwrite(data)
    BY <2>1, <2>2, <2>3, PutStep
  <2> QED BY <2>4 DEF data
<1> QED BY <1>1, <1>2

LEMMA WriteToEndStep ==
    ASSUME BufferInv, NEW data \in Seq(Bytes), write_to_end(data)
    PROVE  BufferInv' /\ File!Extend(data)
<1> DEFINE size == written + Len(data)
           cells == Reserved(size)
<1>1. /\ size \in Nat /\ written \in Nat /\ written <= Len(storage)
      /\ Len(storage) \in Nat /\ storage \in Seq(Cells)
  BY ContentType
<1>2. /\ storage' = Stored(cells, written, data) /\ written' = size
      /\ position' = position /\ Returns(<<>>)
  BY DEF write_to_end
<1>3. /\ cells \in Seq(Cells) /\ Len(cells) >= size /\ Len(cells) >= Len(storage)
      /\ \A i \in 1..Len(storage) : cells[i] = storage[i]
  BY <1>1, ReservedStorage
<1> HIDE DEF cells
<1>4. size <= Len(cells) /\ \A i \in 1..written : cells[i] = storage[i]
  <2>1. Len(cells) \in Nat
    BY <1>3
  <2> QED BY <1>1, <1>3, <2>1
<1> QED BY <1>2, <1>3, <1>4, ExtendStep

LEMMA BytesAppendedStep ==
    ASSUME BufferInv, NEW data \in Seq(Bytes), bytes_appended(data)
    PROVE  AnyBuffer' /\ (File!Extend(data) \/ File!Overrun)
<1>1. written' = written + Len(data) /\ position' = position
  BY DEF bytes_appended
<1>2. /\ storage \in Seq(Cells) /\ written \in Nat /\ position \in Nat /\ Len(data) \in Nat
      /\ Len(storage) \in Nat
  BY ContentType
<1>3. CASE written + Len(data) > Allocated
  <2>1. Throws /\ storage' = storage
    BY <1>3 DEF bytes_appended
  <2> QED BY <1>1, <1>2, <1>3, <2>1, OverrunStep
<1>4. CASE ~(written + Len(data) > Allocated)
  <2>1. storage' = Stored(storage, written, data) /\ Returns(<<>>)
    BY <1>4 DEF bytes_appended
  <2>2. written + Len(data) <= Len(storage)
    BY <1>2, <1>4 DEF Allocated
  <2>3. BufferInv' /\ File!Extend(data)
    BY <1>1, <1>2, <2>1, <2>2, ExtendStep
  <2> QED BY <2>3 DEF BufferInv, AnyBuffer
<1> QED BY <1>3, <1>4

LEMMA ConsumeBytesStep ==
    ASSUME BufferInv, NEW data \in Seq(Bytes), consume_bytes(data)
    PROVE  AnyBuffer' /\ (File!Overwrite(data) \/ File!Overrun)
<1>1. /\ storage \in Seq(Cells) /\ written \in Nat /\ position \in Nat /\ Len(data) \in Nat
      /\ Len(storage) \in Nat /\ written <= Len(storage)
  BY ContentType
<1>2. CASE position + Len(data) <= Allocated
  <2>1. Put(storage, data)
    BY <1>2 DEF consume_bytes
  <2>2. BufferInv' /\ File!Overwrite(data)
    BY <1>1, <1>2, <2>1, PutStep DEF Allocated
  <2> QED BY <2>2 DEF BufferInv, AnyBuffer
<1>3. CASE ~(position + Len(data) <= Allocated)
  <2>1. position' = position + Len(data) /\ Throws /\ storage' = storage /\ written' = written
    BY <1>3 DEF consume_bytes
  <2>2. position' > Allocated /\ position' \in Nat /\ written' \in Nat
    BY <1>1, <1>3, <2>1 DEF Allocated
  <2> QED BY <2>1, <2>2, OverrunStep
<1> QED BY <1>2, <1>3

\* Loading is for a buffer that was lost, too.
LEMMA LoadPayloadStep ==
    ASSUME TypeOK, NEW input \in Seq(Bytes), NEW size \in Nat, load_payload(input, size)
    PROVE  BufferInv' /\ File!Load(input, size)
<1> DEFINE cells == Reserved(size)
<1>1. /\ cells \in Seq(Cells) /\ Len(cells) >= size
  <2>1. storage \in Seq(Cells)
    BY DEF TypeOK, Cells
  <2> QED BY <2>1, ReservedStorage
<1>2. growing' = growing /\ growing \in BOOLEAN /\ position' = 0 /\ read' = <<>>
  BY DEF load_payload, Returns, Throws, TypeOK
<1>3. CASE size <= Len(input)
  <2> DEFINE data == SubSeq(input, 1, size)
             d == SubSeq(storage', 1, written')
  <2>1. /\ storage' = Stored(cells, 0, data) /\ written' = size /\ thrown' = FALSE
    BY <1>3 DEF load_payload, Returns
  <2>2. data \in Seq(Bytes) /\ Len(data) = size
    <3>1. \A i \in 1..size : input[i] \in Bytes
      BY <1>3
    <3> QED BY <3>1, Data
  <2> HIDE DEF data, cells, d
  <2>3. /\ storage' \in Seq(Cells) /\ Len(storage') = Len(cells)
        /\ \A i \in 1..Len(cells) : i \in (0 + 1)..(0 + size) =>
             storage'[i] \in Bytes /\ storage'[i] = data[i - 0]
    BY <1>1, <2>1, <2>2, StoredCells
  <2>4. Len(cells) \in Nat /\ size \in Nat
    BY <1>1
  <2>5. /\ written' \in 0..Len(storage')
        /\ \A i \in 1..written' : storage'[i] \in Bytes /\ storage'[i] = data[i]
    BY <1>1, <2>1, <2>3, <2>4
  <2>6. growing' \in BOOLEAN /\ thrown' \in BOOLEAN
    BY <1>2, <2>1
  <2>7. BufferInv' /\ Lost' = FALSE /\ FileContent' = d /\ FilePosition' = 0
    BY <1>2, <2>3, <2>5, <2>6, NewBuffer DEF d
  <2>8. d \in Seq(Bytes) /\ Len(d) = size /\ \A i \in 1..size : d[i] = storage'[i]
    BY <2>1, <2>3, <2>5, NewData DEF d
  <2>9. d = data
    BY <2>1, <2>2, <2>5, <2>8, SeqEqual
  <2>10. File!Load(input, size)
    BY <1>2, <1>3, <2>1, <2>7, <2>9 DEF File!Load, File!Returns, data
  <2> QED BY <2>7, <2>10
<1>4. CASE ~(size <= Len(input))
  <2>1. storage' = cells /\ written' = 0 /\ thrown' = TRUE
    BY <1>4 DEF load_payload, Throws
  <2> HIDE DEF cells
  <2>2. growing' \in BOOLEAN /\ thrown' \in BOOLEAN
    BY <1>2, <2>1
  <2>3. storage' \in Seq(Cells) /\ written' \in 0..Len(storage') /\ \A i \in 1..written' : storage'[i] \in Bytes
    BY <1>1, <1>2, <2>1
  <2>4. BufferInv' /\ Lost' = FALSE /\ FileContent' = SubSeq(storage', 1, written') /\ FilePosition' = 0
    BY <1>2, <2>2, <2>3, NewBuffer
  <2>5. SubSeq(storage', 1, written') = <<>>
    BY <2>1, SubSeqEmpty
  <2>6. size > Len(input)
    BY <1>4
  <2>7. File!Load(input, size)
    BY <1>2, <2>1, <2>4, <2>5, <2>6 DEF File!Load
  <2> QED BY <2>4, <2>7
<1> QED BY <1>3, <1>4

LEMMA GetStep ==
    ASSUME BufferInv, NEW n \in Nat, Get(n)
    PROVE  BufferInv' /\ File!Get(n) /\ (~thrown' => Len(read') = n)
<1>0. /\ Len(File!Unread) = BytesLeft /\ BytesLeft \in Nat /\ position + BytesLeft = written
      /\ position \in Nat
  BY ContentType, UnreadData
<1>1. CASE position + n > written
  <2>1. Refuse
    BY <1>1 DEF Get
  <2>2. thrown' /\ n > Len(File!Unread)
    BY <1>0, <1>1, <2>1 DEF Refuse, Throws
  <2> QED BY <2>1, <2>2, RefuseStep DEF File!Get
<1>2. CASE ~(position + n > written)
  <2>1. Taken(n)
    BY <1>2 DEF Get
  <2>2. position + n <= written /\ ~(n > Len(File!Unread))
    BY <1>0, <1>2
  <2> QED BY <2>1, <2>2, TakenStep DEF File!Get
<1> QED BY <1>1, <1>2

LEMMA AtMostBounds ==
    ASSUME BufferInv, NEW n \in Nat
    PROVE  /\ AtMost(n) \in Nat /\ position + AtMost(n) <= written
           /\ AtMost(n) = IF n > Len(File!Unread) THEN Len(File!Unread) ELSE n
           /\ AtMost(n) = 0 <=> n = 0 \/ Len(File!Unread) = 0
<1>1. /\ Len(File!Unread) = BytesLeft /\ BytesLeft \in Nat /\ position + BytesLeft = written
      /\ position \in Nat
  BY ContentType, UnreadData
<1>2. AtMost(n) = IF n > Len(File!Unread) THEN Len(File!Unread) ELSE n
  BY <1>1 DEF AtMost
<1> QED BY <1>1, <1>2

LEMMA AtMostStep ==
    ASSUME BufferInv, NEW n \in Nat, rbytes_at_most(n)
    PROVE  BufferInv' /\ File!GetAtMost(n)
<1> DEFINE m == AtMost(n)
<1>1. m \in Nat /\ position + m <= written /\ Taken(m)
  BY AtMostBounds DEF rbytes_at_most
<1>2. m = IF n > Len(File!Unread) THEN Len(File!Unread) ELSE n
  BY AtMostBounds
<1> HIDE DEF m
<1>3. BufferInv' /\ File!Take(m)
  BY <1>1, TakenStep
<1> QED BY <1>2, <1>3 DEF File!GetAtMost

LEMMA SendStep ==
    ASSUME BufferInv, NEW n \in Nat, wb(n)
    PROVE  BufferInv' /\ File!Send(n)
<1>1. AtMost(n) = 0 <=> n = 0 \/ Len(File!Unread) = 0
  BY AtMostBounds
<1>2. CASE AtMost(n) = 0
  <2>1. Refuse
    BY <1>2 DEF wb
  <2> QED BY <1>1, <1>2, <2>1, RefuseStep DEF File!Send
<1>3. CASE AtMost(n) # 0
  <2>1. rbytes_at_most(n)
    BY <1>3 DEF wb, rbytes_at_most
  <2> QED BY <1>1, <1>3, <2>1, AtMostStep DEF File!Send
<1> QED BY <1>2, <1>3

LEMMA NullTerminatedStep ==
    ASSUME BufferInv, rnullterminatedstring
    PROVE  BufferInv' /\ File!GetString
<1> DEFINE Ends0 == {n \in 0..(BytesLeft - 1) : storage[position + n + 1] = 0}
           first == CHOOSE n \in Ends0 : \A m \in Ends0 : n <= m
           u == File!Unread
<1>1. /\ BytesLeft \in Nat /\ position + BytesLeft = written /\ position \in Nat
      /\ Len(u) = BytesLeft /\ \A i \in 1..BytesLeft : u[i] = storage[position + i]
  BY ContentType, UnreadData
<1> HIDE DEF u
<1>2. \A n \in 0..(BytesLeft - 1) : u[n + 1] = storage[position + n + 1]
  <2> SUFFICES ASSUME NEW n \in 0..(BytesLeft - 1) PROVE u[n + 1] = storage[position + n + 1]
    OBVIOUS
  <2>1. n + 1 \in 1..BytesLeft /\ position + (n + 1) = position + n + 1
    BY <1>1
  <2> QED BY <1>1, <2>1
<1>3. ASSUME NEW i \in 1..BytesLeft, u[i] = 0 PROVE i - 1 \in Ends0
  <2>1. i - 1 \in 0..(BytesLeft - 1) /\ (i - 1) + 1 = i
    BY <1>1
  <2>2. storage[position + (i - 1) + 1] = 0
    BY <1>2, <1>3, <2>1
  <2> QED BY <2>1, <2>2
<1>4. CASE Ends0 = {}
  <2>1. Taken(BytesLeft)
    BY <1>4 DEF rnullterminatedstring
  <2>2. BufferInv' /\ File!Take(BytesLeft)
    BY <1>1, <2>1, TakenStep
  <2>3. \A i \in 1..BytesLeft : u[i] # 0
    BY <1>3, <1>4
  <2>4. BytesLeft \in 0..Len(u) /\ ~(BytesLeft < Len(u))
    BY <1>1
  <2> QED BY <2>2, <2>3, <2>4 DEF File!GetString, u
<1>5. CASE Ends0 # {}
  <2>1. Taken(first)
    BY <1>5 DEF rnullterminatedstring
  <2>2. Ends0 \in SUBSET Nat
    BY <1>1
  <2>3. first \in Ends0 /\ \A m \in Ends0 : first <= m
    <3>1. \E n \in Ends0 : \A m \in Ends0 : n <= m
      BY <1>5, <2>2, NatMinimum
    <3> QED BY <3>1
  <2>4. first \in 0..(BytesLeft - 1) /\ storage[position + first + 1] = 0
    BY <2>3
  <2>5. u[first + 1] = 0
    BY <1>2, <2>4
  <2>6. ASSUME NEW i \in 1..first PROVE u[i] # 0
    <3> SUFFICES ASSUME u[i] = 0 PROVE FALSE
      OBVIOUS
    <3> HIDE DEF first
    <3>1. i \in 1..BytesLeft /\ i - 1 < first
      BY <1>1, <2>4
    <3>2. i - 1 \in Ends0
      BY <1>3, <3>1
    <3>3. first <= i - 1
      BY <2>3, <3>2
    <3> QED BY <1>1, <2>4, <3>1, <3>3
  <2> HIDE DEF first, Ends0
  <2>7. first \in Nat /\ position + first <= written /\ first \in 0..Len(u)
    BY <1>1, <2>4
  <2>8. BufferInv' /\ File!Take(first)
    BY <2>1, <2>7, TakenStep
  <2> QED BY <2>5, <2>6, <2>7, <2>8 DEF File!GetString, u
<1> QED BY <1>4, <1>5

\* ... and so is clearing.
LEMMA ClearStep == ASSUME TypeOK, clear PROVE BufferInv' /\ File!Clear
<1>1. /\ storage' = storage /\ written' = 0 /\ position' = 0 /\ growing' = growing
      /\ read' = <<>> /\ thrown' = FALSE
  BY DEF clear, Returns
<1>2. storage' \in Seq(Cells) /\ written' \in 0..Len(storage')
  <2>1. storage' \in Seq(Cells)
    BY <1>1 DEF TypeOK, Cells
  <2> QED BY <1>1, <2>1
<1>3. \A i \in 1..written' : storage'[i] \in Bytes
  BY <1>1
<1>4. growing' \in BOOLEAN /\ thrown' \in BOOLEAN
  BY <1>1 DEF TypeOK
<1>5. BufferInv' /\ Lost' = FALSE /\ FileContent' = SubSeq(storage', 1, written') /\ FilePosition' = 0
  BY <1>1, <1>2, <1>3, <1>4, NewBuffer
<1>6. SubSeq(storage', 1, written') = <<>>
  BY <1>1, SubSeqEmpty
<1> QED BY <1>1, <1>5, <1>6 DEF File!Clear, File!Returns

LEMMA MovedFromStep == ASSUME TypeOK, MovedFrom PROVE BufferInv' /\ File!Clear
<1>1. /\ storage' = <<>> /\ written' = 0 /\ position' = 0 /\ growing' = growing
      /\ read' = <<>> /\ thrown' = FALSE
  BY DEF MovedFrom, Returns
<1>2. storage' \in Seq(Cells) /\ written' \in 0..Len(storage')
  BY <1>1
<1>3. \A i \in 1..written' : storage'[i] \in Bytes
  BY <1>1
<1>4. growing' \in BOOLEAN /\ thrown' \in BOOLEAN
  BY <1>1 DEF TypeOK
<1>5. BufferInv' /\ Lost' = FALSE /\ FileContent' = SubSeq(storage', 1, written') /\ FilePosition' = 0
  BY <1>1, <1>2, <1>3, <1>4, NewBuffer
<1>6. SubSeq(storage', 1, written') = <<>>
  BY <1>1, SubSeqEmpty
<1> QED BY <1>1, <1>5, <1>6 DEF File!Clear, File!Returns

\* What is kept are the unread bytes, once.
LEMMA EliminateStep ==
    ASSUME BufferInv, NEW forced \in BOOLEAN, eliminate_parsed_data(forced)
    PROVE  BufferInv' /\ File!DropRead
<1> DEFINE u == File!Unread
           left == BytesLeft
<1>1. /\ u \in Seq(Bytes) /\ Len(u) = left /\ left \in Nat /\ position + left = written
      /\ \A i \in 1..left : u[i] = storage[position + i]
  BY UnreadData
<1>2. /\ position \in Nat /\ written \in Nat /\ storage \in Seq(Cells)
      /\ Len(storage) \in Nat /\ written <= Len(storage)
  BY ContentType
<1> HIDE DEF u
<1>3. CASE position = written
  <2>1. clear
    BY <1>3 DEF eliminate_parsed_data
  <2>2. BufferInv' /\ File!Clear
    BY <2>1, ClearStep DEF BufferInv
  <2>3. u = <<>>
    <3>1. Len(u) = 0
      BY <1>1, <1>2, <1>3
    <3> QED BY <1>1, <3>1
  <2> QED BY <2>2, <2>3 DEF File!Clear, File!DropRead, u
<1>4. CASE position # written
  <2> DEFINE data == SubSeq(storage, position + 1, written)
             d == SubSeq(storage', 1, written')
  <2>1. /\ storage' = Stored(storage, 0, data) /\ written' = left /\ position' = 0
        /\ read' = <<>> /\ thrown' = FALSE /\ growing' = growing
    BY <1>4 DEF eliminate_parsed_data, Returns, BytesLeft
  <2>2. /\ left <= Len(storage) /\ position <= written /\ written - position = left
    BY <1>1, <1>2
  <2>3. /\ data \in Seq(Bytes) /\ Len(data) = left
        /\ \A i \in 1..left : data[i] = storage[position + i]
    <3>1. /\ written - (position + 1) + 1 = left
          /\ (IF position + 1 <= written THEN written - (position + 1) + 1 ELSE 0) = left
          /\ \A i \in 1..left : (position + 1) + i - 1 = position + i
      BY <1>1, <1>2
    <3>2. \A i \in (position + 1)..written : storage[i] \in Bytes
      BY <1>2 DEF BufferInv, Clean
    <3>3. /\ data \in Seq(Bytes)
          /\ Len(data) = IF position + 1 <= written THEN written - (position + 1) + 1 ELSE 0
          /\ \A i \in 1..(written - (position + 1) + 1) : data[i] = storage[(position + 1) + i - 1]
      BY <1>2, <3>2, SubSeqProperties
    <3> HIDE DEF data, left
    <3> QED BY <3>1, <3>3
  <2> HIDE DEF data, left, d
  <2>4. /\ storage' \in Seq(Cells) /\ Len(storage') = Len(storage)
        /\ \A i \in 1..Len(storage) : i \in (0 + 1)..(0 + left) =>
             storage'[i] \in Bytes /\ storage'[i] = data[i - 0]
    <3> DEFINE new == Stored(storage, 0, data)
    <3>1. 0 \in Nat /\ storage \in Seq(Cells) /\ data \in Seq(Bytes)
      BY <1>2, <2>3
    <3>2. /\ new \in Seq(Cells) /\ Len(new) = Len(storage)
          /\ \A i \in 1..Len(storage) : i \in (0 + 1)..(0 + Len(data)) =>
               new[i] \in Bytes /\ new[i] = data[i - 0]
      BY <3>1, StoredCells
    <3> HIDE DEF new
    <3>3. storage' = new
      BY <2>1 DEF new
    <3> QED BY <2>3, <3>2, <3>3
  <2>5. /\ \A i \in 1..left : storage'[i] \in Bytes /\ storage'[i] = data[i]
        /\ written' \in 0..Len(storage')
    BY <1>1, <1>2, <2>1, <2>2, <2>4
  <2>6. d \in Seq(Bytes) /\ Len(d) = left /\ \A i \in 1..left : d[i] = storage'[i]
    BY <2>1, <2>4, <2>5, NewData DEF d
  <2>7. d = u
    <3>1. \A i \in 1..left : d[i] = u[i]
      BY <1>1, <2>3, <2>5, <2>6
    <3> QED BY <1>1, <2>6, <3>1, SeqEqual
  <2>8. growing' \in BOOLEAN /\ thrown' \in BOOLEAN
    BY <2>1 DEF BufferInv, TypeOK
  <2>9. BufferInv' /\ Lost' = FALSE /\ FileContent' = d /\ FilePosition' = 0
    BY <2>1, <2>4, <2>5, <2>8, NewBuffer DEF d
  <2>10. File!DropRead
    BY <2>1, <2>7, <2>9 DEF File!DropRead, File!Returns, u
  <2> QED BY <2>9, <2>10
<1> QED BY <1>3, <1>4

LEMMA CopyStep == ASSUME BufferInv, Copy PROVE BufferInv' /\ File!Keep
<1> DEFINE c == Content
<1>1. /\ storage' = c /\ written' = written /\ position' = position
      /\ read' = <<>> /\ thrown' = FALSE /\ growing' = growing
  BY DEF Copy, Returns, Content
<1>2. /\ c \in Seq(Bytes) /\ Len(c) = written /\ \A i \in 1..written : c[i] = storage[i]
      /\ written \in Nat /\ position \in Nat /\ position <= written
  BY ContentType
<1>3. FileContent = c /\ FilePosition = position
  BY FileOf
<1> HIDE DEF c
<1>4. /\ storage' \in Seq(Cells) /\ written' \in 0..Len(storage') /\ position' \in 0..written'
  BY <1>1, <1>2, ChunksAreCells
<1>5. growing' \in BOOLEAN /\ thrown' \in BOOLEAN
  BY <1>1 DEF BufferInv, TypeOK
<1>6. TypeOK' /\ ~Lost'
  BY <1>1, <1>4, <1>5, NewTypes
<1>7. BufferInv'
  BY <1>1, <1>2, <1>6 DEF BufferInv, Clean
<1>8. SubSeq(storage', 1, written') = c
  BY <1>1, <1>2, SubSeqFull
<1>9. FileContent' = c /\ FilePosition' = position /\ Lost' = FALSE
  BY <1>1, <1>7, <1>8, NextFileOf DEF Content
<1> QED BY <1>1, <1>3, <1>7, <1>9 DEF File!Keep, File!Returns

LEMMA CloneStep ==
    ASSUME BufferInv, clone
    PROVE  BufferInv' /\ File!Rewind /\ Content' = Content
<1> DEFINE c == Content
           n == Allocated - written
<1>1. /\ storage' = c \o Space(n) /\ written' = written /\ position' = 0
      /\ read' = <<>> /\ thrown' = FALSE /\ growing' = FALSE
  <2>1. storage' = c \o Space(n)
    BY DEF clone, Content
  <2>2. /\ written' = written /\ position' = 0
        /\ read' = <<>> /\ thrown' = FALSE /\ growing' = FALSE
    BY DEF clone
  <2> QED BY <2>1, <2>2
<1>2. /\ c \in Seq(Bytes) /\ Len(c) = written /\ \A i \in 1..written : c[i] = storage[i]
      /\ written \in Nat /\ n \in Nat
  BY ContentType DEF Allocated
<1>3. FileContent = c /\ c = SubSeq(storage, 1, written)
  BY FileOf DEF Content
<1> HIDE DEF c, n
<1>4. /\ storage' \in Seq(Cells) /\ Len(storage') = written + n
      /\ \A i \in 1..written : storage'[i] = storage[i]
  BY <1>1, <1>2, ChunksAreCells, Extended
<1>5. written' \in 0..Len(storage')
  BY <1>1, <1>2, <1>4
<1>6. \A i \in 1..written : storage[i] \in Bytes
  BY DEF BufferInv, Clean
<1>7. growing' \in BOOLEAN /\ thrown' \in BOOLEAN /\ \A i \in 1..written' : storage'[i] \in Bytes
  BY <1>1, <1>4, <1>6
<1>8. BufferInv' /\ Lost' = FALSE /\ FileContent' = SubSeq(storage', 1, written') /\ FilePosition' = 0
  BY <1>1, <1>4, <1>5, <1>7, NewBuffer
<1>9. SubSeq(storage', 1, written') = c
  BY <1>1, <1>2, <1>3, <1>4, <1>6, SameData
<1>10. File!Rewind /\ Content' = Content
  BY <1>1, <1>3, <1>8, <1>9 DEF File!Rewind, File!Returns, Content, c
<1> QED BY <1>8, <1>10

\* Every call on any buffer is the same call on its file.
LEMMA BufferCalls == AnyBuffer => CallsAreFileCalls
<1> SUFFICES ASSUME AnyBuffer PROVE CallsAreFileCalls
  OBVIOUS
<1>1. TypeOK
  BY DEF AnyBuffer
<1>2. ASSUME NEW data \in Chunks PROVE data \in Seq(Bytes)
  BY ChunksAssumption
<1>3. ASSUME NEW n \in Sizes PROVE n \in Nat
  BY SizesAssumption
<1>4. ASSUME ~Lost PROVE WritesAreFileCalls /\ ReadsAreFileCalls /\ ManagementIsFileCalls
  <2>1. BufferInv
    BY <1>4 DEF AnyBuffer, BufferInv
  <2>2. WritesAreFileCalls
    <3>1. ASSUME NEW data \in Chunks
          PROVE  /\ WriteGrowing(data) => File!Overwrite(data)
                 /\ WriteFixed(data) => File!Overwrite(data) \/ File!Refuse
                 /\ write_to_end(data) \/ append_buffer(data) => File!Extend(data)
                 /\ bytes_appended(data) => File!Extend(data) \/ File!Overrun
                 /\ consume_bytes(data) => File!Overwrite(data) \/ File!Overrun
      <4>1. data \in Seq(Bytes)
        BY <1>2
      <4> QED BY <2>1, <4>1, WriteGrowingStep, WriteFixedStep, WriteToEndStep,
                 BytesAppendedStep, ConsumeBytesStep DEF append_buffer
    <3>2. ASSUME NEW number \in Numbers
          PROVE  wmkvuint(number) => File!Overwrite(Encode(number)) \/ File!Refuse
      BY <2>1, wmkvuintStep
    <3> QED BY <3>1, <3>2 DEF WritesAreFileCalls
  <2>3. ReadsAreFileCalls
    <3>1. ASSUME NEW n \in Sizes
          PROVE  /\ Get(n) => File!Get(n)
                 /\ rbytes_at_most(n) => File!GetAtMost(n)
                 /\ wb(n) => File!Send(n)
      <4>1. n \in Nat
        BY <1>3
      <4> QED BY <2>1, <4>1, GetStep, AtMostStep, SendStep
    <3>2. rnullterminatedstring => File!GetString
      BY <2>1, NullTerminatedStep
    <3> QED BY <3>1, <3>2 DEF ReadsAreFileCalls
  <2>4. ManagementIsFileCalls
    <3>1. ASSUME NEW p \in 0..MaxLength PROVE seek(p) => File!Seek(p)
      <4>1. p \in Nat
        BY SizesAssumption
      <4> QED BY <2>1, <4>1, SeekStep
    <3>2. ASSUME NEW forced \in BOOLEAN PROVE eliminate_parsed_data(forced) => File!DropRead
      BY <2>1, EliminateStep
    <3> QED BY <2>1, <3>1, <3>2, CopyStep, CloneStep DEF ManagementIsFileCalls
  <2> QED BY <2>2, <2>3, <2>4
<1>5. RenewalsAreFileCalls
  <2>1. ASSUME NEW data \in Chunks, NEW size \in Sizes
        PROVE  load_payload(data, size) => File!Load(data, size)
    <3>1. data \in Seq(Bytes) /\ size \in Nat
      BY <1>2, <1>3
    <3> QED BY <1>1, <3>1, LoadPayloadStep
  <2> QED BY <1>1, <2>1, ClearStep, MovedFromStep DEF RenewalsAreFileCalls
<1> QED BY <1>4, <1>5 DEF CallsAreFileCalls

LEMMA UsableIsAny == BufferInv => AnyBuffer
BY DEF BufferInv, AnyBuffer

LEMMA RenewStep ==
    ASSUME TypeOK, Renew
    PROVE  BufferInv' /\ File!Next
<1>1. CASE clear \/ MovedFrom
  <2>1. BufferInv' /\ File!Clear
    BY <1>1, ClearStep, MovedFromStep
  <2> QED BY <2>1 DEF File!Next, File!Renew
<1>2. ASSUME NEW data \in Chunks, NEW size \in Sizes, load_payload(data, size)
      PROVE  BufferInv' /\ File!Next
  <2>1. data \in Seq(Bytes) /\ size \in Nat
    BY ChunksAssumption, SizesAssumption
  <2>2. BufferInv' /\ File!Load(data, size)
    BY <1>2, <2>1, LoadPayloadStep
  <2> QED BY <2>1, <2>2 DEF File!Next, File!Renew
<1> QED BY <1>1, <1>2 DEF Renew

\* The calls on a file that is not lost.
LEMMA FileCalls ==
    ASSUME BufferInv,
           \/ \E data \in Seq(Bytes) : File!Overwrite(data) \/ File!Extend(data)
           \/ \E n \in Nat : File!Get(n) \/ File!GetAtMost(n) \/ File!Send(n) \/ File!Seek(n)
           \/ File!GetString \/ File!DropRead \/ File!Rewind \/ File!Keep \/ File!Refuse
           \/ File!Overrun
    PROVE  File!Next
BY DEF File!Next, BufferInv

LEMMA WriteNext == ASSUME BufferInv, Write PROVE AnyBuffer' /\ File!Next
<1>1. ASSUME NEW data \in Chunks,
             \/ WriteGrowing(data) \/ WriteFixed(data)
             \/ write_to_end(data) \/ append_buffer(data)
             \/ bytes_appended(data) \/ consume_bytes(data)
      PROVE  AnyBuffer' /\ File!Next
  <2>1. data \in Seq(Bytes)
    BY ChunksAssumption
  <2>2. AnyBuffer' /\ (File!Overwrite(data) \/ File!Extend(data) \/ File!Refuse \/ File!Overrun)
    BY <1>1, <2>1, WriteGrowingStep, WriteFixedStep, WriteToEndStep, BytesAppendedStep,
       ConsumeBytesStep DEF append_buffer, BufferInv, AnyBuffer
  <2> QED BY <2>1, <2>2, FileCalls
<1>2. ASSUME NEW data \in Chunks, NEW size \in Sizes, load_payload(data, size)
      PROVE  AnyBuffer' /\ File!Next
  <2>1. Renew /\ TypeOK
    BY <1>2 DEF Renew, BufferInv
  <2>2. BufferInv' /\ File!Next
    BY <2>1, RenewStep
  <2> QED BY <2>2 DEF BufferInv, AnyBuffer
<1>3. ASSUME NEW number \in Numbers, wmkvuint(number) PROVE AnyBuffer' /\ File!Next
  <2>1. Encode(number) \in Seq(Bytes)
    BY EncodedBytes
  <2>2. BufferInv' /\ (File!Overwrite(Encode(number)) \/ File!Refuse)
    BY <1>3, wmkvuintStep
  <2>3. File!Next
    BY <2>1, <2>2, FileCalls
  <2> QED BY <2>2, <2>3 DEF BufferInv, AnyBuffer
<1> QED BY <1>1, <1>2, <1>3 DEF Write

LEMMA ReadNext == ASSUME BufferInv, Read PROVE BufferInv' /\ File!Next
<1>1. ASSUME NEW n \in Sizes, Get(n) \/ rbytes_at_most(n) \/ wb(n)
      PROVE  BufferInv' /\ File!Next
  <2>1. n \in Nat
    BY SizesAssumption
  <2>2. BufferInv' /\ (File!Get(n) \/ File!GetAtMost(n) \/ File!Send(n))
    BY <1>1, <2>1, GetStep, AtMostStep, SendStep
  <2> QED BY <2>1, <2>2, FileCalls
<1>2. CASE rnullterminatedstring
  BY <1>2, NullTerminatedStep, FileCalls
<1> QED BY <1>1, <1>2 DEF Read

LEMMA ManageNext == ASSUME BufferInv, Manage PROVE BufferInv' /\ File!Next
<1>1. ASSUME NEW p \in 0..MaxLength, seek(p) PROVE BufferInv' /\ File!Next
  <2>1. p \in Nat
    BY SizesAssumption
  <2>2. BufferInv' /\ File!Seek(p)
    BY <1>1, <2>1, SeekStep
  <2> QED BY <2>1, <2>2, FileCalls
<1>2. CASE clear \/ MovedFrom
  <2>1. Renew /\ TypeOK
    BY <1>2 DEF Renew, BufferInv
  <2> QED BY <2>1, RenewStep
<1>3. ASSUME NEW forced \in BOOLEAN, eliminate_parsed_data(forced)
      PROVE  BufferInv' /\ File!Next
  BY <1>3, EliminateStep, FileCalls
<1>4. CASE Copy \/ clone
  BY <1>4, CopyStep, CloneStep, FileCalls
<1> QED BY <1>1, <1>2, <1>3, <1>4 DEF Manage

LEMMA BufferNext == ASSUME AnyBuffer, Next PROVE AnyBuffer' /\ File!Next
<1>1. CASE ~Lost /\ (Write \/ Read \/ Manage)
  <2>1. BufferInv
    BY <1>1 DEF AnyBuffer, BufferInv
  <2>2. CASE Write
    BY <2>1, <2>2, WriteNext
  <2>3. CASE Read \/ Manage
    <3>1. BufferInv' /\ File!Next
      BY <2>1, <2>3, ReadNext, ManageNext
    <3> QED BY <3>1 DEF BufferInv, AnyBuffer
  <2> QED BY <1>1, <2>2, <2>3
<1>2. CASE Lost /\ Renew
  <2>1. BufferInv' /\ File!Next
    BY <1>2, RenewStep DEF AnyBuffer
  <2> QED BY <2>1 DEF BufferInv, AnyBuffer
<1> QED BY <1>1, <1>2 DEF Next

LEMMA BufferInit == ASSUME Init PROVE BufferInv /\ File!Init
<1>1. PICK data \in Chunks \cup {<<>>}, n \in Sizes :
        storage = data \o Space(n) /\ written = Len(data)
  BY DEF Init
<1>2. data \in Seq(Bytes) /\ n \in Nat
  <2>1. <<>> \in Seq(Bytes)
    OBVIOUS
  <2> QED BY <2>1, ChunksAssumption, SizesAssumption
<1>3. /\ data \in Seq(Cells) /\ storage \in Seq(Cells) /\ Len(storage) = Len(data) + n
      /\ \A i \in 1..Len(data) : storage[i] = data[i]
  BY <1>1, <1>2, ChunksAreCells, Extended
<1>4. /\ written \in Nat /\ written <= Len(storage) /\ Len(storage) \in Nat
      /\ \A i \in 1..written : storage[i] \in Bytes
  BY <1>1, <1>2, <1>3
<1>5. position = 0 /\ read = <<>> /\ thrown = FALSE /\ growing \in BOOLEAN
  BY DEF Init
<1>6. ~Lost
  BY <1>4, <1>5 DEF Lost, Allocated
<1>7. storage \in Seq(Bytes \cup {NotWritten}) /\ position <= written /\ read \in Seq(Bytes)
  BY <1>3, <1>4, <1>5 DEF Cells
<1>8. growing \in BOOLEAN /\ thrown \in BOOLEAN /\ position \in Nat
  BY <1>5
<1>9. BufferInv
  BY <1>4, <1>6, <1>7, <1>8 DEF BufferInv, TypeOK, Clean
<1>10. File!Init
  <2>1. FileContent \in Seq(Bytes) /\ FilePosition = 0 /\ Lost = FALSE
    BY <1>5, <1>9, FileOf, ContentType
  <2> QED BY <1>5, <2>1 DEF File!Init
<1> QED BY <1>9, <1>10

LEMMA BufferSame ==
    ASSUME AnyBuffer, UNCHANGED vars
    PROVE  AnyBuffer' /\ UNCHANGED File!vars
BY DEF AnyBuffer, TypeOK, Clean, Lost, Allocated, vars, File!vars, FileContent, FilePosition

LEMMA BufferStep ==
    AnyBuffer /\ [Next]_vars => AnyBuffer' /\ [File!Next]_(File!vars)
<1>1. CASE AnyBuffer /\ Next
  BY <1>1, BufferNext
<1>2. CASE AnyBuffer /\ UNCHANGED vars
  BY <1>2, BufferSame
<1> QED BY <1>1, <1>2

\* The cursors of a buffer stay within its data and the data within its storage,
\* and the data are bytes that somebody wrote, whatever is called on it, until a
\* caller claims to have written more than there is space for.
THEOREM BufferTypeCorrect == Spec => [](TypeOK /\ (~Lost => Clean))
<1>1. Init => AnyBuffer
  BY BufferInit, UsableIsAny
<1>2. AnyBuffer => TypeOK /\ (~Lost => Clean)
  BY DEF AnyBuffer
<1> QED BY <1>1, <1>2, BufferStep, PTL DEF Spec

\* Every call on a buffer of either class, those that move a cursor beyond the
\* storage included, is the call on a file in memory with the same arguments,
\* and nothing but such calls happens to the file.
THEOREM FileImplemented == Spec => ImplementsByteFile /\ File!Spec
<1>1. Init => AnyBuffer /\ File!Init
  BY BufferInit, UsableIsAny
<1>2. AnyBuffer /\ [Next]_vars => [CallsAreFileCalls]_vars
  BY BufferCalls
<1> QED BY <1>1, <1>2, BufferStep, PTL DEF Spec, ImplementsByteFile, File!Spec

-----------------------------------------------------------------------------
(* Numbers in a buffer. *)

\* What is stored is what is there to read.
LEMMA StoredIsThere ==
    ASSUME TypeOK, NEW w \in Nat \ {0}, NEW data \in [1..w -> Bytes], position + w <= Allocated
    PROVE  /\ SubSeq(Stored(storage, position, data), position + 1, position + w) = data
           /\ Stored(storage, position, data)[position + 1] = data[1]
<1> DEFINE cells == Stored(storage, position, data)
           part == SubSeq(cells, position + 1, position + w)
<1>1. /\ storage \in Seq(Cells) /\ Len(storage) \in Nat /\ written \in Nat
      /\ position \in Nat /\ position + w <= Len(storage)
  BY DEF TypeOK, Cells, Allocated
<1>2. data \in Seq(Bytes) /\ Len(data) = w
  OBVIOUS
<1>3. \A i \in 1..Len(storage) :
        i \in (position + 1)..(position + w) => cells[i] = data[i - position]
  <2>1. \A i \in 1..Len(storage) :
          i \in (position + 1)..(position + Len(data)) => cells[i] = data[i - position]
    BY DEF Stored
  <2> QED BY <1>2, <2>1
<1>4. cells \in Seq(Cells) /\ Len(cells) = Len(storage)
  BY <1>1, <1>2, StoredCells
<1> HIDE DEF cells
<1>5. part \in Seq(Cells) /\ Len(part) = w /\ \A i \in 1..w : part[i] = cells[position + i]
  <2> DEFINE m == position + 1
             n == position + w
  <2>1. m \in Int /\ n \in Int /\ m <= n /\ n - m + 1 = w /\ \A i \in m..n : i \in 1..Len(cells)
    BY <1>1, <1>4
  <2>2. \A i \in m..n : cells[i] \in Cells
    BY <1>4, <2>1
  <2>3. \A i \in 1..w : m + i - 1 = position + i
    BY <1>1
  <2> HIDE DEF m, n
  <2>4. /\ SubSeq(cells, m, n) \in Seq(Cells) /\ Len(SubSeq(cells, m, n)) = w
        /\ \A i \in 1..w : SubSeq(cells, m, n)[i] = cells[m + i - 1]
    BY <2>1, <2>2, SubSeqProperties
  <2>5. part \in Seq(Cells) /\ Len(part) = w
    BY <2>4 DEF m, n, part
  <2>6. \A i \in 1..w : part[i] = cells[m + i - 1]
    BY <2>4 DEF m, n, part
  <2> QED BY <2>3, <2>5, <2>6
<1>6. \A i \in 1..w : cells[position + i] = data[i]
  <2>1. \A i \in 1..w : /\ position + i \in 1..Len(storage)
                        /\ position + i \in (position + 1)..(position + w)
                        /\ (position + i) - position = i
    BY <1>1
  <2> QED BY <1>3, <2>1
<1> HIDE DEF part
<1>7. part = data
  BY <1>2, <1>5, <1>6, SeqEqual
<1>8. cells[position + 1] = data[1]
  BY <1>6
<1> QED BY <1>7, <1>8 DEF part, cells

LEMMA VariableInBuffer ==
    ASSUME TypeOK, position + Bits <= Allocated, NEW number \in 0..(AllOnes(Bits) - 1)
    PROVE  ReadsBack(number)
<1> DEFINE data == Encode(number)
           w == Width(number)
           cells == Stored(storage, position, data)
<1>1. number \in Int
  <2>1. (Bits - 1) * Bits \in Nat
    BY BitsType
  <2> QED BY <2>1, PowerType DEF AllOnes
<1>2. w \in 1..Bits /\ data \in [1..w -> Bytes]
  BY <1>1, WidthFits, EncodeType
<1>3. /\ byte_to_size_table[data[1]] = w
      /\ Value(data) = number
      /\ number # AllOnes(w)
  BY VariableReadsBack
<1> HIDE DEF data, w
<1>4. w \in Nat \ {0} /\ position + w <= Allocated
  BY <1>2, BitsType DEF TypeOK, Allocated
<1>5. SubSeq(cells, position + 1, position + w) = data /\ cells[position + 1] = data[1]
  BY <1>2, <1>4, StoredIsThere
<1> QED BY <1>3, <1>5 DEF ReadsBack, data

LEMMA FixedInBuffer ==
    ASSUME TypeOK, NEW width \in Nat \ {0}, position + width <= Allocated,
           NEW number \in -(2^(Bits * width - 1))..(2^(Bits * width) - 1)
    PROVE  ReadsBackFixed(number, width)
<1> DEFINE data == BigEndian(number, width)
           cells == Stored(storage, position, data)
           half == 2^(Bits * width - 1)
<1>1. half \in Nat /\ Weight(width) \in Nat
  BY HalfWeight, WeightType
<1>2. number \in Int /\ -half <= number /\ number < Weight(width)
  BY <1>1 DEF Weight
<1>3. data \in [1..width -> Bytes]
  BY <1>2, BigEndianDigits
<1>4. number < half => Signed(data) = number
  <2>1. number < half => number \in -half..(half - 1)
    BY <1>1, <1>2
  <2> QED BY <2>1, SignedReadsBack
<1>5. number >= 0 => Unsigned(data) = number
  <2>1. number >= 0 => number \in 0..(Weight(width) - 1)
    BY <1>1, <1>2
  <2> QED BY <2>1, UnsignedReadsBack
<1>6. SubSeq(cells, position + 1, position + width) = data
  BY <1>3, StoredIsThere
<1> QED BY <1>4, <1>5, <1>6 DEF ReadsBackFixed

LEMMA BufferReadsBack == TypeOK => NumbersReadBack
<1> SUFFICES ASSUME TypeOK PROVE NumbersReadBack
  OBVIOUS
<1>1. \A width \in 1..2 : width \in Nat \ {0}
  OBVIOUS
<1> QED BY <1>1, VariableInBuffer, FixedInBuffer DEF NumbersReadBack

-----------------------------------------------------------------------------
(* The layout of a frame, as one sequence of fields. *)

FieldSet == FieldNames \X Nat

\* The place of a field in the headers it belongs to.
Rank ==
    [dest_mac |-> 1, src_mac |-> 2, ethertype |-> 3,
     version_tc_flowlabel |-> 4, payload_length |-> 5, next_header |-> 6, hop_limit |-> 7,
     source_ip |-> 8, dest_ip |-> 9,
     hardware_type |-> 4, protocol_type |-> 5, hardware_addr_len |-> 6,
     protocol_addr_len |-> 7, operation |-> 8,
     sender_mac |-> 9, sender_ip |-> 10, target_mac |-> 11, target_ip |-> 12]

IPv6Fields ==
    << <<"dest_mac", MacLength>>, <<"src_mac", MacLength>>, <<"ethertype", 2>>,
       <<"version_tc_flowlabel", 4>>, <<"payload_length", 2>>, <<"next_header", 1>>,
       <<"hop_limit", 1>>, <<"source_ip", IPv6Length>>, <<"dest_ip", IPv6Length>> >>

ARPFields ==
    << <<"dest_mac", MacLength>>, <<"src_mac", MacLength>>, <<"ethertype", 2>>,
       <<"hardware_type", 2>>, <<"protocol_type", 2>>, <<"hardware_addr_len", 1>>,
       <<"protocol_addr_len", 1>>, <<"operation", 2>> >>

AddressFields(h, p) ==
    << <<"dest_mac", MacLength>>, <<"src_mac", MacLength>>, <<"ethertype", 2>>,
       <<"hardware_type", 2>>, <<"protocol_type", 2>>, <<"hardware_addr_len", 1>>,
       <<"protocol_addr_len", 1>>, <<"operation", 2>>,
       <<"sender_mac", h>>, <<"sender_ip", p>>, <<"target_mac", h>>, <<"target_ip", p>> >>

\* Fields with the ranks 1, 2, ... and lengths.
Ranked(fields, n) ==
    /\ fields \in Seq(FieldSet) /\ Len(fields) = n
    /\ \A i \in 1..n : fields[i][1] \in FieldNames /\ Rank[fields[i][1]] = i /\ fields[i][2] \in Nat

LEMMA EthernetRanked == Ranked(EthernetHeader, 3)
<1>1. EthernetHeader \in Seq(FieldSet)
  BY LengthsAssumption DEF EthernetHeader, FieldSet, FieldNames
<1>2. \A i \in 1..3 : EthernetHeader[i][1] \in FieldNames
  BY DEF EthernetHeader, FieldNames
<1>3. Len(EthernetHeader) = 3
  BY DEF EthernetHeader
<1>4. \A i \in 1..3 : Rank[EthernetHeader[i][1]] = i /\ EthernetHeader[i][2] \in Nat
  BY LengthsAssumption DEF EthernetHeader, Rank
<1> QED BY <1>1, <1>2, <1>3, <1>4 DEF Ranked

LEMMA IPv6Ranked == Ranked(IPv6Fields, 9)
<1>1. IPv6Fields \in Seq(FieldSet)
  BY LengthsAssumption DEF IPv6Fields, FieldSet, FieldNames
<1>2. \A i \in 1..9 : IPv6Fields[i][1] \in FieldNames
  BY DEF IPv6Fields, FieldNames
<1>3. Len(IPv6Fields) = 9
  BY DEF IPv6Fields
<1>4. \A i \in 1..9 : Rank[IPv6Fields[i][1]] = i /\ IPv6Fields[i][2] \in Nat
  BY LengthsAssumption DEF IPv6Fields, Rank
<1> QED BY <1>1, <1>2, <1>3, <1>4 DEF Ranked

LEMMA ARPRanked == Ranked(ARPFields, 8)
<1>1. ARPFields \in Seq(FieldSet)
  BY LengthsAssumption DEF ARPFields, FieldSet, FieldNames
<1>2. \A i \in 1..8 : ARPFields[i][1] \in FieldNames
  BY DEF ARPFields, FieldNames
<1>3. Len(ARPFields) = 8
  BY DEF ARPFields
<1>4. \A i \in 1..8 : Rank[ARPFields[i][1]] = i /\ ARPFields[i][2] \in Nat
  BY LengthsAssumption DEF ARPFields, Rank
<1> QED BY <1>1, <1>2, <1>3, <1>4 DEF Ranked

LEMMA AddressesRanked ==
    ASSUME NEW h \in Nat, NEW p \in Nat
    PROVE  Ranked(AddressFields(h, p), 12)
<1> DEFINE f == AddressFields(h, p)
<1>1. f \in Seq(FieldSet)
  BY LengthsAssumption DEF AddressFields, FieldSet, FieldNames
<1>2. \A i \in 1..12 : f[i][1] \in FieldNames
  BY DEF AddressFields, FieldNames
<1>3. Len(f) = 12
  BY DEF AddressFields
<1>4. \A i \in 1..12 : Rank[f[i][1]] = i /\ f[i][2] \in Nat
  BY LengthsAssumption DEF AddressFields, Rank
<1> QED BY <1>1, <1>2, <1>3, <1>4 DEF Ranked

\* Two headers after each other.
LEMMA Joined ==
    ASSUME NEW S, NEW s \in Seq(S), NEW t \in Seq(S), NEW v \in Seq(S),
           Len(v) = Len(s) + Len(t),
           \A i \in 1..Len(s) : v[i] = s[i],
           \A i \in 1..Len(t) : v[Len(s) + i] = t[i]
    PROVE  s \o t = v
<1> DEFINE u == s \o t
           m == Len(s)
           n == Len(t)
<1>1. /\ u \in Seq(S) /\ Len(u) = m + n
      /\ \A i \in 1..(m + n) : u[i] = IF i <= m THEN s[i] ELSE t[i - m]
  BY ConcatProperties
<1>2. m \in Nat /\ n \in Nat
  OBVIOUS
<1>3. Len(v) = m + n /\ (\A i \in 1..m : v[i] = s[i]) /\ \A i \in 1..n : v[m + i] = t[i]
  OBVIOUS
<1> HIDE DEF u, m, n
<1>4. ASSUME NEW i \in 1..(m + n) PROVE u[i] = v[i]
  <2>1. CASE i <= m
    <3>1. i \in 1..m
      BY <1>2, <2>1
    <3> QED BY <1>1, <1>3, <2>1, <3>1
  <2>2. CASE ~(i <= m)
    <3> DEFINE j == i - m
    <3>1. j \in 1..n /\ m + j = i
      BY <1>2, <2>2
    <3>2. u[i] = t[j]
      BY <1>1, <2>2
    <3> HIDE DEF j
    <3> QED BY <1>3, <3>1, <3>2
  <2> QED BY <2>1, <2>2
<1> QED BY <1>1, <1>3, <1>4, SeqEqual DEF u

LEMMA IPv6Layout == EthernetHeader \o IPv6Header = IPv6Fields
<1> DEFINE s == EthernetHeader
           t == IPv6Header
           v == IPv6Fields
<1>1. s \in Seq(FieldSet) /\ Len(s) = 3 /\ v \in Seq(FieldSet) /\ Len(v) = 9
  BY EthernetRanked, IPv6Ranked DEF Ranked
<1>2. t \in Seq(FieldSet) /\ Len(t) = 6
  BY LengthsAssumption DEF IPv6Header, FieldSet, FieldNames
<1>3. \A i \in 1..3 : v[i] = s[i]
  BY DEF EthernetHeader, IPv6Fields
<1>4. v[4] = t[1] /\ v[5] = t[2] /\ v[6] = t[3] /\ v[7] = t[4] /\ v[8] = t[5] /\ v[9] = t[6]
  BY DEF IPv6Header, IPv6Fields
<1> HIDE DEF s, t, v
<1>5. ASSUME NEW i \in 1..6 PROVE v[3 + i] = t[i]
  <2>1. CASE i = 1 BY <1>4, <2>1
  <2>2. CASE i = 2 BY <1>4, <2>2
  <2>3. CASE i = 3 BY <1>4, <2>3
  <2>4. CASE i = 4 BY <1>4, <2>4
  <2>5. CASE i = 5 BY <1>4, <2>5
  <2>6. CASE i = 6 BY <1>4, <2>6
  <2> QED BY <2>1, <2>2, <2>3, <2>4, <2>5, <2>6
<1>6. /\ Len(v) = Len(s) + Len(t)
      /\ \A i \in 1..Len(s) : v[i] = s[i]
      /\ \A i \in 1..Len(t) : v[Len(s) + i] = t[i]
  BY <1>1, <1>2, <1>3, <1>5
<1>7. s \o t = v
  BY <1>1, <1>2, <1>6, Joined
<1> QED BY <1>7 DEF s, t, v

LEMMA ARPLayout == EthernetHeader \o ARPHeader = ARPFields
<1> DEFINE s == EthernetHeader
           t == ARPHeader
           v == ARPFields
<1>1. s \in Seq(FieldSet) /\ Len(s) = 3 /\ v \in Seq(FieldSet) /\ Len(v) = 8
  BY EthernetRanked, ARPRanked DEF Ranked
<1>2. t \in Seq(FieldSet) /\ Len(t) = 5
  BY LengthsAssumption DEF ARPHeader, FieldSet, FieldNames
<1>3. \A i \in 1..3 : v[i] = s[i]
  BY DEF EthernetHeader, ARPFields
<1>4. v[4] = t[1] /\ v[5] = t[2] /\ v[6] = t[3] /\ v[7] = t[4] /\ v[8] = t[5]
  BY DEF ARPHeader, ARPFields
<1> HIDE DEF s, t, v
<1>5. ASSUME NEW i \in 1..5 PROVE v[3 + i] = t[i]
  <2>1. CASE i = 1 BY <1>4, <2>1
  <2>2. CASE i = 2 BY <1>4, <2>2
  <2>3. CASE i = 3 BY <1>4, <2>3
  <2>4. CASE i = 4 BY <1>4, <2>4
  <2>5. CASE i = 5 BY <1>4, <2>5
  <2> QED BY <2>1, <2>2, <2>3, <2>4, <2>5
<1>6. /\ Len(v) = Len(s) + Len(t)
      /\ \A i \in 1..Len(s) : v[i] = s[i]
      /\ \A i \in 1..Len(t) : v[Len(s) + i] = t[i]
  BY <1>1, <1>2, <1>3, <1>5
<1>7. s \o t = v
  BY <1>1, <1>2, <1>6, Joined
<1> QED BY <1>7 DEF s, t, v

LEMMA AddressLayout ==
    ASSUME NEW h \in Nat, NEW p \in Nat
    PROVE  ARPFields \o << <<"sender_mac", h>>, <<"sender_ip", p>>,
                           <<"target_mac", h>>, <<"target_ip", p>> >> = AddressFields(h, p)
<1> DEFINE s == ARPFields
           t == << <<"sender_mac", h>>, <<"sender_ip", p>>,
                   <<"target_mac", h>>, <<"target_ip", p>> >>
           v == AddressFields(h, p)
<1>1. s \in Seq(FieldSet) /\ Len(s) = 8 /\ v \in Seq(FieldSet) /\ Len(v) = 12
  BY ARPRanked, AddressesRanked DEF Ranked
<1>2. t \in Seq(FieldSet) /\ Len(t) = 4
  BY DEF FieldSet, FieldNames
<1>3. \A i \in 1..8 : v[i] = s[i]
  BY DEF AddressFields, ARPFields
<1>4. v[9] = t[1] /\ v[10] = t[2] /\ v[11] = t[3] /\ v[12] = t[4]
  BY DEF AddressFields
<1> HIDE DEF s, t, v
<1>5. ASSUME NEW i \in 1..4 PROVE v[8 + i] = t[i]
  <2>1. CASE i = 1 BY <1>4, <2>1
  <2>2. CASE i = 2 BY <1>4, <2>2
  <2>3. CASE i = 3 BY <1>4, <2>3
  <2>4. CASE i = 4 BY <1>4, <2>4
  <2> QED BY <2>1, <2>2, <2>3, <2>4
<1>6. /\ Len(v) = Len(s) + Len(t)
      /\ \A i \in 1..Len(s) : v[i] = s[i]
      /\ \A i \in 1..Len(t) : v[Len(s) + i] = t[i]
  BY <1>1, <1>2, <1>3, <1>5
<1>7. s \o t = v
  BY <1>1, <1>2, <1>6, Joined
<1> QED BY <1>7 DEF s, t, v

-----------------------------------------------------------------------------
(* The headers that were parsed. *)

\* Has and Layout for any fields.
HasIn(fields, field, bytes) == field \in DOMAIN fields /\ fields[field] = bytes

Hardware(fields) == fields["hardware_addr_len"][1]
Protocol(fields) == fields["protocol_addr_len"][1]

LayoutOf(fields) ==
    EthernetHeader
        \o (IF HasIn(fields, "ethertype", IPv6) THEN IPv6Header ELSE <<>>)
        \o (IF HasIn(fields, "ethertype", ARP) THEN ARPHeader ELSE <<>>)
        \o (IF "operation" \in DOMAIN fields
             THEN << <<"sender_mac", Hardware(fields)>>, <<"sender_ip", Protocol(fields)>>,
                     <<"target_mac", Hardware(fields)>>, <<"target_ip", Protocol(fields)>> >>
             ELSE <<>>)

LEMMA LayoutOfHeader == Layout = LayoutOf(header) /\ Layout' = LayoutOf(header')
BY DEF Layout, LayoutOf, Has, HasIn, ARPAddresses, Hardware, Protocol

\* The operation is parsed in ARP headers only, after the lengths of addresses.
OperationKnown(fields) ==
    "operation" \in DOMAIN fields =>
        /\ HasIn(fields, "ethertype", ARP)
        /\ Hardware(fields) \in Nat /\ Protocol(fields) \in Nat

LEMMA LayoutForms ==
    ASSUME NEW fields, OperationKnown(fields)
    PROVE  /\ "operation" \notin DOMAIN fields =>
                /\ ~HasIn(fields, "ethertype", IPv6) /\ ~HasIn(fields, "ethertype", ARP) =>
                     LayoutOf(fields) = EthernetHeader
                /\ HasIn(fields, "ethertype", IPv6) => LayoutOf(fields) = IPv6Fields
                /\ HasIn(fields, "ethertype", ARP) => LayoutOf(fields) = ARPFields
           /\ "operation" \in DOMAIN fields =>
                LayoutOf(fields) = AddressFields(Hardware(fields), Protocol(fields))
<1> DEFINE h == Hardware(fields)
           p == Protocol(fields)
<1>1. EthernetHeader \in Seq(FieldSet) /\ IPv6Fields \in Seq(FieldSet) /\ ARPFields \in Seq(FieldSet)
  BY EthernetRanked, IPv6Ranked, ARPRanked DEF Ranked
<1>2. /\ EthernetHeader \o <<>> = EthernetHeader
      /\ IPv6Fields \o <<>> = IPv6Fields
      /\ ARPFields \o <<>> = ARPFields
  BY <1>1, ConcatEmptySeq
<1>3. ~(HasIn(fields, "ethertype", IPv6) /\ HasIn(fields, "ethertype", ARP))
  BY EtherTypesAssumption DEF HasIn
<1>4. ASSUME "operation" \notin DOMAIN fields,
             ~HasIn(fields, "ethertype", IPv6), ~HasIn(fields, "ethertype", ARP)
      PROVE  LayoutOf(fields) = EthernetHeader
  BY <1>2, <1>4 DEF LayoutOf
<1>5. ASSUME "operation" \notin DOMAIN fields, HasIn(fields, "ethertype", IPv6)
      PROVE  LayoutOf(fields) = IPv6Fields
  BY <1>2, <1>3, <1>5, IPv6Layout DEF LayoutOf
<1>6. ASSUME "operation" \notin DOMAIN fields, HasIn(fields, "ethertype", ARP)
      PROVE  LayoutOf(fields) = ARPFields
  BY <1>2, <1>3, <1>6, ARPLayout DEF LayoutOf
<1>7. ASSUME "operation" \in DOMAIN fields
      PROVE  LayoutOf(fields) = AddressFields(h, p)
  <2>1. HasIn(fields, "ethertype", ARP) /\ h \in Nat /\ p \in Nat
    BY <1>7 DEF OperationKnown
  <2>2. LayoutOf(fields) = ARPFields \o << <<"sender_mac", h>>, <<"sender_ip", p>>,
                                           <<"target_mac", h>>, <<"target_ip", p>> >>
    BY <1>2, <1>3, <1>7, <2>1, ARPLayout DEF LayoutOf
  <2> HIDE DEF h, p
  <2> QED BY <2>1, <2>2, AddressLayout
<1> QED BY <1>4, <1>5, <1>6, <1>7

LEMMA LayoutRanked ==
    ASSUME NEW fields, OperationKnown(fields)
    PROVE  \E n \in 3..12 : Ranked(LayoutOf(fields), n)
<1> DEFINE h == Hardware(fields)
           p == Protocol(fields)
<1>1. CASE "operation" \in DOMAIN fields
  <2>1. h \in Nat /\ p \in Nat
    BY <1>1 DEF OperationKnown
  <2>2. LayoutOf(fields) = AddressFields(h, p)
    BY <1>1, LayoutForms
  <2> HIDE DEF h, p
  <2> QED BY <2>1, <2>2, AddressesRanked
<1>2. CASE "operation" \notin DOMAIN fields
  BY <1>2, LayoutForms, EthernetRanked, IPv6Ranked, ARPRanked
<1> QED BY <1>1, <1>2

\* The first k fields of the layout were parsed; the j-th is at off[j].
Headers(fields, frame, k, off) ==
    LET layout == LayoutOf(fields)
    IN /\ k \in 0..Len(layout)
       /\ off \in [1..13 -> Nat] /\ off[1] = 0 /\ off[k + 1] <= Len(frame)
       /\ \A j \in 1..k :
            /\ layout[j][1] \in DOMAIN fields
            /\ off[j + 1] = off[j] + layout[j][2] /\ off[j + 1] <= Len(frame)
            /\ fields[layout[j][1]] = Part(frame, off[j], layout[j][2])
       /\ \A f \in DOMAIN fields : \E j \in 1..k : f = layout[j][1]

LEMMA PartType ==
    ASSUME NEW frame \in Seq(Bytes), NEW at \in Nat, NEW size \in Nat, at + size <= Len(frame)
    PROVE  /\ Part(frame, at, size) \in Seq(Bytes) /\ Len(Part(frame, at, size)) = size
           /\ \A i \in 1..size : /\ Part(frame, at, size)[i] = frame[at + i]
                                 /\ Part(frame, at, size)[i] \in Bytes
<1> DEFINE part == SubSeq(frame, at + 1, at + size)
<1>1. \A i \in (at + 1)..(at + size) : frame[i] \in Bytes
  BY ElementOfSeq
<1>2. /\ part \in Seq(Bytes)
      /\ Len(part) = IF at + 1 <= at + size THEN (at + size) - (at + 1) + 1 ELSE 0
      /\ \A i \in 1..((at + size) - (at + 1) + 1) : part[i] = frame[(at + 1) + i - 1]
  BY <1>1, SubSeqProperties
<1> HIDE DEF part
<1>3. /\ (at + size) - (at + 1) + 1 = size
      /\ (IF at + 1 <= at + size THEN (at + size) - (at + 1) + 1 ELSE 0) = size
  OBVIOUS
<1>4. Len(part) = size
  BY <1>2, <1>3
<1>5. ASSUME NEW i \in 1..size
      PROVE  part[i] = frame[at + i] /\ frame[at + i] \in Bytes
  <2>1. (at + 1) + i - 1 = at + i /\ at + i \in (at + 1)..(at + size)
    OBVIOUS
  <2>2. part[i] = frame[(at + 1) + i - 1]
    BY <1>2, <1>3
  <2> QED BY <1>1, <2>1, <2>2
<1> QED BY <1>2, <1>4, <1>5 DEF Part, part

LEMMA OneByte ==
    ASSUME NEW frame \in Seq(Bytes), NEW at \in Nat, at + 1 <= Len(frame)
    PROVE  Part(frame, at, 1)[1] \in Bytes
<1>1. 1 \in Nat /\ 1 \in 1..1
  OBVIOUS
<1> QED BY <1>1, PartType

\* The fields that are not yet parsed are the last ones.
LEMMA NextField ==
    ASSUME NEW fields, NEW frame \in Seq(Bytes), NEW k, NEW off,
           OperationKnown(fields), Headers(fields, frame, k, off)
    PROVE  LET layout == LayoutOf(fields)
           IN /\ k \in Nat /\ Len(layout) \in 3..12 /\ k <= Len(layout)
              /\ {i \in 1..Len(layout) : layout[i][1] \notin DOMAIN fields} = (k + 1)..Len(layout)
              /\ \A i \in 1..Len(layout) : /\ layout[i][1] \in FieldNames
                                           /\ Rank[layout[i][1]] = i /\ layout[i][2] \in Nat
<1> DEFINE layout == LayoutOf(fields)
<1>1. PICK n \in 3..12 : Ranked(layout, n)
  BY LayoutRanked
<1> HIDE DEF layout
<1>2. /\ Len(layout) = n
      /\ \A i \in 1..n : layout[i][1] \in FieldNames /\ Rank[layout[i][1]] = i /\ layout[i][2] \in Nat
  BY <1>1 DEF Ranked
<1>3. /\ k \in 0..n
      /\ \A j \in 1..k : layout[j][1] \in DOMAIN fields
      /\ \A f \in DOMAIN fields : \E j \in 1..k : f = layout[j][1]
  BY <1>2 DEF Headers, layout
<1>4. ASSUME NEW i \in 1..n, layout[i][1] \in DOMAIN fields
      PROVE  i <= k
  <2>1. PICK j \in 1..k : layout[i][1] = layout[j][1]
    BY <1>3, <1>4
  <2>2. j \in 1..n
    BY <1>3
  <2>3. Rank[layout[i][1]] = i /\ Rank[layout[j][1]] = j
    BY <1>2, <2>2
  <2>4. i = j
    BY <2>1, <2>3
  <2> QED BY <1>3, <2>4
<1>5. {i \in 1..Len(layout) : layout[i][1] \notin DOMAIN fields} = (k + 1)..Len(layout)
  BY <1>2, <1>3, <1>4
<1> QED BY <1>2, <1>3, <1>5 DEF layout

\* The layout that is known first goes on in the others.
LEMMA HeadersAgree ==
    /\ \A i \in 1..3 : EthernetHeader[i] = IPv6Fields[i]
    /\ \A i \in 1..3 : EthernetHeader[i] = ARPFields[i]
<1>1. \A i \in 1..3 : EthernetHeader[i] = IPv6Fields[i]
  BY DEF EthernetHeader, IPv6Fields
<1>2. \A i \in 1..3 : EthernetHeader[i] = ARPFields[i]
  BY DEF EthernetHeader, ARPFields
<1> QED BY <1>1, <1>2

LEMMA LayoutsAgree ==
    ASSUME NEW h \in Nat, NEW p \in Nat
    PROVE  \A i \in 1..8 : AddressFields(h, p)[i] = ARPFields[i]
<1>1. \A i \in 1..8 : AddressFields(h, p)[i] = ARPFields[i]
  BY DEF AddressFields, ARPFields
<1> QED BY <1>1

\* One field more.
LEMMA FieldParsed ==
    ASSUME NEW fields, NEW frame \in Seq(Bytes), NEW k, NEW off,
           OperationKnown(fields), Headers(fields, frame, k, off),
           k < Len(LayoutOf(fields)),
           NEW f, f = LayoutOf(fields)[k + 1][1],
           NEW size, size = LayoutOf(fields)[k + 1][2],
           off[k + 1] + size <= Len(frame),
           NEW more,
           DOMAIN more = DOMAIN fields \cup {f},
           more[f] = Part(frame, off[k + 1], size),
           \A g \in DOMAIN fields : g # f => more[g] = fields[g]
    PROVE  /\ OperationKnown(more)
           /\ \E end : Headers(more, frame, k + 1, end) /\ end[k + 2] = off[k + 1] + size
<1> DEFINE layout == LayoutOf(fields)
           new == LayoutOf(more)
           end == [off EXCEPT ![k + 2] = off[k + 1] + size]
<1>1. /\ k \in Nat /\ Len(layout) \in 3..12 /\ k < Len(layout)
      /\ \A i \in 1..Len(layout) : /\ layout[i][1] \in FieldNames
                                   /\ Rank[layout[i][1]] = i /\ layout[i][2] \in Nat
  BY NextField
<1>2. {i \in 1..Len(layout) : layout[i][1] \notin DOMAIN fields} = (k + 1)..Len(layout)
  BY NextField
<1>3. /\ off \in [1..13 -> Nat] /\ off[1] = 0 /\ off[k + 1] <= Len(frame)
      /\ \A j \in 1..k :
            /\ layout[j][1] \in DOMAIN fields
            /\ off[j + 1] = off[j] + layout[j][2] /\ off[j + 1] <= Len(frame)
            /\ fields[layout[j][1]] = Part(frame, off[j], layout[j][2])
      /\ \A g \in DOMAIN fields : \E j \in 1..k : g = layout[j][1]
  BY DEF Headers
<1>4. f \notin DOMAIN fields /\ Rank[f] = k + 1 /\ size \in Nat /\ f \in FieldNames
  <2>1. k + 1 \in (k + 1)..Len(layout) /\ k + 1 \in 1..Len(layout)
    BY <1>1
  <2> HIDE DEF layout
  <2>2. layout[k + 1][1] \notin DOMAIN fields
    BY <1>2, <2>1
  <2>3. f = layout[k + 1][1] /\ size = layout[k + 1][2]
    BY DEF layout
  <2> QED BY <1>1, <2>1, <2>2, <2>3
<1>5. /\ DOMAIN more = DOMAIN fields \cup {f}
      /\ more[f] = Part(frame, off[k + 1], size)
      /\ \A g \in DOMAIN fields : more[g] = fields[g]
  BY <1>4
\* Fields that are in front of a known one are known.
<1>6. ASSUME NEW g \in DOMAIN fields
      PROVE  g \in FieldNames /\ Rank[g] <= k
  <2>1. PICK j \in 1..k : g = layout[j][1]
    BY <1>3
  <2>2. j \in 1..Len(layout)
    BY <1>1
  <2> HIDE DEF layout
  <2>3. Rank[layout[j][1]] = j /\ layout[j][1] \in FieldNames
    BY <1>1, <2>2
  <2> QED BY <1>1, <2>1, <2>3
<1>7. OperationKnown(more) /\ Len(new) >= k + 1 /\ \A j \in 1..(k + 1) : new[j] = layout[j]
  <2>1. CASE f = "ethertype"
    <3>1. k = 2
      BY <1>1, <1>4, <2>1 DEF Rank
    <3>2. "operation" \notin DOMAIN fields /\ "ethertype" \notin DOMAIN fields
      <4>1. Rank["operation"] = 8
        BY DEF Rank
      <4> QED BY <1>4, <1>6, <2>1, <3>1, <4>1
    <3>3. "operation" \notin DOMAIN more
      BY <1>5, <2>1, <3>2
    <3>4. OperationKnown(more)
      BY <3>3 DEF OperationKnown
    <3>5. layout = EthernetHeader
      BY <3>2, LayoutForms DEF HasIn
    <3>6. new \in {EthernetHeader, IPv6Fields, ARPFields}
      BY <3>3, <3>4, LayoutForms
    <3> HIDE DEF layout, new
    <3>7. /\ Len(EthernetHeader) = 3 /\ Len(IPv6Fields) = 9 /\ Len(ARPFields) = 8
      BY EthernetRanked, IPv6Ranked, ARPRanked DEF Ranked
    <3>8. /\ \A j \in 1..3 : EthernetHeader[j] = IPv6Fields[j]
          /\ \A j \in 1..3 : EthernetHeader[j] = ARPFields[j]
      BY HeadersAgree
    <3>9. Len(new) \in {3, 8, 9}
      BY <3>6, <3>7
    <3>10. \A j \in 1..3 : new[j] = layout[j]
      BY <3>5, <3>6, <3>8
    <3>11. k + 1 = 3 /\ (Len(new) = 3 \/ Len(new) = 8 \/ Len(new) = 9)
      BY <3>1, <3>9
    <3> QED BY <3>4, <3>10, <3>11
  <2>2. CASE f = "operation"
    <3>1. k = 7
      BY <1>1, <1>4, <2>2 DEF Rank
    <3>2. "operation" \notin DOMAIN fields
      BY <1>4, <2>2
    <3>3. layout = ARPFields /\ HasIn(fields, "ethertype", ARP)
      <4>1. layout # EthernetHeader
        BY <1>1, <3>1, EthernetRanked DEF Ranked
      <4>2. layout # IPv6Fields
        <5>1. IPv6Fields[8][1] = "source_ip"
          BY DEF IPv6Fields
        <5>2. f = layout[8][1]
          BY <3>1
        <5> HIDE DEF layout
        <5> QED BY <2>2, <5>1, <5>2
      <4> QED BY <3>2, <4>1, <4>2, LayoutForms
    <3>4. /\ ARPFields[6] = <<"hardware_addr_len", 1>> /\ ARPFields[7] = <<"protocol_addr_len", 1>>
      BY DEF ARPFields
    <3>5. /\ "hardware_addr_len" \in DOMAIN fields /\ "protocol_addr_len" \in DOMAIN fields
          /\ fields["hardware_addr_len"] = Part(frame, off[6], 1) /\ off[6] + 1 <= Len(frame)
          /\ fields["protocol_addr_len"] = Part(frame, off[7], 1) /\ off[7] + 1 <= Len(frame)
      <4> HIDE DEF layout
      <4>1. /\ layout[6][1] = "hardware_addr_len" /\ layout[6][2] = 1
            /\ layout[7][1] = "protocol_addr_len" /\ layout[7][2] = 1
        BY <3>3, <3>4
      <4>2. /\ layout[6][1] \in DOMAIN fields /\ layout[7][1] \in DOMAIN fields
            /\ off[7] = off[6] + layout[6][2] /\ off[7] <= Len(frame)
            /\ off[8] = off[7] + layout[7][2] /\ off[8] <= Len(frame)
            /\ fields[layout[6][1]] = Part(frame, off[6], layout[6][2])
            /\ fields[layout[7][1]] = Part(frame, off[7], layout[7][2])
        <5>1. 6 \in 1..k /\ 7 \in 1..k /\ 6 + 1 = 7 /\ 7 + 1 = 8
          BY <3>1
        <5> QED BY <1>3, <5>1
      <4> QED BY <4>1, <4>2
    <3>6. Hardware(fields) \in Nat /\ Protocol(fields) \in Nat
      <4>1. off[6] \in Nat /\ off[7] \in Nat
        BY <1>3
      <4>2. \A byte \in Bytes : byte \in Nat
        BY DEF Bytes
      <4>3. Part(frame, off[6], 1)[1] \in Bytes /\ Part(frame, off[7], 1)[1] \in Bytes
        BY <3>5, <4>1, OneByte
      <4>4. fields["hardware_addr_len"][1] \in Bytes /\ fields["protocol_addr_len"][1] \in Bytes
        BY <3>5, <4>3
      <4> QED BY <4>2, <4>4 DEF Hardware, Protocol
    <3>7. /\ "operation" \in DOMAIN more /\ HasIn(more, "ethertype", ARP)
          /\ Hardware(more) = Hardware(fields) /\ Protocol(more) = Protocol(fields)
      BY <1>5, <2>2, <3>3, <3>5 DEF HasIn, Hardware, Protocol
    <3>8. OperationKnown(more)
      BY <3>6, <3>7 DEF OperationKnown
    <3> DEFINE h == Hardware(fields)
               p == Protocol(fields)
    <3>9. new = AddressFields(h, p)
      BY <3>7, <3>8, LayoutForms
    <3> HIDE DEF h, p, layout, new
    <3>10. h \in Nat /\ p \in Nat
      BY <3>6 DEF h, p
    <3>11. Len(AddressFields(h, p)) = 12
      BY <3>10, AddressesRanked DEF Ranked
    <3>12. \A j \in 1..8 : AddressFields(h, p)[j] = ARPFields[j]
      BY <3>10, LayoutsAgree
    <3> QED BY <3>1, <3>3, <3>8, <3>9, <3>11, <3>12
  <2>3. CASE f # "ethertype" /\ f # "operation"
    <3>1. /\ "operation" \in DOMAIN more <=> "operation" \in DOMAIN fields
          /\ \A bytes : HasIn(more, "ethertype", bytes) <=> HasIn(fields, "ethertype", bytes)
      BY <1>5, <2>3 DEF HasIn
    <3>2. ASSUME "operation" \in DOMAIN fields
          PROVE  Hardware(more) = Hardware(fields) /\ Protocol(more) = Protocol(fields)
      <4>1. k >= 8
        <5>1. Rank["operation"] = 8
          BY DEF Rank
        <5> QED BY <1>1, <1>6, <3>2, <5>1
      <4> DEFINE h == Hardware(fields)
                 p == Protocol(fields)
      <4>2. layout = AddressFields(h, p)
        BY <3>2, LayoutForms
      <4>3. AddressFields(h, p)[6][1] = "hardware_addr_len" /\ AddressFields(h, p)[7][1] = "protocol_addr_len"
        BY DEF AddressFields
      <4> HIDE DEF layout, h, p
      <4>4. 6 \in 1..k /\ 7 \in 1..k
        BY <1>1, <4>1
      <4>5. layout[6][1] \in DOMAIN fields /\ layout[7][1] \in DOMAIN fields
        BY <1>3, <4>4 DEF layout
      <4> QED BY <1>5, <4>2, <4>3, <4>5 DEF Hardware, Protocol
    <3>3. OperationKnown(more)
      BY <3>1, <3>2 DEF OperationKnown
    <3>4. new = layout
      BY <3>1, <3>2 DEF LayoutOf
    <3> HIDE DEF layout, new
    <3> QED BY <1>1, <3>3, <3>4
  <2> QED BY <2>1, <2>2, <2>3
<1> HIDE DEF layout, new, end
<1>8. /\ end \in [1..13 -> Nat] /\ end[k + 2] = off[k + 1] + size
      /\ \A j \in 1..(k + 1) : end[j] = off[j]
  <2> DEFINE length == Len(layout)
  <2>0. k \in Nat /\ length \in 3..12 /\ k < length
    BY <1>1
  <2> HIDE DEF length
  <2>1. /\ k + 2 \in 1..13 /\ k + 1 \in 1..13
        /\ \A j \in 1..(k + 1) : j \in 1..13 /\ j # k + 2
    BY <2>0
  <2>2. off[k + 1] + size \in Nat
    <3>1. off[k + 1] \in Nat
      BY <1>3, <2>1
    <3> QED BY <1>4, <3>1
  <2>3. end[k + 2] = off[k + 1] + size
    BY <1>3, <2>1 DEF end
  <2>4. \A j \in 1..(k + 1) : end[j] = off[j]
    BY <1>3, <2>1 DEF end
  <2>5. end \in [1..13 -> Nat]
    BY <1>3, <2>2 DEF end
  <2> QED BY <2>3, <2>4, <2>5
<1>9. ASSUME NEW j \in 1..(k + 1)
      PROVE  /\ new[j][1] \in DOMAIN more
             /\ end[j + 1] = end[j] + new[j][2] /\ end[j + 1] <= Len(frame)
             /\ more[new[j][1]] = Part(frame, end[j], new[j][2])
  <2>1. new[j] = layout[j] /\ end[j] = off[j]
    BY <1>7, <1>8
  <2>2. CASE j = k + 1
    <3>1. new[j][1] = f /\ new[j][2] = size /\ j + 1 = k + 2
      BY <1>1, <2>1, <2>2 DEF layout
    <3> QED BY <1>5, <1>8, <2>1, <2>2, <3>1
  <2>3. CASE j # k + 1
    <3>1. j \in 1..k /\ j + 1 \in 1..(k + 1)
      BY <1>1, <2>3
    <3>2. end[j + 1] = off[j + 1]
      BY <1>8, <3>1
    <3>3. /\ layout[j][1] \in DOMAIN fields
          /\ off[j + 1] = off[j] + layout[j][2] /\ off[j + 1] <= Len(frame)
          /\ fields[layout[j][1]] = Part(frame, off[j], layout[j][2])
      BY <1>3, <3>1
    <3>4. layout[j][1] \in DOMAIN more /\ more[layout[j][1]] = fields[layout[j][1]]
      BY <1>5, <3>3
    <3> QED BY <2>1, <3>2, <3>3, <3>4
  <2> QED BY <2>2, <2>3
<1>10. ASSUME NEW g \in DOMAIN more
       PROVE  \E j \in 1..(k + 1) : g = new[j][1]
  <2>1. CASE g = f
    <3>1. k + 1 \in 1..(k + 1) /\ layout[k + 1][1] = f
      BY <1>1 DEF layout
    <3> QED BY <1>7, <2>1, <3>1
  <2>2. CASE g # f
    <3>1. PICK j \in 1..k : g = layout[j][1]
      BY <1>3, <1>5, <2>2
    <3>2. j \in 1..(k + 1)
      BY <1>1
    <3> QED BY <1>7, <3>1, <3>2
  <2> QED BY <2>1, <2>2
<1>11. /\ k + 1 \in 0..Len(new) /\ end[1] = 0 /\ (k + 1) + 1 = k + 2
  <2>1. Len(new) \in Nat
    <3>1. PICK n \in 3..12 : Ranked(new, n)
      BY <1>7, LayoutRanked DEF new
    <3> QED BY <3>1 DEF Ranked
  <2> QED BY <1>1, <1>3, <1>7, <1>8, <2>1
<1>12. Headers(more, frame, k + 1, end)
  BY <1>8, <1>9, <1>10, <1>11 DEF Headers, new
<1> QED BY <1>7, <1>8, <1>12

\* Where the fields are.
IPv6At(k, off) ==
    /\ k \in 0..9 /\ off \in [1..13 -> Nat] /\ off[1] = 0
    /\ \A j \in 1..k : off[j + 1] = off[j] + IPv6Fields[j][2]

LEMMA IPv6Offsets ==
    ASSUME NEW k, NEW off, IPv6At(k, off)
    PROVE  /\ (k >= 1 => off[2] = MacLength) /\ (k >= 2 => off[3] = 2 * MacLength)
           /\ (k >= 3 => off[4] = EthernetLength) /\ (k >= 4 => off[5] = EthernetLength + 4)
           /\ (k >= 5 => off[6] = EthernetLength + 6) /\ (k >= 6 => off[7] = EthernetLength + 7)
           /\ (k >= 7 => off[8] = EthernetLength + 8)
           /\ (k >= 8 => off[9] = EthernetLength + 8 + IPv6Length)
           /\ (k >= 9 => off[10] = EthernetLength + 8 + 2 * IPv6Length)
<1>0. /\ k \in 0..9 /\ off \in [1..13 -> Nat] /\ off[1] = 0
      /\ \A j \in 1..k : off[j + 1] = off[j] + IPv6Fields[j][2]
  BY DEF IPv6At
<1>1. MacLength \in Nat /\ IPv6Length \in Nat
  BY LengthsAssumption
<1>2. /\ IPv6Fields[1][2] = MacLength /\ IPv6Fields[2][2] = MacLength /\ IPv6Fields[3][2] = 2
      /\ IPv6Fields[4][2] = 4 /\ IPv6Fields[5][2] = 2 /\ IPv6Fields[6][2] = 1
      /\ IPv6Fields[7][2] = 1 /\ IPv6Fields[8][2] = IPv6Length /\ IPv6Fields[9][2] = IPv6Length
  BY DEF IPv6Fields
<1>3. k >= 1 => off[2] = MacLength
  BY <1>0, <1>1, <1>2
<1>4. k >= 2 => off[3] = 2 * MacLength
  BY <1>0, <1>1, <1>2, <1>3
<1>5. k >= 3 => off[4] = EthernetLength
  BY <1>0, <1>1, <1>2, <1>4 DEF EthernetLength
<1> DEFINE e == EthernetLength
<1>6. e \in Nat
  BY <1>0, <1>1 DEF EthernetLength
<1> HIDE DEF e
<1>7. k >= 4 => off[5] = e + 4
  BY <1>0, <1>2, <1>5, <1>6 DEF e
<1>8. k >= 5 => off[6] = e + 6
  BY <1>0, <1>2, <1>6, <1>7
<1>9. k >= 6 => off[7] = e + 7
  BY <1>0, <1>2, <1>6, <1>8
<1>10. k >= 7 => off[8] = e + 8
  BY <1>0, <1>2, <1>6, <1>9
<1>11. k >= 8 => off[9] = e + 8 + IPv6Length
  BY <1>0, <1>1, <1>2, <1>6, <1>10
<1>12. k >= 9 => off[10] = e + 8 + 2 * IPv6Length
  BY <1>0, <1>1, <1>2, <1>6, <1>11
<1> QED BY <1>0, <1>3, <1>4, <1>5, <1>7, <1>8, <1>9, <1>10, <1>11, <1>12 DEF e

ARPAt(h, p, k, off) ==
    /\ h \in Nat /\ p \in Nat /\ k \in 0..12 /\ off \in [1..13 -> Nat] /\ off[1] = 0
    /\ \A j \in 1..k : off[j + 1] = off[j] + AddressFields(h, p)[j][2]

LEMMA ARPOffsets ==
    ASSUME NEW h, NEW p, NEW k, NEW off, ARPAt(h, p, k, off)
    PROVE  /\ (k >= 1 => off[2] = MacLength) /\ (k >= 2 => off[3] = 2 * MacLength)
           /\ (k >= 3 => off[4] = EthernetLength) /\ (k >= 4 => off[5] = EthernetLength + 2)
           /\ (k >= 5 => off[6] = EthernetLength + 4) /\ (k >= 6 => off[7] = EthernetLength + 5)
           /\ (k >= 7 => off[8] = OperationAt) /\ (k >= 8 => off[9] = AddressesAt)
           /\ (k >= 9 => off[10] = AddressesAt + h) /\ (k >= 10 => off[11] = AddressesAt + h + p)
           /\ (k >= 11 => off[12] = AddressesAt + 2 * h + p)
           /\ (k >= 12 => off[13] = AddressesAt + 2 * h + 2 * p)
<1> DEFINE f == AddressFields(h, p)
<1>16. h \in Nat /\ p \in Nat /\ k \in 0..12 /\ off \in [1..13 -> Nat] /\ off[1] = 0
  BY DEF ARPAt
<1>1. MacLength \in Nat
  BY LengthsAssumption
<1>2. /\ f[1][2] = MacLength /\ f[2][2] = MacLength /\ f[3][2] = 2
      /\ f[4][2] = 2 /\ f[5][2] = 2 /\ f[6][2] = 1 /\ f[7][2] = 1 /\ f[8][2] = 2
      /\ f[9][2] = h /\ f[10][2] = p /\ f[11][2] = h /\ f[12][2] = p
  BY DEF AddressFields
<1> HIDE DEF f
<1>0. \A j \in 1..k : off[j + 1] = off[j] + f[j][2]
  BY DEF ARPAt, f
<1>3. k >= 1 => off[2] = MacLength
  BY <1>16, <1>0, <1>1, <1>2
<1>4. k >= 2 => off[3] = 2 * MacLength
  BY <1>16, <1>0, <1>1, <1>2, <1>3
<1>5. k >= 3 => off[4] = EthernetLength
  BY <1>16, <1>0, <1>1, <1>2, <1>4 DEF EthernetLength
<1> DEFINE e == EthernetLength
<1>6. e \in Nat /\ OperationAt = e + 6 /\ AddressesAt = e + 8
  BY <1>16, <1>1 DEF EthernetLength, OperationAt, AddressesAt
<1> HIDE DEF e
<1>7. k >= 4 => off[5] = e + 2
  BY <1>16, <1>0, <1>2, <1>5, <1>6 DEF e
<1>8. k >= 5 => off[6] = e + 4
  BY <1>16, <1>0, <1>2, <1>6, <1>7
<1>9. k >= 6 => off[7] = e + 5
  BY <1>16, <1>0, <1>2, <1>6, <1>8
<1>10. k >= 7 => off[8] = e + 6
  BY <1>16, <1>0, <1>2, <1>6, <1>9
<1>11. k >= 8 => off[9] = e + 8
  BY <1>16, <1>0, <1>2, <1>6, <1>10
<1>12. k >= 9 => off[10] = e + 8 + h
  BY <1>16, <1>0, <1>2, <1>6, <1>11
<1>13. k >= 10 => off[11] = e + 8 + h + p
  BY <1>16, <1>0, <1>2, <1>6, <1>12
<1>14. k >= 11 => off[12] = e + 8 + 2 * h + p
  BY <1>16, <1>0, <1>2, <1>6, <1>13
<1>15. k >= 12 => off[13] = e + 8 + 2 * h + 2 * p
  BY <1>16, <1>0, <1>2, <1>6, <1>14
<1> QED BY <1>16, <1>3, <1>4, <1>5, <1>6, <1>7, <1>8, <1>9, <1>10, <1>11, <1>12, <1>13, <1>14, <1>15 DEF e

\* The offsets with one field more.
LEMMA NextOffset ==
    ASSUME NEW layout, NEW k \in 0..11, NEW off \in [1..13 -> Nat],
           off[1] = 0, \A j \in 1..k : off[j + 1] = off[j] + layout[j][2],
           layout[k + 1][2] \in Nat
    PROVE  \E end \in [1..13 -> Nat] :
             /\ end[1] = 0 /\ \A j \in 1..(k + 1) : end[j + 1] = end[j] + layout[j][2]
             /\ end[k + 2] = off[k + 1] + layout[k + 1][2]
<1> DEFINE size == layout[k + 1][2]
           end == [off EXCEPT ![k + 2] = off[k + 1] + size]
<1>1. k + 1 \in 1..13 /\ k + 2 \in 1..13 /\ 1 # k + 2 /\ \A j \in 1..(k + 1) : j \in 1..13 /\ j # k + 2
  OBVIOUS
<1>2. size \in Nat /\ off[k + 1] + size \in Nat
  <2>1. off[k + 1] \in Nat
    BY <1>1
  <2> QED BY <2>1
<1>3. end[k + 2] = off[k + 1] + size
  BY <1>1
<1>4. \A j \in 1..(k + 1) : end[j] = off[j]
  BY <1>1
<1>5. end \in [1..13 -> Nat]
  BY <1>2
<1> HIDE DEF end, size
<1>6. ASSUME NEW j \in 1..(k + 1) PROVE end[j + 1] = end[j] + layout[j][2]
  <2>1. CASE j = k + 1
    <3>1. j + 1 = k + 2
      BY <2>1
    <3> QED BY <1>3, <1>4, <2>1, <3>1 DEF size
  <2>2. CASE j # k + 1
    <3>1. j \in 1..k /\ j + 1 \in 1..(k + 1)
      BY <2>2
    <3> QED BY <1>4, <3>1
  <2> QED BY <2>1, <2>2
<1>7. end[1] = 0
  BY <1>4
<1> QED BY <1>3, <1>5, <1>6, <1>7 DEF size

LEMMA EthernetOffsets ==
    ASSUME NEW layout, NEW k \in Nat, NEW off, off[1] = 0,
           \A j \in 1..k : off[j + 1] = off[j] + layout[j][2],
           layout[1][2] = MacLength, layout[2][2] = MacLength, layout[3][2] = 2
    PROVE  /\ k >= 1 => off[2] = MacLength
           /\ k >= 2 => off[3] = 2 * MacLength
           /\ k >= 3 => off[4] = EthernetLength
           /\ k < 3 => off[k + 1] + layout[k + 1][2] <= EthernetLength
<1>1. MacLength \in Nat
  BY LengthsAssumption
<1>2. k >= 1 => off[2] = MacLength
  BY <1>1
<1>3. k >= 2 => off[3] = 2 * MacLength
  BY <1>1, <1>2
<1>4. k >= 3 => off[4] = EthernetLength
  BY <1>1, <1>3 DEF EthernetLength
<1>5. ASSUME k < 3 PROVE off[k + 1] + layout[k + 1][2] <= EthernetLength
  <2>1. CASE k = 0
    BY <1>1, <2>1 DEF EthernetLength
  <2>2. CASE k = 1
    BY <1>1, <1>2, <2>2 DEF EthernetLength
  <2>3. CASE k = 2
    BY <1>1, <1>3, <2>3 DEF EthernetLength
  <2> QED BY <1>5, <2>1, <2>2, <2>3
<1> QED BY <1>2, <1>3, <1>4, <1>5

\* Every header begins with that of Ethernet.
LEMMA EthernetParsed ==
    ASSUME NEW fields, NEW frame \in Seq(Bytes), NEW k, NEW off,
           OperationKnown(fields), Headers(fields, frame, k, off)
    PROVE  LET layout == LayoutOf(fields)
           IN /\ k \in Nat /\ Len(layout) \in 3..12 /\ k <= Len(layout)
              /\ "ethertype" \in DOMAIN fields <=> k >= 3
              /\ k >= 3 => /\ EthernetLength <= Len(frame)
                           /\ "dest_mac" \in DOMAIN fields
                           /\ fields["dest_mac"] = Part(frame, 0, MacLength)
                           /\ fields["ethertype"] = Part(frame, 2 * MacLength, 2)
              /\ k < 3 => off[k + 1] + layout[k + 1][2] <= EthernetLength
<1> DEFINE layout == LayoutOf(fields)
<1>1. k \in Nat /\ Len(layout) \in 3..12 /\ k <= Len(layout)
  BY NextField
<1>2. {i \in 1..Len(layout) : layout[i][1] \notin DOMAIN fields} = (k + 1)..Len(layout)
  BY NextField
<1>3. /\ off \in [1..13 -> Nat] /\ off[1] = 0 /\ off[k + 1] <= Len(frame)
      /\ \A j \in 1..k :
            /\ layout[j][1] \in DOMAIN fields
            /\ off[j + 1] = off[j] + layout[j][2] /\ off[j + 1] <= Len(frame)
            /\ fields[layout[j][1]] = Part(frame, off[j], layout[j][2])
  BY DEF Headers
<1>4. /\ layout[1] = EthernetHeader[1] /\ layout[2] = EthernetHeader[2]
      /\ layout[3] = EthernetHeader[3]
  <2>0. /\ IPv6Fields[1] = EthernetHeader[1] /\ ARPFields[1] = EthernetHeader[1]
        /\ IPv6Fields[2] = EthernetHeader[2] /\ ARPFields[2] = EthernetHeader[2]
        /\ IPv6Fields[3] = EthernetHeader[3] /\ ARPFields[3] = EthernetHeader[3]
    BY DEF EthernetHeader, IPv6Fields, ARPFields
  <2>1. \/ layout \in {EthernetHeader, IPv6Fields, ARPFields}
        \/ /\ Hardware(fields) \in Nat /\ Protocol(fields) \in Nat
           /\ layout = AddressFields(Hardware(fields), Protocol(fields))
    BY LayoutForms DEF OperationKnown
  <2> HIDE DEF layout
  <2>2. CASE layout \in {EthernetHeader, IPv6Fields, ARPFields}
    <3>1. CASE layout = EthernetHeader
      BY <3>1
    <3>2. CASE layout = IPv6Fields
      BY <2>0, <3>2
    <3>3. CASE layout = ARPFields
      BY <2>0, <3>3
    <3> QED BY <2>2, <3>1, <3>2, <3>3
  <2>3. CASE /\ Hardware(fields) \in Nat /\ Protocol(fields) \in Nat
             /\ layout = AddressFields(Hardware(fields), Protocol(fields))
    <3> DEFINE h == Hardware(fields)
               p == Protocol(fields)
    <3>2. layout = AddressFields(h, p) /\ h \in Nat /\ p \in Nat
      BY <2>3
    <3>3. \A i \in 1..8 : AddressFields(h, p)[i] = ARPFields[i]
      BY <3>2, LayoutsAgree
    <3> HIDE DEF h, p
    <3>4. 1 \in 1..8 /\ 2 \in 1..8 /\ 3 \in 1..8
      OBVIOUS
    <3>1. /\ layout[1] = ARPFields[1] /\ layout[2] = ARPFields[2]
          /\ layout[3] = ARPFields[3]
      BY <3>2, <3>3, <3>4
    <3> QED BY <2>0, <3>1
  <2> QED BY <2>1, <2>2, <2>3
<1> HIDE DEF layout
<1>5. /\ layout[1][1] = "dest_mac" /\ layout[1][2] = MacLength
      /\ layout[2][2] = MacLength
      /\ layout[3][1] = "ethertype" /\ layout[3][2] = 2
  BY <1>4 DEF EthernetHeader
<1>6. MacLength \in Nat
  BY LengthsAssumption
<1>7. "ethertype" \in DOMAIN fields <=> k >= 3
  <2> DEFINE n == Len(layout)
  <2>0. n \in 3..12 /\ k \in Nat
    BY <1>1
  <2>2. 3 \in 1..n => (layout[3][1] \notin DOMAIN fields <=> 3 \in (k + 1)..n)
    BY <1>2
  <2> HIDE DEF n
  <2>1. 3 \in 1..n
    BY <2>0
  <2>3. 3 \in (k + 1)..n <=> ~(k >= 3)
    BY <2>0
  <2> QED BY <1>5, <2>1, <2>2, <2>3
<1>8. /\ k >= 1 => off[2] = MacLength
      /\ k >= 2 => off[3] = 2 * MacLength
      /\ k >= 3 => off[4] = EthernetLength
      /\ k < 3 => off[k + 1] + layout[k + 1][2] <= EthernetLength
  <2>1. k \in Nat /\ off[1] = 0 /\ \A j \in 1..k : off[j + 1] = off[j] + layout[j][2]
    BY <1>1, <1>3
  <2> QED BY <1>5, <2>1, EthernetOffsets
<1>9. ASSUME k >= 3
      PROVE  /\ EthernetLength <= Len(frame)
             /\ "dest_mac" \in DOMAIN fields
             /\ fields["dest_mac"] = Part(frame, 0, MacLength)
             /\ fields["ethertype"] = Part(frame, 2 * MacLength, 2)
  <2>0. k \in Nat /\ off[3] = 2 * MacLength /\ off[4] = EthernetLength
    BY <1>1, <1>8, <1>9
  <2>1. 1 \in 1..k /\ 3 \in 1..k /\ 3 + 1 = 4
    BY <1>9, <2>0
  <2>2. layout[1][1] \in DOMAIN fields /\ fields[layout[1][1]] = Part(frame, off[1], layout[1][2])
    BY <1>3, <2>1
  <2>3. off[4] <= Len(frame) /\ fields[layout[3][1]] = Part(frame, off[3], layout[3][2])
    BY <1>3, <2>1
  <2> QED BY <1>3, <1>5, <2>0, <2>2, <2>3
<1> QED BY <1>1, <1>7, <1>8, <1>9 DEF layout

LEMMA HeaderTypes ==
    ASSUME NEW fields, NEW frame \in Seq(Bytes), NEW k, NEW off,
           OperationKnown(fields), Headers(fields, frame, k, off)
    PROVE  /\ DOMAIN fields \subseteq FieldNames
           /\ \A f \in DOMAIN fields : fields[f] \in Seq(Bytes)
<1> DEFINE layout == LayoutOf(fields)
<1> SUFFICES ASSUME NEW f \in DOMAIN fields PROVE f \in FieldNames /\ fields[f] \in Seq(Bytes)
  OBVIOUS
<1>1. /\ k \in Nat /\ Len(layout) \in 3..12 /\ k <= Len(layout)
      /\ \A i \in 1..Len(layout) : layout[i][1] \in FieldNames /\ layout[i][2] \in Nat
  BY NextField
<1>2. /\ off \in [1..13 -> Nat]
      /\ \A j \in 1..k : /\ off[j + 1] = off[j] + layout[j][2] /\ off[j + 1] <= Len(frame)
                         /\ fields[layout[j][1]] = Part(frame, off[j], layout[j][2])
      /\ \E j \in 1..k : f = layout[j][1]
  BY DEF Headers
<1>3. PICK j \in 1..k : f = layout[j][1]
  BY <1>2
<1> DEFINE n == Len(layout)
           size == layout[j][2]
<1>4. /\ n \in 3..12 /\ k \in Nat /\ k <= n
      /\ j \in 1..n => f \in FieldNames /\ size \in Nat
  BY <1>1, <1>3
<1>5. /\ off[j + 1] = off[j] + size /\ off[j + 1] <= Len(frame)
      /\ fields[f] = Part(frame, off[j], size)
  BY <1>2, <1>3
<1> HIDE DEF layout, n, size
<1>6. j \in 1..n /\ j \in 1..13
  BY <1>4
<1>7. off[j] \in Nat
  BY <1>2, <1>6
<1>8. Part(frame, off[j], size) \in Seq(Bytes)
  BY <1>4, <1>5, <1>6, <1>7, PartType
<1> QED BY <1>4, <1>5, <1>6, <1>8

\* An ARP header that was parsed completely has its lengths of addresses.
LEMMA ARPComplete ==
    ASSUME NEW fields, NEW frame \in Seq(Bytes), NEW k, NEW off,
           OperationKnown(fields), Headers(fields, frame, k, off),
           {i \in 1..Len(LayoutOf(fields)) : LayoutOf(fields)[i][1] \notin DOMAIN fields} = {},
           HasIn(fields, "ethertype", ARP)
    PROVE  /\ Hardware(fields) \in Nat /\ Protocol(fields) \in Nat
           /\ LayoutOf(fields) = AddressFields(Hardware(fields), Protocol(fields))
           /\ k = 12
<1> DEFINE layout == LayoutOf(fields)
<1>1. {i \in 1..Len(layout) : layout[i][1] \notin DOMAIN fields} = (k + 1)..Len(layout)
  BY NextField
<1>2. k \in Nat /\ Len(layout) \in 3..12 /\ k <= Len(layout)
  BY NextField
<1>3. ~(k < Len(layout))
  <2> DEFINE n == Len(layout)
  <2>1. (k + 1)..n = {} /\ n \in 3..12 /\ k \in Nat
    BY <1>1, <1>2
  <2> HIDE DEF n, layout
  <2>2. k < n => n \in (k + 1)..n
    BY <2>1
  <2> QED BY <2>1, <2>2 DEF n
<1>4. "operation" \in DOMAIN fields
  <2>1. SUFFICES ASSUME "operation" \notin DOMAIN fields PROVE FALSE
    OBVIOUS
  <2>2. layout = ARPFields
    BY <2>1, LayoutForms
  <2> HIDE DEF layout
  <2>3. Len(layout) = 8 /\ layout[8][1] = "operation"
    <3>1. Len(ARPFields) = 8 /\ ARPFields[8][1] = "operation"
      BY DEF ARPFields
    <3> QED BY <2>2, <3>1
  <2>4. 8 \in {i \in 1..Len(layout) : layout[i][1] \notin DOMAIN fields}
    BY <2>1, <2>3
  <2> QED BY <2>4 DEF layout
<1> DEFINE h == Hardware(fields)
           p == Protocol(fields)
<1>5. h \in Nat /\ p \in Nat /\ layout = AddressFields(h, p)
  BY <1>4, LayoutForms DEF OperationKnown
<1> HIDE DEF h, p
<1>6. Len(AddressFields(h, p)) = 12
  BY <1>5, AddressesRanked DEF Ranked
<1> HIDE DEF layout
<1>7. k = 12
  BY <1>2, <1>3, <1>5, <1>6
<1> QED BY <1>5, <1>7 DEF layout, h, p

-----------------------------------------------------------------------------
(* An interface at work. *)

Patches == [at : Nat, data : Seq(Bytes)]

\* The fields parsed so far are the first of the frame and the position is
\* behind them.
HeaderInv ==
    /\ OperationKnown(header)
    /\ \E k, off : /\ Headers(header, received, k, off)
                   /\ pc \in {"read", "reread"} => position = off[k + 1]

\* The setters do not make the frame longer before the first address of ARP
\* is known to be part of it.
SourceInv ==
    pc = "set_src_mac" =>
        /\ Len(patches) <= 3
        /\ Len(patches) = 3 =>
             /\ patches[1] = [at |-> MacLength, data |-> mac]
             /\ patches[2].at >= AddressesAt + MacLength
        /\ Len(patches) = 2 => patches[1].at >= AddressesAt + MacLength
        /\ Len(patches) >= 2 => written = Len(received) /\ EthernetLength <= Len(received)
        /\ Len(patches) < 2 => AddressesAt + MacLength <= Len(received)

\* The buffer of an interface is never lost; a buffer that somebody else has
\* may be.
PacketInv ==
    /\ BufferInv
    /\ pc \in {"poll", "read", "reread", "set_src_mac", "set_dest_mac", "ended"}
    /\ ~growing
    /\ received \in Seq(Bytes)
    /\ HeaderInv
    /\ pc \in {"read", "reread"} => Content = received
    /\ pc = "reread" =>
         Part(received, 2 * MacLength, 2) = ARP /\ EthernetLength <= Len(received)
    /\ patches \in Seq(Patches)
    /\ SourceInv
    /\ sent \in Seq(Seq(Bytes))

LibraryInv ==
    /\ AnyBuffer
    /\ pc = "library"
    /\ received = <<>> /\ header = <<>> /\ patches = <<>> /\ sent = <<>>

LEMMA LibraryInvTypes == LibraryInv => PacketTypeOK
<1> SUFFICES ASSUME LibraryInv PROVE PacketTypeOK
  OBVIOUS
<1>1. TypeOK /\ pc = "library" /\ received = <<>> /\ header = <<>> /\ patches = <<>> /\ sent = <<>>
  BY DEF LibraryInv, AnyBuffer
<1>2. DOMAIN header = {}
  BY <1>1
<1>3. /\ received \in Seq(Bytes) /\ patches \in Seq([at : Nat, data : Seq(Bytes)])
      /\ sent \in Seq(Seq(Bytes))
  BY <1>1
<1> QED BY <1>1, <1>2, <1>3 DEF PacketTypeOK

LEMMA PacketInvTypes == PacketInv => PacketTypeOK
<1> SUFFICES ASSUME PacketInv PROVE PacketTypeOK
  OBVIOUS
<1>1. PICK k, off : Headers(header, received, k, off)
  BY DEF PacketInv, HeaderInv
<1>2. /\ DOMAIN header \subseteq FieldNames
      /\ \A field \in DOMAIN header : header[field] \in Seq(Bytes)
  BY <1>1, HeaderTypes DEF PacketInv, HeaderInv
<1>3. TypeOK /\ ~Lost
  BY DEF PacketInv, BufferInv
<1>4. /\ pc \in {"library", "poll", "read", "reread", "set_src_mac", "set_dest_mac", "ended"}
      /\ ~growing
      /\ received \in Seq(Bytes) /\ patches \in Seq([at : Nat, data : Seq(Bytes)])
      /\ sent \in Seq(Seq(Bytes))
  BY DEF PacketInv, Patches
<1> QED BY <1>2, <1>3, <1>4 DEF PacketTypeOK

\* Nothing was parsed yet.
LEMMA NoHeaders ==
    ASSUME NEW frame \in Seq(Bytes)
    PROVE  OperationKnown(<<>>) /\ Headers(<<>>, frame, 0, [i \in 1..13 |-> 0])
<1>1. DOMAIN <<>> = {}
  OBVIOUS
<1>2. OperationKnown(<<>>)
  BY <1>1 DEF OperationKnown
<1> DEFINE off == [i \in 1..13 |-> 0]
           n == Len(LayoutOf(<<>>))
<1>3. 0 \in 0..n
  <2>1. PICK m \in 3..12 : Ranked(LayoutOf(<<>>), m)
    BY <1>2, LayoutRanked
  <2>2. n = m
    BY <2>1 DEF Ranked
  <2> HIDE DEF n
  <2> QED BY <2>2
<1>4. off \in [1..13 -> Nat] /\ off[1] = 0 /\ off[0 + 1] <= Len(frame)
  OBVIOUS
<1> HIDE DEF off
<1>5. 1..0 = {}
  OBVIOUS
<1> QED BY <1>1, <1>2, <1>3, <1>4, <1>5 DEF Headers, off

LEMMA SamePart ==
    ASSUME NEW s, NEW t, NEW w \in Nat, NEW at \in Nat, NEW size \in Nat, at + size <= w,
           \A i \in 1..w : s[i] = t[i], \A i \in 1..w : s[i] \in Bytes /\ t[i] \in Bytes
    PROVE  SubSeq(t, at + 1, at + size) = SubSeq(s, at + 1, at + size)
<1> DEFINE m == at + 1
           n == at + size
           a == SubSeq(s, m, n)
           b == SubSeq(t, m, n)
<1>1. m \in Nat /\ n \in Nat /\ \A i \in m..n : i \in 1..w
  OBVIOUS
<1>2. n - m + 1 = size /\ \A i \in 1..size : m + i - 1 \in 1..w
  OBVIOUS
<1> HIDE DEF m, n
<1>3. \A i \in m..n : s[i] \in Bytes /\ t[i] \in Bytes
  BY <1>1
<1>4. /\ a \in Seq(Bytes) /\ b \in Seq(Bytes)
      /\ Len(a) = IF m <= n THEN n - m + 1 ELSE 0
      /\ Len(b) = IF m <= n THEN n - m + 1 ELSE 0
      /\ \A i \in 1..(n - m + 1) : a[i] = s[m + i - 1]
      /\ \A i \in 1..(n - m + 1) : b[i] = t[m + i - 1]
  BY <1>1, <1>3, SubSeqProperties
<1> HIDE DEF a, b
<1>5. \A i \in 1..size : a[i] = b[i]
  BY <1>2, <1>4
<1>6. Len(a) = Len(b) /\ \A i \in 1..Len(a) : i \in 1..size
  BY <1>1, <1>2, <1>4
<1> QED BY <1>4, <1>5, <1>6, SeqEqual DEF a, b, m, n

LEMMA PacketStart == PacketInit => (LibraryInv \/ PacketInv) /\ File!Init
<1> SUFFICES ASSUME PacketInit PROVE (LibraryInv \/ PacketInv) /\ File!Init
  OBVIOUS
<1>1. BufferInv /\ File!Init
  BY BufferInit DEF PacketInit
<1>2. /\ pc \in {"library", "poll"} /\ (pc = "poll" => ~growing)
      /\ received = <<>> /\ header = <<>> /\ patches = <<>> /\ sent = <<>>
  BY DEF PacketInit
<1>3. CASE pc = "library"
  BY <1>1, <1>2, <1>3, UsableIsAny DEF LibraryInv
<1>4. CASE pc = "poll"
  <2>1. received \in Seq(Bytes)
    BY <1>2
  <2>2. HeaderInv
    BY <1>2, <1>4, <2>1, NoHeaders DEF HeaderInv
  <2>3. patches \in Seq(Patches) /\ sent \in Seq(Seq(Bytes))
    BY <1>2
  <2> QED BY <1>1, <1>2, <1>4, <2>1, <2>2, <2>3 DEF PacketInv, SourceInv
<1> QED BY <1>1, <1>2, <1>3, <1>4

LEMMA BufferKept ==
    ASSUME BufferInv, UNCHANGED vars
    PROVE  /\ BufferInv' /\ UNCHANGED File!vars /\ Content' = Content
           /\ growing' = growing /\ position' = position /\ written' = written
           /\ BytesLeft' = BytesLeft
<1>1. /\ growing' = growing /\ storage' = storage /\ written' = written
      /\ position' = position /\ read' = read /\ thrown' = thrown
  BY DEF vars
<1>2. BufferInv'
  BY <1>1 DEF BufferInv, TypeOK, Clean, Allocated, Lost
<1>3. UNCHANGED File!vars
  BY <1>1 DEF File!vars, FileContent, FilePosition, Lost, Allocated
<1> QED BY <1>1, <1>2, <1>3 DEF Content, BytesLeft

LEMMA LibraryStep ==
    ASSUME LibraryInv, [PacketNext]_packetVars
    PROVE  LibraryInv' /\ [File!Next]_(File!vars)
<1>1. AnyBuffer /\ pc = "library"
  BY DEF LibraryInv
<1>2. CASE UseBuffer
  <2>1. AnyBuffer' /\ File!Next
    BY <1>1, <1>2, BufferNext DEF UseBuffer
  <2>2. /\ pc' = pc /\ received' = received /\ header' = header
        /\ patches' = patches /\ sent' = sent
    BY <1>2 DEF UseBuffer, runVars
  <2> QED BY <2>1, <2>2 DEF LibraryInv
<1>3. CASE UNCHANGED packetVars
  <2>1. AnyBuffer' /\ UNCHANGED File!vars
    BY <1>1, <1>3, BufferSame DEF packetVars
  <2>2. /\ pc' = pc /\ received' = received /\ header' = header
        /\ patches' = patches /\ sent' = sent
    BY <1>3 DEF packetVars, runVars
  <2> QED BY <2>1, <2>2 DEF LibraryInv
<1>4. ~Run
  BY <1>1 DEF Run, ReadFrame, ParseField, RejectFrame, PrintFails, SkipPacket, Retransmit,
     ClonePacket, PatchSource, PatchRest, Patch, WriteResponse, Parsed, Printed
<1> QED BY <1>2, <1>3, <1>4 DEF PacketNext, Terminated

\* The calls of the interface are calls on a file that is not lost.
LEMMA ReadFrameStep == ASSUME PacketInv, ReadFrame PROVE PacketInv' /\ File!Next
<1>1. PICK frame \in Received :
        /\ storage' = frame \o Space(Mtu - Len(frame)) /\ written' = Len(frame) /\ received' = frame
  BY DEF ReadFrame
<1> DEFINE n == Mtu - Len(frame)
<1>2. frame \in Seq(Bytes) /\ n \in Nat
  BY ReceivedAssumption
<1>3. /\ position' = 0 /\ read' = <<>> /\ thrown' = FALSE /\ growing' = growing
      /\ header' = <<>> /\ patches' = <<>> /\ sent' = <<>> /\ pc' = "read" /\ pc = "poll"
  BY DEF ReadFrame, Returns
<1> HIDE DEF n
<1>4. /\ frame \in Seq(Cells) /\ storage' \in Seq(Cells) /\ Len(storage') = Len(frame) + n
      /\ \A i \in 1..Len(frame) : storage'[i] = frame[i]
  BY <1>1, <1>2, ChunksAreCells, Extended DEF n
<1>5. /\ written' \in 0..Len(storage')
      /\ \A i \in 1..written' : storage'[i] \in Bytes
  BY <1>1, <1>2, <1>4
<1>6. growing' \in BOOLEAN /\ ~growing'
  BY <1>3 DEF PacketInv, BufferInv, TypeOK
<1>7. /\ BufferInv' /\ Lost' = FALSE
      /\ FileContent' = SubSeq(storage', 1, written') /\ FilePosition' = 0
  <2>1. thrown' \in BOOLEAN
    BY <1>3
  <2> QED BY <1>3, <1>4, <1>5, <1>6, <2>1, NewBuffer
<1>8. Content' = received'
  <2>1. \A i \in 1..Len(frame) : frame[i] \in Bytes
    BY <1>2
  <2>2. SubSeq(storage', 1, Len(frame)) = SubSeq(frame, 1, Len(frame))
    BY <1>2, <1>4, <2>1, SameData
  <2>3. SubSeq(frame, 1, Len(frame)) = frame
    BY <1>2, SubSeqFull
  <2> QED BY <1>1, <2>2, <2>3 DEF Content
<1>9. HeaderInv'
  <2>1. OperationKnown(<<>>) /\ Headers(<<>>, frame, 0, [i \in 1..13 |-> 0])
    BY <1>2, NoHeaders
  <2>2. [i \in 1..13 |-> 0][0 + 1] = 0
    OBVIOUS
  <2> QED BY <1>1, <1>3, <2>1, <2>2 DEF HeaderInv
<1>10. received' \in Seq(Bytes) /\ patches' \in Seq(Patches) /\ sent' \in Seq(Seq(Bytes))
  BY <1>1, <1>2, <1>3
<1>11. File!Load(frame, Len(frame))
  <2>1. Len(frame) <= Len(frame)
    BY <1>2
  <2>2. SubSeq(frame, 1, Len(frame)) = frame
    BY <1>2, SubSeqFull
  <2>3. FileContent' = frame
    BY <1>1, <1>7, <1>8 DEF Content
  <2> QED BY <1>3, <1>7, <2>1, <2>2, <2>3 DEF File!Load, File!Returns
<1>12. File!Next
  <2>1. Len(frame) \in Nat
    BY <1>2
  <2> QED BY <1>2, <1>11, <2>1 DEF File!Next, File!Renew
<1>13. PacketInv'
  BY <1>3, <1>6, <1>7, <1>8, <1>9, <1>10 DEF PacketInv, SourceInv
<1> QED BY <1>12, <1>13

\* The next field is where the position is.
LEMMA NextFieldParsed ==
    ASSUME PacketInv, pc \in {"read", "reread"}, Unparsed # {},
           NEW next, next = CHOOSE i \in Unparsed : \A j \in Unparsed : i <= j,
           NEW k, NEW off, Headers(header, received, k, off), position = off[k + 1]
    PROVE  next = k + 1 /\ k < Len(Layout) /\ Layout[next][2] \in Nat
<1>1. OperationKnown(header) /\ Layout = LayoutOf(header) /\ received \in Seq(Bytes)
  BY LayoutOfHeader DEF PacketInv, HeaderInv
<1> DEFINE n == Len(Layout)
<1>2. /\ k \in Nat /\ n \in 3..12 /\ k <= n /\ Unparsed = (k + 1)..n
      /\ \A i \in 1..n : Layout[i][2] \in Nat
  BY <1>1, NextField DEF Unparsed
<1> HIDE DEF n
<1>3. k < n /\ k + 1 \in Unparsed /\ \A j \in Unparsed : j \in Nat /\ k + 1 <= j
  BY <1>2
<1>4. next \in Unparsed /\ \A j \in Unparsed : next <= j
  BY <1>3
<1>5. next = k + 1
  <2>1. next <= k + 1 /\ k + 1 <= next /\ next \in Nat
    BY <1>3, <1>4
  <2> QED BY <1>2, <2>1
<1>6. next \in 1..n
  BY <1>2, <1>3, <1>5
<1> QED BY <1>2, <1>3, <1>5, <1>6 DEF n

LEMMA ParseFieldStep == ASSUME PacketInv, ParseField PROVE PacketInv' /\ File!Next
<1>1. /\ pc \in {"read", "reread"} /\ Unparsed # {}
      /\ received' = received /\ patches' = patches /\ sent' = sent
  BY DEF ParseField
<1>2. PICK k, off : Headers(header, received, k, off) /\ position = off[k + 1]
  BY <1>1 DEF PacketInv, HeaderInv
<1> DEFINE next == CHOOSE i \in Unparsed : \A j \in Unparsed : i <= j
           name == Layout[next][1]
           size == Layout[next][2]
<1>3. /\ Get(size)
      /\ IF thrown' THEN pc' = "ended" /\ header' = header
         ELSE header' = Parsing(name, read') /\ pc' = pc
  BY DEF ParseField
<1> HIDE DEF next
<1>4. next = k + 1 /\ k < Len(Layout) /\ size \in Nat
  BY <1>1, <1>2, NextFieldParsed DEF next
<1> HIDE DEF name, size
<1>5. BufferInv /\ received \in Seq(Bytes) /\ Content = received /\ OperationKnown(header)
  BY <1>1 DEF PacketInv, HeaderInv
<1>6. BufferInv' /\ File!Next
  <2>1. BufferInv' /\ File!Get(size)
    BY <1>3, <1>4, <1>5, GetStep
  <2> QED BY <1>4, <1>5, <2>1, FileCalls
<1>7. growing' = growing /\ storage' = storage /\ written' = written
  BY <1>3 DEF Get, Refuse, Throws, Taken, Returns
<1>8. Content' = Content
  BY <1>7 DEF Content
<1>9. CASE thrown'
  <2>1. HeaderInv'
    BY <1>1, <1>2, <1>3, <1>5, <1>9 DEF HeaderInv
  <2> QED BY <1>1, <1>3, <1>6, <1>7, <1>9, <2>1 DEF PacketInv, SourceInv
<1>10. CASE ~thrown'
  <2>1. pc' = pc /\ header' = Parsing(name, read')
    BY <1>3, <1>10
  <2>2. /\ position + size <= written /\ position' = position + size
        /\ read' = SubSeq(storage, position + 1, position + size)
    <3>1. ~(position + size > written) /\ Taken(size)
      BY <1>3, <1>10 DEF Get, Refuse, Throws
    <3> QED BY <1>4, <1>5, <3>1, ContentType DEF Taken, Returns
  <2>3. Len(received) = written /\ position \in Nat /\ \A i \in 1..written : received[i] = storage[i]
    BY <1>5, ContentType
  <2>4. read' = Part(received, position, size)
    <3>1. \A i \in 1..written : received[i] \in Bytes /\ storage[i] \in Bytes
      BY <1>5, <2>3
    <3> QED BY <1>4, <1>5, <2>2, <2>3, <3>1, SamePart DEF Part
  <2>5. PICK end :
          /\ OperationKnown(header') /\ Headers(header', received, k + 1, end)
          /\ end[k + 2] = position'
    <3>1. Layout = LayoutOf(header)
      BY LayoutOfHeader
    <3>2. /\ DOMAIN header' = DOMAIN header \cup {name}
          /\ header'[name] = Part(received, off[k + 1], size)
          /\ \A g \in DOMAIN header : g # name => header'[g] = header[g]
      BY <1>2, <2>1, <2>4 DEF Parsing
    <3>3. /\ k < Len(LayoutOf(header))
          /\ name = LayoutOf(header)[k + 1][1] /\ size = LayoutOf(header)[k + 1][2]
          /\ off[k + 1] + size <= Len(received)
      BY <1>2, <1>4, <2>2, <2>3, <3>1 DEF name, size
    <3>4. /\ OperationKnown(header')
          /\ \E end : Headers(header', received, k + 1, end) /\ end[k + 2] = off[k + 1] + size
      BY <1>2, <1>5, <3>2, <3>3, FieldParsed
    <3> QED BY <1>2, <2>2, <3>4
  <2>6. (k + 1) + 1 = k + 2
    BY <1>2, <1>5, NextField
  <2>7. HeaderInv'
    BY <1>1, <2>5, <2>6 DEF HeaderInv
  <2> QED BY <1>1, <1>5, <1>6, <1>7, <1>8, <2>1, <2>7 DEF PacketInv, SourceInv
<1> QED BY <1>6, <1>9, <1>10

LEMMA HeadersKept ==
    ASSUME PacketInv, header' = header, received' = received,
           pc' \in {"library", "poll", "set_src_mac", "set_dest_mac", "ended"}
    PROVE  HeaderInv'
BY DEF PacketInv, HeaderInv

LEMMA EndsStep == ASSUME PacketInv, pc # "library", Ends PROVE PacketInv' /\ UNCHANGED File!vars
<1>1. /\ UNCHANGED vars /\ pc' = "ended" /\ received' = received /\ header' = header
      /\ patches' = patches /\ sent' = sent
  BY DEF Ends
<1>2. BufferInv' /\ UNCHANGED File!vars /\ growing' = growing
  BY <1>1, BufferKept DEF PacketInv
<1>3. HeaderInv'
  BY <1>1, HeadersKept
<1> QED BY <1>1, <1>2, <1>3 DEF PacketInv, SourceInv

LEMMA NextPacketStep ==
    ASSUME PacketInv, pc # "library", NextPacket, sent' \in {sent, Append(sent, Content)}
    PROVE  PacketInv' /\ UNCHANGED File!vars
<1>1. /\ UNCHANGED vars /\ pc' = "poll" /\ received' = received /\ header' = header
      /\ patches' = patches
  BY DEF NextPacket
<1>2. BufferInv' /\ UNCHANGED File!vars /\ growing' = growing
  BY <1>1, BufferKept DEF PacketInv
<1>3. HeaderInv'
  BY <1>1, HeadersKept
<1>4. sent' \in Seq(Seq(Bytes))
  <2> DEFINE c == Content
             S == Seq(Bytes)
  <2>1. c \in S /\ sent \in Seq(S)
    BY ContentType DEF PacketInv
  <2>2. sent' = sent \/ sent' = Append(sent, c)
    OBVIOUS
  <2> HIDE DEF c, S
  <2>3. sent' \in Seq(S)
    BY <2>1, <2>2
  <2> QED BY <2>3 DEF S
<1> QED BY <1>1, <1>2, <1>3, <1>4 DEF PacketInv, SourceInv

LEMMA ClonePacketStep == ASSUME PacketInv, ClonePacket PROVE PacketInv' /\ File!Next
<1>1. /\ pc = "read" /\ pc' = "reread" /\ clone /\ header' = <<>> /\ received' = received
      /\ patches' = patches /\ sent' = sent /\ Has("ethertype", ARP)
  BY DEF ClonePacket, Printed, Parsed, IsForMachine, IsArpBroadcast
<1>2. BufferInv' /\ File!Next
  <2>1. BufferInv' /\ File!Rewind
    BY <1>1, CloneStep DEF PacketInv
  <2> QED BY <2>1, FileCalls DEF PacketInv
<1>3. Content' = Content /\ position' = 0 /\ growing' = FALSE
  BY <1>1, CloneStep DEF PacketInv, clone
<1>4. HeaderInv'
  <2>1. OperationKnown(<<>>) /\ Headers(<<>>, received, 0, [i \in 1..13 |-> 0])
    BY NoHeaders DEF PacketInv
  <2>2. [i \in 1..13 |-> 0][0 + 1] = 0
    OBVIOUS
  <2> QED BY <1>1, <1>3, <2>1, <2>2 DEF HeaderInv
<1>5. Part(received, 2 * MacLength, 2) = ARP /\ EthernetLength <= Len(received)
  <2>1. PICK k, off : Headers(header, received, k, off)
    BY DEF PacketInv, HeaderInv
  <2>2. "ethertype" \in DOMAIN header /\ header["ethertype"] = ARP
    BY <1>1 DEF Has
  <2> QED BY <2>1, <2>2, EthernetParsed DEF PacketInv, HeaderInv
<1>6. growing' = FALSE /\ received' \in Seq(Bytes) /\ Content' = received'
  BY <1>1, <1>3 DEF PacketInv
<1>7. Part(received', 2 * MacLength, 2) = ARP /\ EthernetLength <= Len(received')
  BY <1>1, <1>5
<1> QED BY <1>1, <1>2, <1>4, <1>6, <1>7 DEF PacketInv, SourceInv, File!Next

LEMMA AddressesAtType == MacLength \in Nat /\ EthernetLength \in Nat /\ AddressesAt \in Nat
                         /\ OperationAt \in Nat /\ AddressesAt = EthernetLength + 8
                         /\ EthernetLength = 2 * MacLength + 2
BY LengthsAssumption DEF EthernetLength, AddressesAt, OperationAt

LEMMA OwnBytes ==
    /\ mac \in Seq(Bytes) /\ Len(mac) = MacLength
    /\ REPLY \in Seq(Bytes) /\ Len(REPLY) = 2 /\ <<>> \in Seq(Bytes)
<1>1. MacLength \in Nat /\ mac \in [1..MacLength -> Bytes] /\ REPLY \in [1..2 -> Bytes]
  BY LengthsAssumption, OwnAddressAssumption
<1>2. ASSUME NEW n \in Nat, NEW s \in [1..n -> Bytes] PROVE s \in Seq(Bytes) /\ Len(s) = n
  OBVIOUS
<1>3. mac \in Seq(Bytes) /\ Len(mac) = MacLength
  BY <1>1, <1>2
<1>4. REPLY \in Seq(Bytes) /\ Len(REPLY) = 2
  BY <1>1, <1>2
<1>5. <<>> \in Seq(Bytes)
  OBVIOUS
<1> QED BY <1>3, <1>4, <1>5

LEMMA PatchSourceStep == ASSUME PacketInv, PatchSource PROVE PacketInv' /\ UNCHANGED File!vars
<1>1. /\ pc = "reread" /\ Unparsed = {} /\ pc' = "set_src_mac" /\ patches' = set_src_mac
      /\ UNCHANGED vars /\ received' = received /\ header' = header /\ sent' = sent
  BY DEF PatchSource, Parsed
<1>2. BufferInv' /\ UNCHANGED File!vars /\ growing' = growing /\ written' = written
  BY <1>1, BufferKept DEF PacketInv
<1>3. HeaderInv'
  BY <1>1, HeadersKept
<1>4. Protocol(header) \in Nat
  <2>1. PICK k, off : Headers(header, received, k, off)
    BY DEF PacketInv, HeaderInv
  <2>2. /\ OperationKnown(header) /\ received \in Seq(Bytes)
        /\ Part(received, 2 * MacLength, 2) = ARP
    BY <1>1 DEF PacketInv, HeaderInv
  <2>3. {i \in 1..Len(LayoutOf(header)) : LayoutOf(header)[i][1] \notin DOMAIN header} = {}
    BY <1>1, LayoutOfHeader DEF Unparsed
  <2>4. k >= 3
    <3> DEFINE n == Len(LayoutOf(header))
    <3>1. (k + 1)..n = {} /\ k \in Nat /\ n \in 3..12
      BY <2>1, <2>2, <2>3, NextField
    <3> HIDE DEF n
    <3>2. k < 3 => n \in (k + 1)..n
      BY <3>1
    <3> QED BY <3>1, <3>2
  <2>5. HasIn(header, "ethertype", ARP)
    BY <2>1, <2>2, <2>4, EthernetParsed DEF HasIn
  <2> QED BY <2>1, <2>2, <2>3, <2>5, ARPComplete
<1> DEFINE p == Protocol(header)
           first == [at |-> MacLength, data |-> mac]
           second == [at |-> AddressesAt + MacLength + p, data |-> mac]
           third == PutBack
<1>5. patches' = <<first, second, third>>
  BY <1>1 DEF set_src_mac, Protocol
<1>6. first \in Patches /\ second \in Patches /\ third \in Patches
  <2>1. MacLength \in Nat /\ AddressesAt + MacLength + p \in Nat /\ position \in Nat
    BY <1>4, AddressesAtType, ContentType DEF PacketInv
  <2> QED BY <2>1, OwnBytes DEF Patches, PutBack
<1>7. second.at >= AddressesAt + MacLength
  BY <1>4, AddressesAtType
<1> HIDE DEF first, second, third
<1>8. /\ patches' \in Seq(Patches) /\ Len(patches') = 3
      /\ patches'[1] = first /\ patches'[2] = second
  BY <1>5, <1>6
<1>9. written = Len(received) /\ EthernetLength <= Len(received)
  BY <1>1, ContentType DEF PacketInv
<1>10. SourceInv'
  BY <1>1, <1>2, <1>7, <1>8, <1>9 DEF SourceInv, first
<1> QED BY <1>1, <1>2, <1>3, <1>8, <1>10 DEF PacketInv

LEMMA PatchRestStep == ASSUME PacketInv, PatchRest PROVE PacketInv' /\ UNCHANGED File!vars
<1>1. /\ pc = "set_src_mac" /\ patches = <<>> /\ pc' = "set_dest_mac"
      /\ patches' = set_dest_mac(SenderMac) \o set_operation(REPLY)
      /\ UNCHANGED vars /\ received' = received /\ header' = header /\ sent' = sent
  BY DEF PatchRest
<1>2. BufferInv' /\ UNCHANGED File!vars /\ growing' = growing
  BY <1>1, BufferKept DEF PacketInv
<1>3. HeaderInv'
  BY <1>1, HeadersKept
<1>4. SenderMac \in Seq(Bytes)
  <2>1. AddressesAt + MacLength <= Len(received)
    BY <1>1 DEF PacketInv, SourceInv
  <2>2. SenderMac = Part(received, AddressesAt, MacLength)
    BY DEF SenderMac, Part
  <2> QED BY <2>1, <2>2, AddressesAtType, PartType DEF PacketInv
<1>5. set_dest_mac(SenderMac) \in Seq(Patches)
  <2> DEFINE address == SenderMac
             back == PutBack
  <2>1. address \in Seq(Bytes) /\ position \in Nat
    BY <1>4, ContentType DEF PacketInv
  <2> HIDE DEF address
  <2>2. back \in Patches
    BY <2>1, OwnBytes DEF PutBack, Patches
  <2>3. [at |-> 0, data |-> address] \in Patches /\ [at |-> AddressesAt, data |-> address] \in Patches
    BY <2>1, AddressesAtType DEF Patches
  <2> HIDE DEF back
  <2>4. << [at |-> 0, data |-> address], [at |-> AddressesAt, data |-> address], back >> \in Seq(Patches)
    BY <2>2, <2>3
  <2> QED BY <2>4 DEF set_dest_mac, address, back
<1>6. set_operation(REPLY) \in Seq(Patches)
  <2> DEFINE back == PutBack
  <2>1. back \in Patches
    BY OwnBytes, ContentType DEF PutBack, Patches, PacketInv
  <2>2. [at |-> OperationAt, data |-> REPLY] \in Patches
    BY OwnBytes, AddressesAtType DEF Patches
  <2> HIDE DEF back
  <2>3. << [at |-> OperationAt, data |-> REPLY], back >> \in Seq(Patches)
    BY <2>1, <2>2
  <2> QED BY <2>3 DEF set_operation, back
<1>7. patches' \in Seq(Patches)
  BY <1>1, <1>5, <1>6, ConcatProperties
<1> QED BY <1>1, <1>2, <1>3, <1>7 DEF PacketInv, SourceInv

LEMMA PatchStep == ASSUME PacketInv, Patch PROVE PacketInv' /\ File!Next
<1>1. /\ pc \in {"set_src_mac", "set_dest_mac"} /\ patches # <<>>
      /\ pc' = IF thrown' THEN "ended" ELSE pc
      /\ received' = received /\ header' = header /\ sent' = sent
  BY DEF Patch
<1> DEFINE p == Head(patches).at
           data == Head(patches).data
<1>2. /\ p \in Nat /\ data \in Seq(Bytes) /\ Tail(patches) \in Seq(Patches)
      /\ Len(patches) \in Nat /\ Len(Tail(patches)) = Len(patches) - 1
      /\ Head(patches) = patches[1] /\ Len(patches) > 0
      /\ \A i \in 1..(Len(patches) - 1) : Tail(patches)[i] = patches[i + 1]
  <2>1. patches \in Seq(Patches) /\ patches # <<>>
    BY <1>1 DEF PacketInv
  <2>2. /\ Head(patches) \in Patches /\ Head(patches) = patches[1]
        /\ Len(patches) \in Nat /\ Len(patches) > 0
    BY <2>1
  <2>3. /\ Tail(patches) \in Seq(Patches) /\ Len(Tail(patches)) = Len(patches) - 1
        /\ \A i \in 1..(Len(patches) - 1) : Tail(patches)[i] = patches[i + 1]
    BY <2>1, HeadTailProperties
  <2> QED BY <2>2, <2>3 DEF Patches
<1>3. HeaderInv'
  BY <1>1, HeadersKept
<1> HIDE DEF p, data
<1>4. CASE seek(p) /\ patches' = patches
  <2>1. BufferInv' /\ File!Next
    <3>1. BufferInv' /\ File!Seek(p)
      BY <1>2, <1>4, SeekStep DEF PacketInv
    <3> QED BY <1>2, <3>1, FileCalls DEF PacketInv
  <2>2. growing' = growing /\ written' = written
    BY <1>4 DEF seek, Refuse, Throws, Returns
  <2>3. SourceInv'
    BY <1>1, <1>4, <2>2 DEF PacketInv, SourceInv
  <2>4. /\ pc' # "read" /\ pc' # "reread" /\ pc' # "library" /\ pc # "library"
        /\ pc' \in {"poll", "read", "reread", "set_src_mac", "set_dest_mac", "ended"}
    BY <1>1
  <2> QED BY <1>1, <1>3, <1>4, <2>1, <2>2, <2>3, <2>4 DEF PacketInv
<1>5. CASE position = p /\ WriteFixed(data) /\ patches' = Tail(patches)
  <2>1. BufferInv' /\ File!Next
    <3>1. BufferInv' /\ (File!Overwrite(data) \/ File!Refuse)
      BY <1>2, <1>5, WriteFixedStep DEF PacketInv
    <3> QED BY <1>2, <3>1, FileCalls DEF PacketInv
  <2>2. growing' = growing
    BY <1>5 DEF WriteFixed, Refuse, Throws, Put, Returns
  <2>3. ASSUME pc' = "set_src_mac" PROVE SourceInv'
    <3>1. ~thrown' /\ pc = "set_src_mac"
      BY <1>1, <2>3
    <3>2. written' = WrittenUpTo(position + Len(data))
      BY <1>5, <3>1 DEF WriteFixed, Refuse, Throws, Put
    <3> DEFINE n == Len(patches)
               length == Len(received)
    <3>3. n \in Nat /\ n > 0 /\ Len(patches') = n - 1 /\ n <= 3
      BY <1>2, <1>5, <3>1 DEF PacketInv, SourceInv
    <3>4. position \in Nat /\ written \in Nat /\ position <= written /\ length \in Nat
      BY ContentType DEF PacketInv
    <3> HIDE DEF n, length
    <3>5. CASE n = 3
      <4>1. /\ patches[1] = [at |-> MacLength, data |-> mac]
            /\ patches[2].at >= AddressesAt + MacLength
            /\ written = length /\ EthernetLength <= length
        BY <3>1, <3>5 DEF PacketInv, SourceInv, n, length
      <4>2. position = MacLength /\ Len(data) = MacLength
        BY <1>2, <1>5, <4>1, OwnBytes DEF p, data
      <4>3. written' = written
        <5>1. position + Len(data) = 2 * MacLength
          BY <4>2, AddressesAtType
        <5>2. ~(2 * MacLength > written)
          BY <3>4, <4>1, AddressesAtType
        <5> QED BY <3>2, <5>1, <5>2 DEF WrittenUpTo
      <4>4. Len(patches') = 2 /\ patches'[1] = patches[2]
        <5>1. Len(patches) - 1 = 2
          BY <3>5 DEF n
        <5>2. 1 \in 1..(Len(patches) - 1) /\ 1 + 1 = 2
          BY <5>1
        <5>3. Tail(patches)[1] = patches[2]
          BY <1>2, <5>2
        <5> QED BY <1>2, <1>5, <5>1, <5>3
      <4> QED BY <1>1, <4>1, <4>3, <4>4 DEF SourceInv, length
    <3>6. CASE n = 2
      <4>1. patches[1].at >= AddressesAt + MacLength /\ written = length
        BY <3>1, <3>6 DEF PacketInv, SourceInv, n, length
      <4>2. position >= AddressesAt + MacLength
        BY <1>2, <1>5, <4>1 DEF p
      <4>3. AddressesAt + MacLength <= length /\ Len(patches') = 1
        BY <3>3, <3>4, <3>6, <4>1, <4>2, AddressesAtType
      <4> QED BY <1>1, <4>3 DEF SourceInv, length
    <3>7. CASE n = 1
      <4>1. AddressesAt + MacLength <= length
        BY <3>1, <3>7 DEF PacketInv, SourceInv, n, length
      <4>2. Len(patches') = 0
        BY <3>3, <3>7
      <4> QED BY <1>1, <4>1, <4>2 DEF SourceInv, length
    <3> QED BY <3>3, <3>5, <3>6, <3>7
  <2>4. SourceInv'
    BY <2>3 DEF SourceInv
  <2>5. /\ pc' # "read" /\ pc' # "reread" /\ pc' # "library" /\ pc # "library"
        /\ pc' \in {"poll", "read", "reread", "set_src_mac", "set_dest_mac", "ended"}
    BY <1>1
  <2>6. patches' \in Seq(Patches)
    BY <1>2, <1>5
  <2> QED BY <1>1, <1>3, <2>1, <2>2, <2>4, <2>5, <2>6 DEF PacketInv
<1> QED BY <1>4, <1>5 DEF Patch, p, data

LEMMA PacketStep ==
    PacketInv /\ [PacketNext]_packetVars => PacketInv' /\ [File!Next]_(File!vars)
<1> SUFFICES ASSUME PacketInv, [PacketNext]_packetVars
             PROVE  PacketInv' /\ [File!Next]_(File!vars)
  OBVIOUS
<1>1. CASE UseBuffer
  BY <1>1 DEF UseBuffer, PacketInv
<1>2. CASE ReadFrame
  BY <1>2, ReadFrameStep
<1>3. CASE ParseField
  BY <1>3, ParseFieldStep
<1>4. CASE RejectFrame
  <2>1. pc # "library" /\ Ends
    BY <1>4 DEF RejectFrame, Parsed
  <2> QED BY <2>1, EndsStep
<1>5. CASE PrintFails
  <2>1. pc # "library" /\ Ends
    BY <1>5 DEF PrintFails, Parsed
  <2> QED BY <2>1, EndsStep
<1>6. CASE SkipPacket
  <2>1. pc # "library" /\ NextPacket /\ sent' = sent
    BY <1>6 DEF SkipPacket, Printed, Parsed
  <2> QED BY <2>1, NextPacketStep
<1>7. CASE Retransmit
  <2>1. pc # "library" /\ NextPacket /\ sent' \in {sent, Append(sent, Content)}
    BY <1>7 DEF Retransmit, Printed, Parsed
  <2> QED BY <2>1, NextPacketStep
<1>8. CASE ClonePacket
  BY <1>8, ClonePacketStep
<1>9. CASE PatchSource
  BY <1>9, PatchSourceStep
<1>10. CASE PatchRest
  BY <1>10, PatchRestStep
<1>11. CASE Patch
  BY <1>11, PatchStep
<1>12. CASE WriteResponse
  <2>1. pc # "library" /\ NextPacket /\ sent' = Append(sent, Content)
    BY <1>12 DEF WriteResponse
  <2> QED BY <2>1, NextPacketStep
<1>13. CASE UNCHANGED packetVars
  <2>1. /\ UNCHANGED vars /\ pc' = pc /\ received' = received /\ header' = header
        /\ patches' = patches /\ sent' = sent
    BY <1>13 DEF packetVars, runVars
  <2>2. /\ BufferInv' /\ UNCHANGED File!vars /\ Content' = Content
        /\ growing' = growing /\ position' = position /\ written' = written
    BY <2>1, BufferKept DEF PacketInv
  <2>3. HeaderInv'
    BY <2>1, <2>2 DEF PacketInv, HeaderInv
  <2>4. SourceInv'
    BY <2>1, <2>2 DEF PacketInv, SourceInv
  <2> QED BY <2>1, <2>2, <2>3, <2>4 DEF PacketInv
<1> QED BY <1>1, <1>2, <1>3, <1>4, <1>5, <1>6, <1>7, <1>8, <1>9, <1>10, <1>11, <1>12, <1>13
        DEF PacketNext, Run, Terminated

LEMMA PacketAlways ==
    (LibraryInv \/ PacketInv) /\ [PacketNext]_packetVars
        => (LibraryInv \/ PacketInv)' /\ [File!Next]_(File!vars)
BY LibraryStep, PacketStep

\* Whatever frame is read, the headers that are parsed and the patches of the
\* setters are bytes of it and of the interface, at offsets of the storage, and
\* nothing else is sent.
THEOREM PacketTypeCorrect == PacketSpec => []PacketTypeOK
BY PacketStart, PacketAlways, PacketInvTypes, LibraryInvTypes, PTL DEF PacketSpec

\* Reading a frame, parsing it, cloning it and patching the clone are calls on a
\* file in memory, each as a whole or not at all, and the calls on any other
\* buffer have the effect their arguments say.
THEOREM FrameIsByteFile == PacketSpec => ImplementsByteFile /\ File!Spec
<1>1. LibraryInv \/ PacketInv => CallsAreFileCalls
  BY BufferCalls, UsableIsAny DEF LibraryInv, PacketInv
<1>2. (LibraryInv \/ PacketInv) /\ [PacketNext]_packetVars => [CallsAreFileCalls]_vars
  BY <1>1
<1> QED BY <1>2, PacketStart, PacketAlways, PTL DEF PacketSpec, ImplementsByteFile, File!Spec

\* A number written at any position of any buffer reads back, for bytes of any
\* size: those of fixed width, and those of variable width whatever their width.
THEOREM NumbersAlwaysReadBack == PacketSpec => []NumbersReadBack
<1>1. LibraryInv \/ PacketInv => NumbersReadBack
  BY BufferReadsBack DEF LibraryInv, PacketInv, AnyBuffer, BufferInv
<1> QED BY <1>1, PacketStart, PacketAlways, PTL DEF PacketSpec

-----------------------------------------------------------------------------
(* Complete frames. *)

LEMMA AddressNames ==
    ASSUME NEW h, NEW p
    PROVE  LET f == AddressFields(h, p)
           IN /\ Len(f) = 12
              /\ f[6] = <<"hardware_addr_len", 1>> /\ f[7] = <<"protocol_addr_len", 1>>
              /\ f[8] = <<"operation", 2>> /\ f[12] = <<"target_ip", p>>
BY DEF AddressFields

LEMMA AddressesParsed ==
    ASSUME NEW fields, NEW frame \in Seq(Bytes), NEW k, NEW off,
           OperationKnown(fields), Headers(fields, frame, k, off),
           "operation" \in DOMAIN fields
    PROVE  LET h == Hardware(fields)
               p == Protocol(fields)
           IN /\ h \in Nat /\ p \in Nat /\ LayoutOf(fields) = AddressFields(h, p)
              /\ k \in 8..12 /\ Len(LayoutOf(fields)) = 12
              /\ AddressesAt <= Len(frame)
              /\ h = Part(frame, EthernetLength + 4, 1)[1]
              /\ p = Part(frame, EthernetLength + 5, 1)[1]
              /\ fields["operation"] = Part(frame, OperationAt, 2)
              /\ k = 12 => /\ "target_ip" \in DOMAIN fields
                           /\ fields["target_ip"] = Part(frame, AddressesAt + 2 * h + p, p)
                           /\ off[13] = AddressesAt + 2 * h + 2 * p
<1> DEFINE h == Hardware(fields)
           p == Protocol(fields)
           layout == LayoutOf(fields)
           f == AddressFields(h, p)
<1>1. h \in Nat /\ p \in Nat /\ layout = f
  BY LayoutForms DEF OperationKnown
<1>2. /\ k \in Nat /\ k <= Len(layout)
      /\ {i \in 1..Len(layout) : layout[i][1] \notin DOMAIN fields} = (k + 1)..Len(layout)
  BY NextField
<1>3. /\ off \in [1..13 -> Nat] /\ off[1] = 0
      /\ \A j \in 1..k :
            /\ layout[j][1] \in DOMAIN fields
            /\ off[j + 1] = off[j] + layout[j][2] /\ off[j + 1] <= Len(frame)
            /\ fields[layout[j][1]] = Part(frame, off[j], layout[j][2])
  BY DEF Headers
<1>4. /\ Len(f) = 12
      /\ f[6][1] = "hardware_addr_len" /\ f[6][2] = 1
      /\ f[7][1] = "protocol_addr_len" /\ f[7][2] = 1
      /\ f[8][1] = "operation" /\ f[8][2] = 2
      /\ f[12][1] = "target_ip" /\ f[12][2] = p
  BY AddressNames
<1> HIDE DEF layout
<1>5. k \in 8..12
  <2>1. {i \in 1..12 : f[i][1] \notin DOMAIN fields} = (k + 1)..12
    BY <1>1, <1>2, <1>4
  <2>2. 8 \notin (k + 1)..12
    BY <1>4, <2>1
  <2>3. k \in Nat /\ k <= 12
    BY <1>1, <1>2, <1>4
  <2> QED BY <2>2, <2>3
<1>6. \A j \in 1..k :
         /\ f[j][1] \in DOMAIN fields
         /\ off[j + 1] = off[j] + f[j][2] /\ off[j + 1] <= Len(frame)
         /\ fields[f[j][1]] = Part(frame, off[j], f[j][2])
  BY <1>1, <1>3
<1>7. /\ off[6] = EthernetLength + 4 /\ off[7] = EthernetLength + 5
      /\ off[8] = OperationAt /\ off[9] = AddressesAt
      /\ k = 12 => /\ off[12] = AddressesAt + 2 * h + p
                   /\ off[13] = AddressesAt + 2 * h + 2 * p
  <2> HIDE DEF h, p
  <2>1. h \in Nat /\ p \in Nat
    BY <1>1
  <2>3. k \in 0..12 /\ off \in [1..13 -> Nat] /\ off[1] = 0
    BY <1>3, <1>5
  <2>4. \A j \in 1..k : off[j + 1] = off[j] + AddressFields(h, p)[j][2]
    BY <1>6
  <2>2. /\ (k >= 5 => off[6] = EthernetLength + 4) /\ (k >= 6 => off[7] = EthernetLength + 5)
        /\ (k >= 7 => off[8] = OperationAt) /\ (k >= 8 => off[9] = AddressesAt)
        /\ (k >= 11 => off[12] = AddressesAt + 2 * h + p)
        /\ (k >= 12 => off[13] = AddressesAt + 2 * h + 2 * p)
    <3>1. ARPAt(h, p, k, off)
      BY <2>1, <2>3, <2>4 DEF ARPAt
    <3> QED BY <3>1, ARPOffsets
  <2> QED BY <1>5, <2>2
<1>8. 6 \in 1..k /\ 7 \in 1..k /\ 8 \in 1..k /\ (k = 12 => 12 \in 1..k)
  BY <1>5
<1> HIDE DEF f
<1>9. /\ fields["hardware_addr_len"] = Part(frame, off[6], 1)
      /\ fields["protocol_addr_len"] = Part(frame, off[7], 1)
      /\ fields["operation"] = Part(frame, off[8], 2)
      /\ off[8 + 1] <= Len(frame)
  BY <1>4, <1>6, <1>8
<1>10. ASSUME k = 12
       PROVE  "target_ip" \in DOMAIN fields /\ fields["target_ip"] = Part(frame, off[12], p)
  BY <1>4, <1>6, <1>8, <1>10
<1>11. /\ h = Part(frame, EthernetLength + 4, 1)[1]
       /\ p = Part(frame, EthernetLength + 5, 1)[1]
       /\ fields["operation"] = Part(frame, OperationAt, 2)
  BY <1>7, <1>9 DEF Hardware, Protocol
<1>12. AddressesAt <= Len(frame)
  BY <1>7, <1>9
<1>13. k = 12 => /\ "target_ip" \in DOMAIN fields
                 /\ fields["target_ip"] = Part(frame, AddressesAt + 2 * h + p, p)
                 /\ off[13] = AddressesAt + 2 * h + 2 * p
  BY <1>7, <1>10
<1>14. h \in Nat /\ p \in Nat /\ LayoutOf(fields) = AddressFields(h, p) /\ Len(LayoutOf(fields)) = 12
  BY <1>1, <1>4 DEF layout, f
<1> HIDE DEF h, p
<1> QED BY <1>5, <1>11, <1>12, <1>13, <1>14 DEF h, p

\* In a packet of Ethernet and IPv4 the lengths are those of their addresses.
LEMMA GoodLengths ==
    ASSUME NEW fields, NEW frame \in Seq(Bytes), NEW k, NEW off,
           OperationKnown(fields), Headers(fields, frame, k, off),
           "operation" \in DOMAIN fields, IsEthernetArp(frame)
    PROVE  Hardware(fields) = MacLength /\ Protocol(fields) = IPv4Length
<1> DEFINE a == EthernetLength + 4
           b == EthernetLength + 5
<1>1. /\ AddressesAt <= Len(frame)
      /\ Hardware(fields) = Part(frame, a, 1)[1] /\ Protocol(fields) = Part(frame, b, 1)[1]
  BY AddressesParsed
<1>2. Part(frame, a, 2) = <<MacLength, IPv4Length>>
  BY DEF IsEthernetArp, ArpFields
<1>3. Part(frame, a, 2)[1] = MacLength /\ Part(frame, a, 2)[2] = IPv4Length
  BY <1>2
<1>4. /\ a \in Nat /\ b \in Nat /\ b = a + 1
      /\ a + 1 <= Len(frame) /\ a + 2 <= Len(frame) /\ b + 1 <= Len(frame)
  BY <1>1, AddressesAtType
<1> HIDE DEF a, b
<1>5. Part(frame, a, 1)[1] = frame[a + 1] /\ Part(frame, b, 1)[1] = frame[b + 1]
  <2>1. /\ \A i \in 1..1 : Part(frame, a, 1)[i] = frame[a + i]
        /\ \A i \in 1..1 : Part(frame, b, 1)[i] = frame[b + i]
    BY <1>4, PartType
  <2> QED BY <2>1
<1>6. Part(frame, a, 2)[1] = frame[a + 1] /\ Part(frame, a, 2)[2] = frame[a + 2]
  <2>1. \A i \in 1..2 : Part(frame, a, 2)[i] = frame[a + i]
    BY <1>4, PartType
  <2> QED BY <2>1
<1>7. b + 1 = a + 2
  BY <1>4
<1> QED BY <1>1, <1>3, <1>5, <1>6, <1>7

LEMMA ARPOffsetBound ==
    ASSUME NEW h \in Nat, NEW p \in Nat,
           NEW k \in 4..12, NEW off \in [1..13 -> Nat], off[1] = 0,
           \A j \in 1..k : off[j + 1] = off[j] + AddressFields(h, p)[j][2]
    PROVE  off[k + 1] <= IF k <= 8 THEN AddressesAt ELSE AddressesAt + 2 * h + 2 * p
<1>0. k \in 0..12 /\ AddressesAt \in Nat /\ OperationAt \in Nat /\ EthernetLength \in Nat
  BY AddressesAtType
<1>1. /\ (k >= 4 => off[5] = EthernetLength + 2)
      /\ (k >= 5 => off[6] = EthernetLength + 4) /\ (k >= 6 => off[7] = EthernetLength + 5)
      /\ (k >= 7 => off[8] = OperationAt) /\ (k >= 8 => off[9] = AddressesAt)
      /\ (k >= 9 => off[10] = AddressesAt + h) /\ (k >= 10 => off[11] = AddressesAt + h + p)
      /\ (k >= 11 => off[12] = AddressesAt + 2 * h + p)
      /\ (k >= 12 => off[13] = AddressesAt + 2 * h + 2 * p)
  <2>1. ARPAt(h, p, k, off)
    BY <1>0 DEF ARPAt
  <2> QED BY <2>1, ARPOffsets
<1>2. AddressesAt = EthernetLength + 8 /\ OperationAt = EthernetLength + 6
  BY DEF AddressesAt, OperationAt
<1>3. CASE k = 4 BY <1>0, <1>1, <1>2, <1>3
<1>4. CASE k = 5 BY <1>0, <1>1, <1>2, <1>4
<1>5. CASE k = 6 BY <1>0, <1>1, <1>2, <1>5
<1>6. CASE k = 7 BY <1>0, <1>1, <1>2, <1>6
<1>7. CASE k = 8 BY <1>0, <1>1, <1>7
<1>8. CASE k = 9 BY <1>0, <1>1, <1>8
<1>9. CASE k = 10 BY <1>0, <1>1, <1>9
<1>10. CASE k = 11 BY <1>0, <1>1, <1>10
<1>11. CASE k = 12 BY <1>0, <1>1, <1>11
<1> QED BY <1>3, <1>4, <1>5, <1>6, <1>7, <1>8, <1>9, <1>10, <1>11

LEMMA BeyondEthernet == \A k \in 0..11 : k >= 3 => k + 1 \in 4..12
OBVIOUS

LEMMA GoodArpFits ==
    ASSUME NEW fields, NEW frame \in Seq(Bytes), NEW k, NEW off,
           OperationKnown(fields), Headers(fields, frame, k, off),
           IsEthernetArp(frame), k < Len(LayoutOf(fields))
    PROVE  off[k + 1] + LayoutOf(fields)[k + 1][2] <= Len(frame)
<1> DEFINE layout == LayoutOf(fields)
           size == layout[k + 1][2]
           h == IF "operation" \in DOMAIN fields THEN MacLength ELSE 0
           p == IF "operation" \in DOMAIN fields THEN IPv4Length ELSE 0
           f == AddressFields(h, p)
<1>1. /\ k \in Nat /\ Len(layout) \in 3..12 /\ k <= Len(layout)
      /\ \A i \in 1..Len(layout) : layout[i][2] \in Nat
  BY NextField
<1>2. /\ off \in [1..13 -> Nat] /\ off[1] = 0
      /\ \A j \in 1..k : off[j + 1] = off[j] + layout[j][2]
  BY DEF Headers
<1>3. /\ MacLength \in Nat /\ IPv4Length \in Nat /\ EthernetLength \in Nat
      /\ AddressesAt = EthernetLength + 8
      /\ Len(frame) = AddressesAt + 2 * (MacLength + IPv4Length)
      /\ Part(frame, 2 * MacLength, 2) = ARP
  BY LengthsAssumption, AddressesAtType DEF IsEthernetArp, ArpFields
<1>4. CASE k < 3
  <2>1. off[k + 1] + size <= EthernetLength
    BY <1>4, EthernetParsed
  <2> HIDE DEF size
  <2>2. EthernetLength <= Len(frame)
    BY <1>3
  <2>3. off[k + 1] \in Nat /\ size \in Nat
    <3> DEFINE n == Len(layout)
    <3>1. n \in 3..12
      BY <1>1
    <3> HIDE DEF n, layout
    <3>2. k + 1 \in 1..13 /\ k + 1 \in 1..n
      BY <1>1, <1>4, <3>1
    <3> QED BY <1>1, <1>2, <3>2 DEF n, size
  <2>4. off[k + 1] + size <= Len(frame)
    BY <1>3, <2>1, <2>2, <2>3
  <2> QED BY <2>4 DEF size
<1>5. CASE k >= 3
  <2>1. HasIn(fields, "ethertype", ARP)
    BY <1>3, <1>5, EthernetParsed DEF HasIn
  <2>2. h \in Nat /\ p \in Nat
    BY <1>3
  <2>3. /\ Len(layout) <= 12
        /\ \A i \in 1..Len(layout) : layout[i] = f[i]
        /\ Len(layout) > 8 => h = MacLength /\ p = IPv4Length
    <3>1. CASE "operation" \in DOMAIN fields
      <4>1. h = MacLength /\ p = IPv4Length
        BY <3>1
      <4>2. layout = f /\ Len(layout) = 12
        BY <3>1, <4>1, AddressesParsed, GoodLengths
      <4> HIDE DEF h, p, f, layout
      <4> QED BY <4>1, <4>2
    <3>2. CASE "operation" \notin DOMAIN fields
      <4>1. layout = ARPFields
        BY <2>1, <3>2, LayoutForms
      <4>2. Len(ARPFields) = 8
        BY ARPRanked DEF Ranked
      <4>3. \A i \in 1..8 : f[i] = ARPFields[i]
        BY <2>2, LayoutsAgree
      <4> HIDE DEF h, p, f, layout
      <4> QED BY <4>1, <4>2, <4>3
    <3> QED BY <3>1, <3>2
  <2> HIDE DEF h, p, layout, f
  <2> DEFINE n == Len(layout)
  <2>4. /\ k \in 0..11 /\ k + 1 \in 1..n /\ \A j \in 1..(k + 1) : j \in 1..n
    <3>1. n \in 3..12 /\ k < n
      BY <1>1 DEF layout
    <3> HIDE DEF n
    <3> QED BY <1>1, <3>1
  <2>5. size \in Nat /\ size = f[k + 1][2]
    BY <1>1, <2>3, <2>4
  <2>6. PICK end \in [1..13 -> Nat] :
             /\ end[1] = 0 /\ \A j \in 1..(k + 1) : end[j + 1] = end[j] + layout[j][2]
             /\ end[k + 2] = off[k + 1] + size
    BY <1>2, <2>4, <2>5, NextOffset
  <2>7. \A j \in 1..(k + 1) : end[j + 1] = end[j] + f[j][2]
    BY <2>3, <2>4, <2>6
  <2> DEFINE m == k + 1
  <2>8. m \in 0..12 /\ m >= 4 /\ m <= n /\ n \in 3..12
    BY <1>1, <1>5, <2>4 DEF layout
  <2>9. \A j \in 1..m : end[j + 1] = end[j] + AddressFields(h, p)[j][2]
    BY <2>7 DEF f
  <2> HIDE DEF m, n
  <2>10. end[m + 1] <= IF m <= 8 THEN AddressesAt ELSE AddressesAt + 2 * h + 2 * p
    <3>1. m \in 4..12
      <4>1. k \in 0..11 /\ k >= 3
        BY <1>5, <2>4
      <4> QED BY <4>1, BeyondEthernet DEF m
    <3>2. end[1] = 0
      BY <2>6
    <3> QED BY <2>2, <2>9, <3>1, <3>2, ARPOffsetBound
  <2>11. m > 8 => h = MacLength /\ p = IPv4Length
    BY <2>3, <2>8 DEF n
  <2>12. end[m + 1] <= Len(frame)
    <3> DEFINE x == end[m + 1]
    <3>1. x \in Nat
      <4>1. m \in 0..12
        BY <2>8
      <4>2. m + 1 \in 1..13
        BY <4>1
      <4> QED BY <4>2
    <3>2. x <= IF m <= 8 THEN AddressesAt ELSE AddressesAt + 2 * h + 2 * p
      BY <2>10
    <3> HIDE DEF x
    <3>3. x <= Len(frame)
      BY <1>3, <2>2, <2>8, <2>11, <3>1, <3>2
    <3> QED BY <3>3 DEF x
  <2>13. m + 1 = k + 2
    BY <1>1 DEF m
  <2> QED BY <2>6, <2>12, <2>13 DEF layout
<1> QED BY <1>1, <1>4, <1>5

LEMMA IPv6OffsetBound ==
    ASSUME NEW k, NEW off, IPv6At(k, off), k >= 4
    PROVE  off[k + 1] <= EthernetLength + 8 + 2 * IPv6Length
<1>0. k \in 4..9 /\ EthernetLength \in Nat /\ IPv6Length \in Nat
  BY AddressesAtType, LengthsAssumption DEF IPv6At
<1>1. /\ (k >= 4 => off[5] = EthernetLength + 4)
      /\ (k >= 5 => off[6] = EthernetLength + 6) /\ (k >= 6 => off[7] = EthernetLength + 7)
      /\ (k >= 7 => off[8] = EthernetLength + 8)
      /\ (k >= 8 => off[9] = EthernetLength + 8 + IPv6Length)
      /\ (k >= 9 => off[10] = EthernetLength + 8 + 2 * IPv6Length)
  BY IPv6Offsets
<1>2. CASE k = 4 BY <1>0, <1>1, <1>2
<1>3. CASE k = 5 BY <1>0, <1>1, <1>3
<1>4. CASE k = 6 BY <1>0, <1>1, <1>4
<1>5. CASE k = 7 BY <1>0, <1>1, <1>5
<1>6. CASE k = 8 BY <1>0, <1>1, <1>6
<1>7. CASE k = 9 BY <1>0, <1>1, <1>7
<1> QED BY <1>0, <1>2, <1>3, <1>4, <1>5, <1>6, <1>7

LEMMA IPv6Known ==
    ASSUME NEW fields, NEW frame \in Seq(Bytes), NEW k, NEW off,
           OperationKnown(fields), Headers(fields, frame, k, off),
           Part(frame, 2 * MacLength, 2) = IPv6, k >= 3
    PROVE  HasIn(fields, "ethertype", IPv6) /\ LayoutOf(fields) = IPv6Fields
<1>1. HasIn(fields, "ethertype", IPv6)
  BY EthernetParsed DEF HasIn
<1>2. "operation" \notin DOMAIN fields
  BY <1>1, EtherTypesAssumption DEF OperationKnown, HasIn
<1> QED BY <1>1, <1>2, LayoutForms

LEMMA BeyondEthernetIPv6 ==
    \A k \in 3..8 : k + 1 \in 0..9 /\ k + 1 >= 4 /\ (k + 1) + 1 = k + 2
OBVIOUS

LEMMA GoodIPv6Fits ==
    ASSUME NEW fields, NEW frame \in Seq(Bytes), NEW k, NEW off,
           OperationKnown(fields), Headers(fields, frame, k, off),
           IsIPv6(frame), k < Len(LayoutOf(fields))
    PROVE  off[k + 1] + LayoutOf(fields)[k + 1][2] <= Len(frame)
<1> DEFINE layout == LayoutOf(fields)
           size == layout[k + 1][2]
<1>1. /\ k \in Nat /\ Len(layout) \in 3..12 /\ k <= Len(layout)
      /\ \A i \in 1..Len(layout) : layout[i][2] \in Nat
  BY NextField
<1>2. /\ off \in [1..13 -> Nat] /\ off[1] = 0
      /\ \A j \in 1..k : off[j + 1] = off[j] + layout[j][2]
  BY DEF Headers
<1>3. /\ EthernetLength \in Nat /\ IPv6Length \in Nat /\ Len(frame) \in Nat
      /\ EthernetLength + 8 + 2 * IPv6Length <= Len(frame)
      /\ Part(frame, 2 * MacLength, 2) = IPv6
  BY LengthsAssumption, AddressesAtType DEF IsIPv6
<1>4. off[k + 1] \in Nat /\ size \in Nat /\ k \in 0..11
  <2> DEFINE n == Len(layout)
  <2>1. n \in 3..12 /\ k < n
    BY <1>1
  <2> HIDE DEF n, layout
  <2>2. k + 1 \in 1..13 /\ k + 1 \in 1..n /\ k \in 0..11
    BY <1>1, <2>1
  <2> QED BY <1>1, <1>2, <2>2 DEF n, size
<1>5. CASE k < 3
  <2>1. off[k + 1] + size <= EthernetLength
    BY <1>5, EthernetParsed
  <2> HIDE DEF size
  <2>2. off[k + 1] + size <= Len(frame)
    BY <1>3, <1>4, <2>1
  <2> QED BY <2>2 DEF size
<1>6. CASE k >= 3
  <2>1. layout = IPv6Fields
    BY <1>3, <1>6, IPv6Known
  <2>2. Len(IPv6Fields) = 9
    BY IPv6Ranked DEF Ranked
  <2> HIDE DEF layout, size
  <2>3. k \in 3..8
    <3>1. k < Len(layout)
      BY DEF layout
    <3> QED BY <1>1, <1>6, <2>1, <2>2, <3>1
  <2>4. layout[k + 1][2] \in Nat
    BY <1>4 DEF size
  <2>5. PICK end \in [1..13 -> Nat] :
             /\ end[1] = 0 /\ \A j \in 1..(k + 1) : end[j + 1] = end[j] + layout[j][2]
             /\ end[k + 2] = off[k + 1] + layout[k + 1][2]
    BY <1>2, <1>4, <2>4, NextOffset
  <2> DEFINE m == k + 1
  <2>6. m \in 0..9 /\ m >= 4 /\ m + 1 = k + 2
    BY <2>3, BeyondEthernetIPv6
  <2>7. \A j \in 1..m : end[j + 1] = end[j] + IPv6Fields[j][2]
    BY <2>1, <2>5
  <2> HIDE DEF m
  <2>8. IPv6At(m, end)
    BY <2>5, <2>6, <2>7 DEF IPv6At
  <2>9. end[m + 1] <= EthernetLength + 8 + 2 * IPv6Length
    BY <2>6, <2>8, IPv6OffsetBound
  <2> DEFINE x == off[k + 1] + layout[k + 1][2]
  <2>10. x <= EthernetLength + 8 + 2 * IPv6Length /\ x \in Nat
    <3>1. end[k + 2] <= EthernetLength + 8 + 2 * IPv6Length
      BY <2>6, <2>9
    <3>2. x = end[k + 2]
      BY <2>5
    <3>3. k + 2 \in 1..13
      BY <1>4
    <3>4. end[k + 2] \in Nat
      BY <3>3
    <3> HIDE DEF x
    <3> QED BY <3>1, <3>2, <3>4
  <2> HIDE DEF x
  <2>11. x <= Len(frame)
    BY <1>3, <2>10
  <2> QED BY <2>11 DEF x, layout
<1> QED BY <1>1, <1>5, <1>6

\* All fields are parsed.
LEMMA CompleteLength ==
    ASSUME NEW fields, NEW frame \in Seq(Bytes), NEW k, NEW off,
           OperationKnown(fields), Headers(fields, frame, k, off),
           {i \in 1..Len(LayoutOf(fields)) : LayoutOf(fields)[i][1] \notin DOMAIN fields} = {}
    PROVE  k = Len(LayoutOf(fields)) /\ k \in 3..12
<1> DEFINE n == Len(LayoutOf(fields))
<1>1. (k + 1)..n = {} /\ k \in Nat /\ n \in 3..12 /\ k <= n
  BY NextField
<1> HIDE DEF n
<1>2. k < n => n \in (k + 1)..n
  BY <1>1
<1>3. k = n /\ k \in 3..12
  BY <1>1, <1>2
<1> QED BY <1>3 DEF n

LEMMA IPv6Complete ==
    ASSUME NEW fields, NEW frame \in Seq(Bytes), NEW k, NEW off,
           OperationKnown(fields), Headers(fields, frame, k, off),
           {i \in 1..Len(LayoutOf(fields)) : LayoutOf(fields)[i][1] \notin DOMAIN fields} = {},
           Part(frame, 2 * MacLength, 2) = IPv6
    PROVE  /\ HasIn(fields, "ethertype", IPv6)
           /\ fields["payload_length"] = Part(frame, EthernetLength + 4, 2)
           /\ off[k + 1] = EthernetLength + 8 + 2 * IPv6Length
<1>1. k = Len(LayoutOf(fields)) /\ k \in 3..12
  BY CompleteLength
<1>2. HasIn(fields, "ethertype", IPv6) /\ LayoutOf(fields) = IPv6Fields
  BY <1>1, IPv6Known
<1>3. k = 9
  <2>1. Len(IPv6Fields) = 9
    BY IPv6Ranked DEF Ranked
  <2> QED BY <1>1, <1>2, <2>1
<1>4. /\ off \in [1..13 -> Nat] /\ off[1] = 0
      /\ \A j \in 1..k : /\ off[j + 1] = off[j] + IPv6Fields[j][2]
                         /\ fields[IPv6Fields[j][1]] = Part(frame, off[j], IPv6Fields[j][2])
  BY <1>2 DEF Headers
<1>5. IPv6At(k, off)
  BY <1>3, <1>4 DEF IPv6At
<1>6. off[5] = EthernetLength + 4 /\ off[10] = EthernetLength + 8 + 2 * IPv6Length
  <2>1. /\ (k >= 4 => off[5] = EthernetLength + 4)
        /\ (k >= 9 => off[10] = EthernetLength + 8 + 2 * IPv6Length)
    BY <1>5, IPv6Offsets
  <2> QED BY <1>3, <2>1
<1>7. IPv6Fields[5][1] = "payload_length" /\ IPv6Fields[5][2] = 2
  BY DEF IPv6Fields
<1>8. 5 \in 1..k
  BY <1>3
<1>9. fields[IPv6Fields[5][1]] = Part(frame, off[5], IPv6Fields[5][2])
  BY <1>4, <1>8
<1> QED BY <1>2, <1>3, <1>6, <1>7, <1>9

LEMMA GoodArpComplete ==
    ASSUME NEW fields, NEW frame \in Seq(Bytes), NEW k, NEW off,
           OperationKnown(fields), Headers(fields, frame, k, off),
           {i \in 1..Len(LayoutOf(fields)) : LayoutOf(fields)[i][1] \notin DOMAIN fields} = {},
           IsEthernetArp(frame)
    PROVE  /\ HasIn(fields, "ethertype", ARP)
           /\ "dest_mac" \in DOMAIN fields /\ fields["dest_mac"] = ArpFields(frame).dst
           /\ Protocol(fields) = IPv4Length
           /\ "operation" \in DOMAIN fields /\ fields["operation"] = ArpFields(frame).operation
           /\ "target_ip" \in DOMAIN fields /\ fields["target_ip"] = ArpFields(frame).target_ip
           /\ off[k + 1] = Len(frame)
<1> DEFINE h == Hardware(fields)
           p == Protocol(fields)
<1>1. /\ Len(frame) = AddressesAt + 2 * (MacLength + IPv4Length)
      /\ Part(frame, 2 * MacLength, 2) = ARP
      /\ ArpFields(frame).dst = Part(frame, 0, MacLength)
      /\ ArpFields(frame).operation = Part(frame, OperationAt, 2)
      /\ ArpFields(frame).target_ip = Part(frame, AddressesAt + 2 * MacLength + IPv4Length, IPv4Length)
  BY DEF IsEthernetArp, ArpFields
<1>2. k \in 3..12
  BY CompleteLength
<1>3. /\ HasIn(fields, "ethertype", ARP)
      /\ "dest_mac" \in DOMAIN fields /\ fields["dest_mac"] = Part(frame, 0, MacLength)
  <2>1. k >= 3
    BY <1>2
  <2> QED BY <1>1, <2>1, EthernetParsed DEF HasIn
<1>4. k = 12 /\ LayoutOf(fields) = AddressFields(h, p)
  BY <1>3, ARPComplete
<1>5. "operation" \in DOMAIN fields
  <2>1. AddressFields(h, p)[8][1] = "operation"
    <3>1. AddressFields(h, p)[8] = <<"operation", 2>>
      BY AddressNames
    <3> QED BY <3>1
  <2>2. 8 \in 1..k
    BY <1>4
  <2>3. LayoutOf(fields)[8][1] \in DOMAIN fields
    BY <2>2 DEF Headers
  <2> QED BY <1>4, <2>1, <2>3
<1>6. h = MacLength /\ p = IPv4Length
  BY <1>5, GoodLengths
<1>7. /\ fields["operation"] = Part(frame, OperationAt, 2)
      /\ "target_ip" \in DOMAIN fields
      /\ fields["target_ip"] = Part(frame, AddressesAt + 2 * h + p, p)
      /\ off[13] = AddressesAt + 2 * h + 2 * p
  BY <1>4, <1>5, AddressesParsed
<1>8. off[k + 1] = Len(frame)
  <2>1. k + 1 = 13
    BY <1>4
  <2>2. MacLength \in Nat /\ IPv4Length \in Nat /\ AddressesAt \in Nat
    BY LengthsAssumption, AddressesAtType
  <2>3. off[k + 1] = AddressesAt + 2 * MacLength + 2 * IPv4Length
    BY <1>6, <1>7, <2>1
  <2> QED BY <1>1, <2>2, <2>3
<1> QED BY <1>1, <1>3, <1>5, <1>6, <1>7, <1>8

-----------------------------------------------------------------------------
(* The reply. *)

LEMMA StoredBytes ==
    ASSUME NEW c \in Seq(Bytes), NEW at \in Nat, NEW data \in Seq(Bytes), at + Len(data) <= Len(c)
    PROVE  /\ Stored(c, at, data) \in Seq(Bytes) /\ Len(Stored(c, at, data)) = Len(c)
           /\ \A i \in 1..Len(c) :
                /\ i \in (at + 1)..(at + Len(data)) => Stored(c, at, data)[i] = data[i - at]
                /\ i \notin (at + 1)..(at + Len(data)) => Stored(c, at, data)[i] = c[i]
<1> DEFINE n == Len(c)
           k == Len(data)
           s == [i \in 1..n |-> IF i \in (at + 1)..(at + k) THEN data[i - at] ELSE c[i]]
<1>1. n \in Nat /\ k \in Nat /\ at + k <= n
  OBVIOUS
<1>2. (\A i \in 1..n : c[i] \in Bytes) /\ \A i \in 1..k : data[i] \in Bytes
  OBVIOUS
<1>3. Stored(c, at, data) = s
  BY DEF Stored
<1> HIDE DEF n, k
<1>4. ASSUME NEW i \in 1..n
      PROVE  (IF i \in (at + 1)..(at + k) THEN data[i - at] ELSE c[i]) \in Bytes
  <2>1. i \in (at + 1)..(at + k) => i - at \in 1..k
    BY <1>1
  <2> QED BY <1>2, <2>1
<1>5. s \in [1..n -> Bytes]
  BY <1>4
<1>6. s \in Seq(Bytes) /\ Len(s) = n
  BY <1>1, <1>5
<1>7. \A i \in 1..n :
        /\ i \in (at + 1)..(at + k) => s[i] = data[i - at]
        /\ i \notin (at + 1)..(at + k) => s[i] = c[i]
  OBVIOUS
<1> HIDE DEF s
<1> QED BY <1>3, <1>6, <1>7 DEF n, k

LEMMA StoredNothing ==
    ASSUME NEW c \in Seq(Bytes), NEW at \in Nat, at <= Len(c) PROVE Stored(c, at, <<>>) = c
<1> DEFINE n == Len(c)
<1>1. n \in Nat /\ c \in [1..n -> Bytes]
  OBVIOUS
<1>2. Len(<<>>) = 0 /\ (at + 1)..(at + 0) = {}
  OBVIOUS
<1>3. Stored(c, at, <<>>) = [i \in 1..n |-> c[i]]
  BY <1>2 DEF Stored
<1> HIDE DEF n
<1> QED BY <1>1, <1>3

LEMMA StoredThere ==
    ASSUME NEW c \in Seq(Bytes), NEW at \in Nat, NEW data \in Seq(Bytes), at + Len(data) <= Len(c)
    PROVE  Part(Stored(c, at, data), at, Len(data)) = data
<1> DEFINE s == Stored(c, at, data)
           k == Len(data)
           part == Part(s, at, k)
<1>1. /\ s \in Seq(Bytes) /\ Len(s) = Len(c)
      /\ \A i \in 1..Len(c) : i \in (at + 1)..(at + k) => s[i] = data[i - at]
  BY StoredBytes
<1>2. k \in Nat /\ at + k <= Len(c) /\ Len(c) \in Nat
  OBVIOUS
<1> HIDE DEF s, k
<1>3. part \in Seq(Bytes) /\ Len(part) = k /\ \A i \in 1..k : part[i] = s[at + i]
  BY <1>1, <1>2, PartType
<1> HIDE DEF part
<1>4. ASSUME NEW i \in 1..k PROVE part[i] = data[i]
  <2>1. at + i \in 1..Len(c) /\ at + i \in (at + 1)..(at + k) /\ (at + i) - at = i
    BY <1>2
  <2>2. s[at + i] = data[(at + i) - at]
    BY <1>1, <2>1
  <2> QED BY <1>3, <2>1, <2>2
<1>5. part = data
  BY <1>3, <1>4, SeqEqual DEF k
<1> QED BY <1>5 DEF part, s, k

LEMMA StoredElsewhere ==
    ASSUME NEW c \in Seq(Bytes), NEW at \in Nat, NEW data \in Seq(Bytes), at + Len(data) <= Len(c),
           NEW a \in Nat, NEW size \in Nat, a + size <= Len(c),
           a + size <= at \/ at + Len(data) <= a
    PROVE  Part(Stored(c, at, data), a, size) = Part(c, a, size)
<1> DEFINE s == Stored(c, at, data)
           k == Len(data)
           part == Part(s, a, size)
           old == Part(c, a, size)
<1>1. /\ s \in Seq(Bytes) /\ Len(s) = Len(c)
      /\ \A i \in 1..Len(c) : i \notin (at + 1)..(at + k) => s[i] = c[i]
  BY StoredBytes
<1>2. /\ k \in Nat /\ at + k <= Len(c) /\ Len(c) \in Nat
      /\ a + size <= at \/ at + k <= a
  OBVIOUS
<1> HIDE DEF s, k
<1>3. /\ part \in Seq(Bytes) /\ Len(part) = size /\ \A i \in 1..size : part[i] = s[a + i]
  <2>1. a + size <= Len(s)
    BY <1>1, <1>2
  <2> QED BY <1>1, <2>1, PartType
<1>4. /\ old \in Seq(Bytes) /\ Len(old) = size /\ \A i \in 1..size : old[i] = c[a + i]
  BY <1>1, <1>2, PartType
<1> HIDE DEF part, old
<1>5. ASSUME NEW i \in 1..size PROVE part[i] = old[i]
  <2>1. a + i \in 1..Len(c) /\ a + i \notin (at + 1)..(at + k)
    BY <1>2
  <2> QED BY <1>1, <1>3, <1>4, <2>1
<1>6. part = old
  BY <1>3, <1>4, <1>5, SeqEqual
<1> QED BY <1>6 DEF part, old, s

\* The frame with what the setters write.
SenderOf(frame) == Part(frame, AddressesAt, MacLength)

SourceWritten(frame) ==
    Stored(Stored(frame, MacLength, mac), AddressesAt + MacLength + IPv4Length, mac)

TargetWritten(frame, sender) ==
    Stored(Stored(Stored(frame, 0, sender), AddressesAt, sender), OperationAt, REPLY)

ArpLength == AddressesAt + 2 * (MacLength + IPv4Length)

LEMMA ArpPlaces ==
    /\ MacLength \in Nat /\ IPv4Length \in Nat /\ EthernetLength \in Nat
    /\ AddressesAt \in Nat /\ OperationAt \in Nat /\ ArpLength \in Nat
    /\ EthernetLength = 2 * MacLength + 2 /\ OperationAt = EthernetLength + 6
    /\ AddressesAt = EthernetLength + 8
    /\ ArpLength = AddressesAt + 2 * (MacLength + IPv4Length)
BY LengthsAssumption DEF EthernetLength, AddressesAt, OperationAt, ArpLength

\* One field of ARP is overwritten.
LEMMA Elsewhere ==
    ASSUME NEW c \in Seq(Bytes), NEW at \in Nat, NEW data \in Seq(Bytes), at + Len(data) <= Len(c)
    PROVE  \A a \in Nat, n \in Nat :
             (a + n <= at \/ at + Len(data) <= a) /\ a + n <= Len(c) =>
               Part(Stored(c, at, data), a, n) = Part(c, a, n)
BY StoredElsewhere

LEMMA DstWritten ==
    ASSUME NEW c \in Seq(Bytes), Len(c) = ArpLength, NEW data \in Seq(Bytes), Len(data) = MacLength
    PROVE  LET new == Stored(c, 0, data)
           IN /\ new \in Seq(Bytes) /\ Len(new) = ArpLength
              /\ ArpFields(new) = [ArpFields(c) EXCEPT !.dst = data]
<1> DEFINE at == 0
           new == Stored(c, at, data)
<1>1. at \in Nat /\ at + Len(data) <= Len(c)
  BY ArpPlaces
<1>2. new \in Seq(Bytes) /\ Len(new) = ArpLength
  BY <1>1, StoredBytes
<1>3. Part(new, at, MacLength) = data
  BY <1>1, StoredThere
<1>4. \A a \in Nat, n \in Nat :
        (a + n <= at \/ at + MacLength <= a) /\ a + n <= ArpLength => Part(new, a, n) = Part(c, a, n)
  <2>1. \A a \in Nat, n \in Nat :
          (a + n <= at \/ at + Len(data) <= a) /\ a + n <= Len(c) => Part(new, a, n) = Part(c, a, n)
    BY <1>1, Elsewhere
  <2> HIDE DEF new, at
  <2> QED BY <2>1
<1> HIDE DEF new
<1>5. /\ Part(new, MacLength, MacLength) = Part(c, MacLength, MacLength)
      /\ Part(new, 2 * MacLength, 2) = Part(c, 2 * MacLength, 2)
      /\ Part(new, EthernetLength, 4) = Part(c, EthernetLength, 4)
      /\ Part(new, EthernetLength + 4, 2) = Part(c, EthernetLength + 4, 2)
      /\ Part(new, OperationAt, 2) = Part(c, OperationAt, 2)
      /\ Part(new, AddressesAt, MacLength) = Part(c, AddressesAt, MacLength)
      /\ Part(new, AddressesAt + MacLength, IPv4Length) = Part(c, AddressesAt + MacLength, IPv4Length)
      /\ Part(new, AddressesAt + MacLength + IPv4Length, MacLength) = Part(c, AddressesAt + MacLength + IPv4Length, MacLength)
      /\ Part(new, AddressesAt + 2 * MacLength + IPv4Length, IPv4Length) = Part(c, AddressesAt + 2 * MacLength + IPv4Length, IPv4Length)
  BY <1>4, ArpPlaces
<1> QED BY <1>2, <1>3, <1>5 DEF ArpFields, new

LEMMA SrcWritten ==
    ASSUME NEW c \in Seq(Bytes), Len(c) = ArpLength, NEW data \in Seq(Bytes), Len(data) = MacLength
    PROVE  LET new == Stored(c, MacLength, data)
           IN /\ new \in Seq(Bytes) /\ Len(new) = ArpLength
              /\ ArpFields(new) = [ArpFields(c) EXCEPT !.src = data]
<1> DEFINE at == MacLength
           new == Stored(c, at, data)
<1>1. at \in Nat /\ at + Len(data) <= Len(c)
  BY ArpPlaces
<1>2. new \in Seq(Bytes) /\ Len(new) = ArpLength
  BY <1>1, StoredBytes
<1>3. Part(new, at, MacLength) = data
  BY <1>1, StoredThere
<1>4. \A a \in Nat, n \in Nat :
        (a + n <= at \/ at + MacLength <= a) /\ a + n <= ArpLength => Part(new, a, n) = Part(c, a, n)
  <2>1. \A a \in Nat, n \in Nat :
          (a + n <= at \/ at + Len(data) <= a) /\ a + n <= Len(c) => Part(new, a, n) = Part(c, a, n)
    BY <1>1, Elsewhere
  <2> HIDE DEF new, at
  <2> QED BY <2>1
<1> HIDE DEF new
<1>5. /\ Part(new, 0, MacLength) = Part(c, 0, MacLength)
      /\ Part(new, 2 * MacLength, 2) = Part(c, 2 * MacLength, 2)
      /\ Part(new, EthernetLength, 4) = Part(c, EthernetLength, 4)
      /\ Part(new, EthernetLength + 4, 2) = Part(c, EthernetLength + 4, 2)
      /\ Part(new, OperationAt, 2) = Part(c, OperationAt, 2)
      /\ Part(new, AddressesAt, MacLength) = Part(c, AddressesAt, MacLength)
      /\ Part(new, AddressesAt + MacLength, IPv4Length) = Part(c, AddressesAt + MacLength, IPv4Length)
      /\ Part(new, AddressesAt + MacLength + IPv4Length, MacLength) = Part(c, AddressesAt + MacLength + IPv4Length, MacLength)
      /\ Part(new, AddressesAt + 2 * MacLength + IPv4Length, IPv4Length) = Part(c, AddressesAt + 2 * MacLength + IPv4Length, IPv4Length)
  BY <1>4, ArpPlaces
<1> QED BY <1>2, <1>3, <1>5 DEF ArpFields, new

LEMMA OperationWritten ==
    ASSUME NEW c \in Seq(Bytes), Len(c) = ArpLength, NEW data \in Seq(Bytes), Len(data) = 2
    PROVE  LET new == Stored(c, OperationAt, data)
           IN /\ new \in Seq(Bytes) /\ Len(new) = ArpLength
              /\ ArpFields(new) = [ArpFields(c) EXCEPT !.operation = data]
<1> DEFINE at == OperationAt
           new == Stored(c, at, data)
<1>1. at \in Nat /\ at + Len(data) <= Len(c)
  BY ArpPlaces
<1>2. new \in Seq(Bytes) /\ Len(new) = ArpLength
  BY <1>1, StoredBytes
<1>3. Part(new, at, 2) = data
  BY <1>1, StoredThere
<1>4. \A a \in Nat, n \in Nat :
        (a + n <= at \/ at + 2 <= a) /\ a + n <= ArpLength => Part(new, a, n) = Part(c, a, n)
  <2>1. \A a \in Nat, n \in Nat :
          (a + n <= at \/ at + Len(data) <= a) /\ a + n <= Len(c) => Part(new, a, n) = Part(c, a, n)
    BY <1>1, Elsewhere
  <2> HIDE DEF new, at
  <2> QED BY <2>1
<1> HIDE DEF new
<1>5. /\ Part(new, 0, MacLength) = Part(c, 0, MacLength)
      /\ Part(new, MacLength, MacLength) = Part(c, MacLength, MacLength)
      /\ Part(new, 2 * MacLength, 2) = Part(c, 2 * MacLength, 2)
      /\ Part(new, EthernetLength, 4) = Part(c, EthernetLength, 4)
      /\ Part(new, EthernetLength + 4, 2) = Part(c, EthernetLength + 4, 2)
      /\ Part(new, AddressesAt, MacLength) = Part(c, AddressesAt, MacLength)
      /\ Part(new, AddressesAt + MacLength, IPv4Length) = Part(c, AddressesAt + MacLength, IPv4Length)
      /\ Part(new, AddressesAt + MacLength + IPv4Length, MacLength) = Part(c, AddressesAt + MacLength + IPv4Length, MacLength)
      /\ Part(new, AddressesAt + 2 * MacLength + IPv4Length, IPv4Length) = Part(c, AddressesAt + 2 * MacLength + IPv4Length, IPv4Length)
  BY <1>4, ArpPlaces
<1> QED BY <1>2, <1>3, <1>5 DEF ArpFields, new

LEMMA SenderMacWritten ==
    ASSUME NEW c \in Seq(Bytes), Len(c) = ArpLength, NEW data \in Seq(Bytes), Len(data) = MacLength
    PROVE  LET new == Stored(c, AddressesAt, data)
           IN /\ new \in Seq(Bytes) /\ Len(new) = ArpLength
              /\ ArpFields(new) = [ArpFields(c) EXCEPT !.sender_mac = data]
<1> DEFINE at == AddressesAt
           new == Stored(c, at, data)
<1>1. at \in Nat /\ at + Len(data) <= Len(c)
  BY ArpPlaces
<1>2. new \in Seq(Bytes) /\ Len(new) = ArpLength
  BY <1>1, StoredBytes
<1>3. Part(new, at, MacLength) = data
  BY <1>1, StoredThere
<1>4. \A a \in Nat, n \in Nat :
        (a + n <= at \/ at + MacLength <= a) /\ a + n <= ArpLength => Part(new, a, n) = Part(c, a, n)
  <2>1. \A a \in Nat, n \in Nat :
          (a + n <= at \/ at + Len(data) <= a) /\ a + n <= Len(c) => Part(new, a, n) = Part(c, a, n)
    BY <1>1, Elsewhere
  <2> HIDE DEF new, at
  <2> QED BY <2>1
<1> HIDE DEF new
<1>5. /\ Part(new, 0, MacLength) = Part(c, 0, MacLength)
      /\ Part(new, MacLength, MacLength) = Part(c, MacLength, MacLength)
      /\ Part(new, 2 * MacLength, 2) = Part(c, 2 * MacLength, 2)
      /\ Part(new, EthernetLength, 4) = Part(c, EthernetLength, 4)
      /\ Part(new, EthernetLength + 4, 2) = Part(c, EthernetLength + 4, 2)
      /\ Part(new, OperationAt, 2) = Part(c, OperationAt, 2)
      /\ Part(new, AddressesAt + MacLength, IPv4Length) = Part(c, AddressesAt + MacLength, IPv4Length)
      /\ Part(new, AddressesAt + MacLength + IPv4Length, MacLength) = Part(c, AddressesAt + MacLength + IPv4Length, MacLength)
      /\ Part(new, AddressesAt + 2 * MacLength + IPv4Length, IPv4Length) = Part(c, AddressesAt + 2 * MacLength + IPv4Length, IPv4Length)
  BY <1>4, ArpPlaces
<1> QED BY <1>2, <1>3, <1>5 DEF ArpFields, new

LEMMA TargetMacWritten ==
    ASSUME NEW c \in Seq(Bytes), Len(c) = ArpLength, NEW data \in Seq(Bytes), Len(data) = MacLength
    PROVE  LET new == Stored(c, AddressesAt + MacLength + IPv4Length, data)
           IN /\ new \in Seq(Bytes) /\ Len(new) = ArpLength
              /\ ArpFields(new) = [ArpFields(c) EXCEPT !.target_mac = data]
<1> DEFINE at == AddressesAt + MacLength + IPv4Length
           new == Stored(c, at, data)
<1>1. at \in Nat /\ at + Len(data) <= Len(c)
  BY ArpPlaces
<1>2. new \in Seq(Bytes) /\ Len(new) = ArpLength
  BY <1>1, StoredBytes
<1>3. Part(new, at, MacLength) = data
  BY <1>1, StoredThere
<1>4. \A a \in Nat, n \in Nat :
        (a + n <= at \/ at + MacLength <= a) /\ a + n <= ArpLength => Part(new, a, n) = Part(c, a, n)
  <2>1. \A a \in Nat, n \in Nat :
          (a + n <= at \/ at + Len(data) <= a) /\ a + n <= Len(c) => Part(new, a, n) = Part(c, a, n)
    BY <1>1, Elsewhere
  <2> HIDE DEF new, at
  <2> QED BY <2>1
<1> HIDE DEF new
<1>5. /\ Part(new, 0, MacLength) = Part(c, 0, MacLength)
      /\ Part(new, MacLength, MacLength) = Part(c, MacLength, MacLength)
      /\ Part(new, 2 * MacLength, 2) = Part(c, 2 * MacLength, 2)
      /\ Part(new, EthernetLength, 4) = Part(c, EthernetLength, 4)
      /\ Part(new, EthernetLength + 4, 2) = Part(c, EthernetLength + 4, 2)
      /\ Part(new, OperationAt, 2) = Part(c, OperationAt, 2)
      /\ Part(new, AddressesAt, MacLength) = Part(c, AddressesAt, MacLength)
      /\ Part(new, AddressesAt + MacLength, IPv4Length) = Part(c, AddressesAt + MacLength, IPv4Length)
      /\ Part(new, AddressesAt + 2 * MacLength + IPv4Length, IPv4Length) = Part(c, AddressesAt + 2 * MacLength + IPv4Length, IPv4Length)
  BY <1>4, ArpPlaces
<1> QED BY <1>2, <1>3, <1>5 DEF ArpFields, new

\* What the setters make of a request is the reply.
LEMMA ReplyWritten ==
    ASSUME NEW frame \in Seq(Bytes), IsEthernetArp(frame)
    PROVE  LET reply == TargetWritten(SourceWritten(frame), SenderOf(frame))
           IN /\ Len(reply) = Len(frame)
              /\ ArpFields(reply) =
                   [ArpFields(frame) EXCEPT !.src = mac, !.target_mac = mac,
                                            !.dst = ArpFields(frame).sender_mac,
                                            !.operation = REPLY]
<1> DEFINE sender == SenderOf(frame)
           c1 == Stored(frame, MacLength, mac)
           c2 == Stored(c1, AddressesAt + MacLength + IPv4Length, mac)
           c3 == Stored(c2, 0, sender)
           c4 == Stored(c3, AddressesAt, sender)
           c5 == Stored(c4, OperationAt, REPLY)
<1>1. Len(frame) = ArpLength
  BY DEF IsEthernetArp, ArpLength
<1>2. sender \in Seq(Bytes) /\ Len(sender) = MacLength /\ sender = ArpFields(frame).sender_mac
  <2>1. AddressesAt + MacLength <= Len(frame)
    BY <1>1, ArpPlaces
  <2> QED BY <2>1, ArpPlaces, PartType DEF SenderOf, ArpFields
<1> HIDE DEF sender
<1>3. /\ c1 \in Seq(Bytes) /\ Len(c1) = ArpLength
      /\ ArpFields(c1) = [ArpFields(frame) EXCEPT !.src = mac]
  BY <1>1, OwnBytes, SrcWritten
<1> HIDE DEF c1
<1>4. /\ c2 \in Seq(Bytes) /\ Len(c2) = ArpLength
      /\ ArpFields(c2) = [ArpFields(c1) EXCEPT !.target_mac = mac]
  BY <1>3, OwnBytes, TargetMacWritten
<1> HIDE DEF c2
<1>5. /\ c3 \in Seq(Bytes) /\ Len(c3) = ArpLength
      /\ ArpFields(c3) = [ArpFields(c2) EXCEPT !.dst = sender]
  BY <1>2, <1>4, DstWritten
<1> HIDE DEF c3
<1>6. /\ c4 \in Seq(Bytes) /\ Len(c4) = ArpLength
      /\ ArpFields(c4) = [ArpFields(c3) EXCEPT !.sender_mac = sender]
  BY <1>2, <1>5, SenderMacWritten
<1> HIDE DEF c4
<1>7. /\ c5 \in Seq(Bytes) /\ Len(c5) = ArpLength
      /\ ArpFields(c5) = [ArpFields(c4) EXCEPT !.operation = REPLY]
  BY <1>6, OwnBytes, OperationWritten
<1> HIDE DEF c5
<1>8. ArpFields(c5) = [ArpFields(frame) EXCEPT !.src = mac, !.target_mac = mac,
                                                !.dst = sender, !.operation = REPLY]
  <2>1. ArpFields(c4) = [ArpFields(frame) EXCEPT !.src = mac, !.target_mac = mac, !.dst = sender]
    <3> DEFINE r0 == ArpFields(frame)
               r2 == [r0 EXCEPT !.src = mac, !.target_mac = mac]
               r3 == [r2 EXCEPT !.dst = sender]
    <3>1. ArpFields(c2) = r2
      BY <1>3, <1>4
    <3>2. ArpFields(c3) = r3
      BY <1>5, <3>1
    <3>3. [r3 EXCEPT !.sender_mac = sender] = r3
      BY <1>2 DEF ArpFields
    <3>4. r3 = [r0 EXCEPT !.src = mac, !.target_mac = mac, !.dst = sender]
      OBVIOUS
    <3> HIDE DEF r0, r2, r3
    <3>5. ArpFields(c4) = r3
      BY <1>6, <3>2, <3>3
    <3> QED BY <3>4, <3>5 DEF r0
  <2> QED BY <1>7, <2>1
<1>9. c5 = TargetWritten(SourceWritten(frame), SenderOf(frame))
  BY DEF c1, c2, c3, c4, c5, sender, TargetWritten, SourceWritten
<1> QED BY <1>1, <1>2, <1>7, <1>8, <1>9

\* What is still to be patched, and with what result.
Results(rest, stages) ==
    /\ rest \in Seq(Patches) /\ stages \in Seq(Seq(Bytes)) /\ Len(stages) = Len(rest) + 1
    /\ \A i \in 1..Len(rest) :
         /\ rest[i].at + Len(rest[i].data) <= Len(stages[i])
         /\ stages[i + 1] = Stored(stages[i], rest[i].at, rest[i].data)

Underway(result) ==
    \E rest, stages, done :
       /\ Results(rest, stages)
       /\ done \in 0..Len(rest) /\ Len(patches) = Len(rest) - done
       /\ \A i \in 1..Len(patches) : patches[i] = rest[done + i]
       /\ Content = stages[done + 1]
       /\ stages[Len(rest) + 1] = result

ForMachine(frame) ==
    /\ ArpFields(frame).dst = Broadcast /\ ArpFields(frame).operation = REQUEST
    /\ ArpFields(frame).target_ip = local_ip

GoodInv ==
    /\ pc \in {"set_src_mac", "set_dest_mac"} => Part(received, 2 * MacLength, 2) = ARP
    /\ IsEthernetArp(received) =>
         /\ pc \in {"reread", "set_src_mac", "set_dest_mac"} => ForMachine(received)
         /\ pc = "set_src_mac" => Underway(SourceWritten(received))
         /\ pc = "set_dest_mac" =>
              Underway(TargetWritten(SourceWritten(received), SenderOf(received)))
    /\ pc # "poll" => sent = <<>>
    /\ GoodFramesSurvive
    /\ ReplyIsExact

\* A patch that fits is written as a whole.
LEMMA FittingPatch ==
    ASSUME BufferInv, NEW data \in Seq(Bytes), WriteFixed(data),
           position + Len(data) <= written
    PROVE  ~thrown' /\ Content' = Stored(Content, position, data)
<1> DEFINE c == Content
           new == Stored(storage, position, data)
           k == Len(data)
<1>1. /\ c \in Seq(Bytes) /\ Len(c) = written /\ \A i \in 1..written : c[i] = storage[i]
      /\ written \in Nat /\ position \in Nat /\ Len(storage) \in Nat
      /\ storage \in Seq(Cells) /\ written <= Len(storage)
  BY ContentType
<1>2. k \in Nat
  OBVIOUS
<1>3. Put(storage, data)
  <2>1. ~(position + k > Len(storage))
    BY <1>1, <1>2
  <2> QED BY <2>1 DEF WriteFixed, Allocated
<1>4. storage' = new /\ written' = WrittenUpTo(position + k) /\ thrown' = FALSE
  BY <1>3 DEF Put, Returns
<1> HIDE DEF c, k
<1>5. written' = written
  <2>1. ~(position + k > written)
    BY <1>1, <1>2 DEF k
  <2> QED BY <1>4, <2>1 DEF WrittenUpTo
<1>6. /\ \A i \in 1..Len(storage) :
           /\ i \in (position + 1)..(position + k) => new[i] = data[i - position]
           /\ i \notin (position + 1)..(position + k) => new[i] = storage[i]
  <2>1. position \in Nat /\ storage \in Seq(Cells)
    BY <1>1
  <2>2. \A i \in 1..Len(storage) :
           /\ i \in (position + 1)..(position + Len(data)) => new[i] = data[i - position]
           /\ i \notin (position + 1)..(position + Len(data)) => new[i] = storage[i]
    BY <2>1, StoredCells
  <2> HIDE DEF new
  <2> QED BY <2>2 DEF k
<1>7. /\ Stored(c, position, data) \in Seq(Bytes) /\ Len(Stored(c, position, data)) = written
      /\ \A i \in 1..written :
           /\ i \in (position + 1)..(position + k) => Stored(c, position, data)[i] = data[i - position]
           /\ i \notin (position + 1)..(position + k) => Stored(c, position, data)[i] = c[i]
  BY <1>1, StoredBytes DEF k
<1> HIDE DEF new
<1> DEFINE s == Stored(c, position, data)
<1>8. ASSUME NEW i \in 1..written PROVE new[i] = s[i] /\ s[i] \in Bytes
  <2>1. i \in 1..Len(storage)
    BY <1>1
  <2>2. new[i] = s[i]
    BY <1>1, <1>6, <1>7, <2>1
  <2>3. s[i] \in Bytes
    BY <1>7
  <2> QED BY <2>2, <2>3
<1> HIDE DEF s
<1>9. SubSeq(new, 1, written) = SubSeq(s, 1, written)
  BY <1>1, <1>8, SameData
<1>10. SubSeq(s, 1, written) = s
  BY <1>7, SubSeqFull DEF s
<1> QED BY <1>4, <1>5, <1>9, <1>10 DEF Content, s, c

LEMMA GoodStart == PacketInit => LibraryInv \/ (PacketInv /\ GoodInv)
<1> SUFFICES ASSUME PacketInit, PacketInv PROVE GoodInv
  BY PacketStart
<1>1. pc = "poll" /\ received = <<>> /\ sent = <<>>
  BY DEF PacketInit, PacketInv
<1>2. ~IsEthernetArp(received)
  <2>1. Len(<<>>) = 0 /\ ArpLength > 0
    BY ArpPlaces
  <2> QED BY <1>1, <2>1 DEF IsEthernetArp, ArpLength
<1> QED BY <1>1, <1>2 DEF GoodInv, GoodFramesSurvive, ReplyIsExact

\* Nothing is sent before the end of a frame.
LEMMA NothingSent == ASSUME sent' = <<>>, pc' # "poll" PROVE ReplyIsExact'
<1>1. 1..Len(sent') = {}
  OBVIOUS
<1> QED BY <1>1 DEF ReplyIsExact

\* A frame that is complete passes the checks.
LEMMA GoodAccepted ==
    ASSUME PacketInv, pc \in {"read", "reread"}, Unparsed = {},
           IsEthernetArp(received) \/ IsIPv6(received)
    PROVE  Accepted /\ Printable /\ ~Has("ethertype", IPv4)
<1>1. PICK k, off : Headers(header, received, k, off) /\ position = off[k + 1]
  BY DEF PacketInv, HeaderInv
<1>2. /\ OperationKnown(header) /\ received \in Seq(Bytes)
      /\ {i \in 1..Len(LayoutOf(header)) : LayoutOf(header)[i][1] \notin DOMAIN header} = {}
  BY LayoutOfHeader DEF PacketInv, HeaderInv, Unparsed
<1>3. written = Len(received) /\ BytesLeft = written - position /\ written \in Nat
  BY ContentType DEF PacketInv, BytesLeft
<1>4. CASE IsEthernetArp(received)
  <2>1. /\ HasIn(header, "ethertype", ARP) /\ Protocol(header) = IPv4Length
        /\ position = Len(received)
    BY <1>1, <1>2, <1>4, GoodArpComplete
  <2>2. BytesLeft = 0
    BY <1>3, <2>1
  <2>3. ~Has("ethertype", IPv4)
    BY <2>1, EtherTypesAssumption DEF Has, HasIn
  <2>4. Printable
    BY <2>1 DEF Printable, Protocol
  <2> QED BY <2>1, <2>2, <2>3, <2>4 DEF Accepted, Has, HasIn
<1>5. CASE IsIPv6(received)
  <2> DEFINE length == EthernetLength + 8 + 2 * IPv6Length
  <2>1. /\ HasIn(header, "ethertype", IPv6)
        /\ header["payload_length"] = Part(received, EthernetLength + 4, 2)
        /\ position = length
    BY <1>1, <1>2, <1>5, IPv6Complete DEF IsIPv6
  <2>2. Unsigned(Part(received, EthernetLength + 4, 2)) = Len(received) - length
    BY <1>5 DEF IsIPv6
  <2> HIDE DEF length
  <2>3. Unsigned(header["payload_length"]) = BytesLeft
    BY <1>3, <2>1, <2>2
  <2>4. ~Has("ethertype", IPv4) /\ ~Has("ethertype", ARP)
    BY <2>1, EtherTypesAssumption DEF Has, HasIn
  <2> QED BY <2>1, <2>3, <2>4 DEF Accepted, Printable, Has, HasIn
<1> QED BY <1>4, <1>5

\* Whether a packet is for this machine can be told from its bytes.
LEMMA ForMachineParsed ==
    ASSUME PacketInv, pc = "read", Unparsed = {}, IsEthernetArp(received)
    PROVE  /\ IsArpBroadcast <=> ArpFields(received).dst = Broadcast
           /\ IsForMachine <=> ForMachine(received)
<1>1. PICK k, off : Headers(header, received, k, off) /\ position = off[k + 1]
  BY DEF PacketInv, HeaderInv
<1>2. /\ OperationKnown(header) /\ received \in Seq(Bytes)
      /\ {i \in 1..Len(LayoutOf(header)) : LayoutOf(header)[i][1] \notin DOMAIN header} = {}
  BY LayoutOfHeader DEF PacketInv, HeaderInv, Unparsed
<1>3. /\ HasIn(header, "ethertype", ARP)
      /\ "dest_mac" \in DOMAIN header /\ header["dest_mac"] = ArpFields(received).dst
      /\ "operation" \in DOMAIN header /\ header["operation"] = ArpFields(received).operation
      /\ "target_ip" \in DOMAIN header /\ header["target_ip"] = ArpFields(received).target_ip
  BY <1>1, <1>2, GoodArpComplete
<1> QED BY <1>3 DEF IsArpBroadcast, IsForMachine, ForMachine, Has, HasIn

LEMMA GoodParseField == ASSUME PacketInv, GoodInv, ParseField PROVE GoodInv'
<1>1. /\ pc \in {"read", "reread"} /\ Unparsed # {}
      /\ received' = received /\ patches' = patches /\ sent' = sent
  BY DEF ParseField
<1>2. PICK k, off : Headers(header, received, k, off) /\ position = off[k + 1]
  BY <1>1 DEF PacketInv, HeaderInv
<1> DEFINE next == CHOOSE i \in Unparsed : \A j \in Unparsed : i <= j
           size == Layout[next][2]
<1>3. Get(size) /\ pc' = (IF thrown' THEN "ended" ELSE pc)
  BY DEF ParseField
<1> HIDE DEF next
<1>4. next = k + 1 /\ k < Len(Layout) /\ size \in Nat
  BY <1>1, <1>2, NextFieldParsed DEF next
<1>5. ASSUME thrown' PROVE ~IsEthernetArp(received) /\ ~IsIPv6(received)
  <2> SUFFICES ASSUME IsEthernetArp(received) \/ IsIPv6(received) PROVE FALSE
    OBVIOUS
  <2>1. OperationKnown(header) /\ received \in Seq(Bytes) /\ Layout = LayoutOf(header)
    BY LayoutOfHeader DEF PacketInv, HeaderInv
  <2>2. k < Len(LayoutOf(header))
    BY <1>4, <2>1
  <2>3. off[k + 1] + LayoutOf(header)[k + 1][2] <= Len(received)
    BY <1>2, <2>1, <2>2, GoodArpFits, GoodIPv6Fits
  <2>4. position + size <= written
    <3>1. written = Len(received)
      BY <1>1, ContentType DEF PacketInv
    <3> QED BY <1>2, <1>4, <2>1, <2>3, <3>1
  <2>5. ~(position + size > written)
    <3>1. position \in Nat /\ written \in Nat
      BY ContentType DEF PacketInv
    <3> HIDE DEF size
    <3> QED BY <1>4, <2>4, <3>1
  <2> QED BY <1>3, <1>5, <2>5 DEF Get, Taken, Returns
<1>6. sent' = <<>> /\ pc' # "poll" /\ pc' \notin {"set_src_mac", "set_dest_mac"}
  BY <1>1, <1>3 DEF GoodInv
<1>7. ReplyIsExact'
  BY <1>6, NothingSent
<1>8. GoodFramesSurvive'
  BY <1>1, <1>3, <1>5 DEF GoodFramesSurvive
<1>9. IsEthernetArp(received') /\ pc' = "reread" => ForMachine(received')
  BY <1>1, <1>3 DEF GoodInv
<1> QED BY <1>6, <1>7, <1>8, <1>9 DEF GoodInv

\* A step after which nothing was sent and no frame is patched.
LEMMA GoodQuiet ==
    ASSUME GoodInv, sent' = <<>>, pc' \in {"library", "read"} PROVE GoodInv'
<1>1. ReplyIsExact'
  BY NothingSent
<1> QED BY <1>1 DEF GoodInv, GoodFramesSurvive

LEMMA GoodEnds ==
    ASSUME PacketInv, GoodInv, pc \in {"read", "reread"}, Unparsed = {}, Ends,
           ~Accepted \/ ~Printable \/ Has("ethertype", IPv4)
    PROVE  GoodInv'
<1>1. pc' = "ended" /\ received' = received /\ sent' = sent /\ sent = <<>>
  BY DEF Ends, GoodInv
<1>2. ReplyIsExact'
  BY <1>1, NothingSent
<1>3. GoodFramesSurvive'
  BY <1>1, GoodAccepted DEF GoodFramesSurvive
<1> QED BY <1>1, <1>2, <1>3 DEF GoodInv

\* Frames that are not answered.
LEMMA GoodBridged ==
    ASSUME PacketInv, GoodInv, Printed, NextPacket, ~IsForMachine,
           sent' = sent \/ sent' = Append(sent, Content)
    PROVE  GoodInv'
<1>1. pc = "read" /\ Unparsed = {} /\ pc' = "poll" /\ received' = received
  BY DEF Printed, Parsed, NextPacket
<1>2. sent = <<>> /\ Content = received
  BY <1>1 DEF GoodInv, PacketInv
<1>3. \A i \in 1..Len(sent') : sent'[i] = received
  <2>1. Len(<<>>) = 0 /\ 1..0 = {}
    OBVIOUS
  <2>2. Append(<<>>, received) = <<received>>
    OBVIOUS
  <2>3. CASE sent' = <<>>
    BY <2>1, <2>3
  <2>4. CASE sent' = <<received>>
    BY <2>4
  <2> QED BY <1>2, <2>2, <2>3, <2>4
<1>4. IsEthernetArp(received) => ~ForMachine(received)
  BY <1>1, ForMachineParsed
<1>5. ReplyIsExact'
  BY <1>1, <1>3, <1>4 DEF ReplyIsExact, ForMachine
<1> QED BY <1>1, <1>5 DEF GoodInv, GoodFramesSurvive

LEMMA GoodClone == ASSUME PacketInv, GoodInv, ClonePacket PROVE GoodInv'
<1>1. /\ pc = "read" /\ Unparsed = {} /\ IsForMachine /\ pc' = "reread"
      /\ received' = received /\ sent' = sent
  BY DEF ClonePacket, Printed, Parsed
<1>2. sent' = <<>>
  BY <1>1 DEF GoodInv
<1>3. ReplyIsExact'
  BY <1>1, <1>2, NothingSent
<1>4. IsEthernetArp(received) => ForMachine(received)
  BY <1>1, ForMachineParsed
<1> QED BY <1>1, <1>2, <1>3, <1>4 DEF GoodInv, GoodFramesSurvive

LEMMA GoodPatchSource == ASSUME PacketInv, PacketInv', GoodInv, PatchSource PROVE GoodInv'
<1>1. /\ pc = "reread" /\ Unparsed = {} /\ pc' = "set_src_mac" /\ patches' = set_src_mac
      /\ UNCHANGED vars /\ received' = received /\ header' = header /\ sent' = sent
  BY DEF PatchSource, Parsed
<1>2. /\ Part(received, 2 * MacLength, 2) = ARP /\ sent' = <<>> /\ received \in Seq(Bytes)
      /\ Content = received
  BY <1>1 DEF PacketInv, GoodInv
<1>3. ReplyIsExact'
  BY <1>1, <1>2, NothingSent
<1>4. ASSUME IsEthernetArp(received)
      PROVE  Underway(SourceWritten(received))'
  <2>1. Protocol(header) = IPv4Length
    <3>1. PICK k, off : Headers(header, received, k, off) /\ position = off[k + 1]
      BY <1>1 DEF PacketInv, HeaderInv
    <3>2. /\ OperationKnown(header)
          /\ {i \in 1..Len(LayoutOf(header)) : LayoutOf(header)[i][1] \notin DOMAIN header} = {}
      BY <1>1, LayoutOfHeader DEF PacketInv, HeaderInv, Unparsed
    <3> QED BY <1>2, <1>4, <3>1, <3>2, GoodArpComplete
  <2> DEFINE first == [at |-> MacLength, data |-> mac]
             second == [at |-> AddressesAt + MacLength + IPv4Length, data |-> mac]
             third == PutBack
             rest == <<first, second, third>>
             c0 == received
             c1 == Stored(c0, MacLength, mac)
             c2 == Stored(c1, AddressesAt + MacLength + IPv4Length, mac)
             stages == <<c0, c1, c2, c2>>
  <2>2. patches' = rest
    BY <1>1, <2>1 DEF set_src_mac, Protocol
  <2>3. rest \in Seq(Patches)
    BY <2>2 DEF PacketInv
  <2>4. c0 \in Seq(Bytes) /\ Len(c0) = ArpLength
    BY <1>2, <1>4 DEF IsEthernetArp, ArpLength
  <2>5. c1 \in Seq(Bytes) /\ Len(c1) = ArpLength
    BY <2>4, OwnBytes, SrcWritten
  <2>6. c2 \in Seq(Bytes) /\ Len(c2) = ArpLength
    BY <2>5, OwnBytes, TargetMacWritten
  <2>7. position \in Nat /\ position <= ArpLength
    <3>1. position \in Nat /\ position <= written /\ written = Len(received)
      BY <1>2, ContentType DEF PacketInv
    <3> QED BY <2>4, <3>1
  <2>8. Stored(c2, position, <<>>) = c2
    BY <2>6, <2>7, StoredNothing
  <2>9. /\ first.at + Len(first.data) <= ArpLength /\ second.at + Len(second.data) <= ArpLength
        /\ third.at + Len(third.data) <= ArpLength
    <3>1. /\ first.at + Len(first.data) = MacLength + MacLength
          /\ second.at + Len(second.data) = AddressesAt + MacLength + IPv4Length + MacLength
      BY OwnBytes
    <3>2. third.at + Len(third.data) = position
      <4>1. Len(<<>>) = 0
        OBVIOUS
      <4> QED BY <2>7, <4>1 DEF PutBack
    <3> HIDE DEF first, second, third
    <3> QED BY <2>7, <3>1, <3>2, ArpPlaces
  <2>10. /\ c1 = Stored(c0, first.at, first.data) /\ c2 = Stored(c1, second.at, second.data)
         /\ c2 = Stored(c2, third.at, third.data)
    BY <2>8 DEF PutBack
  <2>11. Content' = c0
    BY <1>1, <1>2, BufferKept DEF PacketInv
  <2>12. c2 = SourceWritten(received)
    BY DEF SourceWritten
  <2> HIDE DEF first, second, third, c0, c1, c2
  <2>13. stages \in Seq(Seq(Bytes)) /\ Len(stages) = 4 /\ Len(rest) = 3
    BY <2>4, <2>5, <2>6
  <2>14. ASSUME NEW i \in 1..Len(rest)
         PROVE  /\ rest[i].at + Len(rest[i].data) <= Len(stages[i])
                /\ stages[i + 1] = Stored(stages[i], rest[i].at, rest[i].data)
    <3>1. CASE i = 1
      BY <2>4, <2>9, <2>10, <3>1
    <3>2. CASE i = 2
      BY <2>5, <2>9, <2>10, <3>2
    <3>3. CASE i = 3
      BY <2>6, <2>9, <2>10, <3>3
    <3> QED BY <3>1, <3>2, <3>3
  <2>15. stages[0 + 1] = c0 /\ stages[Len(rest) + 1] = c2
    OBVIOUS
  <2> HIDE DEF stages, rest
  <2>16. Results(rest, stages)
    BY <2>3, <2>13, <2>14 DEF Results
  <2>17. /\ 0 \in 0..Len(rest) /\ Len(patches') = Len(rest) - 0
         /\ \A i \in 1..Len(patches') : patches'[i] = rest[0 + i]
    BY <2>2, <2>13
  <2> QED BY <1>1, <2>11, <2>12, <2>15, <2>16, <2>17 DEF Underway
<1>5. IsEthernetArp(received) => ForMachine(received)
  BY <1>1 DEF GoodInv
<1> QED BY <1>1, <1>2, <1>3, <1>4, <1>5 DEF GoodInv, GoodFramesSurvive

LEMMA UnderwayDone ==
    ASSUME NEW result, Underway(result), patches = <<>> PROVE Content = result
<1>1. PICK rest, stages, done :
        /\ Results(rest, stages)
        /\ done \in 0..Len(rest) /\ Len(patches) = Len(rest) - done
        /\ Content = stages[done + 1]
        /\ stages[Len(rest) + 1] = result
  BY DEF Underway
<1>2. Len(patches) = 0 /\ Len(rest) \in Nat
  BY <1>1 DEF Results
<1>3. done = Len(rest)
  BY <1>1, <1>2
<1> QED BY <1>1, <1>3

LEMMA GoodPatchRest == ASSUME PacketInv, PacketInv', GoodInv, PatchRest PROVE GoodInv'
<1>1. /\ pc = "set_src_mac" /\ patches = <<>> /\ pc' = "set_dest_mac"
      /\ patches' = set_dest_mac(SenderMac) \o set_operation(REPLY)
      /\ UNCHANGED vars /\ received' = received /\ header' = header /\ sent' = sent
  BY DEF PatchRest
<1>2. /\ Part(received, 2 * MacLength, 2) = ARP /\ sent' = <<>> /\ received \in Seq(Bytes)
  BY <1>1 DEF PacketInv, GoodInv
<1>3. ReplyIsExact'
  BY <1>1, <1>2, NothingSent
<1>4. ASSUME IsEthernetArp(received)
      PROVE  Underway(TargetWritten(SourceWritten(received), SenderOf(received)))'
  <2> DEFINE sender == SenderMac
             back == PutBack
             first == [at |-> 0, data |-> sender]
             second == [at |-> AddressesAt, data |-> sender]
             fourth == [at |-> OperationAt, data |-> REPLY]
             rest == <<first, second, back, fourth, back>>
             c0 == Content
             c1 == Stored(c0, 0, sender)
             c2 == Stored(c1, AddressesAt, sender)
             c3 == Stored(c2, OperationAt, REPLY)
             stages == <<c0, c1, c2, c2, c3, c3>>
  <2>1. Len(received) = ArpLength
    BY <1>4 DEF IsEthernetArp, ArpLength
  <2>2. sender \in Seq(Bytes) /\ Len(sender) = MacLength /\ sender = SenderOf(received)
    <3>1. sender = Part(received, AddressesAt, MacLength)
      BY DEF SenderMac, Part
    <3>2. AddressesAt + MacLength <= Len(received)
      BY <2>1, ArpPlaces
    <3> QED BY <1>2, <3>1, <3>2, ArpPlaces, PartType DEF SenderOf
  <2>3. c0 = SourceWritten(received)
    BY <1>1, <1>4, UnderwayDone DEF GoodInv
  <2>4. c0 \in Seq(Bytes) /\ Len(c0) = ArpLength
    <3> DEFINE d == Stored(received, MacLength, mac)
    <3>1. d \in Seq(Bytes) /\ Len(d) = ArpLength
      BY <1>2, <2>1, OwnBytes, SrcWritten
    <3> HIDE DEF d
    <3>2. /\ Stored(d, AddressesAt + MacLength + IPv4Length, mac) \in Seq(Bytes)
          /\ Len(Stored(d, AddressesAt + MacLength + IPv4Length, mac)) = ArpLength
      BY <3>1, OwnBytes, TargetMacWritten
    <3> QED BY <2>3, <3>2 DEF SourceWritten, d
  <2> HIDE DEF sender, c0
  <2>5. c1 \in Seq(Bytes) /\ Len(c1) = ArpLength
    BY <2>2, <2>4, DstWritten
  <2>6. c2 \in Seq(Bytes) /\ Len(c2) = ArpLength
    BY <2>2, <2>5, SenderMacWritten
  <2>7. c3 \in Seq(Bytes) /\ Len(c3) = ArpLength
    BY <2>6, OwnBytes, OperationWritten
  <2>8. position \in Nat /\ position <= ArpLength
    <3>1. position \in Nat /\ position <= written /\ written = Len(c0)
      BY ContentType DEF PacketInv, c0
    <3> QED BY <2>4, <3>1
  <2>9. back.at = position /\ back.data = <<>> /\ Len(back.data) = 0
    BY DEF PutBack
  <2>10. Stored(c2, back.at, back.data) = c2 /\ Stored(c3, back.at, back.data) = c3
    BY <2>6, <2>7, <2>8, <2>9, StoredNothing
  <2>11. /\ first.at + Len(first.data) <= ArpLength /\ second.at + Len(second.data) <= ArpLength
         /\ fourth.at + Len(fourth.data) <= ArpLength /\ back.at + Len(back.data) <= ArpLength
    <3>1. /\ first.at + Len(first.data) = 0 + MacLength
          /\ second.at + Len(second.data) = AddressesAt + MacLength
          /\ fourth.at + Len(fourth.data) = OperationAt + 2
      BY <2>2, OwnBytes
    <3> HIDE DEF first, second, back, fourth
    <3>2. back.at + Len(back.data) = position
      BY <2>8, <2>9
    <3> QED BY <2>8, <3>1, <3>2, ArpPlaces
  <2>12. /\ c1 = Stored(c0, first.at, first.data) /\ c2 = Stored(c1, second.at, second.data)
         /\ c3 = Stored(c2, fourth.at, fourth.data)
    OBVIOUS
  <2>13. Content' = c0
    BY <1>1, BufferKept DEF PacketInv, c0
  <2>14. c3 = TargetWritten(SourceWritten(received), SenderOf(received))
    BY <2>2, <2>3 DEF TargetWritten
  <2>15. first \in Patches /\ second \in Patches /\ back \in Patches /\ fourth \in Patches
    <3>1. first \in Patches /\ second \in Patches
      BY <2>2, ArpPlaces DEF Patches
    <3>2. fourth \in Patches
      BY OwnBytes, ArpPlaces DEF Patches
    <3>3. back \in Patches
      BY <2>8, OwnBytes DEF Patches, PutBack
    <3> QED BY <3>1, <3>2, <3>3
  <2>16. patches' = <<first, second, back>> \o <<fourth, back>>
    BY <1>1 DEF set_dest_mac, set_operation, sender
  <2> HIDE DEF first, second, back, fourth, c1, c2, c3
  <2>17. rest \in Seq(Patches) /\ Len(rest) = 5
    BY <2>15
  <2>18. patches' = rest
    <3> DEFINE a == <<first, second, back>>
               b == <<fourth, back>>
    <3>1. a \in Seq(Patches) /\ Len(a) = 3 /\ b \in Seq(Patches) /\ Len(b) = 2
      BY <2>15
    <3>2. rest[1] = a[1] /\ rest[2] = a[2] /\ rest[3] = a[3] /\ rest[4] = b[1] /\ rest[5] = b[2]
      OBVIOUS
    <3> HIDE DEF a, b, rest
    <3>3. \A i \in 1..3 : rest[i] = a[i]
      BY <3>2
    <3>4. \A i \in 1..2 : rest[3 + i] = b[i]
      BY <3>2
    <3>5. /\ Len(rest) = Len(a) + Len(b)
          /\ \A i \in 1..Len(a) : rest[i] = a[i]
          /\ \A i \in 1..Len(b) : rest[Len(a) + i] = b[i]
      BY <2>17, <3>1, <3>3, <3>4
    <3>6. a \o b = rest
      BY <2>17, <3>1, <3>5, Joined
    <3> QED BY <2>16, <3>6 DEF a, b
  <2>19. stages \in Seq(Seq(Bytes)) /\ Len(stages) = 6
    BY <2>4, <2>5, <2>6, <2>7
  <2>20. ASSUME NEW i \in 1..Len(rest)
         PROVE  /\ rest[i].at + Len(rest[i].data) <= Len(stages[i])
                /\ stages[i + 1] = Stored(stages[i], rest[i].at, rest[i].data)
    <3>1. CASE i = 1
      BY <2>4, <2>11, <2>12, <3>1
    <3>2. CASE i = 2
      BY <2>5, <2>11, <2>12, <3>2
    <3>3. CASE i = 3
      BY <2>6, <2>10, <2>11, <3>3
    <3>4. CASE i = 4
      BY <2>6, <2>11, <2>12, <3>4
    <3>5. CASE i = 5
      BY <2>7, <2>10, <2>11, <3>5
    <3> QED BY <2>17, <3>1, <3>2, <3>3, <3>4, <3>5
  <2>21. stages[0 + 1] = c0 /\ stages[Len(rest) + 1] = c3
    OBVIOUS
  <2> HIDE DEF stages, rest
  <2>22. Results(rest, stages)
    BY <2>17, <2>19, <2>20 DEF Results
  <2>23. /\ 0 \in 0..Len(rest) /\ Len(patches') = Len(rest) - 0
         /\ \A i \in 1..Len(patches') : patches'[i] = rest[0 + i]
    BY <2>17, <2>18
  <2> QED BY <1>1, <2>13, <2>14, <2>21, <2>22, <2>23 DEF Underway
<1>5. IsEthernetArp(received) => ForMachine(received)
  BY <1>1 DEF GoodInv
<1> QED BY <1>1, <1>2, <1>3, <1>4, <1>5 DEF GoodInv, GoodFramesSurvive

\* A patch of a frame that is underway fits.
LEMMA UnderwayPatch ==
    ASSUME PacketInv, NEW result, Underway(result), Patch
    PROVE  ~thrown' /\ Underway(result)'
<1>1. PICK rest, stages, done :
        /\ Results(rest, stages)
        /\ done \in 0..Len(rest) /\ Len(patches) = Len(rest) - done
        /\ \A i \in 1..Len(patches) : patches[i] = rest[done + i]
        /\ Content = stages[done + 1]
        /\ stages[Len(rest) + 1] = result
  BY DEF Underway
<1>2. /\ rest \in Seq(Patches) /\ stages \in Seq(Seq(Bytes)) /\ Len(stages) = Len(rest) + 1
      /\ \A i \in 1..Len(rest) :
           /\ rest[i].at + Len(rest[i].data) <= Len(stages[i])
           /\ stages[i + 1] = Stored(stages[i], rest[i].at, rest[i].data)
  BY <1>1 DEF Results
<1>3. patches \in Seq(Patches) /\ patches # <<>> /\ BufferInv
  BY DEF Patch, PacketInv
<1> DEFINE n == Len(rest)
           m == Len(patches)
           next == done + 1
           p == Head(patches).at
           data == Head(patches).data
<1>4. n \in Nat /\ m \in Nat /\ m > 0 /\ done \in 0..n /\ m = n - done
  BY <1>1, <1>2, <1>3
<1>5. p \in Nat /\ data \in Seq(Bytes) /\ Head(patches) = patches[1]
  <2>1. Head(patches) \in Patches /\ Head(patches) = patches[1]
    BY <1>3
  <2> QED BY <2>1 DEF Patches
<1> HIDE DEF n, m
<1>6. next \in 1..n /\ 1 \in 1..m /\ next \in 0..n
  BY <1>4
<1>7. p = rest[next].at /\ data = rest[next].data
  <2>1. patches[1] = rest[done + 1]
    BY <1>1, <1>6 DEF m
  <2> QED BY <1>5, <2>1
<1>8. /\ p + Len(data) <= written
      /\ stages[next + 1] = Stored(Content, p, data)
  <2>1. /\ rest[next].at + Len(rest[next].data) <= Len(stages[next])
        /\ stages[next + 1] = Stored(stages[next], rest[next].at, rest[next].data)
    BY <1>2, <1>6 DEF n
  <2>2. Len(Content) = written
    BY <1>3, ContentType
  <2> QED BY <1>1, <1>7, <2>1, <2>2
<1> HIDE DEF next, p, data
<1>9. CASE seek(p) /\ patches' = patches
  <2>1. ~(p > written)
    <3>1. written \in Nat /\ Len(data) \in Nat
      BY <1>3, <1>5, ContentType
    <3> QED BY <1>5, <1>8, <3>1
  <2>2. thrown' = FALSE /\ storage' = storage /\ written' = written
    BY <1>9, <2>1 DEF seek, Returns
  <2>3. Content' = Content
    BY <2>2 DEF Content
  <2> QED BY <1>1, <1>9, <2>2, <2>3 DEF Underway
<1>10. CASE position = p /\ WriteFixed(data) /\ patches' = Tail(patches)
  <2>1. ~thrown' /\ Content' = Stored(Content, p, data)
    <3>1. position + Len(data) <= written
      BY <1>8, <1>10
    <3> QED BY <1>3, <1>5, <1>10, <3>1, FittingPatch
  <2>2. Content' = stages[next + 1]
    BY <1>8, <2>1
  <2>3. /\ Len(patches') = m - 1
        /\ \A i \in 1..(m - 1) : patches'[i] = patches[i + 1]
    <3>1. /\ Len(Tail(patches)) = Len(patches) - 1
          /\ \A i \in 1..Len(Tail(patches)) : Tail(patches)[i] = patches[i + 1]
      BY <1>3, HeadTailProperties
    <3> QED BY <1>10, <3>1 DEF m
  <2>4. ASSUME NEW i \in 1..(m - 1) PROVE patches'[i] = rest[next + i]
    <3>1. i + 1 \in 1..m /\ done + (i + 1) = next + i
      BY <1>4 DEF next
    <3>2. patches[i + 1] = rest[done + (i + 1)]
      BY <1>1, <3>1 DEF m
    <3> QED BY <2>3, <3>1, <3>2
  <2>5. Len(patches') = n - next
    BY <1>4, <2>3 DEF next
  <2>6. \A i \in 1..Len(patches') : patches'[i] = rest[next + i]
    BY <2>3, <2>4
  <2> QED BY <1>1, <1>6, <2>1, <2>2, <2>5, <2>6 DEF Underway, n
<1> QED BY <1>9, <1>10 DEF Patch, p, data

LEMMA GoodPatch == ASSUME PacketInv, GoodInv, Patch PROVE GoodInv'
<1>1. /\ pc \in {"set_src_mac", "set_dest_mac"}
      /\ pc' = IF thrown' THEN "ended" ELSE pc
      /\ received' = received /\ sent' = sent
  BY DEF Patch
<1>2. sent' = <<>> /\ pc' # "poll"
  BY <1>1 DEF GoodInv
<1>3. ReplyIsExact'
  BY <1>2, NothingSent
<1>4. Part(received, 2 * MacLength, 2) = ARP
  BY <1>1 DEF GoodInv
<1>5. ~IsIPv6(received)
  BY <1>4, EtherTypesAssumption DEF IsIPv6
<1>6. ASSUME IsEthernetArp(received)
      PROVE  /\ ~thrown' /\ ForMachine(received)
             /\ pc = "set_src_mac" => Underway(SourceWritten(received))'
             /\ pc = "set_dest_mac" =>
                  Underway(TargetWritten(SourceWritten(received), SenderOf(received)))'
  <2> DEFINE source == SourceWritten(received)
             target == TargetWritten(SourceWritten(received), SenderOf(received))
  <2>1. CASE pc = "set_src_mac"
    <3> PICK result : result = source
      OBVIOUS
    <3>1. Underway(result)
      BY <1>6, <2>1 DEF GoodInv
    <3>2. ~thrown' /\ Underway(result)' /\ source' = source
      BY <1>1, <3>1, UnderwayPatch
    <3>3. Underway(source)'
      BY <3>2 DEF Underway
    <3> QED BY <1>6, <2>1, <3>2, <3>3 DEF GoodInv
  <2>2. CASE pc = "set_dest_mac"
    <3> PICK result : result = target
      OBVIOUS
    <3>1. Underway(result)
      BY <1>6, <2>2 DEF GoodInv
    <3>2. ~thrown' /\ Underway(result)' /\ target' = target
      BY <1>1, <3>1, UnderwayPatch
    <3>3. Underway(target)'
      BY <3>2 DEF Underway
    <3> QED BY <1>6, <2>2, <3>2, <3>3 DEF GoodInv
  <2> QED BY <1>1, <2>1, <2>2
<1>7. GoodFramesSurvive'
  BY <1>1, <1>5, <1>6 DEF GoodFramesSurvive
<1> QED BY <1>1, <1>2, <1>3, <1>4, <1>6, <1>7 DEF GoodInv

LEMMA GoodResponse == ASSUME PacketInv, GoodInv, WriteResponse PROVE GoodInv'
<1>1. /\ pc = "set_dest_mac" /\ patches = <<>> /\ pc' = "poll" /\ received' = received
      /\ sent' = Append(sent, Content)
  BY DEF WriteResponse, NextPacket
<1>2. sent' = <<Content>> /\ Len(sent') = 1
  <2>1. sent = <<>>
    BY <1>1 DEF GoodInv
  <2> QED BY <1>1, <2>1
<1>3. ASSUME IsEthernetArp(received)
      PROVE  /\ ForMachine(received) /\ Len(Content) = Len(received)
             /\ ArpFields(Content) =
                  [ArpFields(received) EXCEPT !.src = mac, !.target_mac = mac,
                                              !.dst = ArpFields(received).sender_mac,
                                              !.operation = REPLY]
  <2>1. /\ ForMachine(received)
        /\ Underway(TargetWritten(SourceWritten(received), SenderOf(received)))
    BY <1>1, <1>3 DEF GoodInv
  <2>2. Content = TargetWritten(SourceWritten(received), SenderOf(received))
    BY <1>1, <2>1, UnderwayDone
  <2> QED BY <1>3, <2>1, <2>2, ReplyWritten DEF PacketInv
<1> DEFINE c == Content
<1>4. \A i \in 1..Len(sent') : sent'[i] = c
  BY <1>2
<1> HIDE DEF c
<1>5. ReplyIsExact'
  BY <1>1, <1>2, <1>3, <1>4 DEF ReplyIsExact, ForMachine, c
<1> QED BY <1>1, <1>5 DEF GoodInv, GoodFramesSurvive

LEMMA GoodStep ==
    ASSUME PacketInv, PacketInv', GoodInv, [PacketNext]_packetVars PROVE GoodInv'
<1>1. CASE UseBuffer
  <2>1. sent' = <<>> /\ pc' = "library"
    BY <1>1 DEF UseBuffer, runVars, GoodInv
  <2> QED BY <2>1, GoodQuiet
<1>2. CASE ReadFrame
  <2>1. sent' = <<>> /\ pc' = "read"
    BY <1>2 DEF ReadFrame
  <2> QED BY <2>1, GoodQuiet
<1>3. CASE ParseField
  BY <1>3, GoodParseField
<1>4. CASE RejectFrame
  BY <1>4, GoodEnds DEF RejectFrame, Parsed
<1>5. CASE PrintFails
  BY <1>5, GoodEnds DEF PrintFails, Parsed
<1>6. CASE SkipPacket
  <2>1. Printed /\ NextPacket /\ ~IsForMachine /\ sent' = sent
    BY <1>6 DEF SkipPacket, IsForMachine
  <2> QED BY <2>1, GoodBridged
<1>7. CASE Retransmit
  <2>1. Printed /\ NextPacket /\ ~IsForMachine /\ (sent' = sent \/ sent' = Append(sent, Content))
    BY <1>7 DEF Retransmit
  <2> QED BY <2>1, GoodBridged
<1>8. CASE ClonePacket
  BY <1>8, GoodClone
<1>9. CASE PatchSource
  BY <1>9, GoodPatchSource
<1>10. CASE PatchRest
  BY <1>10, GoodPatchRest
<1>11. CASE Patch
  BY <1>11, GoodPatch
<1>12. CASE WriteResponse
  BY <1>12, GoodResponse
<1>13. CASE UNCHANGED packetVars
  <2>1. /\ UNCHANGED vars /\ pc' = pc /\ received' = received /\ header' = header
        /\ patches' = patches /\ sent' = sent
    BY <1>13 DEF packetVars, runVars
  <2>2. Content' = Content
    BY <2>1, BufferKept DEF PacketInv
  <2> QED BY <2>1, <2>2 DEF GoodInv, GoodFramesSurvive, ReplyIsExact, Underway
<1> QED BY <1>1, <1>2, <1>3, <1>4, <1>5, <1>6, <1>7, <1>8, <1>9, <1>10, <1>11, <1>12, <1>13
        DEF PacketNext, Run, Terminated

GoodAlwaysInv == LibraryInv \/ (PacketInv /\ GoodInv)

LEMMA GoodAlways == PacketSpec => []GoodAlwaysInv
<1>1. PacketInit => GoodAlwaysInv
  BY GoodStart DEF GoodAlwaysInv
<1>2. GoodAlwaysInv /\ [PacketNext]_packetVars => GoodAlwaysInv'
  BY LibraryStep, PacketStep, GoodStep DEF GoodAlwaysInv
<1> QED BY <1>1, <1>2, PTL DEF PacketSpec

\* A complete frame never ends the interface, whatever its bytes and wherever
\* its addresses are.
THEOREM CompleteFramesSurvive == PacketSpec => []GoodFramesSurvive
<1>1. GoodAlwaysInv => GoodFramesSurvive
  BY DEF GoodAlwaysInv, LibraryInv, GoodInv, GoodFramesSurvive
<1> QED BY <1>1, GoodAlways, PTL

\* What is answered to a request for this machine is the reply and nothing
\* else, for every length of the addresses.
THEOREM RepliesAreExact == PacketSpec => []ReplyIsExact
<1>1. LibraryInv => ReplyIsExact
  <2> SUFFICES ASSUME LibraryInv PROVE ReplyIsExact
    OBVIOUS
  <2>1. pc # "poll" /\ 1..Len(sent) = {}
    BY DEF LibraryInv
  <2> QED BY <2>1 DEF ReplyIsExact
<1>2. GoodAlwaysInv => ReplyIsExact
  BY <1>1 DEF GoodAlwaysInv, GoodInv
<1> QED BY <1>2, GoodAlways, PTL
=============================================================================
