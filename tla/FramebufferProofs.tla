------------------------- MODULE FramebufferProofs -------------------------
(***************************************************************************)
(* The drawing primitives for every screen, pixel format, colour and       *)
(* character: what was asked for is what the buffer shows, and a pixel can *)
(* be put back as it was.                                                  *)
(***************************************************************************)
EXTENDS Framebuffer, SequenceTheorems, WellFoundedInduction, TLAPS

\* A set of numbers has a least one.
LEMMA LeastOfNumbers ==
  ASSUME NEW T \in SUBSET Nat, T # {}
  PROVE  \E k \in T : \A j \in T : k <= j
  <1>1. PICK k \in T : \A j \in T : ~(<<j, k>> \in OpToRel(<, Nat))
    BY NatLessThanWellFounded, WFMin
  <1>2. ASSUME NEW j \in T PROVE k <= j
    <2>1. ~(j < k)
      BY <1>1 DEF OpToRel
    <2> QED
      BY <2>1
  <1> QED
    BY <1>2

\* Induction up to N, over a set.
LEMMA UpTo ==
  ASSUME NEW N \in Nat, NEW T, 0 \in T, \A i \in 1 .. N : i - 1 \in T => i \in T
  PROVE  \A i \in 0 .. N : i \in T
  <1> DEFINE Bad == {i \in 0 .. N : i \notin T}
  <1>1. SUFFICES ASSUME Bad # {} PROVE FALSE
    OBVIOUS
  <1>2. PICK k \in Bad : \A j \in Bad : k <= j
    <2>1. Bad \in SUBSET Nat
      OBVIOUS
    <2> HIDE DEF Bad
    <2> QED
      BY <1>1, <2>1, LeastOfNumbers
  <1>3. k \in 1 .. N /\ k - 1 \in 0 .. N /\ ~(k <= k - 1)
    OBVIOUS
  <1>4. k - 1 \in T
    BY <1>2, <1>3
  <1> QED
    BY <1>3, <1>4

\* Multiplication is monotonic.
LEMMA Multiply ==
  ASSUME NEW a \in Nat, NEW b \in Nat, NEW c \in Nat, a <= b
  PROVE  a * c <= b * c /\ a * c \in Nat /\ b * c \in Nat
  <1>1. PICK d \in Nat : b = a + d
    BY SMT
  <1>2. d * c \in Nat /\ a * c \in Nat /\ b * c = a * c + d * c
    BY <1>1
  <1> QED
    BY <1>2

\* Division rounds down.
LEMMA Divide ==
  ASSUME NEW a \in Nat, NEW d \in Nat \ {0}
  PROVE  /\ a \div d \in Nat
         /\ (a \div d) * d <= a /\ a < (a \div d) * d + d
  OBVIOUS

\* A loop that changes a value in each of N rounds.
Loop(f, N, D, v, step) ==
  /\ f \in [0 .. N -> D]
  /\ f[0] = v
  /\ \A i \in 1 .. N : f[i] = step[i][f[i - 1]]

\* It has a value after each of them.
LEMMA LoopExists ==
  ASSUME NEW N \in Nat, NEW D, NEW v \in D, NEW step \in [1 .. N -> [D -> D]]
  PROVE  \E f : Loop(f, N, D, v, step)
  <1> DEFINE T == {m \in 0 .. N : \E f : Loop(f, m, D, v, step)}
  <1>1. 0 \in T
    <2>1. PICK f : f = [i \in 0 .. 0 |-> v]
      OBVIOUS
    <2>2. Loop(f, 0, D, v, step)
      BY <2>1 DEF Loop
    <2> QED
      BY <2>2
  <1>2. ASSUME NEW m \in 1 .. N, m - 1 \in T PROVE m \in T
    <2>1. PICK g : Loop(g, m - 1, D, v, step)
      BY <1>2
    <2>2. g[m - 1] \in D /\ step[m] \in [D -> D]
      BY <2>1 DEF Loop
    <2>3. PICK w : w = step[m][g[m - 1]] /\ w \in D
      BY <2>2
    <2>4. PICK f : f = [i \in 0 .. m |-> IF i = m THEN w ELSE g[i]]
      OBVIOUS
    <2>5. f \in [0 .. m -> D]
      BY <2>1, <2>3, <2>4 DEF Loop
    <2>6. f[0] = v
      BY <2>1, <2>4 DEF Loop
    <2>7. ASSUME NEW i \in 1 .. m PROVE f[i] = step[i][f[i - 1]]
      <3>1. f[i - 1] = g[i - 1]
        BY <2>4
      <3>2. CASE i = m
        BY <2>3, <2>4, <3>1, <3>2
      <3>3. CASE i # m
        BY <2>1, <2>4, <3>1, <3>3 DEF Loop
      <3> QED
        BY <3>2, <3>3
    <2>8. Loop(f, m, D, v, step)
      BY <2>5, <2>6, <2>7 DEF Loop
    <2> QED
      BY <2>8
  <1> HIDE DEF T
  <1>3. N \in T
    <2>1. \A i \in 0 .. N : i \in T
      BY <1>1, <1>2, UpTo
    <2> QED
      BY <2>1
  <1> QED
    BY <1>3 DEF T

\* The loops of BitsOf and Number.
Shifts(h, n) ==
  /\ h \in [0 .. Bits -> Nat]
  /\ h[0] = n
  /\ \A i \in 1 .. Bits : h[i] = h[i - 1] \div 2
Sums(t, S) ==
  /\ t \in [0 .. Bits -> Nat]
  /\ t[0] = 0
  /\ \A i \in 1 .. Bits : t[i] = 2 * t[i - 1] + (IF Bits - i \in S THEN 1 ELSE 0)

Shifted(h, n) == Shifts(h, n) /\ BitsOf(n) = {i \in 0 .. Bits - 1 : h[i] % 2 = 1}
Summed(t, S) == Sums(t, S) /\ Number(S) = t[Bits]

\* Shifting a byte to the right.
LEMMA BitsLoop ==
  ASSUME NEW n \in Nat
  PROVE  \E h : Shifted(h, n)
  <1>0. Bits \in Nat
    BY SizeAssumption
  <1>1. PICK step : step = [i \in 1 .. Bits |-> [x \in Nat |-> x \div 2]]
    OBVIOUS
  <1>2. step \in [1 .. Bits -> [Nat -> Nat]]
    <2>1. \A x \in Nat : x \div 2 \in Nat
      OBVIOUS
    <2> QED
      BY <1>1, <2>1
  <1>3. PICK g : Loop(g, Bits, Nat, n, step)
    BY <1>0, <1>2, LoopExists
  <1>4. ASSUME NEW i \in 1 .. Bits PROVE g[i] = g[i - 1] \div 2
    <2>1. g[i] = step[i][g[i - 1]] /\ g[i - 1] \in Nat
      BY <1>0, <1>3 DEF Loop
    <2>2. step[i] = [x \in Nat |-> x \div 2]
      BY <1>1
    <2> QED
      BY <2>1, <2>2
  <1>5. g = [i \in 0 .. Bits |-> IF i = 0 THEN n ELSE g[i - 1] \div 2]
    BY <1>0, <1>3, <1>4 DEF Loop
  <1>6. PICK h : h = CHOOSE f : f = [i \in 0 .. Bits |-> IF i = 0 THEN n ELSE f[i - 1] \div 2]
    OBVIOUS
  <1>7. h = [i \in 0 .. Bits |-> IF i = 0 THEN n ELSE h[i - 1] \div 2]
    BY <1>5, <1>6
  <1>8. BitsOf(n) = {i \in 0 .. Bits - 1 : h[i] % 2 = 1}
    BY <1>6 DEF BitsOf
  <1>9. h[0] = n /\ \A i \in 1 .. Bits : h[i] = h[i - 1] \div 2
    BY <1>0, <1>7
  <1>10. \A i \in 0 .. Bits : h[i] \in Nat
    <2> DEFINE T == {i \in 0 .. Bits : h[i] \in Nat}
    <2>1. 0 \in T
      BY <1>0, <1>9
    <2>2. ASSUME NEW i \in 1 .. Bits, i - 1 \in T PROVE i \in T
      BY <1>0, <1>9, <2>2
    <2> HIDE DEF T
    <2>3. \A i \in 0 .. Bits : i \in T
      BY <1>0, <2>1, <2>2, UpTo
    <2> QED
      BY <2>3 DEF T
  <1>11. Shifts(h, n)
    BY <1>7, <1>9, <1>10 DEF Shifts
  <1> QED
    BY <1>8, <1>11 DEF Shifted

\* Putting a byte together from its highest bit on.
LEMMA NumberLoop ==
  ASSUME NEW S
  PROVE  \E t : Summed(t, S)
  <1>0. Bits \in Nat
    BY SizeAssumption
  <1> DEFINE bit(i) == IF Bits - i \in S THEN 1 ELSE 0
  <1>1. PICK step : step = [i \in 1 .. Bits |-> [x \in Nat |-> 2 * x + bit(i)]]
    OBVIOUS
  <1>2. step \in [1 .. Bits -> [Nat -> Nat]]
    BY <1>1
  <1>3. PICK g : Loop(g, Bits, Nat, 0, step)
    BY <1>0, <1>2, LoopExists
  <1>4. ASSUME NEW i \in 1 .. Bits PROVE g[i] = 2 * g[i - 1] + bit(i)
    <2>1. g[i] = step[i][g[i - 1]] /\ g[i - 1] \in Nat
      BY <1>0, <1>3 DEF Loop
    <2>2. step[i] = [x \in Nat |-> 2 * x + bit(i)]
      BY <1>1
    <2> QED
      BY <2>1, <2>2
  <1>5. g = [i \in 0 .. Bits |-> IF i = 0 THEN 0 ELSE 2 * g[i - 1] + bit(i)]
    BY <1>0, <1>3, <1>4 DEF Loop
  <1>6. PICK t : t = CHOOSE f : f = [i \in 0 .. Bits |-> IF i = 0 THEN 0 ELSE 2 * f[i - 1] + bit(i)]
    OBVIOUS
  <1>7. t = [i \in 0 .. Bits |-> IF i = 0 THEN 0 ELSE 2 * t[i - 1] + bit(i)]
    BY <1>5, <1>6
  <1>8. Number(S) = t[Bits]
    BY <1>6 DEF Number
  <1>9. t[0] = 0 /\ \A i \in 1 .. Bits : t[i] = 2 * t[i - 1] + bit(i)
    BY <1>0, <1>7
  <1>10. \A i \in 0 .. Bits : t[i] \in Nat
    <2> DEFINE T == {i \in 0 .. Bits : t[i] \in Nat}
    <2>1. 0 \in T
      BY <1>0, <1>9
    <2>2. ASSUME NEW i \in 1 .. Bits, i - 1 \in T PROVE i \in T
      BY <1>0, <1>9, <2>2
    <2> HIDE DEF T
    <2>3. \A i \in 0 .. Bits : i \in T
      BY <1>0, <2>1, <2>2, UpTo
    <2> QED
      BY <2>3 DEF T
  <1>11. Sums(t, S)
    BY <1>7, <1>9, <1>10 DEF Sums
  <1> QED
    BY <1>8, <1>11 DEF Summed

\* A byte has the bits it is made of.
LEMMA BitsOfNumber ==
  ASSUME NEW S \in SUBSET (0 .. Bits - 1)
  PROVE  BitsOf(Number(S)) = S
  <1>0. Bits \in Nat
    BY SizeAssumption
  <1>1. PICK t : Summed(t, S)
    BY NumberLoop
  <1>2. Number(S) = t[Bits] /\ t[Bits] \in Nat
    BY <1>0, <1>1 DEF Summed, Sums
  <1>3. PICK h : Shifted(h, Number(S))
    BY <1>2, BitsLoop
  <1>4. \A i \in 0 .. Bits : h[i] = t[Bits - i]
    <2> DEFINE T == {i \in 0 .. Bits : h[i] = t[Bits - i]}
    <2>1. 0 \in T
      BY <1>0, <1>2, <1>3 DEF Shifted, Shifts
    <2>2. ASSUME NEW i \in 1 .. Bits, i - 1 \in T PROVE i \in T
      <3>1. PICK k \in 1 .. Bits : k = Bits - (i - 1) /\ k - 1 = Bits - i
        BY <1>0
      <3>2. h[i] = h[i - 1] \div 2 /\ h[i - 1] = t[k]
        BY <1>3, <2>2, <3>1 DEF Shifted, Shifts
      <3>3. t[k - 1] \in Nat /\ t[k] = 2 * t[k - 1] + (IF Bits - k \in S THEN 1 ELSE 0)
        BY <1>0, <1>1, <3>1 DEF Summed, Sums
      <3>4. t[k] \div 2 = t[k - 1]
        BY <3>3
      <3> QED
        BY <3>1, <3>2, <3>4
    <2> HIDE DEF T
    <2>3. \A i \in 0 .. Bits : i \in T
      BY <1>0, <2>1, <2>2, UpTo
    <2> QED
      BY <2>3 DEF T
  <1>5. ASSUME NEW i \in 0 .. Bits - 1 PROVE h[i] % 2 = 1 <=> i \in S
    <2>1. PICK k \in 1 .. Bits : k = Bits - i /\ Bits - k = i
      BY <1>0
    <2>2. h[i] = t[k]
      BY <1>0, <1>4, <2>1
    <2>3. t[k - 1] \in Nat /\ t[k] = 2 * t[k - 1] + (IF i \in S THEN 1 ELSE 0)
      BY <1>0, <1>1, <2>1 DEF Summed, Sums
    <2> QED
      BY <2>2, <2>3
  <1> QED
    BY <1>3, <1>5 DEF Shifted

\* No byte is larger than the one with all bits.
LEMMA NumberFits ==
  ASSUME NEW S
  PROVE  Number(S) \in Byte /\ MaxByte \in Nat /\ MaxByte >= 1
  <1>0. Bits \in Nat \ {0}
    BY SizeAssumption
  <1> DEFINE All == 0 .. Bits - 1
  <1>1. PICK t : Summed(t, S)
    BY NumberLoop
  <1>2. PICK a : Summed(a, All)
    BY NumberLoop
  <1>3. \A i \in 1 .. Bits : Bits - i \in All
    BY <1>0
  <1> HIDE DEF All
  <1>4. \A i \in 1 .. Bits : a[i] = 2 * a[i - 1] + 1
    BY <1>2, <1>3 DEF Summed, Sums
  <1>5. \A i \in 0 .. Bits : t[i] <= a[i]
    <2> DEFINE T == {i \in 0 .. Bits : t[i] <= a[i]}
    <2>1. 0 \in T
      BY <1>0, <1>1, <1>2 DEF Summed, Sums
    <2>2. ASSUME NEW i \in 1 .. Bits, i - 1 \in T PROVE i \in T
      <3>1. t[i - 1] \in Nat /\ a[i - 1] \in Nat /\ t[i - 1] <= a[i - 1]
        BY <1>0, <1>1, <1>2, <2>2 DEF Summed, Sums
      <3>2. t[i] = 2 * t[i - 1] + (IF Bits - i \in S THEN 1 ELSE 0) /\ a[i] = 2 * a[i - 1] + 1
        BY <1>1, <1>4 DEF Summed, Sums
      <3> QED
        BY <3>1, <3>2
    <2> HIDE DEF T
    <2>3. \A i \in 0 .. Bits : i \in T
      BY <1>0, <2>1, <2>2, UpTo
    <2> QED
      BY <2>3 DEF T
  <1>6. MaxByte = a[Bits] /\ Number(S) = t[Bits]
    BY <1>1, <1>2 DEF Summed, MaxByte, All
  <1>7. a[Bits] \in Nat /\ t[Bits] \in Nat /\ t[Bits] <= a[Bits]
    BY <1>0, <1>1, <1>2, <1>5 DEF Summed, Sums
  <1>8. a[Bits] = 2 * a[Bits - 1] + 1 /\ a[Bits - 1] \in Nat
    BY <1>0, <1>2, <1>4 DEF Summed, Sums
  <1> QED
    BY <1>6, <1>7, <1>8 DEF Byte

\* A byte is the number its bits spell.
LEMMA NumberOfBits ==
  ASSUME NEW n \in Byte
  PROVE  Number(BitsOf(n)) = n
  <1>0. Bits \in Nat \ {0}
    BY SizeAssumption
  <1> DEFINE All == 0 .. Bits - 1
  <1>1. PICK a : Summed(a, All)
    BY NumberLoop
  <1>2. \A i \in 1 .. Bits : Bits - i \in All
    BY <1>0
  <1>3. MaxByte = Number(All)
    BY DEF MaxByte
  <1> HIDE DEF All
  <1>4. a[0] = 0 /\ (\A i \in 1 .. Bits : a[i] = 2 * a[i - 1] + 1) /\ MaxByte = a[Bits] /\ a \in [0 .. Bits -> Nat]
    BY <1>1, <1>2, <1>3 DEF Summed, Sums
  <1>5. n \in Nat /\ n <= a[Bits]
    BY <1>4, NumberFits DEF Byte
  <1>6. PICK h : Shifted(h, n)
    BY <1>5, BitsLoop
  <1>7. h \in [0 .. Bits -> Nat] /\ h[0] = n /\ \A i \in 1 .. Bits : h[i] = h[i - 1] \div 2
    BY <1>6 DEF Shifted, Shifts
  <1>8. h[Bits] = 0
    <2> DEFINE T == {i \in 0 .. Bits : h[i] <= a[Bits - i]}
    <2>1. 0 \in T
      BY <1>0, <1>5, <1>7
    <2>2. ASSUME NEW i \in 1 .. Bits, i - 1 \in T PROVE i \in T
      <3>1. PICK k \in 1 .. Bits : k = Bits - (i - 1) /\ k - 1 = Bits - i
        BY <1>0
      <3>2. h[i] = h[i - 1] \div 2 /\ h[i - 1] <= a[k] /\ h[i - 1] \in Nat
        BY <1>0, <1>7, <2>2, <3>1
      <3>3. a[k - 1] \in Nat /\ a[k] = 2 * a[k - 1] + 1
        <4>1. k - 1 \in 0 .. Bits
          BY <1>0
        <4>2. a[k - 1] \in Nat
          BY <1>4, <4>1
        <4> QED
          BY <1>4, <4>2
      <3>4. h[i - 1] \div 2 <= a[k - 1]
        BY <3>2, <3>3
      <3> QED
        BY <3>1, <3>2, <3>4
    <2> HIDE DEF T
    <2>3. \A i \in 0 .. Bits : i \in T
      BY <1>0, <2>1, <2>2, UpTo
    <2>4. h[Bits] <= a[Bits - Bits]
      BY <1>0, <2>3 DEF T
    <2> QED
      BY <1>0, <1>4, <1>7, <2>4
  <1>9. PICK t : Summed(t, BitsOf(n))
    BY NumberLoop
  <1>10. /\ t \in [0 .. Bits -> Nat] /\ t[0] = 0 /\ Number(BitsOf(n)) = t[Bits]
         /\ \A i \in 1 .. Bits : t[i] = 2 * t[i - 1] + (IF Bits - i \in BitsOf(n) THEN 1 ELSE 0)
    BY <1>9 DEF Summed, Sums
  <1>11. \A i \in 0 .. Bits : t[i] = h[Bits - i]
    <2> DEFINE T == {i \in 0 .. Bits : t[i] = h[Bits - i]}
    <2>1. 0 \in T
      BY <1>0, <1>8, <1>10
    <2>2. ASSUME NEW i \in 1 .. Bits, i - 1 \in T PROVE i \in T
      <3>1. PICK k \in 1 .. Bits : k = Bits - (i - 1) /\ k - 1 = Bits - i /\ k - 1 \in 0 .. Bits - 1
        BY <1>0
      <3>2. t[i - 1] = h[k] /\ h[k] = h[k - 1] \div 2 /\ h[k - 1] \in Nat
        BY <1>0, <1>7, <2>2, <3>1
      <3>3. Bits - i \in BitsOf(n) <=> h[k - 1] % 2 = 1
        BY <1>6, <3>1 DEF Shifted
      <3>4. t[i] = 2 * (h[k - 1] \div 2) + (IF h[k - 1] % 2 = 1 THEN 1 ELSE 0)
        BY <1>10, <3>2, <3>3
      <3>5. t[i] = h[k - 1]
        BY <3>2, <3>4
      <3> QED
        BY <3>1, <3>5
    <2> HIDE DEF T
    <2>3. \A i \in 0 .. Bits : i \in T
      BY <1>0, <2>1, <2>2, UpTo
    <2> QED
      BY <2>3 DEF T
  <1> QED
    BY <1>0, <1>7, <1>10, <1>11

\* The format of the screen.
LEMMA TheFormat ==
  ASSUME info \in Formats
  PROVE  /\ info.bpp \in 1 .. 4
         /\ info.format \in {"Rgb", "Bgr", "U8", "Unknown"}
         /\ info.format \in {"Rgb", "Bgr"} => info.bpp = 3 \/ info.bpp = 4
         /\ info.format = "U8" => info.bpp = 1
         /\ info.positions \in [1 .. 3 -> Nat]
  BY FormatAssumption

\* Tuples as functions.
LEMMA Tuples ==
  ASSUME NEW T, NEW x \in T, NEW y \in T, NEW z \in T, NEW u \in T
  PROVE  /\ <<x>> \in [1 .. 1 -> T]
         /\ <<x, y, z>> \in [1 .. 3 -> T]
         /\ <<x, y, z, u>> \in [1 .. 4 -> T]
  OBVIOUS

\* The bytes of a colour, format by format.
LEMMA EncodeRgb ==
  ASSUME info \in Formats, info.format = "Rgb", NEW c \in Colour
  PROVE  Encode(c) = IF info.bpp = 3 THEN <<c[1], c[2], c[3]>> ELSE <<c[1], c[2], c[3], MaxByte>>
  <1>1. Encode(c) = IF info.bpp >= 4 THEN <<c[1], c[2], c[3], MaxByte>> ELSE <<c[1], c[2], c[3]>>
    BY DEF Encode
  <1>2. info.bpp = 3 \/ info.bpp = 4
    BY TheFormat
  <1> QED
    BY <1>1, <1>2
LEMMA EncodeBgr ==
  ASSUME info \in Formats, info.format = "Bgr", NEW c \in Colour
  PROVE  Encode(c) = IF info.bpp = 3 THEN <<c[3], c[2], c[1]>> ELSE <<c[3], c[2], c[1], MaxByte>>
  <1>1. Encode(c) = IF info.bpp >= 4 THEN <<c[3], c[2], c[1], MaxByte>> ELSE <<c[3], c[2], c[1]>>
    BY DEF Encode
  <1>2. info.bpp = 3 \/ info.bpp = 4
    BY TheFormat
  <1> QED
    BY <1>1, <1>2
LEMMA EncodeU8 ==
  ASSUME info.format = "U8", NEW c
  PROVE  Encode(c) = <<(c[1] + c[2] + c[3]) \div 3>>
  BY DEF Encode
LEMMA EncodeOther ==
  ASSUME info.format = "Unknown", NEW c
  PROVE  Encode(c) = EncodeUnknown(c)
  BY DEF Encode

\* What is read from a pixel, format by format.
LEMMA DecodeCases ==
  ASSUME NEW bytes
  PROVE  /\ info.format = "Rgb" => Decode(bytes) = <<bytes[1], bytes[2], bytes[3]>>
         /\ info.format = "Bgr" => Decode(bytes) = <<bytes[3], bytes[2], bytes[1]>>
         /\ info.format = "U8" => Decode(bytes) = <<bytes[1], bytes[1], bytes[1]>>
         /\ info.format = "Unknown" => Decode(bytes) = DecodeUnknown(bytes)
  BY DEF Decode, ReadBgr

\* Every colour has bytes.
LEMMA EncodeType ==
  ASSUME info \in Formats, NEW c \in Colour
  PROVE  Encode(c) \in [1 .. info.bpp -> Byte]
  <1>1. MaxByte \in Byte /\ MaxByte \in Nat
    BY NumberFits DEF Byte
  <1>2. c[1] \in Byte /\ c[2] \in Byte /\ c[3] \in Byte
    BY DEF Colour
  <1>3. CASE info.format = "Rgb"
    <2>1. <<c[1], c[2], c[3]>> \in [1 .. 3 -> Byte] /\ <<c[1], c[2], c[3], MaxByte>> \in [1 .. 4 -> Byte]
      BY <1>1, <1>2, Tuples
    <2> QED
      BY <1>3, <2>1, EncodeRgb, TheFormat
  <1>4. CASE info.format = "Bgr"
    <2>1. <<c[3], c[2], c[1]>> \in [1 .. 3 -> Byte] /\ <<c[3], c[2], c[1], MaxByte>> \in [1 .. 4 -> Byte]
      BY <1>1, <1>2, Tuples
    <2> QED
      BY <1>4, <2>1, EncodeBgr, TheFormat
  <1>5. CASE info.format = "U8"
    <2>1. (c[1] + c[2] + c[3]) \div 3 \in Byte
      BY <1>1, <1>2 DEF Byte
    <2>2. <<(c[1] + c[2] + c[3]) \div 3>> \in [1 .. 1 -> Byte]
      BY <2>1, Tuples
    <2> QED
      BY <1>5, <2>2, EncodeU8, TheFormat
  <1>6. CASE info.format = "Unknown"
    BY <1>6, EncodeOther, NumberFits DEF EncodeUnknown
  <1> QED
    BY <1>3, <1>4, <1>5, <1>6, TheFormat

\* And bytes are a colour.
LEMMA DecodeType ==
  ASSUME info \in Formats, NEW bytes \in [1 .. info.bpp -> Byte]
  PROVE  Decode(bytes) \in Colour
  <1>1. CASE info.format \in {"Rgb", "Bgr"}
    <2>1. bytes[1] \in Byte /\ bytes[2] \in Byte /\ bytes[3] \in Byte
      BY <1>1, TheFormat
    <2>2. /\ <<bytes[1], bytes[2], bytes[3]>> \in [1 .. 3 -> Byte]
          /\ <<bytes[3], bytes[2], bytes[1]>> \in [1 .. 3 -> Byte]
      BY <2>1, Tuples
    <2> QED
      BY <1>1, <2>2, DecodeCases DEF Colour
  <1>2. CASE info.format = "U8"
    <2>1. bytes[1] \in Byte
      BY TheFormat
    <2>2. <<bytes[1], bytes[1], bytes[1]>> \in [1 .. 3 -> Byte]
      BY <2>1, Tuples
    <2> QED
      BY <1>2, <2>2, DecodeCases DEF Colour
  <1>3. CASE info.format = "Unknown"
    <2>1. DecodeUnknown(bytes) \in [1 .. 3 -> Byte]
      BY NumberFits, Zenon DEF DecodeUnknown
    <2> QED
      BY <1>3, <2>1, DecodeCases DEF Colour
  <1> QED
    BY <1>1, <1>2, <1>3, TheFormat

\* Formats with a byte for each channel lose nothing.
LEMMA ChannelsKept ==
  ASSUME info.format \in {"Rgb", "Bgr"}, NEW c
  PROVE  Shown(c) = c
  BY DEF Shown

\* The bits of a pixel, and those of them which a channel or a byte at place n sees.
Raw(bytes) == UNION {{j + (i - 1) * Bits : j \in BitsOf(bytes[i])} : i \in 1 .. info.bpp}
Seen(bits, n) == {j - n : j \in bits} \cap 0 .. Bits - 1

\* With channels anywhere in the pixel, overlapping or not: writing what was read
\* keeps each bit that is read.
LEMMA UnknownAgain ==
  ASSUME info \in Formats, NEW bytes \in [1 .. info.bpp -> Byte]
  PROVE  DecodeUnknown(EncodeUnknown(DecodeUnknown(bytes))) = DecodeUnknown(bytes)
  <1>0. Bits \in Nat /\ info.bpp \in Nat
    BY SizeAssumption, TheFormat
  <1>1. PICK pos : pos = info.positions /\ pos \in [1 .. 3 -> Nat]
    BY TheFormat
  <1>2. PICK base : base = [i \in 1 .. info.bpp |-> (i - 1) * Bits] /\ base \in [1 .. info.bpp -> Int]
    <2>1. \A i \in 1 .. info.bpp : (i - 1) * Bits \in Int
      BY <1>0
    <2>2. [i \in 1 .. info.bpp |-> (i - 1) * Bits] \in [1 .. info.bpp -> Int]
      BY <2>1
    <2> QED
      BY <2>2
  <1>3. PICK R : R = Raw(bytes)
    OBVIOUS
  <1>4. PICK c : c = DecodeUnknown(bytes)
    OBVIOUS
  <1>5. \A k \in 1 .. 3 : c[k] = Number(Seen(R, pos[k])) /\ BitsOf(c[k]) = Seen(R, pos[k])
    <2>1. \A k \in 1 .. 3 : c[k] = Number(Seen(R, pos[k]))
      BY <1>1, <1>3, <1>4 DEF DecodeUnknown, Raw, Seen
    <2>2. \A k \in 1 .. 3 : Seen(R, pos[k]) \in SUBSET (0 .. Bits - 1)
      BY DEF Seen
    <2> QED
      BY <2>1, <2>2, BitsOfNumber
  <1>6. PICK M : M = UNION {{i + pos[k] : i \in BitsOf(c[k])} : k \in 1 .. 3}
    OBVIOUS
  <1>7. \A r \in R : r \in Int /\ \E i \in 1 .. info.bpp : r - base[i] \in 0 .. Bits - 1
    <2> TAKE r \in R
    <2>1. PICK i \in 1 .. info.bpp : \E j \in BitsOf(bytes[i]) : r = j + (i - 1) * Bits
      BY <1>3 DEF Raw
    <2>2. PICK j \in BitsOf(bytes[i]) : r = j + base[i] /\ base[i] \in Int
      BY <1>2, <2>1
    <2>3. j \in 0 .. Bits - 1
      BY DEF BitsOf
    <2> QED
      BY <1>0, <2>2, <2>3
  <1>8. ASSUME NEW r \in M PROVE r \in R
    <2>1. PICK k \in 1 .. 3 : \E i \in BitsOf(c[k]) : r = i + pos[k]
      BY <1>6
    <2>2. PICK i \in Seen(R, pos[k]) : r = i + pos[k]
      BY <1>5, <2>1
    <2>3. PICK j \in R : i = j - pos[k]
      BY <2>2 DEF Seen
    <2> QED
      BY <1>1, <1>7, <2>2, <2>3
  <1>9. ASSUME NEW r \in R, NEW k \in 1 .. 3, r - pos[k] \in 0 .. Bits - 1 PROVE r \in M
    <2>1. r - pos[k] \in BitsOf(c[k])
      BY <1>5, <1>9 DEF Seen
    <2>2. r = (r - pos[k]) + pos[k]
      BY <1>1, <1>7
    <2> QED
      BY <1>6, <2>1, <2>2
  <1>10. \A k \in 1 .. 3 : Seen(M, pos[k]) = Seen(R, pos[k])
    BY <1>8, <1>9 DEF Seen
  <1>11. PICK e : e = EncodeUnknown(c)
    OBVIOUS
  <1>12. \A i \in 1 .. info.bpp : e[i] = Number(Seen(M, base[i])) /\ BitsOf(e[i]) = Seen(M, base[i])
    <2>1. \A i \in 1 .. info.bpp : e[i] = Number(Seen(M, base[i]))
      <3>1. e = [i \in 1 .. info.bpp |-> Number({j - (i - 1) * Bits : j \in M} \cap 0 .. Bits - 1)]
        BY <1>1, <1>6, <1>11 DEF EncodeUnknown
      <3> TAKE i \in 1 .. info.bpp
      <3>2. e[i] = Number({j - (i - 1) * Bits : j \in M} \cap 0 .. Bits - 1)
        BY <3>1
      <3>3. base[i] = (i - 1) * Bits
        BY <1>2
      <3> QED
        BY <3>2, <3>3 DEF Seen
    <2>2. \A i \in 1 .. info.bpp : Seen(M, base[i]) \in SUBSET (0 .. Bits - 1)
      BY DEF Seen
    <2> QED
      BY <2>1, <2>2, BitsOfNumber
  <1>13. Raw(e) = M
    <2>1. ASSUME NEW r \in Raw(e) PROVE r \in M
      <3>1. PICK i \in 1 .. info.bpp : \E j \in BitsOf(e[i]) : r = j + (i - 1) * Bits
        BY DEF Raw
      <3>2. PICK j \in BitsOf(e[i]) : r = j + base[i] /\ base[i] \in Int
        BY <1>2, <3>1
      <3>3. PICK m \in M : j = m - base[i]
        BY <1>12, <3>1 DEF Seen
      <3>4. m \in Int
        BY <1>7, <1>8
      <3> QED
        BY <3>2, <3>3, <3>4
    <2>2. ASSUME NEW r \in M PROVE r \in Raw(e)
      <3>1. PICK i \in 1 .. info.bpp : r - base[i] \in 0 .. Bits - 1
        BY <1>7, <1>8
      <3>2. r - base[i] \in BitsOf(e[i])
        BY <1>12, <3>1 DEF Seen
      <3>3. r = (r - base[i]) + base[i] /\ base[i] = (i - 1) * Bits
        BY <1>2, <1>7, <1>8
      <3>4. PICK s : s \in BitsOf(e[i]) /\ r = s + (i - 1) * Bits
        BY <3>2, <3>3
      <3> DEFINE Bytes(n) == {j + (n - 1) * Bits : j \in BitsOf(e[n])}
      <3>5. r \in Bytes(i)
        BY <3>4
      <3>6. Raw(e) = UNION {Bytes(n) : n \in 1 .. info.bpp}
        BY DEF Raw
      <3> HIDE DEF Bytes
      <3> QED
        BY <3>5, <3>6
    <2> QED
      BY <2>1, <2>2
  <1>14. DecodeUnknown(e) = [k \in 1 .. 3 |-> Number(Seen(M, pos[k]))]
    BY <1>1, <1>13 DEF DecodeUnknown, Raw, Seen
  <1>15. DecodeUnknown(bytes) = [k \in 1 .. 3 |-> Number(Seen(R, pos[k]))]
    BY <1>1, <1>3 DEF DecodeUnknown, Raw, Seen
  <1> QED
    BY <1>4, <1>10, <1>11, <1>14, <1>15

\* The bits of the four bytes that put_pixel shifts together, and those that fit.
PixelBits(c) == UNION {{i + info.positions[k] : i \in BitsOf(c[k])} : k \in 1 .. 3}
LEMMA BitsStored ==
  ASSUME info \in Formats, NEW c
  PROVE  \A r : r \in Raw(EncodeUnknown(c)) <=> r \in PixelBits(c) /\ r \in Nat /\ r < info.bpp * Bits
  <1>0. Bits \in Nat \ {0} /\ info.bpp \in Nat
    BY SizeAssumption, TheFormat
  <1>1. PICK M : M = PixelBits(c)
    OBVIOUS
  <1>2. \A r \in M : r \in Nat
    <2> TAKE r \in M
    <2>1. PICK k \in 1 .. 3 : \E i \in BitsOf(c[k]) : r = i + info.positions[k]
      BY <1>1 DEF PixelBits
    <2>2. PICK i \in BitsOf(c[k]) : r = i + info.positions[k]
      BY <2>1
    <2>3. i \in Nat /\ info.positions[k] \in Nat
      BY <1>0, TheFormat DEF BitsOf
    <2> QED
      BY <2>2, <2>3
  <1>3. PICK e : e = EncodeUnknown(c)
    OBVIOUS
  <1>4. \A i \in 1 .. info.bpp : BitsOf(e[i]) = Seen(M, (i - 1) * Bits)
    <2>1. \A i \in 1 .. info.bpp : e[i] = Number(Seen(M, (i - 1) * Bits))
      BY <1>1, <1>3 DEF EncodeUnknown, PixelBits, Seen
    <2>2. \A i \in 1 .. info.bpp : Seen(M, (i - 1) * Bits) \in SUBSET (0 .. Bits - 1)
      BY DEF Seen
    <2> QED
      BY <2>1, <2>2, BitsOfNumber
  <1>5. ASSUME NEW r \in Raw(e) PROVE r \in M /\ r \in Nat /\ r < info.bpp * Bits
    <2>1. PICK i \in 1 .. info.bpp : \E j \in BitsOf(e[i]) : r = j + (i - 1) * Bits
      BY DEF Raw
    <2>2. PICK base \in Nat : base = (i - 1) * Bits
      BY <1>0
    <2>3. PICK j \in Seen(M, base) : r = j + base
      BY <1>4, <2>1, <2>2
    <2>4. j \in 0 .. Bits - 1 /\ \E m \in M : j = m - base
      BY <2>3 DEF Seen
    <2>5. PICK m \in M : j = m - base
      BY <2>4
    <2>6. r = m
      BY <1>2, <2>2, <2>3, <2>5
    <2>7. base + Bits <= info.bpp * Bits /\ info.bpp * Bits \in Nat
      <3>1. i \in Nat /\ i <= info.bpp /\ i * Bits = base + Bits
        BY <1>0, <2>2
      <3> QED
        BY <1>0, <3>1, Multiply
    <2> QED
      BY <1>0, <1>2, <2>2, <2>3, <2>4, <2>6, <2>7
  <1>6. ASSUME NEW r \in M, r < info.bpp * Bits PROVE r \in Raw(e)
    <2>0. r \in Nat
      BY <1>2
    <2>1. PICK n \in Nat : n * Bits <= r /\ r < n * Bits + Bits
      BY <1>0, <2>0, Divide
    <2>2. n + 1 \in 1 .. info.bpp
      <3>1. SUFFICES ASSUME info.bpp <= n PROVE FALSE
        BY <1>0
      <3>2. info.bpp * Bits <= n * Bits /\ info.bpp * Bits \in Nat /\ n * Bits \in Nat
        BY <1>0, <3>1, Multiply
      <3> QED
        BY <1>6, <2>0, <2>1, <3>2
    <2>3. PICK base \in Nat : base = n * Bits /\ base = ((n + 1) - 1) * Bits
      BY <1>0
    <2>4. r - base \in Seen(M, base)
      BY <1>0, <2>0, <2>1, <2>3 DEF Seen
    <2>5. r - base \in BitsOf(e[n + 1]) /\ r = (r - base) + ((n + 1) - 1) * Bits
      BY <1>4, <2>0, <2>2, <2>3, <2>4
    <2> DEFINE Bytes(i) == {j + (i - 1) * Bits : j \in BitsOf(e[i])}
    <2>6. r \in Bytes(n + 1)
      BY <2>5
    <2>7. Raw(e) = UNION {Bytes(i) : i \in 1 .. info.bpp}
      BY DEF Raw
    <2> HIDE DEF Bytes
    <2> QED
      BY <2>2, <2>6, <2>7
  <1> QED
    BY <1>1, <1>3, <1>5, <1>6

\* What an unknown format shows: of each channel the bits it shares with others, or
\* that are not cut off, and that is all of them if it has its own.
LEMMA UnknownShown ==
  ASSUME info \in Formats, NEW c
  PROVE  DecodeUnknown(EncodeUnknown(c)) = [k \in 1 .. 3 |-> Number(SharedBits(c, k))]
  <1>0. Bits \in Nat /\ info.bpp \in Nat
    BY SizeAssumption, TheFormat
  <1>1. PICK pos : pos = info.positions /\ pos \in [1 .. 3 -> Nat]
    BY TheFormat
  <1>2. PICK R : R = Raw(EncodeUnknown(c))
    OBVIOUS
  <1>3. \A r : r \in R <=> r \in PixelBits(c) /\ r \in Nat /\ r < info.bpp * Bits
    BY <1>2, BitsStored
  <1>4. ASSUME NEW k \in 1 .. 3 PROVE Seen(R, pos[k]) = SharedBits(c, k)
    <2>0. pos[k] \in Nat
      BY <1>1
    <2>1. ASSUME NEW i \in 0 .. Bits - 1, NEW j, j = i + pos[k]
          PROVE  j \in PixelBits(c) <=> \E l \in 1 .. 3 : j - pos[l] \in BitsOf(c[l])
      <3>1. ASSUME j \in PixelBits(c) PROVE \E l \in 1 .. 3 : j - pos[l] \in BitsOf(c[l])
        <4>1. PICK l \in 1 .. 3 : \E b \in BitsOf(c[l]) : j = b + pos[l]
          BY <1>1, <3>1 DEF PixelBits
        <4>2. PICK b \in BitsOf(c[l]) : j = b + pos[l]
          BY <4>1
        <4>3. b \in Int /\ pos[l] \in Int
          BY <1>0, <1>1 DEF BitsOf
        <4>4. j - pos[l] = b
          BY <4>2, <4>3
        <4> QED
          BY <4>4
      <3>2. ASSUME NEW l \in 1 .. 3, j - pos[l] \in BitsOf(c[l]) PROVE j \in PixelBits(c)
        <4>1. PICK b \in BitsOf(c[l]) : b = j - pos[l]
          BY <3>2
        <4>2. j = b + info.positions[l]
          BY <1>1, <2>0, <2>1, <4>1
        <4> QED
          BY <4>2 DEF PixelBits
      <3> QED
        BY <3>1, <3>2
    <2>2. ASSUME NEW i \in 0 .. Bits - 1 PROVE i \in Seen(R, pos[k]) <=> i \in SharedBits(c, k)
      <3>1. PICK j \in Nat : j = i + pos[k]
        BY <2>0
      <3>2. i \in Seen(R, pos[k]) <=> j \in R
        <4>1. ASSUME NEW r \in R, i = r - pos[k] PROVE r = j
          BY <1>3, <2>0, <3>1, <4>1
        <4>2. i = j - pos[k]
          BY <2>0, <3>1
        <4> QED
          BY <4>1, <4>2 DEF Seen
      <3>3. i \in SharedBits(c, k) <=> j < info.bpp * Bits /\ \E l \in 1 .. 3 : j - pos[l] \in BitsOf(c[l])
        BY <1>1, <3>1 DEF SharedBits
      <3> QED
        BY <1>3, <2>1, <3>1, <3>2, <3>3
    <2>3. Seen(R, pos[k]) \subseteq 0 .. Bits - 1 /\ SharedBits(c, k) \subseteq 0 .. Bits - 1
      BY DEF Seen, SharedBits
    <2> QED
      BY <2>2, <2>3
  <1>5. DecodeUnknown(EncodeUnknown(c)) = [k \in 1 .. 3 |-> Number(Seen(R, pos[k]))]
    BY <1>1, <1>2 DEF DecodeUnknown, Raw, Seen
  <1> QED
    BY <1>4, <1>5
LEMMA ApartKept ==
  ASSUME info \in Formats, Apart, NEW c \in Colour
  PROVE  [k \in 1 .. 3 |-> Number(SharedBits(c, k))] = c
  <1>0. Bits \in Nat /\ info.bpp \in Nat
    BY SizeAssumption, TheFormat
  <1>1. PICK pos : pos = info.positions /\ pos \in [1 .. 3 -> Nat]
    BY TheFormat
  <1>2. PICK all \in Nat : all = info.bpp * Bits
    BY <1>0
  <1>3. ASSUME NEW k \in 1 .. 3 PROVE SharedBits(c, k) = BitsOf(c[k])
    <2>1. ASSUME NEW i \in 0 .. Bits - 1 PROVE i \in SharedBits(c, k) <=> i \in BitsOf(c[k])
      <3>1. PICK j \in Nat : j = i + pos[k] /\ pos[k] \in Nat
        BY <1>1
      <3>2. i \in SharedBits(c, k) <=> j < all /\ \E l \in 1 .. 3 : j - pos[l] \in BitsOf(c[l])
        BY <1>1, <1>2, <3>1 DEF SharedBits
      <3>3. j < all /\ j - pos[k] = i
        BY <1>0, <1>1, <1>2, <3>1 DEF Apart
      <3>4. ASSUME NEW l \in 1 .. 3, j - pos[l] \in BitsOf(c[l]) PROVE l = k
        <4>1. j - pos[l] \in 0 .. Bits - 1 /\ pos[l] \in Nat
          BY <1>1, <3>4 DEF BitsOf
        <4>2. l # k => pos[k] + Bits <= pos[l] \/ pos[l] + Bits <= pos[k]
          BY <1>1 DEF Apart
        <4> QED
          BY <1>0, <3>1, <4>1, <4>2
      <3> QED
        BY <3>2, <3>3, <3>4
    <2>2. SharedBits(c, k) \subseteq 0 .. Bits - 1 /\ BitsOf(c[k]) \subseteq 0 .. Bits - 1
      BY DEF SharedBits, BitsOf
    <2> QED
      BY <2>1, <2>2
  <1>4. ASSUME NEW k \in 1 .. 3 PROVE Number(SharedBits(c, k)) = c[k]
    <2>1. c[k] \in Byte
      BY DEF Colour
    <2> QED
      BY <1>3, <2>1, NumberOfBits
  <1>5. c = [k \in 1 .. 3 |-> c[k]]
    BY DEF Colour
  <1> QED
    BY <1>4, <1>5

\* In every format: what is read back of a colour is what the display shows of it.
LEMMA ShownIsRead ==
  ASSUME info \in Formats, NEW c \in Colour
  PROVE  Decode(Encode(c)) = Shown(c)
  <1>0. c = <<c[1], c[2], c[3]>>
    BY DEF Colour
  <1>1. CASE info.format = "Rgb"
    <2>1. Shown(c) = c
      BY <1>1, ChannelsKept
    <2> QED
      BY <1>0, <1>1, <2>1, EncodeRgb, DecodeCases
  <1>2. CASE info.format = "Bgr"
    <2>1. Shown(c) = c
      BY <1>2, ChannelsKept
    <2> QED
      BY <1>0, <1>2, <2>1, EncodeBgr, DecodeCases
  <1>3. CASE info.format = "U8"
    <2>1. PICK grey : grey = (c[1] + c[2] + c[3]) \div 3
      OBVIOUS
    <2>2. Shown(c) = <<grey, grey, grey>>
      BY <1>3, <2>1 DEF Shown
    <2>3. Decode(<<grey>>) = <<grey, grey, grey>>
      BY <1>3, DecodeCases
    <2> QED
      BY <1>3, <2>1, <2>2, <2>3, EncodeU8
  <1>4. CASE info.format = "Unknown"
    <2>1. Shown(c) = IF Apart THEN c ELSE [k \in 1 .. 3 |-> Number(SharedBits(c, k))]
      BY <1>4 DEF Shown
    <2>2. Decode(Encode(c)) = [k \in 1 .. 3 |-> Number(SharedBits(c, k))]
      BY <1>4, UnknownShown, DecodeCases, EncodeOther
    <2> QED
      BY <2>1, <2>2, ApartKept
  <1> QED
    BY <1>1, <1>2, <1>3, <1>4, TheFormat

\* In every format: a colour that has been read is shown as it is.
LEMMA ShownAgain ==
  ASSUME info \in Formats, NEW bytes \in [1 .. info.bpp -> Byte]
  PROVE  Shown(Decode(bytes)) = Decode(bytes)
  <1>0. Decode(bytes) \in Colour /\ Shown(Decode(bytes)) = Decode(Encode(Decode(bytes)))
    BY DecodeType, ShownIsRead
  <1>1. CASE info.format = "Rgb"
    BY <1>0, <1>1, EncodeRgb, DecodeCases
  <1>2. CASE info.format = "Bgr"
    BY <1>0, <1>2, EncodeBgr, DecodeCases
  <1>3. CASE info.format = "U8"
    <2>1. PICK v : v = bytes[1] /\ v \in Nat
      BY TheFormat DEF Byte
    <2>2. Decode(bytes) = <<v, v, v>>
      BY <1>3, <2>1, DecodeCases
    <2>3. Encode(<<v, v, v>>) = <<(v + v + v) \div 3>>
      BY <1>3, EncodeU8
    <2>4. (v + v + v) \div 3 = v
      BY <2>1
    <2> QED
      BY <1>0, <1>3, <2>2, <2>3, <2>4, DecodeCases
  <1>4. CASE info.format = "Unknown"
    BY <1>0, <1>4, UnknownAgain, DecodeCases, EncodeOther
  <1> QED
    BY <1>1, <1>2, <1>3, <1>4, TheFormat

-----------------------------------------------------------------------------
\* The number of bytes of the buffer, and the number of the pixel p in it.
Size == Stride * Height * info.bpp
Place(p) == p[2] * Stride + p[1]

\* The coordinates of a pixel.
LEMMA PixelCoordinates ==
  ASSUME NEW p \in Pixel
  PROVE  p[1] \in 0 .. Width - 1 /\ p[2] \in 0 .. Height - 1 /\ p = <<p[1], p[2]>>
  BY DEF Pixel

\* A pixel is in its row of the buffer, before the padding.
LEMMA PlaceInRow ==
  ASSUME NEW p \in Pixel
  PROVE  /\ Place(p) \in Nat
         /\ p[2] * Stride <= Place(p)
         /\ Place(p) + 1 <= p[2] * Stride + Width
         /\ Place(p) + 1 <= (p[2] + 1) * Stride
  <1>1. p[1] \in 0 .. Width - 1 /\ p[2] \in Nat /\ Stride \in Nat /\ Width <= Stride /\ Width \in Nat
    BY PixelCoordinates, SizeAssumption
  <1>2. p[2] * Stride \in Nat /\ (p[2] + 1) * Stride = p[2] * Stride + Stride
    BY <1>1
  <1> QED
    BY <1>1, <1>2 DEF Place

\* Rows follow one another.
LEMMA RowsApart ==
  ASSUME NEW a \in Nat, NEW b \in Nat, a < b
  PROVE  (a + 1) * Stride <= b * Stride /\ (a + 1) * Stride \in Nat /\ b * Stride \in Nat
  <1>1. Stride \in Nat /\ a + 1 \in Nat /\ a + 1 <= b
    BY SizeAssumption
  <1> QED
    BY <1>1, Multiply

\* No two pixels have the same place.
LEMMA PlacesDiffer ==
  ASSUME NEW p \in Pixel, NEW q \in Pixel, p # q
  PROVE  Place(p) < Place(q) \/ Place(q) < Place(p)
  <1>0. /\ p[1] \in Int /\ q[1] \in Int /\ p[2] \in Nat /\ q[2] \in Nat
        /\ Place(p) \in Nat /\ Place(q) \in Nat
    BY PixelCoordinates, PlaceInRow, SizeAssumption
  <1>1. CASE p[2] < q[2]
    <2>1. (p[2] + 1) * Stride <= q[2] * Stride /\ (p[2] + 1) * Stride \in Nat /\ q[2] * Stride \in Nat
      BY <1>0, <1>1, RowsApart
    <2> QED
      BY <1>0, <2>1, PlaceInRow
  <1>2. CASE q[2] < p[2]
    <2>1. (q[2] + 1) * Stride <= p[2] * Stride /\ (q[2] + 1) * Stride \in Nat /\ p[2] * Stride \in Nat
      BY <1>0, <1>2, RowsApart
    <2> QED
      BY <1>0, <2>1, PlaceInRow
  <1>3. CASE p[2] = q[2]
    <2>1. p[1] # q[1]
      BY <1>3, PixelCoordinates
    <2>2. q[2] * Stride \in Nat
      BY <1>0, SizeAssumption
    <2> QED
      BY <1>0, <1>3, <2>1, <2>2 DEF Place
  <1> QED
    BY <1>0, <1>1, <1>2, <1>3

\* Bytes of what lies further on come later.
LEMMA BytesInOrder ==
  ASSUME info \in Formats, NEW m \in Nat, NEW n \in Nat, m + 1 <= n
  PROVE  m * info.bpp + info.bpp <= n * info.bpp /\ m * info.bpp \in Nat /\ n * info.bpp \in Nat
  <1>1. info.bpp \in Nat /\ m + 1 \in Nat
    BY TheFormat
  <1>2. (m + 1) * info.bpp <= n * info.bpp /\ n * info.bpp \in Nat
    BY <1>1, Multiply
  <1>3. (m + 1) * info.bpp = m * info.bpp + info.bpp /\ m * info.bpp \in Nat
    <2>1. \A c \in Nat : (m + 1) * c = m * c + c /\ m * c \in Nat
      OBVIOUS
    <2> QED
      BY <1>1, <2>1
  <1> QED
    BY <1>2, <1>3

\* No two pixels share a byte.
LEMMA PixelsApart ==
  ASSUME info \in Formats, NEW p \in Pixel, NEW q \in Pixel, NEW o \in Int,
         o - Offset(p) \in 1 .. info.bpp, o - Offset(q) \in 1 .. info.bpp
  PROVE  p = q
  <1>1. Offset(p) = Place(p) * info.bpp /\ Offset(q) = Place(q) * info.bpp
    BY DEF Offset, Place
  <1>2. Place(p) \in Nat /\ Place(q) \in Nat /\ info.bpp \in Nat
    BY PlaceInRow, TheFormat
  <1>3. Offset(p) \in Nat /\ Offset(q) \in Nat
    BY <1>1, <1>2
  <1>4. ~(Place(p) < Place(q))
    <2>1. SUFFICES ASSUME Place(p) < Place(q) PROVE FALSE
      OBVIOUS
    <2>2. Offset(p) + info.bpp <= Offset(q)
      BY <1>1, <1>2, <2>1, BytesInOrder
    <2> QED
      BY <1>2, <1>3, <2>2
  <1>5. ~(Place(q) < Place(p))
    <2>1. SUFFICES ASSUME Place(q) < Place(p) PROVE FALSE
      OBVIOUS
    <2>2. Offset(q) + info.bpp <= Offset(p)
      BY <1>1, <1>2, <2>1, BytesInOrder
    <2> QED
      BY <1>2, <1>3, <2>2
  <1> QED
    BY <1>4, <1>5, PlacesDiffer

\* The bytes of a pixel are in the buffer.
LEMMA PixelInBuffer ==
  ASSUME info \in Formats, NEW p \in Pixel
  PROVE  Size \in Nat /\ Offset(p) \in Nat /\ Offset(p) + info.bpp <= Size
  <1>1. Height \in Nat /\ Stride \in Nat /\ p[2] \in Nat /\ p[2] < Height /\ info.bpp \in Nat
    BY PixelCoordinates, SizeAssumption, TheFormat
  <1>2. (p[2] + 1) * Stride <= Height * Stride /\ (p[2] + 1) * Stride \in Nat /\ Height * Stride \in Nat
    BY <1>1, RowsApart
  <1>3. Place(p) \in Nat /\ Place(p) + 1 <= Height * Stride
    BY <1>2, PlaceInRow
  <1>4. Place(p) * info.bpp + info.bpp <= (Height * Stride) * info.bpp
        /\ Place(p) * info.bpp \in Nat /\ (Height * Stride) * info.bpp \in Nat
    BY <1>2, <1>3, BytesInOrder
  <1>5. Size = (Height * Stride) * info.bpp
    BY <1>1 DEF Size
  <1> QED
    BY <1>4, <1>5 DEF Offset, Place

\* The bytes between rows are in the buffer and are those of no pixel.
LEMMA PaddingApart ==
  ASSUME info \in Formats, NEW y \in 0 .. Height - 1,
         NEW o \in Offset(<<Width, y>>) + 1 .. Offset(<<0, y + 1>>)
  PROVE  /\ o \in 1 .. Size
         /\ \A p \in Pixel : o - Offset(p) \notin 1 .. info.bpp
  <1>0. Height \in Nat /\ Stride \in Nat /\ Width \in Nat /\ Width <= Stride /\ y \in Nat /\ y < Height
        /\ info.bpp \in Nat
    BY SizeAssumption, TheFormat
  <1>1. PICK from \in Nat, to \in Nat :
          /\ from = y * Stride + Width /\ to = (y + 1) * Stride /\ from <= to
          /\ y * Stride \in Nat
    <2>1. y * Stride \in Nat /\ (y + 1) * Stride = y * Stride + Stride
      BY <1>0
    <2> QED
      BY <1>0, <2>1
  <1>2. Offset(<<Width, y>>) = from * info.bpp /\ Offset(<<0, y + 1>>) = to * info.bpp
    BY <1>0, <1>1 DEF Offset
  <1>3. from * info.bpp \in Nat /\ to * info.bpp \in Nat
    BY <1>0, <1>1
  <1>4. o \in Int /\ from * info.bpp < o /\ o <= to * info.bpp
    BY <1>2, <1>3
  <1>5. o \in 1 .. Size
    <2>1. to <= Height * Stride /\ Height * Stride \in Nat
      BY <1>0, <1>1, RowsApart
    <2>2. to * info.bpp <= (Height * Stride) * info.bpp /\ (Height * Stride) * info.bpp \in Nat
      BY <1>0, <1>1, <2>1, Multiply
    <2>3. Size = (Height * Stride) * info.bpp
      BY <1>0 DEF Size
    <2> QED
      BY <1>3, <1>4, <2>2, <2>3
  <1>6. ASSUME NEW p \in Pixel, o - Offset(p) \in 1 .. info.bpp PROVE FALSE
    <2>0. p[2] \in Nat /\ Place(p) \in Nat /\ Offset(p) = Place(p) * info.bpp
      BY PixelCoordinates, PlaceInRow, SizeAssumption DEF Offset, Place
    <2>1. Offset(p) \in Nat
      BY <1>0, <2>0
    <2>2. CASE p[2] <= y
      <3>1. Place(p) + 1 <= from
        <4>1. CASE p[2] = y
          BY <1>1, <4>1, PlaceInRow
        <4>2. CASE p[2] < y
          <5>1. (p[2] + 1) * Stride <= y * Stride /\ (p[2] + 1) * Stride \in Nat
            BY <1>0, <2>0, <4>2, RowsApart
          <5> QED
            BY <1>0, <1>1, <2>0, <5>1, PlaceInRow
        <4> QED
          BY <1>0, <2>0, <2>2, <4>1, <4>2
      <3>2. Offset(p) + info.bpp <= from * info.bpp
        BY <1>1, <2>0, <3>1, BytesInOrder
      <3> QED
        BY <1>0, <1>3, <1>4, <1>6, <2>1, <3>2
    <2>3. CASE y < p[2]
      <3>1. to <= Place(p)
        <4>1. to <= p[2] * Stride /\ p[2] * Stride \in Nat
          BY <1>0, <1>1, <2>0, <2>3, RowsApart
        <4> QED
          BY <1>1, <2>0, <4>1, PlaceInRow
      <3>2. to * info.bpp <= Offset(p)
        BY <1>0, <1>1, <2>0, <3>1, Multiply
      <3> QED
        BY <1>0, <1>3, <1>4, <1>6, <2>1, <3>2
    <2> QED
      BY <1>0, <2>0, <2>2, <2>3
  <1> QED
    BY <1>5, <1>6

-----------------------------------------------------------------------------
\* A buffer, and the length of it.
Buffer == [1 .. Size -> Byte]
LEMMA BufferLength ==
  ASSUME info \in Formats, NEW b \in Buffer
  PROVE  Len(b) = Size /\ Size \in Nat
  <1>1. Stride \in Nat /\ Height \in Nat /\ info.bpp \in Nat
    BY SizeAssumption, TheFormat
  <1>2. Size \in Nat
    BY <1>1 DEF Size
  <1>3. PICK n \in Nat : n = Size
    BY <1>2
  <1>4. b \in [1 .. n -> Byte]
    BY <1>3 DEF Buffer
  <1>5. Len(b) = n
    BY <1>4
  <1> QED
    BY <1>3, <1>5

\* What a put_pixel draws is on the screen.
LEMMA InRange ==
  ASSUME info \in Formats, NEW b \in Buffer, NEW p \in Nat \X Nat
  PROVE  ~OutOfRange(b, p) <=> p \in Pixel
  <1>0. Width \in Nat /\ Height \in Nat
    BY SizeAssumption
  <1>1. p[1] \in Nat /\ p[2] \in Nat /\ p = <<p[1], p[2]>>
    OBVIOUS
  <1>2. p \in Pixel <=> p[1] < Width /\ p[2] < Height
    BY <1>0, <1>1 DEF Pixel
  <1>3. CASE p \in Pixel
    <2>1. ~(Offset(p) + info.bpp > Len(b))
      <3>1. Offset(p) \in Nat /\ Offset(p) + info.bpp <= Size /\ Size \in Nat
        BY <1>3, PixelInBuffer
      <3>2. info.bpp \in Nat /\ Len(b) = Size
        BY BufferLength, TheFormat
      <3> QED
        BY <3>1, <3>2
    <2> QED
      BY <1>0, <1>1, <1>2, <1>3, <2>1 DEF OutOfRange
  <1>4. CASE p \notin Pixel
    BY <1>0, <1>1, <1>2, <1>4 DEF OutOfRange
  <1> QED
    BY <1>3, <1>4

\* What Write makes of a buffer: the bytes of the pixels drawn are those of their
\* colours, and all others, also those between the rows, are as they were.
Written(b, colour, new) ==
  /\ new \in Buffer
  /\ \A p \in Pixel : \A i \in 1 .. info.bpp :
       new[Offset(p) + i] = IF p \in DOMAIN colour THEN Encode(colour[p])[i] ELSE b[Offset(p) + i]
  /\ \A o \in 1 .. Size :
       (\A p \in Pixel : o - Offset(p) \notin 1 .. info.bpp) => new[o] = b[o]

LEMMA WriteWrites ==
  ASSUME info \in Formats, NEW b \in Buffer, NEW colour,
         DOMAIN colour \subseteq Pixel, \A p \in DOMAIN colour : colour[p] \in Colour
  PROVE  Written(b, colour, Write(b, colour))
  <1>0. Len(b) = Size /\ Size \in Nat /\ info.bpp \in Nat
    BY BufferLength, TheFormat
  <1> DEFINE at(o) == {p \in DOMAIN colour : o - Offset(p) \in 1 .. info.bpp}
             byte(o) == IF at(o) = {} THEN b[o]
                        ELSE Encode(colour[CHOOSE p \in at(o) : TRUE])[o - Offset(CHOOSE p \in at(o) : TRUE)]
  <1>1. PICK new : new = Write(b, colour) /\ new = [o \in 1 .. Size |-> byte(o)]
    BY <1>0 DEF Write
  <1>2. ASSUME NEW o \in 1 .. Size, NEW p \in at(o)
        PROVE  byte(o) = Encode(colour[p])[o - Offset(p)]
    <2>1. PICK q : q = CHOOSE p_1 \in at(o) : TRUE
      OBVIOUS
    <2>2. q \in at(o)
      BY <2>1
    <2>3. q = p
      <3>1. /\ q \in Pixel /\ o - Offset(q) \in 1 .. info.bpp
            /\ p \in Pixel /\ o - Offset(p) \in 1 .. info.bpp /\ o \in Int
        BY <2>2
      <3> QED
        BY <3>1, PixelsApart
    <2>4. at(o) # {}
      BY <2>2
    <2> QED
      BY <2>1, <2>3, <2>4
  <1>3. ASSUME NEW o \in 1 .. Size, at(o) = {} PROVE byte(o) = b[o]
    BY <1>3
  <1>4. ASSUME NEW o \in 1 .. Size PROVE byte(o) \in Byte
    <2>1. CASE at(o) = {}
      BY <1>3, <2>1 DEF Buffer
    <2>2. CASE at(o) # {}
      <3>1. PICK p \in at(o) : TRUE
        BY <2>2
      <3>2. o - Offset(p) \in 1 .. info.bpp /\ Encode(colour[p]) \in [1 .. info.bpp -> Byte]
        BY <3>1, EncodeType
      <3> QED
        BY <1>2, <3>1, <3>2
    <2> QED
      BY <2>1, <2>2
  <1> HIDE DEF byte
  <1>5. new \in Buffer
    BY <1>1, <1>4 DEF Buffer
  <1>6. ASSUME NEW p \in Pixel, NEW i \in 1 .. info.bpp
        PROVE  new[Offset(p) + i] = IF p \in DOMAIN colour THEN Encode(colour[p])[i] ELSE b[Offset(p) + i]
    <2>1. PICK o \in 1 .. Size : o = Offset(p) + i /\ o - Offset(p) = i
      <3>1. Offset(p) \in Nat /\ Offset(p) + info.bpp <= Size
        BY PixelInBuffer
      <3> QED
        BY <1>0, <3>1
    <2>2. new[o] = byte(o)
      BY <1>1
    <2>3. CASE p \in DOMAIN colour
      <3>1. p \in at(o)
        BY <2>1, <2>3
      <3> QED
        BY <1>2, <2>1, <2>2, <2>3, <3>1
    <2>4. CASE p \notin DOMAIN colour
      <3>1. at(o) = {}
        <4>1. ASSUME NEW q \in at(o) PROVE FALSE
          <5>1. q \in Pixel /\ o - Offset(q) \in 1 .. info.bpp /\ o - Offset(p) \in 1 .. info.bpp /\ o \in Int
            BY <2>1
          <5>2. q = p
            BY <5>1, PixelsApart
          <5> QED
            BY <2>4, <5>2
        <4> QED
          BY <4>1
      <3> QED
        BY <1>3, <2>1, <2>2, <2>4, <3>1
    <2> QED
      BY <2>3, <2>4
  <1>7. ASSUME NEW o \in 1 .. Size, \A p \in Pixel : o - Offset(p) \notin 1 .. info.bpp
        PROVE  new[o] = b[o]
    <2>1. at(o) = {}
      BY <1>7
    <2> QED
      BY <1>1, <1>3, <2>1
  <1> QED
    BY <1>1, <1>5, <1>6, <1>7 DEF Written

-----------------------------------------------------------------------------
\* Functions are equal if their values are.
LEMMA SameFunction ==
  ASSUME NEW S, NEW T, NEW f \in [S -> T], NEW g \in [S -> T], \A x \in S : f[x] = g[x]
  PROVE  f = g
  OBVIOUS

\* Reading a pixel.
LEMMA ReadPixel ==
  ASSUME info \in Formats, NEW b \in Buffer, NEW p \in Pixel
  PROVE  \E bytes \in [1 .. info.bpp -> Byte] :
           /\ bytes = [i \in 1 .. info.bpp |-> b[Offset(p) + i]]
           /\ read_pixel(b, p) = Decode(bytes)
  <1>1. PICK bytes : bytes = [i \in 1 .. info.bpp |-> b[Offset(p) + i]]
    OBVIOUS
  <1>2. ASSUME NEW i \in 1 .. info.bpp PROVE b[Offset(p) + i] \in Byte
    <2>1. Offset(p) \in Nat /\ Offset(p) + info.bpp <= Size /\ Size \in Nat /\ info.bpp \in Nat
      BY PixelInBuffer, TheFormat
    <2>2. Offset(p) + i \in 1 .. Size
      BY <2>1
    <2> QED
      BY <2>2 DEF Buffer
  <1>3. bytes \in [1 .. info.bpp -> Byte]
    BY <1>1, <1>2
  <1>4. p \in Nat \X Nat
    BY SizeAssumption DEF Pixel
  <1>5. ~OutOfRange(b, p)
    BY <1>4, InRange
  <1>6. read_pixel(b, p) = Decode(bytes)
    BY <1>1, <1>5 DEF read_pixel
  <1> QED
    BY <1>1, <1>3, <1>6

\* A drawn buffer, pixel by pixel.
Drawn(b, colour, new) ==
  /\ new \in Buffer
  /\ \A p \in Pixel :
       read_pixel(new, p) = IF p \in DOMAIN colour THEN Shown(colour[p]) ELSE read_pixel(b, p)
  /\ \A o \in 1 .. Size :
       (\A p \in Pixel : o - Offset(p) \notin 1 .. info.bpp) => new[o] = b[o]

\* Writing the bytes of a colour is drawing it.
LEMMA WriteDraws ==
  ASSUME info \in Formats, NEW b \in Buffer, NEW colour,
         DOMAIN colour \subseteq Pixel, \A p \in DOMAIN colour : colour[p] \in Colour
  PROVE  Drawn(b, colour, Write(b, colour))
  <1>1. PICK new : new = Write(b, colour) /\ Written(b, colour, new)
    BY WriteWrites
  <1>2. new \in Buffer
    BY <1>1 DEF Written
  <1>3. ASSUME NEW p \in Pixel
        PROVE  read_pixel(new, p) = IF p \in DOMAIN colour THEN Shown(colour[p]) ELSE read_pixel(b, p)
    <2>1. PICK bytes \in [1 .. info.bpp -> Byte] :
            bytes = [i \in 1 .. info.bpp |-> new[Offset(p) + i]] /\ read_pixel(new, p) = Decode(bytes)
      BY <1>2, ReadPixel
    <2>2. CASE p \in DOMAIN colour
      <3>1. Encode(colour[p]) \in [1 .. info.bpp -> Byte]
        BY <2>2, EncodeType
      <3>2. \A i \in 1 .. info.bpp : bytes[i] = Encode(colour[p])[i]
        BY <1>1, <2>1, <2>2 DEF Written
      <3>3. bytes = Encode(colour[p])
        BY <2>1, <3>1, <3>2, SameFunction, Zenon
      <3> QED
        BY <2>1, <2>2, <3>3, ShownIsRead
    <2>3. CASE p \notin DOMAIN colour
      <3>1. PICK old \in [1 .. info.bpp -> Byte] :
              old = [i \in 1 .. info.bpp |-> b[Offset(p) + i]] /\ read_pixel(b, p) = Decode(old)
        BY ReadPixel
      <3>2. \A i \in 1 .. info.bpp : bytes[i] = old[i]
        BY <1>1, <2>1, <2>3, <3>1 DEF Written
      <3>3. bytes = old
        BY <2>1, <3>1, <3>2, SameFunction, Zenon
      <3> QED
        BY <2>1, <2>3, <3>1, <3>3
    <2> QED
      BY <2>2, <2>3
  <1> QED
    BY <1>1, <1>2, <1>3 DEF Drawn, Written

\* So do calls of put_pixel, for the pixels that are on the screen.
LEMMA PutEachDraws ==
  ASSUME info \in Formats, NEW b \in Buffer, NEW colour,
         DOMAIN colour \subseteq Nat \X Nat, \A p \in DOMAIN colour : colour[p] \in Colour
  PROVE  Drawn(b, colour, PutEach(b, colour))
  <1>1. {q \in DOMAIN colour : ~OutOfRange(b, q)} = DOMAIN colour \cap Pixel
    BY InRange
  <1>2. PICK seen : seen = [p \in DOMAIN colour \cap Pixel |-> colour[p]]
    OBVIOUS
  <1>3. PutEach(b, colour) = Write(b, seen)
    BY <1>1, <1>2 DEF PutEach
  <1>4. DOMAIN seen = DOMAIN colour \cap Pixel /\ \A p \in DOMAIN seen : seen[p] = colour[p] /\ seen[p] \in Colour
    BY <1>2
  <1>5. Drawn(b, seen, Write(b, seen))
    BY <1>4, WriteDraws
  <1> QED
    BY <1>3, <1>4, <1>5 DEF Drawn

\* Drawing in one colour.
Filled(b, ps, c, new) ==
  /\ new \in Buffer
  /\ \A p \in Pixel : read_pixel(new, p) = IF p \in ps THEN Shown(c) ELSE read_pixel(b, p)
  /\ \A o \in 1 .. Size :
       (\A p \in Pixel : o - Offset(p) \notin 1 .. info.bpp) => new[o] = b[o]
LEMMA PutAllFills ==
  ASSUME info \in Formats, NEW b \in Buffer, NEW c \in Colour, NEW ps, ps \subseteq Nat \X Nat
  PROVE  Filled(b, ps, c, PutAll(b, ps, c))
  <1>0. PICK colour : colour = [p \in ps |-> c]
    OBVIOUS
  <1>1. DOMAIN colour = ps /\ \A p \in ps : colour[p] = c
    BY <1>0
  <1>2. Drawn(b, colour, PutEach(b, colour))
    BY <1>1, PutEachDraws
  <1> QED
    BY <1>0, <1>1, <1>2 DEF PutAll, Drawn, Filled

\* Putting a pixel back.
LEMMA Restored ==
  ASSUME info \in Formats, NEW b \in Buffer, NEW p \in Pixel, NEW q \in Pixel
  PROVE  read_pixel(put_pixel(put_pixel(b, p, <<0, 0, 0>>), p, read_pixel(b, p)), q) = read_pixel(b, q)
  <1>1. {p} \subseteq Nat \X Nat
    BY SizeAssumption DEF Pixel
  <1>2. PICK black : black = <<0, 0, 0>> /\ black \in Colour
    <2>1. 0 \in Byte
      BY NumberFits DEF Byte
    <2> QED
      BY <2>1, Tuples DEF Colour
  <1>3. PICK c : c = read_pixel(b, p) /\ c \in Colour /\ Shown(c) = c
    <2>1. PICK bytes \in [1 .. info.bpp -> Byte] : read_pixel(b, p) = Decode(bytes)
      BY ReadPixel
    <2> QED
      BY <2>1, DecodeType, ShownAgain
  <1>4. PICK b1 : b1 = put_pixel(b, p, black) /\ Filled(b, {p}, black, b1)
    BY <1>1, <1>2, PutAllFills DEF put_pixel
  <1>5. b1 \in Buffer
    BY <1>4 DEF Filled
  <1>6. PICK b2 : b2 = put_pixel(b1, p, c) /\ Filled(b1, {p}, c, b2)
    BY <1>1, <1>3, <1>5, PutAllFills DEF put_pixel
  <1>7. read_pixel(b2, q) = read_pixel(b, q)
    BY <1>3, <1>4, <1>6 DEF Filled
  <1> QED
    BY <1>2, <1>3, <1>4, <1>6, <1>7

-----------------------------------------------------------------------------
\* The smaller and the larger of two numbers.
LEMMA MinOfTwo ==
  ASSUME NEW a \in Int, NEW b \in Int
  PROVE  Min({a, b}) = IF a <= b THEN a ELSE b
  <1>1. CASE a <= b
    <2>1. \A x \in {a, b} : (\A y \in {a, b} : x <= y) <=> x = a
      BY <1>1
    <2> QED
      BY <1>1, <2>1 DEF Min
  <1>2. CASE ~(a <= b)
    <2>1. \A x \in {a, b} : (\A y \in {a, b} : x <= y) <=> x = b
      BY <1>2
    <2> QED
      BY <1>2, <2>1 DEF Min
  <1> QED
    BY <1>1, <1>2
LEMMA MaxOfTwo ==
  ASSUME NEW a \in Int, NEW b \in Int
  PROVE  Max({a, b}) = IF a >= b THEN a ELSE b
  <1>1. CASE a >= b
    <2>1. \A x \in {a, b} : (\A y \in {a, b} : x >= y) <=> x = a
      BY <1>1
    <2> QED
      BY <1>1, <2>1 DEF Max
  <1>2. CASE ~(a >= b)
    <2>1. \A x \in {a, b} : (\A y \in {a, b} : x >= y) <=> x = b
      BY <1>2
    <2> QED
      BY <1>2, <2>1 DEF Max
  <1> QED
    BY <1>1, <1>2

\* What is left over.
LEMMA Remainder ==
  ASSUME NEW a \in Nat, NEW d \in Nat \ {0}, NEW m \in Nat, m = a \div d
  PROVE  a % d = a - m * d
  OBVIOUS

\* Division keeps order, and gives back what was multiplied.
LEMMA DivideInOrder ==
  ASSUME NEW a \in Nat, NEW b \in Nat, NEW d \in Nat \ {0}, a <= b
  PROVE  a \div d <= b \div d
  <1>1. PICK m \in Nat, n \in Nat : m = a \div d /\ n = b \div d
    BY Divide
  <1>2. m * d <= a /\ b < n * d + d /\ m * d \in Nat /\ n * d \in Nat
    BY <1>1, Divide
  <1>3. SUFFICES ASSUME n + 1 <= m PROVE FALSE
    BY <1>1
  <1>4. (n + 1) * d <= m * d /\ (n + 1) * d = n * d + d
    BY <1>3, Multiply
  <1> QED
    BY <1>2, <1>4
LEMMA DivideProduct ==
  ASSUME NEW a \in Nat, NEW d \in Nat \ {0}
  PROVE  (a * d) \div d = a
  <1>0. a * d \in Nat
    OBVIOUS
  <1>1. PICK m \in Nat : m = (a * d) \div d
    BY <1>0, Divide
  <1>2. m * d <= a * d /\ a * d < m * d + d /\ m * d \in Nat /\ a * d \in Nat
    BY <1>0, <1>1, Divide
  <1>3. ~(a + 1 <= m)
    <2>1. SUFFICES ASSUME a + 1 <= m PROVE FALSE
      OBVIOUS
    <2>2. (a + 1) * d <= m * d /\ (a + 1) * d = a * d + d
      BY <2>1, Multiply
    <2> QED
      BY <1>2, <2>2
  <1>4. ~(m + 1 <= a)
    <2>1. SUFFICES ASSUME m + 1 <= a PROVE FALSE
      OBVIOUS
    <2>2. (m + 1) * d <= a * d /\ (m + 1) * d = m * d + d
      BY <2>1, Multiply
    <2> QED
      BY <1>2, <2>2
  <1> QED
    BY <1>1, <1>3, <1>4

\* The share of a difference that lerp_u8 adds or takes away.
LEMMA Share ==
  ASSUME NEW n \in Nat, NEW t \in 0 .. MaxByte
  PROVE  /\ (n * t) \div MaxByte \in 0 .. n
         /\ (n * 0) \div MaxByte = 0
         /\ (n * MaxByte) \div MaxByte = n
         /\ \A u \in t .. MaxByte : (n * t) \div MaxByte <= (n * u) \div MaxByte
  <1>0. MaxByte \in Nat \ {0} /\ t \in Nat
    BY NumberFits
  <1>1. (n * MaxByte) \div MaxByte = n
    BY <1>0, DivideProduct
  <1>2. (n * 0) \div MaxByte = 0
    <2>1. n * 0 = 0 * MaxByte
      BY <1>0
    <2> QED
      BY <1>0, <2>1, DivideProduct
  <1>3. ASSUME NEW x \in Nat, NEW u \in Nat, x <= u
        PROVE  (n * x) \div MaxByte <= (n * u) \div MaxByte /\ n * x \in Nat
    <2>1. x * n <= u * n /\ x * n \in Nat /\ u * n \in Nat /\ x * n = n * x /\ u * n = n * u
      BY <1>3, Multiply
    <2> QED
      BY <1>0, <2>1, DivideInOrder
  <1>4. (n * t) \div MaxByte <= n /\ (n * t) \div MaxByte \in Nat
    BY <1>0, <1>1, <1>3, Divide
  <1> QED
    BY <1>0, <1>1, <1>2, <1>3, <1>4

\* lerp_u8 runs from one end to the other and never leaves the range of a byte, so
\* that its clamp never acts.
LEMMA Lerp ==
  ASSUME NEW a \in Byte, NEW b \in Byte, NEW t \in 0 .. MaxByte
  PROVE  /\ lerp_u8(a, b, t) \in Byte
         /\ lerp_u8(a, b, 0) = a
         /\ lerp_u8(a, b, MaxByte) = b
         /\ \A u \in t .. MaxByte :
              IF a <= b THEN lerp_u8(a, b, t) <= lerp_u8(a, b, u) ELSE lerp_u8(a, b, t) >= lerp_u8(a, b, u)
  <1>0. a \in Nat /\ b \in Nat /\ MaxByte \in Nat /\ a <= MaxByte /\ b <= MaxByte
    BY NumberFits DEF Byte
  <1>1. CASE a <= b
    <2>1. PICK n \in Nat : n = b - a
      BY <1>0, <1>1
    <2> DEFINE share(u) == (n * u) \div MaxByte
    <2>2. /\ share(t) \in 0 .. n /\ share(0) = 0 /\ share(MaxByte) = n
          /\ \A u \in t .. MaxByte : share(t) <= share(u) /\ share(u) \in Nat
      <3>1. /\ share(t) \in 0 .. n /\ share(0) = 0 /\ share(MaxByte) = n
            /\ \A u \in t .. MaxByte : share(t) <= share(u)
        BY Share
      <3>2. ASSUME NEW u \in t .. MaxByte PROVE share(u) \in Nat
        <4>1. u \in 0 .. MaxByte
          BY <1>0
        <4>2. share(u) \in 0 .. n
          BY <4>1, Share
        <4> QED
          BY <4>2
      <3> HIDE DEF share
      <3> QED
        BY <3>1, <3>2
    <2>3. \A u : lerp_u8(a, b, u) = a + share(u)
      BY <1>0, <1>1, <2>1 DEF lerp_u8
    <2> HIDE DEF share
    <2> QED
      BY <1>0, <1>1, <2>1, <2>2, <2>3 DEF Byte
  <1>2. CASE ~(a <= b)
    <2>1. PICK n \in Nat : n = a - b
      BY <1>0, <1>2
    <2> DEFINE share(u) == (n * u) \div MaxByte
    <2>2. /\ share(t) \in 0 .. n /\ share(0) = 0 /\ share(MaxByte) = n
          /\ \A u \in t .. MaxByte : share(t) <= share(u) /\ share(u) \in Nat
      <3>1. /\ share(t) \in 0 .. n /\ share(0) = 0 /\ share(MaxByte) = n
            /\ \A u \in t .. MaxByte : share(t) <= share(u)
        BY Share
      <3>2. ASSUME NEW u \in t .. MaxByte PROVE share(u) \in Nat
        <4>1. u \in 0 .. MaxByte
          BY <1>0
        <4>2. share(u) \in 0 .. n
          BY <4>1, Share
        <4> QED
          BY <4>2
      <3> HIDE DEF share
      <3> QED
        BY <3>1, <3>2
    <2>3. \A u : lerp_u8(a, b, u) = a - share(u)
      BY <1>0, <1>2, <2>1 DEF lerp_u8
    <2> HIDE DEF share
    <2> QED
      BY <1>0, <1>2, <2>1, <2>2, <2>3 DEF Byte
  <1> QED
    BY <1>1, <1>2

\* How far down row i is, in steps of the gradient.
Down(i) == (i * MaxByte) \div Max({Height - 1, 1})
LEMMA DownRuns ==
  ASSUME NEW i \in 0 .. Height - 1
  PROVE  /\ Down(i) \in 0 .. MaxByte
         /\ Down(0) = 0
         /\ Height > 1 => Down(Height - 1) = MaxByte
         /\ \A j \in i .. Height - 1 : Down(i) <= Down(j) /\ Down(j) \in 0 .. MaxByte
  <1>0. Height \in Nat \ {0} /\ MaxByte \in Nat
    BY SizeAssumption, NumberFits
  <1>1. PICK d \in Nat \ {0} : d = Max({Height - 1, 1}) /\ (Height > 1 => d = Height - 1) /\ Height - 1 <= d
    <2>1. Height - 1 \in Int /\ Max({Height - 1, 1}) = IF Height - 1 >= 1 THEN Height - 1 ELSE 1
      BY <1>0, MaxOfTwo
    <2> QED
      BY <1>0, <2>1
  <1>2. \A n : Down(n) = (n * MaxByte) \div d
    BY <1>1 DEF Down
  <1>3. Down(0) = 0
    <2>1. 0 * MaxByte = 0 * d
      BY <1>0, <1>1
    <2> QED
      BY <1>1, <1>2, <2>1, DivideProduct
  <1>4. (d * MaxByte) \div d = MaxByte
    <2>1. d * MaxByte = MaxByte * d
      BY <1>0, <1>1
    <2> QED
      BY <1>0, <1>1, <2>1, DivideProduct
  <1>5. ASSUME NEW m \in Nat, NEW n \in Nat, m <= n
        PROVE  (m * MaxByte) \div d <= (n * MaxByte) \div d /\ (m * MaxByte) \div d \in Nat
    <2>1. m * MaxByte <= n * MaxByte /\ m * MaxByte \in Nat /\ n * MaxByte \in Nat
      BY <1>0, <1>5, Multiply
    <2> QED
      BY <1>1, <2>1, Divide, DivideInOrder
  <1>6. ASSUME NEW j \in 0 .. Height - 1 PROVE Down(j) \in 0 .. MaxByte
    <2>1. j \in Nat /\ j <= d
      BY <1>0, <1>1
    <2>2. (j * MaxByte) \div d <= (d * MaxByte) \div d /\ (j * MaxByte) \div d \in Nat
      BY <1>1, <1>5, <2>1
    <2> QED
      BY <1>0, <1>2, <1>4, <2>2
  <1>7. \A j \in i .. Height - 1 : Down(i) <= Down(j) /\ Down(j) \in 0 .. MaxByte
    <2> TAKE j \in i .. Height - 1
    <2>1. j \in 0 .. Height - 1 /\ i \in Nat /\ j \in Nat /\ i <= j
      BY <1>0
    <2> QED
      BY <1>2, <1>5, <1>6, <2>1
  <1> QED
    BY <1>1, <1>2, <1>3, <1>4, <1>6, <1>7

\* The colour of a row.
LEMMA RowColours ==
  ASSUME NEW top \in Colour, NEW bottom \in Colour, NEW i \in 0 .. Height - 1
  PROVE  /\ RowColour(top, bottom, i, Height) \in Colour
         /\ \A k \in 1 .. 3 : RowColour(top, bottom, i, Height)[k] = lerp_u8(top[k], bottom[k], Down(i))
  <1>1. RowColour(top, bottom, i, Height) = [k \in 1 .. 3 |-> lerp_u8(top[k], bottom[k], Down(i))]
    BY DEF RowColour, Down
  <1>2. ASSUME NEW k \in 1 .. 3 PROVE lerp_u8(top[k], bottom[k], Down(i)) \in Byte
    <2>1. top[k] \in Byte /\ bottom[k] \in Byte /\ Down(i) \in 0 .. MaxByte
      BY DownRuns DEF Colour
    <2> QED
      BY <2>1, Lerp
  <1> QED
    BY <1>1, <1>2 DEF Colour

\* Colours are equal if their channels are.
LEMMA SameColour ==
  ASSUME NEW c \in Colour, NEW d \in Colour, \A k \in 1 .. 3 : c[k] = d[k]
  PROVE  c = d
  BY DEF Colour

\* The first row has the upper colour and the last one the lower.
LEMMA RowEnds ==
  ASSUME NEW top \in Colour, NEW bottom \in Colour
  PROVE  /\ RowColour(top, bottom, 0, Height) = top
         /\ Height > 1 => RowColour(top, bottom, Height - 1, Height) = bottom
  <1>0. Height \in Nat \ {0} /\ 0 \in 0 .. Height - 1 /\ Height - 1 \in 0 .. Height - 1
        /\ 0 \in 0 .. MaxByte
    BY SizeAssumption, NumberFits
  <1>1. RowColour(top, bottom, 0, Height) = top
    <2>1. PICK c : /\ c = RowColour(top, bottom, 0, Height) /\ c \in Colour
                  /\ \A k \in 1 .. 3 : c[k] = lerp_u8(top[k], bottom[k], Down(0))
      <3>1. \A j \in 0 .. Height - 1 : /\ RowColour(top, bottom, j, Height) \in Colour
              /\ \A k \in 1 .. 3 : RowColour(top, bottom, j, Height)[k] = lerp_u8(top[k], bottom[k], Down(j))
        BY RowColours
      <3> QED
        BY <1>0, <3>1
    <2>2. \A k \in 1 .. 3 : c[k] = top[k]
      <3> TAKE k \in 1 .. 3
      <3>1. top[k] \in Byte /\ bottom[k] \in Byte /\ Down(0) = 0
        BY <1>0, DownRuns DEF Colour
      <3>2. lerp_u8(top[k], bottom[k], 0) = top[k]
        BY <1>0, <3>1, Lerp
      <3>3. c[k] = lerp_u8(top[k], bottom[k], Down(0))
        BY <2>1
      <3> QED
        BY <3>1, <3>2, <3>3
    <2>3. c = top
      BY <2>1, <2>2, SameColour
    <2> QED
      BY <2>1, <2>3
  <1>2. ASSUME Height > 1 PROVE RowColour(top, bottom, Height - 1, Height) = bottom
    <2>1. PICK c : /\ c = RowColour(top, bottom, Height - 1, Height) /\ c \in Colour
                  /\ \A k \in 1 .. 3 : c[k] = lerp_u8(top[k], bottom[k], Down(Height - 1))
      <3>1. \A j \in 0 .. Height - 1 : /\ RowColour(top, bottom, j, Height) \in Colour
              /\ \A k \in 1 .. 3 : RowColour(top, bottom, j, Height)[k] = lerp_u8(top[k], bottom[k], Down(j))
        BY RowColours
      <3> QED
        BY <1>0, <3>1
    <2>2. \A k \in 1 .. 3 : c[k] = bottom[k]
      <3> TAKE k \in 1 .. 3
      <3>1. top[k] \in Byte /\ bottom[k] \in Byte /\ Down(Height - 1) = MaxByte
        BY <1>0, <1>2, DownRuns DEF Colour
      <3>2. lerp_u8(top[k], bottom[k], MaxByte) = bottom[k]
        BY <1>0, <3>1, Lerp
      <3>3. c[k] = lerp_u8(top[k], bottom[k], Down(Height - 1))
        BY <2>1
      <3> QED
        BY <3>1, <3>2, <3>3
    <2>3. c = bottom
      BY <2>1, <2>2, SameColour
    <2> QED
      BY <2>1, <2>3
  <1> QED
    BY <1>1, <1>2

\* And none is out of order.
LEMMA RowsInOrder ==
  ASSUME NEW top \in Colour, NEW bottom \in Colour, NEW i \in 0 .. Height - 1,
         NEW j \in i .. Height - 1, NEW k \in 1 .. 3
  PROVE  IF top[k] <= bottom[k]
           THEN RowColour(top, bottom, i, Height)[k] <= RowColour(top, bottom, j, Height)[k]
           ELSE RowColour(top, bottom, i, Height)[k] >= RowColour(top, bottom, j, Height)[k]
  <1>0. j \in 0 .. Height - 1 /\ MaxByte \in Nat
    BY SizeAssumption, NumberFits
  <1>1. top[k] \in Byte /\ bottom[k] \in Byte
    BY DEF Colour
  <1>2. PICK t, u : t = Down(i) /\ u = Down(j) /\ t \in 0 .. MaxByte /\ u \in t .. MaxByte
    <2>1. Down(i) <= Down(j) /\ Down(i) \in 0 .. MaxByte /\ Down(j) \in 0 .. MaxByte
      BY DownRuns
    <2> QED
      BY <1>0, <2>1
  <1>3. /\ RowColour(top, bottom, i, Height)[k] = lerp_u8(top[k], bottom[k], t)
        /\ RowColour(top, bottom, j, Height)[k] = lerp_u8(top[k], bottom[k], u)
    BY <1>0, <1>2, RowColours
  <1>4. IF top[k] <= bottom[k]
          THEN lerp_u8(top[k], bottom[k], t) <= lerp_u8(top[k], bottom[k], u)
          ELSE lerp_u8(top[k], bottom[k], t) >= lerp_u8(top[k], bottom[k], u)
    <2>1. \A v \in t .. MaxByte :
            IF top[k] <= bottom[k]
              THEN lerp_u8(top[k], bottom[k], t) <= lerp_u8(top[k], bottom[k], v)
              ELSE lerp_u8(top[k], bottom[k], t) >= lerp_u8(top[k], bottom[k], v)
      BY <1>1, <1>2, Lerp
    <2> QED
      BY <1>2, <2>1
  <1> QED
    BY <1>3, <1>4

-----------------------------------------------------------------------------
\* While the format stays, a colour is written, read and shown as before.
LEMMA LaterDecode ==
  ASSUME info' = info, NEW bytes
  PROVE  Decode(bytes)' = Decode(bytes)
  <1>1. PICK raw : raw = UNION {{j + (i - 1) * Bits : j \in BitsOf(bytes[i])} : i \in 1 .. info.bpp}
    OBVIOUS
  <1>2. raw = UNION {{j + (i - 1) * Bits : j \in BitsOf(bytes[i])} : i \in 1 .. info'.bpp}
    BY <1>1
  <1>3. DecodeUnknown(bytes) = [k \in 1 .. 3 |-> Number({j - info.positions[k] : j \in raw} \cap 0 .. Bits - 1)]
    BY <1>1 DEF DecodeUnknown
  <1>4. DecodeUnknown(bytes)' = [k \in 1 .. 3 |-> Number({j - info'.positions[k] : j \in raw} \cap 0 .. Bits - 1)]
    BY <1>2 DEF DecodeUnknown
  <1>5. DecodeUnknown(bytes)' = DecodeUnknown(bytes)
    BY <1>3, <1>4
  <1> QED
    BY <1>5 DEF Decode, ReadBgr
LEMMA Later ==
  ASSUME info' = info
  PROVE  /\ \A p : Offset(p)' = Offset(p)
         /\ \A c : Shown(c)' = Shown(c)
         /\ \A p : read_pixel(buf, p)' = read_pixel(buf', p)
  <1>1. \A p : Offset(p)' = Offset(p)
    BY DEF Offset
  <1>2. ASSUME NEW c PROVE Shown(c)' = Shown(c)
    <2>1. PICK shared : shared = [k \in 1 .. 3 |-> Number(SharedBits(c, k))]
      OBVIOUS
    <2>2. \A k \in 1 .. 3 : SharedBits(c, k)' = SharedBits(c, k)
      BY DEF SharedBits
    <2>3. [k \in 1 .. 3 |-> Number(SharedBits(c, k)')] = shared
      BY <2>1, <2>2
    <2>4. Apart' <=> Apart
      BY DEF Apart
    <2> QED
      BY <2>1, <2>3, <2>4 DEF Shown
  <1>3. ASSUME NEW p PROVE read_pixel(buf, p)' = read_pixel(buf', p)
    <2>1. PICK bytes : bytes = [i \in 1 .. info.bpp |-> buf'[Offset(p) + i]]
      OBVIOUS
    <2>2. bytes = [i \in 1 .. info'.bpp |-> buf'[Offset(p)' + i]]
      BY <1>1, <2>1
    <2>3. OutOfRange(buf, p)' <=> OutOfRange(buf', p)
      BY <1>1 DEF OutOfRange
    <2>4. read_pixel(buf, p)' = IF OutOfRange(buf', p) THEN <<0, 0, 0>> ELSE Decode(bytes)'
      BY <2>2, <2>3 DEF read_pixel
    <2>5. read_pixel(buf', p) = IF OutOfRange(buf', p) THEN <<0, 0, 0>> ELSE Decode(bytes)
      BY <2>1 DEF read_pixel
    <2> QED
      BY <2>4, <2>5, LaterDecode
  <1> QED
    BY <1>1, <1>2, <1>3

-----------------------------------------------------------------------------
\* What the invariant says of the gradient, row by row.
LEMMA GradientShown ==
  ASSUME FbInv
  PROVE  GradientRuns
  <1>1. SUFFICES ASSUME ramp # <<>> PROVE GradientRuns
    BY DEF GradientRuns
  <1>2. PICK top \in Colour, bottom \in Colour : top = ramp[1] /\ bottom = ramp[2]
    BY <1>1 DEF FbInv
  <1> DEFINE row(i) == RowColour(top, bottom, i, Height)
  <1>3. ASSUME NEW p \in Pixel PROVE read_pixel(buf, p) = Shown(row(p[2]))
    <2>1. Gradient(ramp[1], ramp[2])[p] = row(p[2])
      BY <1>2 DEF Gradient
    <2> QED
      BY <1>1, <2>1 DEF FbInv
  <1>4. /\ Width \in Nat \ {0} /\ Height \in Nat \ {0}
        /\ <<0, 0>> \in Pixel /\ <<Width - 1, Height - 1>> \in Pixel
    BY SizeAssumption DEF Pixel
  <1>5. row(0) = top /\ (Height > 1 => row(Height - 1) = bottom)
    BY RowEnds
  <1>6. ASSUME info.format \in {"Rgb", "Bgr"}, NEW p \in Pixel, NEW k \in 1 .. 3
        PROVE  LET above == read_pixel(buf, <<p[1], Max({p[2] - 1, 0})>>)[k]
                   here == read_pixel(buf, p)[k]
               IN  IF top[k] <= bottom[k] THEN above <= here ELSE above >= here
    <2>1. PICK x \in 0 .. Width - 1, y \in 0 .. Height - 1 : p = <<x, y>>
      BY DEF Pixel
    <2>2. PICK i \in 0 .. Height - 1 : i = Max({y - 1, 0}) /\ y \in i .. Height - 1
      <3>1. y - 1 \in Int /\ Max({y - 1, 0}) = IF y - 1 >= 0 THEN y - 1 ELSE 0
        BY <1>4, MaxOfTwo
      <3> QED
        BY <1>4, <3>1
    <2>3. PICK q \in Pixel : q = <<p[1], Max({p[2] - 1, 0})>> /\ q[2] = i
      <3>1. <<x, i>> \in Pixel /\ <<x, i>>[2] = i
        BY DEF Pixel
      <3>2. p[1] = x /\ p[2] = y
        BY <2>1
      <3> QED
        BY <2>2, <3>1, <3>2
    <2>4. ASSUME NEW j \in 0 .. Height - 1 PROVE Shown(row(j)) = row(j)
      BY <1>6, ChannelsKept
    <2>5. read_pixel(buf, q)[k] = row(i)[k] /\ read_pixel(buf, p)[k] = row(y)[k]
      BY <1>3, <2>1, <2>3, <2>4
    <2>6. IF top[k] <= bottom[k] THEN row(i)[k] <= row(y)[k] ELSE row(i)[k] >= row(y)[k]
      BY <2>2, RowsInOrder
    <2> QED
      BY <2>3, <2>5, <2>6
  <1>7. /\ read_pixel(buf, <<0, 0>>) = Shown(top)
        /\ Height > 1 => read_pixel(buf, <<Width - 1, Height - 1>>) = Shown(bottom)
    <2> HIDE DEF row
    <2> QED
      BY <1>3, <1>4, <1>5
  <1> QED
    BY <1>1, <1>2, <1>6, <1>7 DEF GradientRuns

-----------------------------------------------------------------------------
\* What an operation has to show for the invariant to hold after it.
LEMMA NextInv ==
  ASSUME FbInv, info' = info, buf' \in Buffer,
         \A p \in Pixel : read_pixel(buf', p) = picture'[p],
         \A o \in 1 .. Size :
           (\A p \in Pixel : o - Offset(p) \notin 1 .. info.bpp) => buf'[o] = buf[o],
         ramp' # <<>> =>
           /\ ramp'[1] \in Colour /\ ramp'[2] \in Colour
           /\ \A p \in Pixel : picture'[p] = Shown(Gradient(ramp'[1], ramp'[2])[p])
  PROVE  FbInv'
  <1>1. info \in Formats
    BY DEF FbInv
  <1>2. info' \in Formats /\ buf' \in [1 .. Stride * Height * info'.bpp -> Byte]
    BY <1>1 DEF Buffer, Size
  <1>3. \A p \in Pixel : read_pixel(buf, p)' = picture'[p]
    BY Later
  <1>4. ASSUME NEW y \in 0 .. Height - 1, NEW o \in Offset(<<Width, y>>) + 1 .. Offset(<<0, y + 1>>)
        PROVE  buf'[o] = 0
    <2>1. o \in 1 .. Size /\ \A p \in Pixel : o - Offset(p) \notin 1 .. info.bpp
      BY <1>1, PaddingApart
    <2>2. buf[o] = 0
      BY DEF FbInv, PaddingUntouched
    <2> QED
      BY <2>1, <2>2
  <1>5. PaddingUntouched'
    <2>1. \A p : Offset(p)' = Offset(p)
      BY Later
    <2>2. \A y \in 0 .. Height - 1 : Offset(<<Width, y>>)' = Offset(<<Width, y>>) /\ Offset(<<0, y + 1>>)' = Offset(<<0, y + 1>>)
      BY <2>1
    <2> QED
      BY <1>4, <2>2 DEF PaddingUntouched
  <1>6. ramp' # <<>> => \A p \in Pixel : picture'[p] = Shown(Gradient(ramp[1], ramp[2])[p])'
    <2>1. ASSUME NEW p \in Pixel
          PROVE  Shown(Gradient(ramp[1], ramp[2])[p])' = Shown(Gradient(ramp'[1], ramp'[2])[p])
      <3>1. PICK c : c = Gradient(ramp'[1], ramp'[2])[p]
        OBVIOUS
      <3>2. Gradient(ramp[1], ramp[2])[p]' = c
        BY <3>1
      <3>3. Shown(c)' = Shown(c)
        BY Later
      <3> QED
        BY <3>1, <3>2, <3>3 DEF Shown
    <2> QED
      BY <2>1
  <1> QED
    BY <1>2, <1>3, <1>5, <1>6 DEF FbInv

\* It holds at first.
LEMMA InitInv == FbInit => FbInv
  <1> SUFFICES ASSUME FbInit PROVE FbInv
    OBVIOUS
  <1>1. info \in Formats /\ ramp = <<>>
    BY DEF FbInit
  <1>2. 0 \in Byte
    BY NumberFits DEF Byte
  <1>3. buf = [o \in 1 .. Size |-> 0] /\ buf \in Buffer
    BY <1>2 DEF FbInit, Buffer, Size
  <1>4. ASSUME NEW p \in Pixel PROVE read_pixel(buf, p) = picture[p]
    <2>1. PICK bytes \in [1 .. info.bpp -> Byte] :
            bytes = [i \in 1 .. info.bpp |-> buf[Offset(p) + i]] /\ read_pixel(buf, p) = Decode(bytes)
      BY <1>1, <1>3, ReadPixel
    <2>2. PICK zero \in [1 .. info.bpp -> Byte] : zero = [i \in 1 .. info.bpp |-> 0]
      BY <1>2
    <2>3. Offset(p) \in Nat /\ Offset(p) + info.bpp <= Size /\ Size \in Nat /\ info.bpp \in Nat
      BY <1>1, PixelInBuffer, TheFormat
    <2>4. \A i \in 1 .. info.bpp : bytes[i] = zero[i]
      BY <1>3, <2>1, <2>2, <2>3
    <2>5. bytes = zero
      BY <2>1, <2>2, <2>4, SameFunction, Zenon
    <2>6. picture[p] = Decode(zero)
      BY <2>2 DEF FbInit
    <2> QED
      BY <2>1, <2>5, <2>6
  <1>5. PaddingUntouched
    <2>1. ASSUME NEW y \in 0 .. Height - 1, NEW o \in Offset(<<Width, y>>) + 1 .. Offset(<<0, y + 1>>)
          PROVE  buf[o] = 0
      <3>1. o \in 1 .. Size
        BY <1>1, PaddingApart
      <3> QED
        BY <1>3, <3>1
    <2> QED
      BY <2>1 DEF PaddingUntouched
  <1> QED
    BY <1>1, <1>3, <1>4, <1>5 DEF FbInv, Buffer, Size

-----------------------------------------------------------------------------
\* An operation that draws one colour at some places leads from picture to picture.
LEMMA FillInv ==
  ASSUME FbInv, info' = info, ramp' = <<>>, NEW ps, NEW shape, NEW c,
         Filled(buf, ps, c, buf'), Paint(shape, c),
         \A p \in Pixel : p \in ps <=> p \in shape
  PROVE  FbInv'
  <1>1. \A p \in Pixel : picture'[p] = IF p \in shape THEN Shown(c) ELSE picture[p]
    BY DEF Paint
  <1>2. \A p \in Pixel : read_pixel(buf, p) = picture[p]
    BY DEF FbInv
  <1>3. \A p \in Pixel : read_pixel(buf', p) = picture'[p]
    BY <1>1, <1>2 DEF Filled
  <1> QED
    BY <1>3, NextInv DEF Filled

\* One that calls put_pixel at those places does.
LEMMA PutAllInv ==
  ASSUME FbInv, NEW ps, ps \subseteq Nat \X Nat, NEW shape, NEW c \in Colours,
         Op(<<>>), buf' = PutAll(buf, ps, c), Paint(shape, c),
         \A p \in Pixel : p \in ps <=> p \in shape
  PROVE  FbInv'
  <1>1. info \in Formats /\ buf \in Buffer /\ c \in Colour
    BY ColourAssumption DEF FbInv, Buffer, Size
  <1>2. Filled(buf, ps, c, buf')
    BY <1>1, PutAllFills
  <1> QED
    BY <1>2, FillInv DEF Op

\* The last coordinate that is drawn.
LEMMA Clipped ==
  ASSUME NEW from \in Nat, NEW size \in Nat, NEW limit \in Nat
  PROVE  /\ Clip(from, size, limit) = IF from + size <= limit THEN from + size - 1 ELSE limit - 1
         /\ \A i \in 0 .. limit - 1 : i \in from .. Clip(from, size, limit) <=> i \in from .. from + size - 1
  <1>1. Clip(from, size, limit) = IF from + size <= limit THEN from + size - 1 ELSE limit - 1
    BY MinOfTwo DEF Clip
  <1> QED
    BY <1>1

\* A rectangle is drawn where it meets the screen.
LEMMA RectangleMeetsScreen ==
  ASSUME NEW x \in 0 .. Width - 1, NEW y \in 0 .. Height - 1, NEW w \in Nat, NEW h \in Nat
  PROVE  /\ (x .. Clip(x, w, Width)) \X (y .. Clip(y, h, Height)) \subseteq Pixel
         /\ \A p \in Pixel :
              p \in (x .. Clip(x, w, Width)) \X (y .. Clip(y, h, Height)) <=> p \in Rect(x, y, w, h)
  <1>0. Width \in Nat /\ Height \in Nat /\ x \in Nat /\ y \in Nat
    BY SizeAssumption
  <1>1. PICK x_last \in Int, y_last \in Int :
          /\ x_last = Clip(x, w, Width) /\ y_last = Clip(y, h, Height)
          /\ x_last < Width /\ y_last < Height
          /\ \A i \in 0 .. Width - 1 : i \in x .. x_last <=> i \in x .. x + w - 1
          /\ \A i \in 0 .. Height - 1 : i \in y .. y_last <=> i \in y .. y + h - 1
    <2>1. \A from \in Nat, size \in Nat, limit \in Nat :
            /\ Clip(from, size, limit) = IF from + size <= limit THEN from + size - 1 ELSE limit - 1
            /\ \A i \in 0 .. limit - 1 : i \in from .. Clip(from, size, limit) <=> i \in from .. from + size - 1
      BY Clipped
    <2>2. /\ Clip(x, w, Width) = IF x + w <= Width THEN x + w - 1 ELSE Width - 1
          /\ \A i \in 0 .. Width - 1 : i \in x .. Clip(x, w, Width) <=> i \in x .. x + w - 1
      BY <1>0, <2>1
    <2>3. /\ Clip(y, h, Height) = IF y + h <= Height THEN y + h - 1 ELSE Height - 1
          /\ \A i \in 0 .. Height - 1 : i \in y .. Clip(y, h, Height) <=> i \in y .. y + h - 1
      BY <1>0, <2>1
    <2> QED
      BY <1>0, <2>2, <2>3
  <1>2. (x .. x_last) \X (y .. y_last) \subseteq Pixel
    BY <1>0, <1>1 DEF Pixel
  <1>3. ASSUME NEW p \in Pixel
        PROVE  p \in (x .. x_last) \X (y .. y_last) <=> p \in Rect(x, y, w, h)
    BY <1>0, <1>1 DEF Pixel, Rect
  <1> QED
    BY <1>1, <1>2, <1>3

LEMMA FillRectInv ==
  ASSUME FbInv, NEW c \in Colours, NEW x \in 0 .. Width - 1, NEW y \in 0 .. Height - 1,
         NEW w \in 0 .. Width, NEW h \in 1 .. Height, fill_rect(x, y, w, h, c)
  PROVE  FbInv'
  <1>0. w \in Nat /\ h \in Nat /\ Pixel \subseteq Nat \X Nat
    BY SizeAssumption DEF Pixel
  <1>1. PICK ps : ps = (x .. Clip(x, w, Width)) \X (y .. Clip(y, h, Height))
    OBVIOUS
  <1>2. ps \subseteq Nat \X Nat /\ \A p \in Pixel : p \in ps <=> p \in Rect(x, y, w, h)
    BY <1>0, <1>1, RectangleMeetsScreen
  <1>3. Op(<<>>) /\ buf' = PutAll(buf, ps, c) /\ Paint(Rect(x, y, w, h), c)
    BY <1>1 DEF fill_rect
  <1> QED
    BY <1>2, <1>3, PutAllInv

LEMMA OutlineInv ==
  ASSUME FbInv, NEW c \in Colours, NEW x \in 0 .. Width - 1, NEW y \in 0 .. Height - 1,
         NEW w \in 0 .. Width, NEW h \in 1 .. Height, draw_rect_outline(x, y, w, h, c)
  PROVE  FbInv'
  <1>0. w \in Nat \ {0} /\ h \in Nat \ {0} /\ Width \in Nat /\ Height \in Nat /\ x \in Nat /\ y \in Nat
    BY SizeAssumption DEF draw_rect_outline
  <1>1. PICK x_last \in Int, y_last \in Int :
          /\ x_last = Clip(x, w, Width) /\ y_last = Clip(y, h, Height)
          /\ x <= x_last /\ x_last < Width /\ y <= y_last /\ y_last < Height
          /\ \A i \in 0 .. Width - 1 : i \in x .. x_last <=> i \in x .. x + w - 1
          /\ \A i \in 0 .. Height - 1 : i \in y .. y_last <=> i \in y .. y + h - 1
    <2>1. \A from \in Nat, size \in Nat, limit \in Nat :
            /\ Clip(from, size, limit) = IF from + size <= limit THEN from + size - 1 ELSE limit - 1
            /\ \A i \in 0 .. limit - 1 : i \in from .. Clip(from, size, limit) <=> i \in from .. from + size - 1
      BY Clipped
    <2>2. /\ Clip(x, w, Width) = IF x + w <= Width THEN x + w - 1 ELSE Width - 1
          /\ \A i \in 0 .. Width - 1 : i \in x .. Clip(x, w, Width) <=> i \in x .. x + w - 1
      BY <1>0, <2>1
    <2>3. /\ Clip(y, h, Height) = IF y + h <= Height THEN y + h - 1 ELSE Height - 1
          /\ \A i \in 0 .. Height - 1 : i \in y .. Clip(y, h, Height) <=> i \in y .. y + h - 1
      BY <1>0, <2>1
    <2> QED
      BY <1>0, <2>2, <2>3
  <1>2. PICK ring : ring = ((x .. x_last) \X {y, y_last}) \cup ({x, x_last} \X (y .. y_last))
    OBVIOUS
  <1>3. PICK seen : seen = Rect(x, y, w, h) \cap Pixel
    OBVIOUS
  <1>4. Op(<<>>) /\ buf' = PutAll(buf, ring, c) /\ Paint(Border(seen), c)
    BY <1>1, <1>2, <1>3 DEF draw_rect_outline
  <1>5. ring \subseteq Nat \X Nat
    BY <1>0, <1>1, <1>2
  <1>6. ASSUME NEW i \in Int, NEW j \in Int
        PROVE  <<i, j>> \in seen <=> i \in x .. x_last /\ j \in y .. y_last
    BY <1>0, <1>1, <1>3 DEF Rect, Pixel
  <1>7. ASSUME NEW p \in Pixel PROVE p \in ring <=> p \in Border(seen)
    <2>1. PICK i \in 0 .. Width - 1, j \in 0 .. Height - 1 : p = <<i, j>>
      BY DEF Pixel
    <2>2. p[1] = i /\ p[2] = j /\ i \in Int /\ j \in Int
      BY <2>1
    <2>3. p \in Border(seen) <=>
            /\ p \in seen
            /\ \/ <<i - 1, j>> \notin seen \/ <<i + 1, j>> \notin seen
               \/ <<i, j - 1>> \notin seen \/ <<i, j + 1>> \notin seen
      BY <2>2 DEF Border
    <2>4. /\ <<i - 1, j>> \in seen <=> (i - 1 \in x .. x_last /\ j \in y .. y_last)
          /\ <<i + 1, j>> \in seen <=> (i + 1 \in x .. x_last /\ j \in y .. y_last)
          /\ <<i, j - 1>> \in seen <=> (i \in x .. x_last /\ j - 1 \in y .. y_last)
          /\ <<i, j + 1>> \in seen <=> (i \in x .. x_last /\ j + 1 \in y .. y_last)
      BY <1>6, <2>2
    <2>5. p \in seen <=> i \in x .. x_last /\ j \in y .. y_last
      BY <1>6, <2>1, <2>2
    <2>6. p \in ring <=> (i \in x .. x_last /\ j \in {y, y_last}) \/ (i \in {x, x_last} /\ j \in y .. y_last)
      BY <1>2, <2>1
    <2>7. p \in Border(seen) <=>
            i \in x .. x_last /\ j \in y .. y_last /\ (i = x \/ i = x_last \/ j = y \/ j = y_last)
      BY <1>0, <1>1, <2>2, <2>3, <2>4, <2>5
    <2> QED
      BY <1>0, <1>1, <2>2, <2>6, <2>7
  <1> QED
    BY <1>4, <1>5, <1>7, PutAllInv

LEMMA TextInv ==
  ASSUME FbInv, NEW c \in Colours, NEW x \in 0 .. Width - 1, NEW y \in 0 .. Height - 1,
         NEW n \in 1 .. 2, draw_text(x, y, n, c)
  PROVE  FbInv'
  <1>1. PICK text : text = UNION {GlyphAt(x + i * FontW, y) : i \in 0 .. n - 1}
    OBVIOUS
  <1>2. Op(<<>>) /\ buf' = PutAll(buf, text, c) /\ Paint(text, c)
    BY <1>1 DEF draw_text
  <1>3. ASSUME NEW p \in text PROVE p \in Nat \X Nat
    <2>0. x \in Nat /\ y \in Nat /\ FontW \in Nat /\ FontH \in Nat /\ ScaleY \in Nat
      BY SizeAssumption
    <2>1. PICK i \in 0 .. n - 1 : p \in GlyphAt(x + i * FontW, y)
      BY <1>1
    <2>2. PICK left \in Nat : left = x + i * FontW
      BY <2>0
    <2>3. PICK g \in GlyphBits, s \in 0 .. ScaleY - 1 : p = <<left + g[1], y + g[2] * ScaleY + s>>
      BY <2>1, <2>2 DEF GlyphAt
    <2>4. g[1] \in Nat /\ g[2] \in Nat /\ s \in Nat
      BY <2>0, SizeAssumption
    <2>5. g[2] * ScaleY \in Nat
      BY <2>0, <2>4
    <2> QED
      BY <2>0, <2>2, <2>3, <2>4, <2>5
  <1> QED
    BY <1>2, <1>3, PutAllInv

\* Division of a multiple of d and a rest, and into one.
LEMMA DivideRest ==
  ASSUME NEW a \in Nat, NEW d \in Nat \ {0}, NEW r \in 0 .. d - 1
  PROVE  (a * d + r) \div d = a /\ (a * d + r) % d = r
  <1>0. a * d \in Nat /\ r \in Nat /\ r < d
    OBVIOUS
  <1>1. PICK x \in Nat : x = a * d + r
    BY <1>0
  <1>2. PICK m \in Nat : m = x \div d /\ m * d <= x /\ x < m * d + d /\ m * d \in Nat
    BY <1>1, Divide
  <1>3. ~(a + 1 <= m)
    <2>1. SUFFICES ASSUME a + 1 <= m PROVE FALSE
      OBVIOUS
    <2>2. (a + 1) * d <= m * d /\ (a + 1) * d = a * d + d
      BY <2>1, Multiply
    <2> QED
      BY <1>0, <1>1, <1>2, <2>2
  <1>4. ~(m + 1 <= a)
    <2>1. SUFFICES ASSUME m + 1 <= a PROVE FALSE
      OBVIOUS
    <2>2. (m + 1) * d <= a * d /\ (m + 1) * d = m * d + d
      BY <1>2, <2>1, Multiply
    <2> QED
      BY <1>0, <1>1, <1>2, <2>2
  <1>5. m = a
    BY <1>2, <1>3, <1>4
  <1>6. x % d = x - m * d
    BY <1>1, <1>2, Remainder
  <1> QED
    BY <1>0, <1>1, <1>2, <1>5, <1>6
LEMMA SplitBytes ==
  ASSUME NEW a \in Nat, NEW d \in Nat \ {0}, NEW m \in 1 .. a * d
  PROVE  \E i \in 0 .. a - 1 : m - i * d \in 1 .. d
  <1>0. a * d \in Nat
    OBVIOUS
  <1>1. PICK x \in Nat : x = m - 1 /\ x < a * d
    BY <1>0
  <1>2. PICK i \in Nat : i = x \div d /\ i * d <= x /\ x < i * d + d /\ i * d \in Nat
    BY <1>1, Divide
  <1>3. i < a
    <2>1. SUFFICES ASSUME a <= i PROVE FALSE
      BY <1>2
    <2>2. a * d <= i * d
      BY <1>2, <2>1, Multiply
    <2> QED
      BY <1>0, <1>1, <1>2, <2>2
  <1>4. m - i * d \in 1 .. d
    BY <1>1, <1>2
  <1>5. i \in 0 .. a - 1
    BY <1>2, <1>3
  <1> QED
    BY <1>4, <1>5, Zenon

\* The bytes of a pixel in the buffer of its window, which end inside it.
LEMMA WindowPixel ==
  ASSUME info \in Formats, NEW w \in Nat, NEW h \in Nat, NEW image,
         NEW i \in 0 .. w - 1, NEW row \in 0 .. h - 1, NEW k \in 1 .. info.bpp
  PROVE  /\ SourceOffset(w, row) + (i * info.bpp + k) \in 1 .. w * h * info.bpp
         /\ WindowBuffer(w, h, image)[SourceOffset(w, row) + (i * info.bpp + k)] = Encode(image[<<i, row>>])[k]
         /\ w * h * info.bpp \in Nat
  <1>0. info.bpp \in Nat \ {0} /\ i \in Nat /\ row \in Nat /\ w \in Nat \ {0} /\ k \in Nat
    BY TheFormat
  <1>1. PICK d \in Nat \ {0} : d = info.bpp
    BY <1>0
  <1>2. PICK place \in Nat : place = row * w + i
    BY <1>0
  <1>3. place + 1 <= h * w /\ h * w = w * h /\ w * h \in Nat
    <2>1. (row + 1) * w <= h * w /\ h * w \in Nat /\ (row + 1) * w = row * w + w /\ row * w \in Nat
      BY <1>0, Multiply
    <2> QED
      BY <1>0, <1>2, <2>1
  <1>4. place % w = i /\ place \div w = row
    BY <1>0, <1>2, DivideRest
  <1>5. PICK o \in Int : o = SourceOffset(w, row) + (i * d + k) /\ o - 1 = place * d + (k - 1)
    <2>1. PICK n \in Nat : n = row * w
      BY <1>0
    <2>2. SourceOffset(w, row) = n * d
      BY <1>1, <2>1 DEF SourceOffset
    <2>3. place * d = n * d + i * d /\ n * d \in Nat /\ i * d \in Nat
      BY <1>0, <1>1, <1>2, <2>1
    <2> QED
      BY <1>0, <2>2, <2>3
  <1>6. (o - 1) \div d = place /\ (o - 1) % d = k - 1
    <2>1. PICK r \in 0 .. d - 1 : r = k - 1
      BY <1>0, <1>1
    <2>2. (place * d + r) \div d = place /\ (place * d + r) % d = r
      BY <2>1, DivideRest
    <2> QED
      BY <1>5, <2>1, <2>2
  <1>7. o \in 1 .. w * h * d /\ w * h * d \in Nat
    <2>1. PICK n \in Nat : n = w * h
      BY <1>3
    <2>2. (place + 1) * d <= n * d /\ (place + 1) * d = place * d + d /\ n * d \in Nat /\ place * d \in Nat
      BY <1>1, <1>2, <1>3, <2>1, Multiply
    <2> QED
      BY <1>0, <1>1, <1>5, <2>1, <2>2
  <1>8. ((o - 1) % d) + 1 = k
    BY <1>0, <1>6
  <1>9. WindowBuffer(w, h, image)[o] = Encode(image[<<place % w, place \div w>>])[((o - 1) % d) + 1]
    BY <1>1, <1>6, <1>7 DEF WindowBuffer
  <1> QED
    BY <1>1, <1>4, <1>5, <1>7, <1>8, <1>9

\* A pixel further to the right.
LEMMA FurtherRight ==
  ASSUME info \in Formats, NEW x \in Nat, NEW y \in Nat, NEW i \in Nat
  PROVE  /\ Offset(<<x + i, y>>) = Offset(<<x, y>>) + i * info.bpp
         /\ Offset(<<x, y>>) \in Nat /\ i * info.bpp \in Nat
  <1>1. PICK d \in Nat : d = info.bpp
    BY TheFormat
  <1>2. PICK n \in Nat : n = y * Stride
    BY SizeAssumption
  <1>3. PICK m \in Nat : m = n + x
    OBVIOUS
  <1>4. Offset(<<x, y>>) = m * d /\ Offset(<<x + i, y>>) = (m + i) * d
    <2>1. n + (x + i) = m + i
      BY <1>3
    <2> QED
      BY <1>1, <1>2, <1>3, <2>1 DEF Offset
  <1>5. (m + i) * d = m * d + i * d /\ m * d \in Nat /\ i * d \in Nat
    OBVIOUS
  <1> QED
    BY <1>1, <1>4, <1>5

\* Copying the rows of a window is drawing its pixels, each where it is on the screen.
LEMMA BlitWrites ==
  ASSUME info \in Formats, buf \in Buffer, NEW image \in Pictures,
         NEW x \in 0 .. Width - 1, NEW y \in 0 .. Height - 1,
         NEW w \in 0 .. Width, NEW h \in 1 .. Height, blit_window(x, y, w, h, image)
  PROVE  \E colour :
           /\ DOMAIN colour \subseteq Pixel
           /\ \A p \in Pixel : p \in DOMAIN colour <=> p \in Rect(x, y, w, h)
           /\ \A p \in DOMAIN colour :
                colour[p] \in Colour /\ colour[p] = image[<<p[1] - x, p[2] - y>>]
           /\ buf' = Write(buf, colour)
  <1>0. /\ w \in Nat /\ h \in Nat /\ Width \in Nat /\ Height \in Nat /\ x \in Nat /\ y \in Nat
        /\ w <= Width /\ h <= Height /\ x < Width /\ y < Height
        /\ image \in [Pixel -> Colour] /\ Len(buf) = Size /\ Size \in Nat
    BY SizeAssumption, ColourAssumption, BufferLength
  <1>1. PICK d \in Nat \ {0} : d = info.bpp
    BY TheFormat
  <1>2. PICK cw \in Nat, ch \in Nat :
          /\ cw = Min({w, Width - x}) /\ ch = Min({h, Height - y})
          /\ cw = (IF w <= Width - x THEN w ELSE Width - x)
          /\ ch = (IF h <= Height - y THEN h ELSE Height - y)
    <2>1. Min({w, Width - x}) = (IF w <= Width - x THEN w ELSE Width - x)
      BY <1>0, MinOfTwo
    <2>2. Min({h, Height - y}) = (IF h <= Height - y THEN h ELSE Height - y)
      BY <1>0, MinOfTwo
    <2> QED
      BY <1>0, <2>1, <2>2
  <1>2a. cw <= w /\ cw <= Width /\ x + cw <= Width /\ ch <= h /\ ch <= Height /\ y + ch <= Height
    BY <1>0, <1>2
  <1>3. PICK copied : copied = (x .. x + cw - 1) \X (y .. y + ch - 1)
    OBVIOUS
  <1>4. copied \subseteq Pixel
    BY <1>0, <1>2, <1>3 DEF Pixel
  <1>5. ASSUME NEW p \in Pixel PROVE p \in copied <=> p \in Rect(x, y, w, h)
    <2>1. PICK i \in 0 .. Width - 1, j \in 0 .. Height - 1 : p = <<i, j>>
      BY DEF Pixel
    <2>2. i \in x .. x + cw - 1 <=> i \in x .. x + w - 1
      BY <1>0, <1>2
    <2>3. j \in y .. y + ch - 1 <=> j \in y .. y + h - 1
      BY <1>0, <1>2
    <2> QED
      BY <1>3, <2>1, <2>2, <2>3 DEF Rect
  <1>6. PICK colour : colour = [p \in copied |-> image[<<p[1] - x, p[2] - y>>]]
    OBVIOUS
  <1>7. ASSUME NEW i \in 0 .. cw - 1, NEW row \in 0 .. ch - 1
        PROVE  /\ <<x + i, y + row>> \in copied
               /\ colour[<<x + i, y + row>>] = image[<<i, row>>]
               /\ image[<<i, row>>] \in Colour
    <2>1. <<x + i, y + row>> \in copied
      BY <1>0, <1>3
    <2>2. (x + i) - x = i /\ (y + row) - y = row
      BY <1>0
    <2>3. <<i, row>> \in Pixel
      BY <1>0, <1>2a DEF Pixel
    <2> QED
      BY <1>0, <1>6, <2>1, <2>2, <2>3
  <1>8. ASSUME NEW p \in copied
        PROVE  \E i \in 0 .. cw - 1 : \E row \in 0 .. ch - 1 : p = <<x + i, y + row>>
    <2>1. PICK a \in x .. x + cw - 1, b \in y .. y + ch - 1 : p = <<a, b>>
      BY <1>3
    <2>2. a - x \in 0 .. cw - 1 /\ b - y \in 0 .. ch - 1 /\ a = x + (a - x) /\ b = y + (b - y)
      BY <1>0
    <2> QED
      BY <2>1, <2>2
  <1>9. DOMAIN colour = copied /\ \A p \in copied :
          colour[p] \in Colour /\ colour[p] = image[<<p[1] - x, p[2] - y>>]
    <2>1. ASSUME NEW p \in copied PROVE colour[p] \in Colour
      <3>1. PICK i \in 0 .. cw - 1 : \E row \in 0 .. ch - 1 : p = <<x + i, y + row>>
        BY <1>8
      <3> QED
        BY <1>7, <3>1
    <2> QED
      BY <1>6, <2>1
  <1>9a. ASSUME NEW i \in 0 .. w - 1, NEW row \in 0 .. h - 1, NEW k \in 1 .. info.bpp
         PROVE  WindowBuffer(w, h, image)[SourceOffset(w, row) + (i * info.bpp + k)] = Encode(image[<<i, row>>])[k]
    BY <1>0, WindowPixel
  <1> DEFINE win == WindowBuffer(w, h, image)
             bytes == cw * info.bpp
             Target(row) == Offset(<<x, y + row>>)
             rows == {row \in 0 .. ch - 1 :
                        SourceOffset(w, row) + bytes <= Len(win) /\ Target(row) + bytes <= Len(buf)}
             at(o) == {row \in rows : o - Target(row) \in 1 .. bytes}
             first(o) == CHOOSE row \in at(o) : TRUE
             new(o) == IF at(o) = {} THEN buf[o] ELSE win[SourceOffset(w, first(o)) + (o - Target(first(o)))]
             drawn(o) == {p \in DOMAIN colour : o - Offset(p) \in 1 .. info.bpp}
             one(o) == CHOOSE p \in drawn(o) : TRUE
             old(o) == IF drawn(o) = {} THEN buf[o] ELSE Encode(colour[one(o)])[o - Offset(one(o))]
  <1>10. buf' = [o \in 1 .. Len(buf) |-> new(o)]
    BY <1>2 DEF blit_window
  <1>11. Write(buf, colour) = [o \in 1 .. Len(buf) |-> old(o)]
    BY DEF Write
  <1>12. ASSUME NEW row \in 0 .. ch - 1, NEW i \in 0 .. cw - 1
         PROVE  /\ Offset(<<x + i, y + row>>) = Target(row) + i * d
                /\ Target(row) \in Nat /\ i * d \in Nat
    <2>1. PICK z \in Nat : z = y + row
      BY <1>0
    <2>2. Offset(<<x + i, z>>) = Offset(<<x, z>>) + i * info.bpp /\ Offset(<<x, z>>) \in Nat /\ i * info.bpp \in Nat
      BY <1>0, FurtherRight
    <2> QED
      BY <1>1, <2>1, <2>2
  <1>13. ASSUME NEW row \in 0 .. ch - 1, cw # 0 PROVE row \in rows
    <2>1. PICK i \in 0 .. cw - 1 : i = cw - 1 /\ i \in 0 .. w - 1
      BY <1>0, <1>2, <1>13
    <2>2. row \in 0 .. h - 1 /\ d \in 1 .. info.bpp
      BY <1>0, <1>1, <1>2a
    <2>3. bytes = i * d + d /\ i * d \in Nat
      <3>1. cw = i + 1
        BY <1>2, <2>1
      <3>2. (i + 1) * d = i * d + d /\ i * d \in Nat
        BY <1>1, <2>1
      <3> QED
        BY <1>1, <3>1, <3>2
    <2>4. SourceOffset(w, row) + bytes \in 1 .. w * h * info.bpp /\ w * h * info.bpp \in Nat
      <3>1. /\ SourceOffset(w, row) + (i * info.bpp + d) \in 1 .. w * h * info.bpp
            /\ w * h * info.bpp \in Nat
        BY <1>0, <2>1, <2>2, WindowPixel
      <3>2. i * info.bpp + d = bytes
        BY <1>1, <2>3
      <3> HIDE DEF bytes
      <3> QED
        BY <3>1, <3>2
    <2>5. Len(win) = w * h * info.bpp
      <3>1. PICK n \in Nat : n = w * h * info.bpp
        BY <2>4
      <3>2. DOMAIN win = 1 .. n /\ win = [o \in 1 .. n |-> win[o]]
        BY <3>1 DEF WindowBuffer
      <3>3. PICK T : T = {win[o] : o \in 1 .. n}
        OBVIOUS
      <3> HIDE DEF win
      <3>4. win \in [1 .. n -> T]
        BY <3>2, <3>3
      <3>5. Len(win) = n
        BY <3>4
      <3> QED
        BY <3>1, <3>5
    <2>6. <<x + i, y + row>> \in Pixel /\ Offset(<<x + i, y + row>>) = Target(row) + i * d
      BY <1>4, <1>7, <1>12
    <2>7. Target(row) + bytes <= Len(buf)
      <3>1. (Target(row) + i * d) + d <= Size
        BY <1>1, <2>6, PixelInBuffer
      <3>2. PICK from \in Nat, gap \in Nat : from = Target(row) /\ gap = i * d
        BY <1>12, <2>1
      <3>3. bytes = gap + d
        BY <2>3, <3>2
      <3> HIDE DEF bytes, Target
      <3> QED
        BY <1>0, <1>1, <3>1, <3>2, <3>3
    <2>8. SourceOffset(w, row) + bytes <= Len(win)
      BY <2>4, <2>5
    <2> QED
      BY <2>7, <2>8
  <1>14. ASSUME NEW o \in 1 .. Size, NEW row \in at(o)
         PROVE  \E p \in drawn(o) :
                  win[SourceOffset(w, row) + (o - Target(row))] = Encode(colour[p])[o - Offset(p)]
    <2>1. row \in 0 .. ch - 1 /\ o - Target(row) \in 1 .. cw * d
      BY <1>1
    <2>2. PICK m \in 1 .. cw * d : m = o - Target(row)
      BY <2>1
    <2>3. PICK i \in 0 .. cw - 1 : m - i * d \in 1 .. d
      BY <1>1, <1>2, SplitBytes
    <2>4. PICK k \in 1 .. d : k = m - i * d
      BY <2>3
    <2>5. PICK p \in copied : p = <<x + i, y + row>> /\ colour[p] = image[<<i, row>>]
      BY <1>7, <2>1
    <2>6. PICK from \in Nat, gap \in Nat : from = Target(row) /\ gap = i * d /\ Offset(p) = from + gap
      BY <1>12, <2>1, <2>5
    <2>7. o - Offset(p) = k /\ o - Target(row) = gap + k
      <3>1. m \in Int /\ o \in Int
        BY <1>0, <1>1, <1>2
      <3>2. m = o - from /\ k = m - gap /\ Offset(p) = from + gap /\ k \in Int /\ Target(row) = from
        BY <1>1, <2>2, <2>4, <2>6
      <3> HIDE DEF Target
      <3> QED
        BY <3>1, <3>2
    <2>8. i \in 0 .. w - 1 /\ row \in 0 .. h - 1 /\ k \in 1 .. info.bpp
      BY <1>0, <1>1, <1>2a, <2>1
    <2>9. win[SourceOffset(w, row) + (i * info.bpp + k)] = Encode(image[<<i, row>>])[k]
      BY <1>9a, <2>8
    <2>10. p \in drawn(o)
      BY <1>1, <1>9, <2>7
    <2> HIDE DEF win, drawn
    <2> QED
      BY <1>1, <2>5, <2>6, <2>7, <2>9, <2>10
  <1>15. ASSUME NEW o \in 1 .. Size, NEW p \in drawn(o) PROVE at(o) # {}
    <2>1. p \in copied /\ o - Offset(p) \in 1 .. d
      BY <1>1, <1>9
    <2>2. PICK i \in 0 .. cw - 1 : \E row \in 0 .. ch - 1 : p = <<x + i, y + row>>
      BY <1>8, <2>1
    <2>3. PICK row \in 0 .. ch - 1 : p = <<x + i, y + row>>
      BY <2>2
    <2>4. PICK from \in Nat, gap \in Nat : from = Target(row) /\ gap = i * d /\ Offset(p) = from + gap
      BY <1>12, <2>3
    <2>5. gap + d <= bytes /\ bytes \in Nat
      <3>1. (i + 1) * d <= cw * d /\ (i + 1) * d = i * d + d /\ cw * d \in Nat
        BY <1>1, <1>2, Multiply
      <3> QED
        BY <1>1, <2>4, <3>1
    <2>6. o - from \in 1 .. bytes
      <3>1. PICK k \in 1 .. d : k = o - (from + gap)
        BY <2>1, <2>4
      <3>2. o - from = gap + k
        BY <1>0, <1>1, <3>1
      <3> HIDE DEF bytes
      <3> QED
        BY <1>1, <2>4, <2>5, <3>1, <3>2
    <2>7. row \in rows
      <3>1. cw # 0
        BY <1>2
      <3> HIDE DEF rows
      <3> QED
        BY <1>13, <3>1
    <2> QED
      BY <2>4, <2>6, <2>7
  <1> HIDE DEF win, rows, Target, bytes
  <1>16. ASSUME NEW o \in 1 .. Size PROVE new(o) = old(o)
    <2>1. CASE at(o) = {}
      <3>1. drawn(o) = {}
        BY <1>15, <2>1
      <3> QED
        BY <2>1, <3>1
    <2>2. CASE at(o) # {}
      <3>1. PICK row \in at(o) : row = first(o)
        BY <2>2
      <3>2. PICK p \in drawn(o) :
              win[SourceOffset(w, row) + (o - Target(row))] = Encode(colour[p])[o - Offset(p)]
        BY <1>14, <3>1
      <3>3. PICK q \in drawn(o) : q = one(o)
        BY <3>2
      <3>4. q = p
        <4>1. /\ p \in Pixel /\ q \in Pixel /\ o \in Int
              /\ o - Offset(p) \in 1 .. info.bpp /\ o - Offset(q) \in 1 .. info.bpp
          BY <1>4, <1>9, <3>2, <3>3
        <4> QED
          BY <4>1, PixelsApart
      <3>5. new(o) = win[SourceOffset(w, row) + (o - Target(row))]
        BY <2>2, <3>1
      <3>6. old(o) = Encode(colour[q])[o - Offset(q)]
        BY <3>2, <3>3
      <3> QED
        BY <3>2, <3>4, <3>5, <3>6
    <2> QED
      BY <2>1, <2>2
  <1> HIDE DEF new, old
  <1>17. buf' = Write(buf, colour)
    BY <1>0, <1>10, <1>11, <1>16
  <1>18. DOMAIN colour \subseteq Pixel /\ \A p \in Pixel : p \in DOMAIN colour <=> p \in Rect(x, y, w, h)
    BY <1>4, <1>5, <1>9
  <1> QED
    BY <1>9, <1>17, <1>18

LEMMA BlitInv ==
  ASSUME FbInv, NEW image \in Pictures, NEW x \in 0 .. Width - 1, NEW y \in 0 .. Height - 1,
         NEW w \in 0 .. Width, NEW h \in 1 .. Height, blit_window(x, y, w, h, image)
  PROVE  FbInv'
  <1>0. info \in Formats /\ buf \in Buffer /\ \A p \in Pixel : read_pixel(buf, p) = picture[p]
    BY DEF FbInv, Buffer, Size
  <1>1. PICK colour :
          /\ DOMAIN colour \subseteq Pixel
          /\ \A p \in Pixel : p \in DOMAIN colour <=> p \in Rect(x, y, w, h)
          /\ \A p \in DOMAIN colour :
               colour[p] \in Colour /\ colour[p] = image[<<p[1] - x, p[2] - y>>]
          /\ buf' = Write(buf, colour)
    BY <1>0, BlitWrites
  <1>2. Drawn(buf, colour, buf')
    BY <1>0, <1>1, WriteDraws
  <1>3. ramp' = <<>> /\ info' = info
    BY DEF blit_window, Op
  <1>4. ASSUME NEW p \in Pixel PROVE read_pixel(buf', p) = picture'[p]
    <2>1. picture'[p] = IF p \in Rect(x, y, w, h) THEN Shown(image[<<p[1] - x, p[2] - y>>]) ELSE picture[p]
      BY DEF blit_window
    <2>2. read_pixel(buf', p) = IF p \in DOMAIN colour THEN Shown(colour[p]) ELSE read_pixel(buf, p)
      BY <1>2 DEF Drawn
    <2>3. CASE p \in DOMAIN colour
      BY <1>1, <2>1, <2>2, <2>3
    <2>4. CASE p \notin DOMAIN colour
      BY <1>0, <1>1, <2>1, <2>2, <2>4
    <2> QED
      BY <2>3, <2>4
  <1> QED
    BY <1>2, <1>3, <1>4, NextInv DEF Drawn

\* The gradient covers the screen.
LEMMA GradientDraws ==
  ASSUME info \in Formats, NEW b \in Buffer, NEW top \in Colour, NEW bottom \in Colour
  PROVE  /\ DOMAIN Gradient(top, bottom) = Pixel
         /\ Drawn(b, Gradient(top, bottom), PutEach(b, Gradient(top, bottom)))
  <1>1. PICK colour : colour = Gradient(top, bottom)
    OBVIOUS
  <1>2. DOMAIN colour = Pixel /\ \A p \in Pixel : colour[p] = RowColour(top, bottom, p[2], Height)
    BY <1>1 DEF Gradient
  <1>3. ASSUME NEW p \in Pixel PROVE colour[p] \in Colour
    <2>1. p[2] \in 0 .. Height - 1
      BY DEF Pixel
    <2>2. RowColour(top, bottom, p[2], Height) \in Colour
      BY <2>1, RowColours
    <2> QED
      BY <1>2, <2>2
  <1>4. Pixel \subseteq Nat \X Nat
    BY SizeAssumption DEF Pixel
  <1>5. Drawn(b, colour, PutEach(b, colour))
    BY <1>2, <1>3, <1>4, PutEachDraws
  <1> QED
    BY <1>1, <1>2, <1>5

LEMMA GradientInv ==
  ASSUME FbInv, NEW top \in Colours, NEW bottom \in Colours, fill_vertical_gradient(top, bottom)
  PROVE  FbInv'
  <1>0. info \in Formats /\ buf \in Buffer /\ top \in Colour /\ bottom \in Colour
    BY ColourAssumption DEF FbInv, Buffer, Size
  <1>1. PICK colour : colour = Gradient(top, bottom)
    OBVIOUS
  <1>2. DOMAIN colour = Pixel /\ Drawn(buf, colour, buf')
    BY <1>0, <1>1, GradientDraws DEF fill_vertical_gradient
  <1>3. \A p \in Pixel : picture'[p] = Shown(colour[p])
    BY <1>1 DEF fill_vertical_gradient
  <1>4. ramp' = <<top, bottom>> /\ info' = info
    BY DEF fill_vertical_gradient, Op
  <1>5. ramp'[1] = top /\ ramp'[2] = bottom
    BY <1>4
  <1>6. \A p \in Pixel : picture'[p] = Shown(Gradient(ramp'[1], ramp'[2])[p])
    BY <1>1, <1>3, <1>5
  <1>7. \A p \in Pixel : read_pixel(buf', p) = picture'[p]
    BY <1>2, <1>3 DEF Drawn
  <1> QED
    BY <1>0, <1>2, <1>4, <1>5, <1>6, <1>7, NextInv DEF Drawn

LEMMA BackgroundInv ==
  ASSUME FbInv, NEW top \in Colours, NEW bottom \in Colours, NEW dot \in Colours,
         draw_background(top, bottom, dot)
  PROVE  FbInv'
  <1>0. /\ info \in Formats /\ buf \in Buffer
        /\ top \in Colour /\ bottom \in Colour /\ dot \in Colour
    BY ColourAssumption DEF FbInv, Buffer, Size
  <1>1. PICK colour : colour = Gradient(top, bottom)
    OBVIOUS
  <1>2. PICK plain : plain = PutEach(buf, colour)
    OBVIOUS
  <1>3. DOMAIN colour = Pixel /\ Drawn(buf, colour, plain)
    BY <1>0, <1>1, <1>2, GradientDraws
  <1>4. Dots \subseteq Nat \X Nat
    BY SizeAssumption DEF Dots, Pixel
  <1>5. plain \in Buffer
    BY <1>3 DEF Drawn
  <1>6. Filled(plain, Dots, dot, buf')
    <2>1. buf' = PutAll(plain, Dots, dot)
      BY <1>1, <1>2 DEF draw_background
    <2> QED
      BY <1>0, <1>4, <1>5, <2>1, PutAllFills
  <1>7. \A p \in Pixel : picture'[p] = Shown(IF p \in Dots THEN dot ELSE colour[p])
    BY <1>1 DEF draw_background
  <1>8. \A p \in Pixel : read_pixel(buf', p) = picture'[p]
    BY <1>3, <1>6, <1>7 DEF Drawn, Filled
  <1>9. ramp' = <<>> /\ info' = info
    BY DEF draw_background, Op
  <1>10. /\ buf' \in Buffer
         /\ \A o \in 1 .. Size :
              (\A p \in Pixel : o - Offset(p) \notin 1 .. info.bpp) => buf'[o] = buf[o]
    BY <1>3, <1>6 DEF Drawn, Filled
  <1> QED
    BY <1>8, <1>9, <1>10, NextInv

-----------------------------------------------------------------------------
\* No operation leaves the buffer and the picture apart (FbNext).
THEOREM FbInvariant == FbSpec => []FbInv
  <1>1. FbInit => FbInv
    BY InitInv
  <1>2. FbInv /\ [FbNext]_fbVars => FbInv'
    <2> SUFFICES ASSUME FbInv, [FbNext]_fbVars PROVE FbInv'
      OBVIOUS
    <2>1. CASE UNCHANGED fbVars
      <3>1. info' = info /\ buf' = buf /\ picture' = picture /\ ramp' = ramp
        BY <2>1 DEF fbVars
      <3>2. buf' \in Buffer /\ \A p \in Pixel : read_pixel(buf', p) = picture'[p]
        BY <3>1 DEF FbInv, Buffer, Size
      <3>3. ramp' # <<>> =>
              /\ ramp'[1] \in Colour /\ ramp'[2] \in Colour
              /\ \A p \in Pixel : picture'[p] = Shown(Gradient(ramp'[1], ramp'[2])[p])
        BY <3>1 DEF FbInv
      <3> QED
        BY <3>1, <3>2, <3>3, NextInv
    <2>2. CASE FbNext
      <3>1. ASSUME NEW x \in 0 .. Width - 1, NEW y \in 0 .. Height - 1,
                   NEW w \in 0 .. Width, NEW h \in 1 .. Height, NEW c \in Colours,
                   fill_rect(x, y, w, h, c) \/ draw_rect_outline(x, y, w, h, c)
            PROVE  FbInv'
        BY <3>1, FillRectInv, OutlineInv
      <3>2. ASSUME NEW x \in 0 .. Width - 1, NEW y \in 0 .. Height - 1,
                   NEW w \in 0 .. Width, NEW h \in 1 .. Height, NEW image \in Pictures,
                   blit_window(x, y, w, h, image)
            PROVE  FbInv'
        BY <3>2, BlitInv
      <3>3. ASSUME NEW x \in 0 .. Width - 1, NEW y \in 0 .. Height - 1, NEW n \in 1 .. 2,
                   NEW c \in Colours, draw_text(x, y, n, c)
            PROVE  FbInv'
        BY <3>3, TextInv
      <3>4. ASSUME NEW c \in Colours, NEW d \in Colours,
                   fill_vertical_gradient(c, d) \/ draw_background(d, d, c)
            PROVE  FbInv'
        BY <3>4, GradientInv, BackgroundInv
      <3> QED
        BY <2>2, <3>1, <3>2, <3>3, <3>4 DEF FbNext
    <2> QED
      BY <2>1, <2>2
  <1> QED
    BY <1>1, <1>2, PTL DEF FbSpec

\* What is in the bytes is the picture, down to the last row and in every format, and
\* the bytes between rows are left alone (put_pixel and all that draws with it).
THEOREM PictureAlwaysShown == FbSpec => []BufferShowsPicture
  <1>1. FbInv => BufferShowsPicture
    BY GradientShown DEF FbInv, BufferShowsPicture
  <1> QED
    BY <1>1, FbInvariant, PTL

\* The cursor can be put away again, whatever is below it (restore_background).
THEOREM PixelsComeBack == FbSpec => []RestoreIsExact
  <1>1. FbInv => RestoreIsExact
    <2> SUFFICES ASSUME FbInv PROVE RestoreIsExact
      OBVIOUS
    <2>1. info \in Formats /\ buf \in Buffer
      BY DEF FbInv, Buffer, Size
    <2> QED
      BY <2>1, Restored DEF RestoreIsExact
  <1> QED
    BY <1>1, FbInvariant, PTL
=============================================================================
