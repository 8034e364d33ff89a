----------------------------- MODULE Values_proofs -----------------------------
(***************************************************************************)
(* Proofs that the emitted code computes what the operation means: sums,   *)
(* comparisons and logical operations, for every word, every content of    *)
(* the registers and every width of a byte.                                *)
(***************************************************************************)
EXTENDS Correctness_proofs

-----------------------------------------------------------------------------
\* Division with a remainder.
LEMMA Divides ==
    ASSUME NEW x \in Int, NEW d \in Nat \ {0}
    PROVE  \E q \in Int, r \in 0 .. d - 1 : x = q * d + r
<1> DEFINE T == {r \in Nat : \E q \in Int : x = q * d + r}
<1>1. T # {}
  <2>1. CASE x >= 0
    <3>1. x \in Nat /\ 0 \in Int /\ x = 0 * d + x
      BY <2>1
    <3>2. x \in T
      BY <3>1
    <3> QED BY <3>2
  <2>2. CASE x < 0
    <3>1. x * d \in Int /\ x = x * d + (x - x * d)
      OBVIOUS
    <3>2. x - x * d = (-x) * (d - 1)
      OBVIOUS
    <3>3. (-x) * (d - 1) >= 0
      BY <2>2
    <3>4. x - x * d \in Nat
      BY <3>1, <3>2, <3>3
    <3>5. x - x * d \in T
      BY <3>1, <3>4
    <3> QED BY <3>5
  <2> HIDE DEF T
  <2> QED BY <2>1, <2>2
<1>2. PICK r \in T : \A k \in T : r <= k
  <2>1. T \in SUBSET Nat
    OBVIOUS
  <2> HIDE DEF T
  <2> QED BY <1>1, <2>1, LeastNumber
<1>3. r \in Nat
  BY <1>2
<1>4. PICK q \in Int : x = q * d + r
  BY <1>2
<1>5. ~(r >= d)
  <2> SUFFICES ASSUME r >= d PROVE FALSE
    OBVIOUS
  <2>1. r - d \in Nat /\ ~(r <= r - d) /\ q + 1 \in Int
    BY <1>3
  <2>2. q * d \in Int /\ (q + 1) * d = q * d + d
    OBVIOUS
  <2>3. x = (q + 1) * d + (r - d)
    BY <1>3, <1>4, <2>2
  <2>4. r - d \in T
    BY <2>1, <2>3
  <2> HIDE DEF T
  <2> QED BY <1>2, <2>1, <2>4
<1> QED BY <1>3, <1>4, <1>5

LEMMA Unique ==
    ASSUME NEW x \in Int, NEW d \in Nat \ {0}, NEW q \in Int, NEW r \in 0 .. d - 1, x = q * d + r
    PROVE  x \div d = q /\ x % d = r
OBVIOUS

LEMMA DivMod ==
    ASSUME NEW x \in Int, NEW d \in Nat \ {0}
    PROVE  x \div d \in Int /\ (x % d) \in 0 .. d - 1 /\ x = ((x \div d) * d) + (x % d)
<1>1. PICK q \in Int, r \in 0 .. d - 1 : x = q * d + r
  BY Divides
<1>2. x \div d = q /\ x % d = r
  BY <1>1, Unique
<1> QED BY <1>1, <1>2

\* Multiples of the divisor do not matter.
LEMMA Multiples ==
    ASSUME NEW x \in Int, NEW d \in Nat \ {0}, NEW m \in Int
    PROVE  (x + m * d) \div d = (x \div d) + m /\ (x + m * d) % d = x % d
<1>1. PICK q \in Int, r \in 0 .. d - 1 : x = q * d + r
  BY Divides
<1>2. (q + m) * d = q * d + m * d /\ m * d \in Int /\ q * d \in Int /\ q + m \in Int
  OBVIOUS
<1>3. x + m * d = (q + m) * d + r /\ x + m * d \in Int
  BY <1>1, <1>2
<1>4. x \div d = q /\ x % d = r
  BY <1>1, Unique
<1>5. (x + m * d) \div d = q + m /\ (x + m * d) % d = r
  BY <1>1, <1>2, <1>3, Unique
<1> QED BY <1>4, <1>5

LEMMA Small ==
    ASSUME NEW d \in Nat \ {0}, NEW x \in 0 .. d - 1
    PROVE  x % d = x /\ x \div d = 0
<1>1. x = 0 * d + x /\ 0 \in Int
  OBVIOUS
<1> QED BY <1>1, Unique

\* One multiple above or below.
LEMMA Near ==
    ASSUME NEW d \in Nat \ {0}, NEW x \in Int
    PROVE  /\ x \in d .. 2 * d - 1 => x % d = x - d
           /\ x \in -d .. -1 => x % d = x + d
<1>1. ASSUME x \in d .. 2 * d - 1 PROVE x % d = x - d
  <2>1. x = 1 * d + (x - d) /\ x - d \in 0 .. d - 1
    BY <1>1
  <2> QED BY <2>1, Unique
<1>2. ASSUME x \in -d .. -1 PROVE x % d = x + d
  <2>1. x = (-1) * d + (x + d) /\ x + d \in 0 .. d - 1 /\ -1 \in Int
    BY <1>2
  <2> QED BY <2>1, Unique
<1> QED BY <1>1, <1>2

-----------------------------------------------------------------------------
\* Powers of two.
Power(n) == 2^n

LEMMA PowerFacts ==
    /\ Power(0) = 1
    /\ \A n \in 0 .. 2 * W : Power(n + 1) = 2 * Power(n)
BY PowersAssumption DEF Power

LEMMA PowersPositive == \A n \in 0 .. 2 * W + 1 : Power(n) \in Nat \ {0}
<1> DEFINE T == {n \in 0 .. 2 * W + 1 : Power(n) \notin Nat \ {0}}
<1>1. T = {}
  <2> SUFFICES ASSUME T # {} PROVE FALSE
    OBVIOUS
  <2>1. PICK n \in T : \A k \in T : n <= k
    <3>1. T \in SUBSET Nat
      BY ByteAssumption DEF W
    <3> HIDE DEF T
    <3> QED BY <3>1, LeastNumber
  <2>2. n # 0
    BY <2>1, PowerFacts
  <2>3. n - 1 \in 0 .. 2 * W + 1 /\ n - 1 \in 0 .. 2 * W /\ n = (n - 1) + 1 /\ ~(n <= n - 1)
    BY <2>1, <2>2, ByteAssumption DEF W
  <2>4. Power(n - 1) \in Nat \ {0}
    BY <2>1, <2>3
  <2>5. Power(n) = 2 * Power(n - 1)
    BY <2>3, PowerFacts
  <2> QED BY <2>1, <2>4, <2>5
<1> QED BY <1>1

LEMMA PowersAdd ==
    ASSUME NEW x \in Nat, NEW y \in Nat, x + y <= 2 * W + 1
    PROVE  Power(x + y) = Power(x) * Power(y)
<1>0. W \in Nat
  BY ByteAssumption DEF W
<1> DEFINE T == {n \in 0 .. y : Power(x + n) # Power(x) * Power(n)}
<1>1. T = {}
  <2> SUFFICES ASSUME T # {} PROVE FALSE
    OBVIOUS
  <2>1. PICK n \in T : \A k \in T : n <= k
    <3>1. T \in SUBSET Nat
      OBVIOUS
    <3> HIDE DEF T
    <3> QED BY <3>1, LeastNumber
  <2>2. x \in 0 .. 2 * W + 1 /\ Power(x) \in Nat
    BY <1>0, PowersPositive
  <2>3. n # 0
    <3>1. x + 0 = x /\ Power(x) * Power(0) = Power(x)
      BY <2>2, PowerFacts
    <3> QED BY <2>1, <3>1
  <2>4. n - 1 \in 0 .. y /\ ~(n <= n - 1) /\ n - 1 \in 0 .. 2 * W /\ x + (n - 1) \in 0 .. 2 * W
        /\ (n - 1) + 1 = n /\ (x + (n - 1)) + 1 = x + n /\ n - 1 \in 0 .. 2 * W + 1
    BY <1>0, <2>1, <2>3
  <2>5. Power(x + (n - 1)) = Power(x) * Power(n - 1)
    BY <2>1, <2>4
  <2>6. Power(n) = 2 * Power(n - 1) /\ Power(x + n) = 2 * Power(x + (n - 1))
    BY <2>4, PowerFacts
  <2>7. Power(n - 1) \in Nat
    BY <2>4, PowersPositive
  <2>8. \A p, q \in Nat : 2 * (p * q) = p * (2 * q)
    OBVIOUS
  <2>9. Power(x + n) = Power(x) * Power(n)
    BY <2>2, <2>5, <2>6, <2>7, <2>8
  <2> QED BY <2>1, <2>9
<1>2. y \in 0 .. y
  OBVIOUS
<1> QED BY <1>1, <1>2

\* The powers the model names: the bytes, the word, the doubleword and their
\* halves.
OneByte == 2^Byte
TwoByte == 2^(2 * Byte)
Half == 2^(W - 1)
HalfDouble == 2^(2 * W - 1)
Doubles == 2^(2 * W)

LEMMA Sizes ==
    /\ W \in Nat /\ W >= 4
    /\ OneByte \in Nat /\ OneByte >= 2
    /\ TwoByte \in Nat /\ TwoByte = OneByte * OneByte
    /\ Words \in Nat /\ Words = TwoByte * TwoByte
    /\ Half \in Nat /\ Words = 2 * Half /\ Half >= TwoByte
    /\ Doubles \in Nat /\ Doubles = Words * Words
    /\ HalfDouble \in Nat /\ Doubles = 2 * HalfDouble /\ HalfDouble = Half * Words
    /\ 2 * 2^(ImmBits - 1) = TwoByte /\ 2^ImmBits = TwoByte /\ 2^(ImmBits - 1) \in Nat
    /\ OneByte * Words <= HalfDouble
<1> DEFINE B == Power(Byte)
           C == Power(2 * Byte)
           N == Power(W)
           H == Power(W - 1)
           D == Power(2 * W)
           E == Power(2 * W - 1)
           M == Power(ImmBits - 1)
<1>1. Byte \in Nat /\ Byte >= 1 /\ W = 4 * Byte /\ W \in Nat /\ ImmBits = 2 * Byte
  BY ByteAssumption, ImmediateIsTwoBytes DEF W
<1>2. B \in Nat \ {0} /\ C \in Nat \ {0} /\ N \in Nat \ {0} /\ H \in Nat \ {0}
      /\ D \in Nat \ {0} /\ E \in Nat \ {0} /\ M \in Nat \ {0} /\ Power(Byte - 1) \in Nat \ {0}
      /\ Power(2 * Byte - 1) \in Nat \ {0}
  BY <1>1, PowersPositive
<1>3. C = B * B /\ N = C * C /\ D = N * N /\ E = H * N
  <2>1. Byte + Byte = 2 * Byte /\ 2 * Byte + 2 * Byte = W /\ W + W = 2 * W /\ (W - 1) + W = 2 * W - 1
    BY <1>1
  <2> QED BY <1>1, <2>1, PowersAdd
<1>4. B = 2 * Power(Byte - 1) /\ N = 2 * H /\ D = 2 * E /\ C = 2 * M
  <2>1. Byte - 1 \in 0 .. 2 * W /\ W - 1 \in 0 .. 2 * W /\ 2 * W - 1 \in 0 .. 2 * W
        /\ ImmBits - 1 \in 0 .. 2 * W
        /\ (Byte - 1) + 1 = Byte /\ (W - 1) + 1 = W /\ (2 * W - 1) + 1 = 2 * W
        /\ (ImmBits - 1) + 1 = 2 * Byte
    BY <1>1
  <2> QED BY <2>1, PowerFacts
<1>5. B >= 2 /\ C >= 2 * B
  <2>1. B >= 2
    BY <1>2, <1>4
  <2> HIDE DEF B, C
  <2>2. B * B >= 2 * B
    BY <1>2, <2>1
  <2> QED BY <1>3, <2>1, <2>2
<1>6. H >= C
  <2> HIDE DEF B, C, N, H
  <2>1. C * C >= 2 * C
    BY <1>2, <1>5
  <2> QED BY <1>2, <1>3, <1>4, <2>1
<1>7. B * N <= E
  <2> HIDE DEF B, C, N, H, E
  <2>1. B <= H
    BY <1>2, <1>5, <1>6
  <2>2. B * N <= H * N
    BY <1>2, <2>1
  <2> QED BY <1>3, <2>2
<1>8. W >= 4 /\ OneByte = B /\ TwoByte = C /\ Words = N /\ Half = H /\ Doubles = D /\ HalfDouble = E
      /\ 2^(ImmBits - 1) = M /\ 2^ImmBits = C
  BY <1>1 DEF OneByte, TwoByte, Words, Half, Doubles, HalfDouble, Power
<1> HIDE DEF B, C, N, H, D, E, M
<1> QED BY <1>1, <1>2, <1>3, <1>4, <1>5, <1>6, <1>7, <1>8
-----------------------------------------------------------------------------
\* Words with a sign, and the adder.
Word0 == 0 .. Words - 1

LEMMA SignedFacts ==
    ASSUME NEW x \in Word0
    PROVE  /\ Signed(x) = IF x >= Half THEN x - Words ELSE x
           /\ Signed(x) \in -Half .. Half - 1
           /\ Signed(x) % Words = x
           /\ Flipped(x) \in Word0 /\ Signed(Flipped(x)) = -1 - Signed(x)
<1>1. Words \in Nat \ {0} /\ Half \in Nat /\ Words = 2 * Half /\ x \in Int
  BY Sizes DEF Word0
<1>2. \A y : Signed(y) = IF y >= Half THEN y - Words ELSE y
  BY DEF Signed, Half
<1> HIDE DEF Words, Half
<1>3. Signed(x) \in -Half .. Half - 1
  BY <1>1, <1>2 DEF Word0
<1>4. Signed(x) % Words = x
  <2>1. CASE x >= Half
    <3>1. x - Words \in -Words .. -1 /\ x - Words \in Int
      BY <1>1, <2>1 DEF Word0
    <3>2. (x - Words) % Words = (x - Words) + Words
      BY <1>1, <3>1, Near
    <3> QED BY <1>1, <1>2, <2>1, <3>2
  <2>2. CASE ~(x >= Half)
    BY <1>1, <1>2, <2>2, Small DEF Word0
  <2> QED BY <2>1, <2>2
<1>5. Flipped(x) \in Word0 /\ Signed(Flipped(x)) = -1 - Signed(x)
  BY <1>1, <1>2 DEF Word0, Flipped
<1> QED BY <1>2, <1>3, <1>4, <1>5

\* The adder gives the sum of the signed words, a carry when the unsigned sum
\* is no word, and an overflow when the signed one is none.
LEMMA AdderFacts ==
    ASSUME NEW x \in Word0, NEW y \in Word0, NEW c \in {0, 1}, NEW r, r = Adder(x, y, c),
           NEW sum, sum = Signed(x) + Signed(y) + c
    PROVE  /\ r.val \in Word0 /\ r.val = sum % Words
           /\ r.val = IF x + y + c >= Words THEN (x + y + c) - Words ELSE x + y + c
           /\ r.c \in BOOLEAN /\ (r.c <=> x + y + c >= Words)
           /\ r.v \in BOOLEAN /\ (r.v <=> sum \notin -Half .. Half - 1)
           /\ ~r.v => Signed(r.val) = sum
<1> DEFINE u == x + y + c
<1>1. Words \in Nat \ {0} /\ Half \in Nat /\ Words = 2 * Half /\ x \in Int /\ y \in Int /\ c \in Int
  BY Sizes DEF Word0
<1>2. \A z : Signed(z) = IF z >= Half THEN z - Words ELSE z
  BY DEF Signed, Half
<1>3. r = [val |-> u % Words, c |-> u >= Words, v |-> sum # Signed(u % Words)]
  BY DEF Adder
<1>4. r.val = u % Words /\ (r.c <=> u >= Words) /\ (r.v <=> sum # Signed(u % Words))
      /\ r.c \in BOOLEAN /\ r.v \in BOOLEAN
  <2>1. r.val = u % Words
    BY <1>3
  <2>2. r.c = (u >= Words)
    BY <1>3
  <2>3. r.v = (sum # Signed(u % Words))
    BY <1>3
  <2>4. CASE u >= Words
    <3>1. (u >= Words) = TRUE
      BY <2>4
    <3> QED BY <2>1, <2>2, <2>3, <3>1, Zenon
  <2>5. CASE ~(u >= Words)
    <3>1. (u >= Words) = FALSE
      BY <2>5
    <3> QED BY <2>1, <2>2, <2>3, <3>1, Zenon
  <2> QED BY <2>4, <2>5
<1> HIDE DEF Words, Half
<1>5. u % Words = IF u >= Words THEN u - Words ELSE u
  <2>1. CASE u >= Words
    <3>1. u \in Words .. 2 * Words - 1 /\ u \in Int
      BY <1>1, <2>1 DEF Word0
    <3> QED BY <1>1, <2>1, <3>1, Near
  <2>2. CASE ~(u >= Words)
    <3>1. u \in 0 .. Words - 1
      BY <1>1, <2>2 DEF Word0
    <3> QED BY <1>1, <2>2, <3>1, Small
  <2> QED BY <2>1, <2>2
<1>6. Signed(x) = (IF x >= Half THEN x - Words ELSE x) /\ Signed(y) = (IF y >= Half THEN y - Words ELSE y)
      /\ Signed(u % Words) = IF u % Words >= Half THEN (u % Words) - Words ELSE u % Words
  BY <1>2
<1>7. sum \in Int /\ sum \in {u, u - Words, u - 2 * Words}
  BY <1>1, <1>6
<1>8. sum % Words = u % Words
  <2>1. u + (-1) * Words = u - Words /\ u + (-2) * Words = u - 2 * Words /\ -1 \in Int /\ -2 \in Int
        /\ u \in Int
    BY <1>1
  <2> HIDE DEF u
  <2>2. (u + (-1) * Words) % Words = u % Words
    BY <1>1, <2>1, Multiples, ZenonT(60)
  <2>3. (u + (-2) * Words) % Words = u % Words
    BY <1>1, <2>1, Multiples, ZenonT(60)
  <2> QED BY <1>7, <2>1, <2>2, <2>3
<1>9. u % Words \in Word0
  BY <1>1, <1>5 DEF Word0
<1>10. (sum # Signed(u % Words)) <=> sum \notin -Half .. Half - 1
  <2> DEFINE z == u % Words
  <2>1. z = IF u >= Words THEN u - Words ELSE u
    BY <1>5
  <2>2. Signed(z) = IF z >= Half THEN z - Words ELSE z
    BY <1>2
  <2> HIDE DEF z
  <2>3. (sum # Signed(z)) <=> sum \notin -Half .. Half - 1
    BY <1>1, <1>6, <2>1, <2>2 DEF Word0
  <2> QED BY <2>3 DEF z
<1>11. sum % Words = r.val /\ r.val \in Word0 /\ (r.v <=> sum \notin -Half .. Half - 1)
       /\ (r.val = IF u >= Words THEN u - Words ELSE u)
  BY <1>4, <1>5, <1>8, <1>9, <1>10
<1>12. ~r.v => Signed(r.val) = sum
  BY <1>4
<1>13. r.val = IF x + y + c >= Words THEN (x + y + c) - Words ELSE x + y + c
  <2>1. r.val = u % Words
    BY <1>4
  <2> QED BY <1>5, <2>1, Zenon
<1>14. r.c \in BOOLEAN /\ (r.c <=> x + y + c >= Words) /\ r.v \in BOOLEAN
  BY <1>4
<1> HIDE DEF u
<1> QED BY <1>11, <1>12, <1>13, <1>14

-----------------------------------------------------------------------------
\* Doublewords: the sign is in the high word.
LEMMA DoubleFacts ==
    ASSUME NEW hi \in Word0, NEW lo \in Word0
    PROVE  /\ Double(hi, lo) \in 0 .. Doubles - 1
           /\ SignedDouble(Double(hi, lo)) = Signed(hi) * Words + lo
           /\ SignedDouble(Double(hi, lo)) \in Int
<1>1. Words \in Nat \ {0} /\ Half \in Nat /\ Words = 2 * Half /\ Doubles \in Nat /\ Doubles = Words * Words
      /\ HalfDouble = Half * Words /\ hi \in Int /\ lo \in Int
  BY Sizes DEF Word0
<1>2. Signed(hi) = (IF hi >= Half THEN hi - Words ELSE hi) /\ Signed(hi) \in Int
  BY <1>1, SignedFacts
<1>3. SignedDouble(Double(hi, lo)) = IF hi * Words + lo >= HalfDouble THEN (hi * Words + lo) - Doubles
                                     ELSE hi * Words + lo
  BY DEF SignedDouble, Double, HalfDouble, Doubles
<1> DEFINE N == Words
<1>4. hi * N \in Int /\ hi * N >= 0 /\ hi * N <= (N - 1) * N
  BY <1>1 DEF Word0
<1>5. Double(hi, lo) \in 0 .. Doubles - 1
  <2>1. (N - 1) * N = N * N - N
    BY <1>1
  <2>2. hi * N + lo <= N * N - 1
    BY <1>1, <1>4, <2>1 DEF Word0
  <2> QED BY <1>1, <1>4, <2>2 DEF Double, Word0
<1>6. CASE hi >= Half
  <2>1. hi * N >= Half * N
    BY <1>1, <1>6
  <2>2. hi * N + lo >= HalfDouble
    BY <1>1, <1>4, <2>1 DEF Word0
  <2>3. (hi - N) * N = hi * N - N * N
    BY <1>1
  <2> QED BY <1>1, <1>2, <1>3, <1>4, <1>5, <1>6, <2>2, <2>3
<1>7. CASE ~(hi >= Half)
  <2>1. hi * N <= (Half - 1) * N
    BY <1>1, <1>7
  <2>2. (Half - 1) * N = Half * N - N /\ Half * N \in Int
    BY <1>1
  <2>3. ~(hi * N + lo >= HalfDouble)
    BY <1>1, <1>4, <2>1, <2>2 DEF Word0
  <2> QED BY <1>1, <1>2, <1>3, <1>4, <1>5, <1>7, <2>3
<1> QED BY <1>6, <1>7

\* A sum of doublewords, from the sum of the high words and the word below.
LEMMA HighLow ==
    ASSUME NEW s \in Int, NEW lo \in Word0
    PROVE  /\ (s * Words + lo) % Doubles = Double(s % Words, lo)
           /\ s * Words + lo \in -HalfDouble .. HalfDouble - 1 <=> s \in -Half .. Half - 1
           /\ s * Words + lo \in Int
<1>1. Words \in Nat \ {0} /\ Half \in Nat /\ Words = 2 * Half /\ Doubles \in Nat /\ Doubles = Words * Words
      /\ HalfDouble = Half * Words /\ lo \in Int
  BY Sizes DEF Word0
<1>2. PICK q \in Int, r \in 0 .. Words - 1 : s = q * Words + r
  BY <1>1, Divides
<1>3. s % Words = r
  BY <1>1, <1>2, Unique
<1> DEFINE N == Words
<1>4. r * N + lo \in 0 .. Doubles - 1
  BY <1>2, DoubleFacts DEF Double, Word0
<1>5. s * N + lo = q * Doubles + (r * N + lo)
  <2>1. (q * N + r) * N = q * (N * N) + r * N
    BY <1>1, <1>2
  <2> QED BY <1>1, <1>2, <2>1
<1>6. s * N + lo \in Int /\ r * N + lo \in Int /\ Doubles \in Nat \ {0}
  BY <1>1, <1>4
<1>7. (s * N + lo) % Doubles = r * N + lo
  BY <1>4, <1>5, <1>6, Unique
<1>8. s * N + lo \in -HalfDouble .. HalfDouble - 1 <=> s \in -Half .. Half - 1
  <2>1. s * N \in Int /\ Half * N \in Int
    BY <1>1
  <2>2. CASE s > Half - 1
    <3>1. s * N >= Half * N
      BY <1>1, <2>2
    <3> QED BY <1>1, <2>1, <2>2, <3>1 DEF Word0
  <2>3. CASE s < -Half
    <3>1. s * N <= (-Half - 1) * N
      BY <1>1, <2>3
    <3>2. (-Half - 1) * N = -(Half * N) - N
      BY <1>1
    <3> QED BY <1>1, <2>1, <2>3, <3>1, <3>2 DEF Word0
  <2>4. CASE s \in -Half .. Half - 1
    <3>1. s * N <= (Half - 1) * N /\ s * N >= (-Half) * N
      BY <1>1, <2>4
    <3>2. (Half - 1) * N = Half * N - N /\ (-Half) * N = -(Half * N)
      BY <1>1
    <3> QED BY <1>1, <2>1, <2>4, <3>1, <3>2 DEF Word0
  <2> QED BY <1>1, <2>2, <2>3, <2>4
<1> QED BY <1>3, <1>6, <1>7, <1>8 DEF Double

-----------------------------------------------------------------------------
\* A pass that leaves every record alone leaves the list alone.
LEMMA FlattenSingles ==
    ASSUME NEW L, IsList(L), NEW Q, Q = [k \in DOMAIN L |-> << L[k] >>]
    PROVE  FlattenSeq(Q) = L
<1>1. Len(L) \in Nat /\ DOMAIN L = 1 .. Len(L)
  BY ListsAreFunctions
<1>2. IsList(Q) /\ Len(Q) = Len(L)
  <2>1. Q = [k \in 1 .. Len(L) |-> Q[k]]
    BY <1>1
  <2> QED BY <1>1, <2>1, FunctionsAreLists
<1>3. \A k \in 1 .. Len(L) : Q[k] = << L[k] >>
  BY <1>1
<1> HIDE DEF IsList
<1>4. CASE Len(L) = 0
  <2>1. FlattenSeq(Q) = Q
    BY <1>2, <1>4, FlattenNothing
  <2>2. \A k \in 1 .. Len(Q) : Q[k] = L[k]
    BY <1>2, <1>4
  <2> QED BY <1>2, <2>1, <2>2, ListsEqual
<1>5. CASE Len(L) # 0
  <2>1. PICK f : /\ f[1] = Q[1]
                 /\ \A i \in 2 .. Len(Q) : f[i] = f[i - 1] \o Q[i]
                 /\ FlattenSeq(Q) = f[Len(Q)]
    <3>1. Len(Q) \in Nat \ {0}
      BY <1>1, <1>2, <1>5
    <3> QED BY <3>1, FlattenStates, Zenon
  <2> DEFINE Upto(n) == IsList(f[n]) /\ Len(f[n]) = n /\ \A k \in 1 .. n : f[n][k] = L[k]
             T == {n \in 1 .. Len(L) : ~Upto(n)}
  <2>2. T = {}
    <3> SUFFICES ASSUME T # {} PROVE FALSE
      OBVIOUS
    <3>1. PICK n \in T : \A j \in T : n <= j
      <4>1. T \in SUBSET Nat
        BY <1>1
      <4> HIDE DEF T
      <4> QED BY <4>1, LeastNumber
    <3>2. n \in 1 .. Len(L) /\ ~Upto(n)
      BY <3>1
    <3>3. n # 1
      <4>1. 1 \in 1 .. Len(L) /\ f[1] = << L[1] >>
        BY <1>1, <1>3, <1>5, <2>1
      <4>2. << L[1] >> \in Seq({L[1]}) /\ Len(<< L[1] >>) = 1
        OBVIOUS
      <4>3. IsList(f[1]) /\ Len(f[1]) = 1 /\ f[1][1] = L[1]
        BY <4>1, <4>2 DEF IsList
      <4>4. Upto(1)
        BY <4>3
      <4> HIDE DEF Upto
      <4> QED BY <3>2, <4>4
    <3>4. n - 1 \in 1 .. Len(L) /\ n \in 2 .. Len(Q) /\ ~(n <= n - 1)
      BY <1>1, <1>2, <3>2, <3>3
    <3>5. Upto(n - 1)
      <4> HIDE DEF Upto
      <4> QED BY <3>1, <3>4
    <3>6. f[n] = f[n - 1] \o << L[n] >>
      BY <1>3, <2>1, <3>2, <3>4
    <3> DEFINE front == f[n - 1]
               last == << L[n] >>
    <3>7. IsList(last) /\ Len(last) = 1 /\ last[1] = L[n]
      <4>1. last \in Seq({L[n]})
        OBVIOUS
      <4> QED BY <4>1 DEF IsList
    <3>8. IsList(front) /\ Len(front) = n - 1 /\ \A k \in 1 .. n - 1 : front[k] = L[k]
      BY <3>5
    <3> HIDE DEF front, last
    <3>9. IsList(front \o last) /\ Len(front \o last) = n /\ (front \o last)[Len(front) + 1] = L[n]
          /\ \A k \in 1 .. n - 1 : (front \o last)[k] = L[k]
      <4>1. IsList(front \o last) /\ Len(front \o last) = Len(front) + Len(last)
            /\ (\A k \in 1 .. Len(front) : (front \o last)[k] = front[k])
            /\ (\A k \in 1 .. Len(last) : (front \o last)[Len(front) + k] = last[k])
        <5>1. IsList(front) /\ IsList(last)
          BY <3>7, <3>8
        <5> HIDE DEF T, Upto
        <5> QED BY <5>1, ListsJoin
      <4>2. 1 \in 1 .. Len(last) /\ n \in Int
        BY <3>2, <3>7
      <4>3. (front \o last)[Len(front) + 1] = L[n]
        BY <3>7, <4>1, <4>2
      <4>4. Len(front \o last) = n
        BY <3>7, <3>8, <4>1, <4>2
      <4> QED BY <3>8, <4>1, <4>3, <4>4
    <3>10. \A k \in 1 .. n : (front \o last)[k] = L[k]
      <4>1. ASSUME NEW k \in 1 .. n PROVE (front \o last)[k] = L[k]
        <5>1. k \in 1 .. n - 1 \/ k = Len(front) + 1
          BY <3>2, <3>8
        <5>2. k = Len(front) + 1 => k = n
          BY <3>2, <3>8
        <5> QED BY <3>9, <5>1, <5>2
      <4> QED BY <4>1
    <3>11. f[n] = front \o last
      BY <3>6 DEF front, last
    <3> QED BY <3>2, <3>9, <3>10, <3>11
  <2>3. Upto(Len(L))
    <3>1. Len(L) \in 1 .. Len(L)
      BY <1>1, <1>5
    <3> HIDE DEF Upto
    <3> QED BY <2>2, <3>1
  <2> QED BY <1>2, <2>1, <2>3, ListsEqual
<1> QED BY <1>4, <1>5

\* A list of one record.
LEMMA Single ==
    ASSUME NEW x
    PROVE  IsList(<< x >>) /\ Len(<< x >>) = 1 /\ << x >>[1] = x /\ DOMAIN << x >> = 1 .. 1
<1>1. << x >> \in Seq({x})
  OBVIOUS
<1>2. IsList(<< x >>)
  BY <1>1 DEF IsList
<1>3. Len(<< x >>) = 1 /\ << x >>[1] = x
  OBVIOUS
<1> QED BY <1>2, <1>3, ListsAreFunctions

LEMMA FlattenSingle ==
    ASSUME NEW x, NEW Q, Q = [k \in DOMAIN << x >> |-> Q[k]]
    PROVE  FlattenSeq(Q) = Q[1]
<1>1. Q = << Q[1] >>
  <2>1. Q = [k \in 1 .. 1 |-> Q[k]]
    BY Single
  <2>2. IsList(Q) /\ Len(Q) = 1
    BY <2>1, FunctionsAreLists
  <2>3. \A k \in 1 .. Len(Q) : Q[k] = << Q[1] >>[k]
    BY <2>2, Single
  <2> QED BY <2>2, <2>3, Single, ListsEqual
<1> QED BY <1>1, FlattenOne

-----------------------------------------------------------------------------
\* Running a list that is one record longer.
LEMMA ExecuteNothing == ASSUME NEW s, NEW junk PROVE Execute(s, << >>, junk) = s
<1>1. Len(<< >>) = 0 /\ Len(<< >>) \in Nat
  OBVIOUS
<1> DEFINE L == << >>
<1> HIDE DEF L
<1>2. PICK state : Trace(state, s, L, junk) /\ Execute(s, L, junk) = state[Len(L)]
  BY <1>1, ExecuteStates DEF L
<1> QED BY <1>1, <1>2 DEF Trace, L

LEMMA ExecuteAppend ==
    ASSUME NEW s, NEW A, IsList(A), NEW x, NEW junk
    PROVE  Execute(s, A \o << x >>, junk) = Step(Execute(s, A, junk), x, junk)
<1> DEFINE L == A \o << x >>
           n == Len(A)
<1>1. /\ IsList(L) /\ n \in Nat /\ Len(L) = n + 1 /\ L[n + 1] = x
      /\ \A k \in 1 .. n : L[k] = A[k]
  BY ListsAreFunctions, ListsJoin, Single
<1> HIDE DEF L, n
<1>2. PICK f : Trace(f, s, A, junk) /\ Execute(s, A, junk) = f[n]
  BY <1>1, ExecuteStates DEF n
<1>3. PICK g : Trace(g, s, L, junk) /\ Execute(s, L, junk) = g[n + 1]
  BY <1>1, ExecuteStates
<1>4. f[0] = s /\ \A k \in 1 .. n : f[k] = Step(f[k - 1], A[k], junk)
  BY <1>2 DEF Trace, n
<1>5. g[0] = s /\ \A k \in 1 .. n + 1 : g[k] = Step(g[k - 1], L[k], junk)
  BY <1>1, <1>3 DEF Trace
<1> DEFINE T == {k \in 0 .. n : f[k] # g[k]}
<1>6. T = {}
  <2> SUFFICES ASSUME T # {} PROVE FALSE
    OBVIOUS
  <2>1. PICK k \in T : \A j \in T : k <= j
    <3>1. T \in SUBSET Nat
      BY <1>1
    <3> HIDE DEF T
    <3> QED BY <3>1, LeastNumber
  <2>2. k # 0
    BY <1>4, <1>5, <2>1
  <2>3. k - 1 \in 0 .. n /\ ~(k <= k - 1) /\ k \in 1 .. n /\ k \in 1 .. n + 1
    BY <1>1, <2>1, <2>2
  <2>4. f[k - 1] = g[k - 1]
    BY <2>1, <2>3
  <2>5. f[k] = Step(f[k - 1], A[k], junk) /\ g[k] = Step(g[k - 1], L[k], junk) /\ L[k] = A[k]
    BY <1>1, <1>4, <1>5, <2>3
  <2> QED BY <2>1, <2>4, <2>5
<1>7. n \in 0 .. n /\ n + 1 \in 1 .. n + 1 /\ (n + 1) - 1 = n
  BY <1>1
<1>8. f[n] = g[n]
  BY <1>6, <1>7
<1>9. g[n + 1] = Step(g[n], x, junk)
  BY <1>1, <1>5, <1>7
<1> QED BY <1>2, <1>3, <1>8, <1>9 DEF L

\* What runs of a list: CleanUp drops the records without an effect.
Emitted(L) == FlattenSeq([k \in DOMAIN L |-> Translate_CleanUp(L[k])])
Skip(s, i, junk) == IF i.op = "NO_OP" THEN s ELSE Step(s, i, junk)
Runs(s, L, t, junk) ==
    \E st : /\ st[0] = s /\ st[Len(L)] = t
            /\ \A k \in 1 .. Len(L) : st[k] = Skip(st[k - 1], L[k], junk)

LEMMA Through ==
    ASSUME NEW L, IsList(L), NEW s, NEW junk,
           \A k \in 1 .. Len(L) : Dropped(L[k]) <=> L[k].op = "NO_OP"
    PROVE  Runs(s, L, Execute(s, Emitted(L), junk), junk)
<1> DEFINE n == Len(L)
           Q == [k \in DOMAIN L |-> Translate_CleanUp(L[k])]
<1>1. n \in Nat /\ DOMAIN L = 1 .. n /\ IsList(Q) /\ Len(Q) = n
      /\ \A k \in 1 .. n : Q[k] = Translate_CleanUp(L[k])
  <2>1. n \in Nat /\ DOMAIN L = 1 .. n
    BY ListsAreFunctions
  <2>2. Q = [k \in 1 .. n |-> Q[k]]
    BY <2>1
  <2>3. \A k \in 1 .. n : Q[k] = Translate_CleanUp(L[k])
    BY <2>1
  <2> HIDE DEF Q, n
  <2> QED BY <2>1, <2>2, <2>3, FunctionsAreLists
<1>2. Emitted(L) = FlattenSeq(Q)
  BY DEF Emitted
<1>3. \A k \in 1 .. n : IF L[k].op = "NO_OP" THEN Q[k] = << >> ELSE Q[k] = << L[k] >>
  BY <1>1 DEF Translate_CleanUp
<1> HIDE DEF Q, n
<1>4. CASE n = 0
  <2>1. Emitted(L) = << >>
    <3>1. FlattenSeq(Q) = Q
      BY <1>1, <1>4, FlattenNothing
    <3>2. IsList(<< >>) /\ Len(<< >>) = 0
      BY DEF IsList
    <3>3. \A k \in 1 .. Len(Q) : Q[k] = << >>[k]
      BY <1>1, <1>4
    <3>4. Q = << >>
      BY <1>1, <1>4, <3>2, <3>3, ListsEqual
    <3> QED BY <1>2, <3>1, <3>4
  <2>2. Execute(s, Emitted(L), junk) = s
    BY <2>1, ExecuteNothing
  <2> DEFINE st == [k \in 0 .. 0 |-> s]
  <2>3. st[0] = s /\ st[n] = s /\ \A k \in 1 .. n : st[k] = Skip(st[k - 1], L[k], junk)
    BY <1>4
  <2> HIDE DEF st
  <2> QED BY <2>2, <2>3 DEF Runs, n
<1>5. CASE n # 0
  <2>1. PICK f : /\ f[1] = Q[1]
                 /\ \A i \in 2 .. n : f[i] = f[i - 1] \o Q[i]
                 /\ FlattenSeq(Q) = f[n]
    <3>1. Len(Q) \in Nat \ {0}
      BY <1>1, <1>5
    <3> QED BY <3>1, <1>1, FlattenStates, Zenon
  <2> DEFINE T == {k \in 1 .. n : ~IsList(f[k])}
  <2>2. \A k \in 1 .. n : IsList(Q[k])
    <3>1. IsList(<< >>)
      BY DEF IsList
    <3> QED BY <1>3, <3>1, Single
  <2>3. T = {}
    <3> SUFFICES ASSUME T # {} PROVE FALSE
      OBVIOUS
    <3>1. PICK k \in T : \A j \in T : k <= j
      <4>1. T \in SUBSET Nat
        BY <1>1
      <4> HIDE DEF T
      <4> QED BY <4>1, LeastNumber
    <3>2. k # 1
      BY <1>1, <2>1, <2>2, <3>1
    <3>3. k - 1 \in 1 .. n /\ ~(k <= k - 1) /\ k \in 2 .. n
      BY <1>1, <3>1, <3>2
    <3>4. IsList(f[k - 1]) /\ IsList(Q[k]) /\ f[k] = f[k - 1] \o Q[k]
      BY <2>1, <2>2, <3>1, <3>3
    <3>5. IsList(f[k])
      BY <3>4, ListsJoin
    <3> QED BY <3>1, <3>5
  <2> DEFINE st == [k \in 0 .. n |-> IF k = 0 THEN s ELSE Execute(s, f[k], junk)]
  <2>4. ASSUME NEW k \in 1 .. n PROVE st[k] = Skip(st[k - 1], L[k], junk)
    <3>1. st[k] = Execute(s, f[k], junk)
      BY <1>1
    <3>2. CASE k = 1
      <4>1. st[k - 1] = s
        BY <1>1, <3>2
      <4>2. CASE L[k].op = "NO_OP"
        BY <1>3, <2>1, <3>1, <3>2, <4>1, <4>2, ExecuteNothing DEF Skip
      <4>3. CASE L[k].op # "NO_OP"
        <5>1. f[k] = << L[k] >>
          BY <1>3, <2>1, <3>2, <4>3
        <5>2. IsList(<< >>) /\ << >> \o << L[k] >> = << L[k] >>
          BY DEF IsList
        <5>3. Execute(s, << L[k] >>, junk) = Step(Execute(s, << >>, junk), L[k], junk)
          <6> DEFINE e == << >>
                     i == L[k]
          <6>1. IsList(e) /\ e \o << i >> = << i >>
            BY <5>2
          <6> HIDE DEF e, i
          <6>2. Execute(s, e \o << i >>, junk) = Step(Execute(s, e, junk), i, junk)
            BY <6>1, ExecuteAppend
          <6> QED BY <6>1, <6>2 DEF e, i
        <5> QED BY <3>1, <4>1, <4>3, <5>1, <5>3, ExecuteNothing DEF Skip
      <4> QED BY <4>2, <4>3
    <3>3. CASE k # 1
      <4>1. k - 1 \in 1 .. n /\ k \in 2 .. n /\ k - 1 # 0 /\ k - 1 \in 0 .. n
        BY <1>1, <3>3
      <4>2. st[k - 1] = Execute(s, f[k - 1], junk)
        BY <4>1
      <4>3. f[k] = f[k - 1] \o Q[k] /\ IsList(f[k - 1])
        BY <2>1, <2>3, <4>1
      <4> HIDE DEF st
      <4>4. CASE L[k].op = "NO_OP"
        <5>1. Q[k] = << >>
          BY <1>3, <4>4
        <5>2. f[k - 1] \o << >> = f[k - 1]
          BY <4>3 DEF IsList
        <5> QED BY <3>1, <4>2, <4>3, <4>4, <5>1, <5>2 DEF Skip
      <4>5. CASE L[k].op # "NO_OP"
        <5>1. Q[k] = << L[k] >>
          BY <1>3, <4>5
        <5> QED BY <3>1, <4>2, <4>3, <4>5, <5>1, ExecuteAppend DEF Skip
      <4> QED BY <4>4, <4>5
    <3> QED BY <3>2, <3>3
  <2>5. st[0] = s /\ st[n] = Execute(s, f[n], junk)
    BY <1>1, <1>5
  <2>6. Execute(s, f[n], junk) = Execute(s, Emitted(L), junk)
    BY <1>2, <2>1
  <2> HIDE DEF st
  <2> QED BY <2>4, <2>5, <2>6 DEF Runs, n
<1> QED BY <1>4, <1>5

-----------------------------------------------------------------------------
\* The list of an operation: one pass translates it, the others leave the list
\* alone until CleanUp.

MemoryOps == {"LL", "LWC1", "LLD", "LDC1", "LD", "SW", "LW", "LDL", "LDR", "LB", "LBU"}
Handled == Computed \cup MemoryOps \cup {"LUI"}

Translated(d) ==
    CASE d.op = "LUI" -> Translate_Constants(d)
      [] d.op \in MemoryOps -> Translate_Memory(d)
      [] OTHER -> Translate_ALU(d)

LEMMA HandledNames ==
    ASSUME NEW n \in 1 .. 16, NEW f \in {"S", "D"}
    PROVE  Arith[f][n] \notin Handled /\ Compare[f][n] \notin Handled
BY SMTT(60) DEF Arith, Compare, Handled, Computed, MemoryOps

LEMMA HandledAlone ==
    ASSUME NEW i, i.op \in Handled
    PROVE  /\ i.op # "LUI" => Translate_Constants(i) = << i >>
           /\ i.op \notin Computed => Translate_ALU(i) = << i >>
           /\ Translate_Generic(i) = << i >> /\ Translate_FPU(i) = << i >>
           /\ i.op \notin MemoryOps => Translate_Memory(i) = << i >>
<1>1. i.op # "LUI" => Translate_Constants(i) = << i >>
  BY DEF Translate_Constants
<1>2. i.op \notin Computed => Translate_ALU(i) = << i >>
  <2>1. i.op \notin Traps \cup TrapsImmediate
    BY DEF Handled, Computed, MemoryOps, Traps, TrapsImmediate
  <2> QED BY <2>1, ALUOthers
<1>3. Translate_Generic(i) = << i >>
  BY DEF Translate_Generic, Handled, Computed, MemoryOps
<1>4. Translate_FPU(i) = << i >>
  <2>1. \A n \in 1 .. 16 : \A f \in {"S", "D"} : Arith[f][n] # i.op /\ Compare[f][n] # i.op
    BY HandledNames
  <2>2. i.op \notin {names[f][k] : names \in {Arith, Compare}, f \in {"S", "D"}, k \in 1 .. 16}
    BY <2>1
  <2>3. i.op \notin FloatBranches \cup {"MFC1", "DMFC1", "CFC1", "MTC1", "DMTC1", "CTC1"}
                    \cup {"CVT_D_S", "CVT_W_S", "CVT_L_S", "CVT_S_D", "CVT_W_D", "CVT_L_D",
                          "CVT_S_W", "CVT_D_W", "CVT_S_L", "CVT_D_L"}
    BY DEF FloatBranches, Handled, Computed, MemoryOps
  <2>4. i.op \notin FloatOps
    BY <2>2, <2>3, SMTT(30) DEF FloatOps
  <2> QED BY <2>4 DEF Translate_FPU
<1>5. i.op \notin MemoryOps => Translate_Memory(i) = << i >>
  BY DEF Translate_Memory, NotTranslated, Handled, Computed, MemoryOps
<1> QED BY <1>1, <1>2, <1>3, <1>4, <1>5

\* Every record of the list is the decoded one or one no pass looks at again.
LEMMA TranslatedKinds ==
    ASSUME NEW d, Ready(d), d.op \in Handled
    PROVE  /\ IsList(Translated(d))
           /\ \A k \in 1 .. Len(Translated(d)) :
                \/ Translated(d)[k] = d
                \/ Translated(d)[k].op \in Encoded \cup {"NO_OP", "ABORT"}
<1>1. Translated(d) \in {Translate_Constants(d), Translate_Memory(d), Translate_ALU(d)}
  BY DEF Translated
<1>2. Guards(Translated(d), d, {}, {})
  BY <1>1, ConstantsReady, MemoryReady, ALUReady
<1> DEFINE L == Translated(d)
<1> HIDE DEF L
<1>3. IsList(L) /\ \A k \in 1 .. Len(L) : \E m, p : Leads(L[k], d, m, p)
  BY <1>2 DEF Guards, L
<1>4. \A k \in 1 .. Len(L) : L[k] = d \/ L[k].op \in Encoded \cup {"NO_OP", "ABORT"}
  BY <1>3, LeadsKinds
<1> QED BY <1>3, <1>4 DEF L

\* A pass that does not translate the operation leaves its list alone.
LEMMA PassLeaves ==
    ASSUME NEW d, NEW L, IsList(L),
           \A k \in 1 .. Len(L) : L[k] = d \/ L[k].op \in Encoded \cup {"NO_OP", "ABORT"}
    PROVE  /\ Translate_ALU(d) = << d >> => FlattenSeq([k \in DOMAIN L |-> Translate_ALU(L[k])]) = L
           /\ Translate_Generic(d) = << d >>
              => FlattenSeq([k \in DOMAIN L |-> Translate_Generic(L[k])]) = L
           /\ Translate_FPU(d) = << d >> => FlattenSeq([k \in DOMAIN L |-> Translate_FPU(L[k])]) = L
           /\ Translate_Memory(d) = << d >>
              => FlattenSeq([k \in DOMAIN L |-> Translate_Memory(L[k])]) = L
<1>0. DOMAIN L = 1 .. Len(L)
  BY ListsAreFunctions
<1>1. ASSUME Translate_ALU(d) = << d >>
      PROVE  [k \in DOMAIN L |-> Translate_ALU(L[k])] = [k \in DOMAIN L |-> << L[k] >>]
  <2>1. \A k \in DOMAIN L : Translate_ALU(L[k]) = << L[k] >>
    BY <1>0, <1>1, Settled
  <2> QED BY <2>1
<1>2. ASSUME Translate_Generic(d) = << d >>
      PROVE  [k \in DOMAIN L |-> Translate_Generic(L[k])] = [k \in DOMAIN L |-> << L[k] >>]
  <2>1. \A k \in DOMAIN L : Translate_Generic(L[k]) = << L[k] >>
    BY <1>0, <1>2, Settled
  <2> QED BY <2>1
<1>3. ASSUME Translate_FPU(d) = << d >>
      PROVE  [k \in DOMAIN L |-> Translate_FPU(L[k])] = [k \in DOMAIN L |-> << L[k] >>]
  <2>1. \A k \in DOMAIN L : Translate_FPU(L[k]) = << L[k] >>
    BY <1>0, <1>3, Settled
  <2> QED BY <2>1
<1>4. ASSUME Translate_Memory(d) = << d >>
      PROVE  [k \in DOMAIN L |-> Translate_Memory(L[k])] = [k \in DOMAIN L |-> << L[k] >>]
  <2>1. \A k \in DOMAIN L : Translate_Memory(L[k]) = << L[k] >>
    BY <1>0, <1>4, Settled
  <2> QED BY <2>1
<1>5. FlattenSeq([k \in DOMAIN L |-> << L[k] >>]) = L
  BY FlattenSingles
<1> QED BY <1>1, <1>2, <1>3, <1>4, <1>5

\* The list of a single record after a pass.
LEMMA PassOnOne ==
    ASSUME NEW d
    PROVE  LET L == << d >> IN
           /\ FlattenSeq([k \in DOMAIN L |-> Translate_Constants(L[k])]) = Translate_Constants(d)
           /\ FlattenSeq([k \in DOMAIN L |-> Translate_ALU(L[k])]) = Translate_ALU(d)
           /\ FlattenSeq([k \in DOMAIN L |-> Translate_Memory(L[k])]) = Translate_Memory(d)
<1>1. DOMAIN << d >> = 1 .. 1 /\ << d >>[1] = d
  BY Single
<1> DEFINE P == [k \in DOMAIN << d >> |-> Translate_Constants(<< d >>[k])]
           Q == [k \in DOMAIN << d >> |-> Translate_ALU(<< d >>[k])]
           S == [k \in DOMAIN << d >> |-> Translate_Memory(<< d >>[k])]
<1>2. P[1] = Translate_Constants(d) /\ Q[1] = Translate_ALU(d) /\ S[1] = Translate_Memory(d)
  BY <1>1
<1>3. P = [k \in DOMAIN << d >> |-> P[k]] /\ Q = [k \in DOMAIN << d >> |-> Q[k]]
      /\ S = [k \in DOMAIN << d >> |-> S[k]]
  OBVIOUS
<1> HIDE DEF P, Q, S
<1>4. FlattenSeq(P) = P[1] /\ FlattenSeq(Q) = Q[1] /\ FlattenSeq(S) = S[1]
  BY <1>3, FlattenSingle
<1> QED BY <1>2, <1>4 DEF P, Q, S

\* The list in every phase, and how the processor came to what it holds.
Listed ==
    /\ Guarded
    /\ I.op \in Handled =>
         /\ phase = "init" => code = << I >>
         /\ phase = "Constants" => code = IF I.op = "LUI" THEN Translated(I) ELSE << I >>
         /\ phase \in {"ALU", "Generic", "FPU"} =>
              code = IF I.op \in MemoryOps THEN << I >> ELSE Translated(I)
         /\ phase = "Memory" => code = Translated(I)
         /\ phase \in {"CleanUp", "written", "done"} => code = Emitted(Translated(I))
    /\ phase = "done" =>
         \E reg \in Files, junk \in Junk :
            before = Machine(reg, junk) /\ after = Execute(before, code, junk)

LEMMA ListedInit == Init => Listed
BY GuardedInit DEF Init, Listed

LEMMA ListedNext == Listed /\ [Next]_vars => Listed'
<1> SUFFICES ASSUME Listed, [Next]_vars PROVE Listed'
  OBVIOUS
<1>1. Guarded' /\ Guarded
  BY GuardedNext DEF Listed
<1>2. word' = word
  BY DEF Next, Translate_init, Constants, Arithmetic, Generic, FPU, Accesses, CleanUp, Write, Run,
         Pass, vars
<1>3. I' = I
  BY <1>2 DEF I
<1>4. Ready(I)
  BY <1>1, DecodedReady DEF Guarded, I
<1> HIDE DEF I
<1> DEFINE L == Translated(I)
           One == << I >>
           Stays(K) == IsList(K) /\ \A k \in 1 .. Len(K) :
                         K[k] = I \/ K[k].op \in Encoded \cup {"NO_OP", "ABORT"}
<1>5. Stays(One)
  BY Single
<1>6. I.op \in Handled => Stays(L)
  BY <1>4, TranslatedKinds
<1>7. I.op \in Handled =>
        /\ I.op # "LUI" => Translate_Constants(I) = << I >>
        /\ I.op \notin Computed => Translate_ALU(I) = << I >>
        /\ Translate_Generic(I) = << I >> /\ Translate_FPU(I) = << I >>
        /\ I.op \notin MemoryOps => Translate_Memory(I) = << I >>
  BY HandledAlone
<1>8. /\ I.op = "LUI" => L = Translate_Constants(I)
      /\ I.op \in MemoryOps => L = Translate_Memory(I)
      /\ I.op \notin MemoryOps \cup {"LUI"} => L = Translate_ALU(I)
  BY DEF Translated, MemoryOps
<1>9. "LUI" \notin MemoryOps \cup Computed /\ \A x \in MemoryOps : x \notin Computed
  BY DEF MemoryOps, Computed
<1> HIDE DEF L, One, Stays
<1>10. CASE Translate_init
  <2>1. code' = One /\ phase' = "init"
    BY <1>10 DEF Translate_init, I, One
  <2> QED BY <1>1, <1>3, <2>1 DEF Listed, One
<1>11. CASE Constants
  <2>1. /\ code' = FlattenSeq([k \in DOMAIN code |-> Translate_Constants(code[k])])
        /\ phase' \in {"aborted", "Constants"} /\ phase = "init"
    BY <1>11 DEF Constants, Pass
  <2>2. I.op \in Handled => code' = IF I.op = "LUI" THEN L ELSE One
    <3>1. I.op \in Handled => code = << I >>
      BY <2>1 DEF Listed
    <3>2. I.op \in Handled => code' = Translate_Constants(I)
      BY <2>1, <3>1, PassOnOne
    <3> QED BY <3>2, <1>7, <1>8 DEF One
  <2> QED BY <1>1, <1>3, <2>1, <2>2 DEF Listed, One, L
<1>12. CASE Arithmetic
  <2>1. /\ code' = FlattenSeq([k \in DOMAIN code |-> Translate_ALU(code[k])])
        /\ phase' \in {"aborted", "ALU"} /\ phase = "Constants"
    BY <1>12 DEF Arithmetic, Pass
  <2>2. I.op \in Handled => code' = IF I.op \in MemoryOps THEN One ELSE L
    <3>1. I.op \in Handled => code = IF I.op = "LUI" THEN L ELSE One
      BY <2>1 DEF Listed, L, One
    <3>2. CASE I.op = "LUI" /\ I.op \in Handled
      <4>1. FlattenSeq([k \in DOMAIN L |-> Translate_ALU(L[k])]) = L
        BY <1>6, <1>7, <1>9, <3>2, PassLeaves DEF Stays
      <4> QED BY <1>9, <2>1, <3>1, <3>2, <4>1
    <3>3. CASE I.op # "LUI" /\ I.op \in Handled
      <4>1. code' = Translate_ALU(I)
        BY <2>1, <3>1, <3>3, PassOnOne DEF One
      <4>2. I.op \in MemoryOps => code' = One
        BY <1>7, <1>9, <3>3, <4>1 DEF One
      <4>3. I.op \notin MemoryOps => code' = L
        BY <1>8, <3>3, <4>1
      <4> QED BY <4>2, <4>3
    <3> QED BY <3>2, <3>3
  <2> QED BY <1>1, <1>3, <2>1, <2>2 DEF Listed, One, L
<1>13. CASE Generic
  <2>1. /\ code' = FlattenSeq([k \in DOMAIN code |-> Translate_Generic(code[k])])
        /\ phase' \in {"aborted", "Generic"} /\ phase = "ALU"
    BY <1>13 DEF Generic, Pass
  <2>2. I.op \in Handled => code = IF I.op \in MemoryOps THEN One ELSE L
    BY <2>1 DEF Listed, L, One
  <2>3. I.op \in Handled => code' = code
    BY <1>5, <1>6, <1>7, <2>1, <2>2, PassLeaves DEF Stays
  <2> QED BY <1>1, <1>3, <2>1, <2>2, <2>3 DEF Listed, One, L
<1>14. CASE FPU
  <2>1. /\ code' = FlattenSeq([k \in DOMAIN code |-> Translate_FPU(code[k])])
        /\ phase' \in {"aborted", "FPU"} /\ phase = "Generic"
    BY <1>14 DEF FPU, Pass
  <2>2. I.op \in Handled => code = IF I.op \in MemoryOps THEN One ELSE L
    BY <2>1 DEF Listed, L, One
  <2>3. I.op \in Handled => code' = code
    BY <1>5, <1>6, <1>7, <2>1, <2>2, PassLeaves DEF Stays
  <2> QED BY <1>1, <1>3, <2>1, <2>2, <2>3 DEF Listed, One, L
<1>15. CASE Accesses
  <2>1. /\ code' = FlattenSeq([k \in DOMAIN code |-> Translate_Memory(code[k])])
        /\ phase' \in {"aborted", "Memory"} /\ phase = "FPU"
    BY <1>15 DEF Accesses, Pass
  <2>2. I.op \in Handled => code = IF I.op \in MemoryOps THEN One ELSE L
    BY <2>1 DEF Listed, L, One
  <2>3. I.op \in Handled => code' = L
    <3>1. CASE I.op \in Handled /\ I.op \in MemoryOps
      BY <1>8, <2>1, <2>2, <3>1, PassOnOne DEF One
    <3>2. CASE I.op \in Handled /\ I.op \notin MemoryOps
      BY <1>6, <1>7, <2>1, <2>2, <3>2, PassLeaves DEF Stays
    <3> QED BY <3>1, <3>2
  <2> QED BY <1>1, <1>3, <2>1, <2>3 DEF Listed, L
<1>16. CASE CleanUp
  <2>1. /\ code' = FlattenSeq([k \in DOMAIN code |-> Translate_CleanUp(code[k])])
        /\ phase' \in {"aborted", "CleanUp"} /\ phase = "Memory"
    BY <1>16 DEF CleanUp, Pass
  <2>2. I.op \in Handled => code' = Emitted(L)
    BY <2>1 DEF Listed, L, Emitted
  <2> QED BY <1>1, <1>3, <2>1, <2>2 DEF Listed, L
<1>17. CASE Write
  <2>1. phase = "CleanUp" /\ phase' \in {"refused", "written"} /\ code' = code
    BY <1>17 DEF Write
  <2> QED BY <1>1, <1>3, <2>1 DEF Listed
<1>18. CASE Run
  <2>1. PICK reg \in Operands(word), junk \in Junk :
          /\ before' = Machine(reg, junk)
          /\ after' = Execute(Machine(reg, junk), code, junk)
    BY <1>18 DEF Run
  <2>2. code' = code /\ phase = "written" /\ phase' = "done"
    BY <1>18 DEF Run
  <2>3. reg \in Files
    <3>1. word \in Programs
      BY <1>1 DEF Guarded
    <3> QED BY <2>1, <3>1, OperandsAssumption
  <2>4. before' = Machine(reg, junk) /\ after' = Execute(before', code', junk)
    BY <2>1, <2>2
  <2> QED BY <1>1, <1>3, <2>2, <2>3, <2>4 DEF Listed
<1>19. CASE UNCHANGED vars
  BY <1>1, <1>3, <1>19 DEF Listed, vars
<1> QED BY <1>10, <1>11, <1>12, <1>13, <1>14, <1>15, <1>16, <1>17, <1>18, <1>19 DEF Next
-----------------------------------------------------------------------------
\* Running the lists the translations write out.
LEMMA RunsJoin ==
    ASSUME NEW s, NEW A, NEW B, IsList(A), IsList(B), NEW t, NEW junk, Runs(s, A \o B, t, junk)
    PROVE  \E u : Runs(s, A, u, junk) /\ Runs(u, B, t, junk)
<1> DEFINE L == A \o B
           m == Len(A)
           n == Len(B)
<1>1. /\ m \in Nat /\ n \in Nat /\ Len(L) = m + n
      /\ \A k \in 1 .. m : L[k] = A[k]
      /\ \A k \in 1 .. n : L[m + k] = B[k]
  BY ListsAreFunctions, ListsJoin
<1> HIDE DEF L
<1>2. PICK st : /\ st[0] = s /\ st[Len(L)] = t
                /\ \A k \in 1 .. Len(L) : st[k] = Skip(st[k - 1], L[k], junk)
  BY DEF Runs, L
<1> HIDE DEF m, n
<1>3. \A k \in 1 .. m : st[k] = Skip(st[k - 1], A[k], junk)
  BY <1>1, <1>2
<1>4. Runs(s, A, st[m], junk)
  BY <1>2, <1>3 DEF Runs, m
<1> DEFINE su == [k \in 0 .. n |-> st[m + k]]
<1>5. su[0] = st[m] /\ su[n] = t
  BY <1>1, <1>2
<1>6. \A k \in 1 .. n : su[k] = Skip(su[k - 1], B[k], junk)
  <2> SUFFICES ASSUME NEW k \in 1 .. n PROVE su[k] = Skip(su[k - 1], B[k], junk)
    OBVIOUS
  <2>1. m + k \in 1 .. Len(L) /\ (m + k) - 1 = m + (k - 1) /\ k - 1 \in 0 .. n /\ k \in 0 .. n
    BY <1>1
  <2>2. st[m + k] = Skip(st[(m + k) - 1], L[m + k], junk)
    BY <1>2, <2>1
  <2> QED BY <1>1, <2>1, <2>2
<1> HIDE DEF su
<1>7. Runs(st[m], B, t, junk)
  BY <1>5, <1>6 DEF Runs, n
<1> QED BY <1>4, <1>7

LEMMA RunsNone == ASSUME NEW s, NEW t, NEW junk, Runs(s, << >>, t, junk) PROVE t = s
BY DEF Runs

LEMMA RunsOne ==
    ASSUME NEW s, NEW p, NEW t, NEW junk, Runs(s, << p >>, t, junk)
    PROVE  t = Skip(s, p, junk)
<1>1. Len(<< p >>) = 1 /\ << p >>[1] = p /\ 1 \in 1 .. 1 /\ 1 - 1 = 0
  OBVIOUS
<1> DEFINE L == << p >>
<1> HIDE DEF L
<1>2. Len(L) = 1 /\ L[1] = p /\ Runs(s, L, t, junk)
  BY <1>1 DEF L
<1> QED BY <1>1, <1>2 DEF Runs

LEMMA RunsTwo ==
    ASSUME NEW s, NEW p, NEW q, NEW t, NEW junk, Runs(s, << p, q >>, t, junk)
    PROVE  t = Skip(Skip(s, p, junk), q, junk)
<1> DEFINE L == << p, q >>
<1>1. Len(L) = 2 /\ L[1] = p /\ L[2] = q
  OBVIOUS
<1> HIDE DEF L
<1>2. PICK st : /\ st[0] = s /\ st[2] = t
                /\ \A k \in 1 .. 2 : st[k] = Skip(st[k - 1], L[k], junk)
  BY <1>1 DEF Runs, L
<1>3. st[1] = Skip(s, p, junk) /\ st[2] = Skip(st[1], q, junk)
  BY <1>1, <1>2
<1> QED BY <1>2, <1>3

LEMMA RunsThree ==
    ASSUME NEW s, NEW p, NEW q, NEW r, NEW t, NEW junk, Runs(s, << p, q, r >>, t, junk)
    PROVE  t = Skip(Skip(Skip(s, p, junk), q, junk), r, junk)
<1> DEFINE L == << p, q, r >>
<1>1. Len(L) = 3 /\ L[1] = p /\ L[2] = q /\ L[3] = r
  OBVIOUS
<1> HIDE DEF L
<1>2. PICK st : /\ st[0] = s /\ st[3] = t
                /\ \A k \in 1 .. 3 : st[k] = Skip(st[k - 1], L[k], junk)
  BY <1>1 DEF Runs, L
<1>3. st[1] = Skip(s, p, junk) /\ st[2] = Skip(st[1], q, junk) /\ st[3] = Skip(st[2], r, junk)
  BY <1>1, <1>2
<1> QED BY <1>2, <1>3

-----------------------------------------------------------------------------
\* A processor that runs: words in every register.
Proc(s) ==
    /\ DOMAIN s = DOMAIN Idle /\ s.reg \in [Registers -> Word0] /\ s.stopped = FALSE
    /\ s.n \in BOOLEAN /\ s.z \in BOOLEAN /\ s.c \in BOOLEAN /\ s.v \in BOOLEAN

LEMMA MachineProc ==
    ASSUME NEW reg \in Files, NEW junk \in Junk
    PROVE  Proc(Machine(reg, junk)) /\ Machine(reg, junk).reg = reg /\ reg[0] = 0 /\ reg[Wide(0)] = 0
<1>1. reg \in [Registers -> Word0] /\ reg[0] = 0 /\ reg[Wide(0)] = 0
  BY DEF Files, Word0
<1> DEFINE odd == junk % 2 = 1
<1>2. odd \in BOOLEAN
  OBVIOUS
<1> HIDE DEF odd
<1>3. Machine(reg, junk) = [reg |-> reg, n |-> FALSE, z |-> FALSE, c |-> odd, v |-> FALSE,
                            stack |-> << >>, log |-> << >>, stopped |-> FALSE]
  BY DEF Machine, odd
<1>4. DOMAIN Idle = {"reg", "n", "z", "c", "v", "stack", "log", "stopped"}
  BY IdleFields
<1> QED BY <1>1, <1>2, <1>3, <1>4 DEF Proc

\* The processor t is s with v in register r.
Writes(s, t, r, v) == Proc(t) /\ t.reg = [s.reg EXCEPT ![Physical(r)] = v]
SameFlags(s, t) == t.n = s.n /\ t.z = s.z /\ t.c = s.c /\ t.v = s.v

LEMMA SetWrites ==
    ASSUME NEW s, Proc(s), NEW r, Physical(r) \in Registers, NEW v \in Word0
    PROVE  Writes(s, Set(s, r, v), r, v) /\ SameFlags(s, Set(s, r, v))
<1> DEFINE t == Set(s, r, v)
<1>1. v % Words = v
  BY Sizes, Small DEF Word0
<1>2. t = [s EXCEPT !.reg[Physical(r)] = v]
  BY <1>1 DEF Set
<1> HIDE DEF t
<1>3. /\ DOMAIN t = DOMAIN s /\ t.stopped = s.stopped
      /\ t.n = s.n /\ t.z = s.z /\ t.c = s.c /\ t.v = s.v
      /\ t.reg = [s.reg EXCEPT ![Physical(r)] = v]
  BY <1>2, IdleFields DEF Proc
<1>4. t.reg \in [Registers -> Word0]
  BY <1>3 DEF Proc
<1>5. Writes(s, t, r, v) /\ SameFlags(s, t)
  BY <1>3, <1>4 DEF Writes, SameFlags, Proc
<1> QED BY <1>5 DEF t

\* The flags follow a result.
Follow(t, f) ==
    /\ t.n = (Signed(f.val) < 0) /\ t.z = (f.val = 0)
    /\ t.c = f.c /\ t.v = f.v

LEMMA FlagsFollow ==
    ASSUME NEW s, Proc(s), NEW f, f.c \in BOOLEAN, f.v \in BOOLEAN
    PROVE  Proc(Flags(s, f)) /\ Flags(s, f).reg = s.reg /\ Follow(Flags(s, f), f)
<1> DEFINE t == Flags(s, f)
           n == Signed(f.val) < 0
           z == f.val = 0
<1>1. n \in BOOLEAN /\ z \in BOOLEAN
  OBVIOUS
<1>2. t = [s EXCEPT !.n = n, !.z = z, !.c = f.c, !.v = f.v]
  BY DEF Flags
<1> HIDE DEF t, n, z
<1>3. /\ DOMAIN t = DOMAIN s /\ t.stopped = s.stopped /\ t.reg = s.reg
      /\ t.n = n /\ t.z = z /\ t.c = f.c /\ t.v = f.v
  BY <1>2, IdleFields DEF Proc
<1>4. Proc(t)
  BY <1>1, <1>3 DEF Proc
<1>5. Follow(t, f)
  BY <1>3 DEF Follow, n, z
<1> QED BY <1>3, <1>4, <1>5 DEF t

\* One data-processing instruction.
LEMMA SkipIdle ==
    ASSUME NEW s, Proc(s), NEW i, NEW junk, i.op = "NO_OP" \/ ~Holds(s, i.cond)
    PROVE  Skip(s, i, junk) = s
BY DEF Skip, Step

LEMMA SkipData ==
    ASSUME NEW s, Proc(s), NEW i, NEW junk, i.op \in DataOps, Holds(s, i.cond)
    PROVE  Skip(s, i, junk) = DataProcessing(s, i)
<1>1. i.op # "NO_OP"
  BY DEF DataOps
<1>2. ~(s.stopped \/ ~Holds(s, i.cond))
  BY DEF Proc
<1>3. Step(s, i, junk) = DataProcessing(s, i)
  BY <1>2 DEF Step, DataOps, LoadOps
<1> QED BY <1>1, <1>3 DEF Skip

LEMMA DataWrites ==
    ASSUME NEW s, Proc(s), NEW i, NEW junk, i.op \in DataOps \ Comparing, Holds(s, i.cond),
           i.S = FALSE, Physical(i.Rd1) \in Registers, NEW f, f = Result(s, i), f.val \in Word0
    PROVE  Writes(s, Skip(s, i, junk), i.Rd1, f.val) /\ SameFlags(s, Skip(s, i, junk))
<1>1. Skip(s, i, junk) = DataProcessing(s, i)
  BY SkipData
<1>2. DataProcessing(s, i) = Set(s, i.Rd1, f.val)
  BY DEF DataProcessing
<1> QED BY <1>1, <1>2, SetWrites

LEMMA DataFlags ==
    ASSUME NEW s, Proc(s), NEW i, NEW junk, i.op \in DataOps \ Comparing, Holds(s, i.cond),
           i.S = TRUE, Physical(i.Rd1) \in Registers, NEW f, f = Result(s, i), f.val \in Word0,
           f.c \in BOOLEAN, f.v \in BOOLEAN
    PROVE  Writes(s, Skip(s, i, junk), i.Rd1, f.val) /\ Follow(Skip(s, i, junk), f)
<1> DEFINE t == Set(s, i.Rd1, f.val)
<1>1. Skip(s, i, junk) = DataProcessing(s, i)
  BY SkipData
<1>2. DataProcessing(s, i) = Flags(t, f)
  BY DEF DataProcessing
<1>3. Writes(s, t, i.Rd1, f.val)
  BY SetWrites
<1> HIDE DEF t
<1>4. Proc(Flags(t, f)) /\ Flags(t, f).reg = t.reg /\ Follow(Flags(t, f), f)
  BY <1>3, FlagsFollow DEF Writes
<1> QED BY <1>1, <1>2, <1>3, <1>4 DEF Writes

LEMMA DataCompares ==
    ASSUME NEW s, Proc(s), NEW i, NEW junk, i.op \in Comparing, Holds(s, i.cond),
           NEW f, f = Result(s, i), f.c \in BOOLEAN, f.v \in BOOLEAN
    PROVE  /\ Proc(Skip(s, i, junk)) /\ Skip(s, i, junk).reg = s.reg
           /\ Follow(Skip(s, i, junk), f)
<1>1. i.op \in DataOps
  BY DEF Comparing, DataOps
<1>2. Skip(s, i, junk) = DataProcessing(s, i)
  BY <1>1, SkipData
<1>3. DataProcessing(s, i) = Flags(s, f)
  BY DEF DataProcessing
<1> QED BY <1>2, <1>3, FlagsFollow

-----------------------------------------------------------------------------
\* The records the constructors make out of a record without a shift.
Bare(i) == Shaped(i) /\ i.R3 = NOT_USED /\ i.shift = 0 /\ i.shiftType = "LSL"

LEMMA BareEmpty == ASSUME NEW op PROVE Bare(newEmptyInstr(op))
BY DEF Bare, Shaped, newEmptyInstr

\* By registers.
Registered(x, op, cond, r, r1, r2) ==
    Bare(x) /\ x.op = op /\ x.cond = cond /\ x.Rd1 = r /\ x.R1 = r1 /\ x.R2 = r2 /\ x.I = FALSE

LEMMA MadeRegistered ==
    ASSUME NEW i, Bare(i), NEW op, NEW cond, NEW r, NEW r1, NEW r2
    PROVE  /\ Registered(Instr(i, op, cond, r, r1, r2), op, cond, r, r1, r2)
           /\ Instr(i, op, cond, r, r1, r2).S = FALSE
           /\ Registered(InstrS(i, op, cond, r, r1, r2), op, cond, r, r1, r2)
           /\ InstrS(i, op, cond, r, r1, r2).S = TRUE
BY DEF Registered, Bare, Shaped, newEmptyInstr, Instr, InstrS

\* With an immediate.
Immediated(x, op, cond, r, r1, n) ==
    Bare(x) /\ x.op = op /\ x.cond = cond /\ x.Rd1 = r /\ x.R1 = r1 /\ x.imm = n /\ x.I = TRUE

LEMMA MadeImmediated ==
    ASSUME NEW i, Bare(i), NEW op \in DataOps, NEW cond, NEW r, NEW r1, NEW r2, NEW n
    PROVE  /\ Immediated(InstrI(i, op, cond, r, r1, r2, n), op, cond, r, r1, n)
           /\ InstrI(i, op, cond, r, r1, r2, n).S = FALSE
           /\ Immediated(InstrIS(i, op, cond, r, r1, r2, n), op, cond, r, r1, n)
           /\ InstrIS(i, op, cond, r, r1, r2, n).S = TRUE
<1>1. op \notin {"ARM_LDR", "ARM_STR", "ARM_LDR_LIT"}
  BY DEF DataOps
<1>2. InstrI(i, op, cond, r, r1, r2, n) =
        [i EXCEPT !.op = op, !.cond = cond, !.Rd1 = r, !.R1 = r1, !.R2 = r2,
                  !.I = TRUE, !.S = FALSE, !.Ln = FALSE, !.imm = n, !.U = i.U]
  BY <1>1 DEF InstrI
<1>3. /\ Immediated(InstrI(i, op, cond, r, r1, r2, n), op, cond, r, r1, n)
      /\ InstrI(i, op, cond, r, r1, r2, n).S = FALSE
  BY <1>2, ZenonT(60) DEF Immediated, Bare, Shaped, newEmptyInstr
<1>4. /\ Immediated(InstrIS(i, op, cond, r, r1, r2, n), op, cond, r, r1, n)
      /\ InstrIS(i, op, cond, r, r1, r2, n).S = TRUE
  BY DEF Immediated, Bare, Shaped, newEmptyInstr, InstrIS
<1> QED BY <1>3, <1>4

LEMMA NewMade ==
    ASSUME NEW op, NEW cond, NEW r, NEW r1, NEW r2, NEW n
    PROVE  /\ Registered(newInstr(op, cond, r, r1, r2), op, cond, r, r1, r2)
           /\ newInstr(op, cond, r, r1, r2).S = FALSE
           /\ Registered(newInstrS(op, cond, r, r1, r2), op, cond, r, r1, r2)
           /\ newInstrS(op, cond, r, r1, r2).S = TRUE
           /\ op \in DataOps =>
                /\ Immediated(newInstrI(op, cond, r, r1, r2, n), op, cond, r, r1, n)
                /\ newInstrI(op, cond, r, r1, r2, n).S = FALSE
                /\ Immediated(newInstrIS(op, cond, r, r1, r2, n), op, cond, r, r1, n)
                /\ newInstrIS(op, cond, r, r1, r2, n).S = TRUE
<1> DEFINE e == newEmptyInstr(op)
<1>1. Bare(e)
  BY BareEmpty
<1>2. /\ newInstr(op, cond, r, r1, r2) = Instr(e, op, cond, r, r1, r2)
      /\ newInstrS(op, cond, r, r1, r2) = InstrS(e, op, cond, r, r1, r2)
      /\ newInstrI(op, cond, r, r1, r2, n) = InstrI(e, op, cond, r, r1, r2, n)
      /\ newInstrIS(op, cond, r, r1, r2, n) = InstrIS(e, op, cond, r, r1, r2, n)
  BY DEF newInstr, newInstrS, newInstrI, newInstrIS
<1> HIDE DEF e
<1>3. /\ Registered(newInstr(op, cond, r, r1, r2), op, cond, r, r1, r2)
      /\ newInstr(op, cond, r, r1, r2).S = FALSE
      /\ Registered(newInstrS(op, cond, r, r1, r2), op, cond, r, r1, r2)
      /\ newInstrS(op, cond, r, r1, r2).S = TRUE
  BY <1>1, <1>2, MadeRegistered
<1>4. op \in DataOps =>
        /\ Immediated(newInstrI(op, cond, r, r1, r2, n), op, cond, r, r1, n)
        /\ newInstrI(op, cond, r, r1, r2, n).S = FALSE
        /\ Immediated(newInstrIS(op, cond, r, r1, r2, n), op, cond, r, r1, n)
        /\ newInstrIS(op, cond, r, r1, r2, n).S = TRUE
  BY <1>1, <1>2, MadeImmediated
<1> QED BY <1>3, <1>4

LEMMA MoveMade ==
    ASSUME NEW d, NEW r, NEW n, NEW cond
    PROVE  /\ Registered(MOV(d, r), "ARM_MOV", "AL", d, NOT_USED, r) /\ MOV(d, r).S = FALSE
           /\ Registered(If(cond, MOV(d, r)), "ARM_MOV", cond, d, NOT_USED, r)
           /\ If(cond, MOV(d, r)).S = FALSE
           /\ Immediated(MOVI(d, n), "ARM_MOV", "AL", d, NOT_USED, n) /\ MOVI(d, n).S = FALSE
<1>1. "ARM_MOV" \in DataOps
  BY DEF DataOps
<1>2. Registered(MOV(d, r), "ARM_MOV", "AL", d, NOT_USED, r) /\ MOV(d, r).S = FALSE
  BY NewMade DEF MOV
<1>3. Immediated(MOVI(d, n), "ARM_MOV", "AL", d, NOT_USED, n) /\ MOVI(d, n).S = FALSE
  BY <1>1, NewMade DEF MOVI
<1> DEFINE x == MOV(d, r)
<1> HIDE DEF x
<1>4. Registered(x, "ARM_MOV", "AL", d, NOT_USED, r) /\ x.S = FALSE
  BY <1>2 DEF x
<1>5. Registered(If(cond, x), "ARM_MOV", cond, d, NOT_USED, r) /\ If(cond, x).S = FALSE
  BY <1>4 DEF Registered, Bare, Shaped, newEmptyInstr, If
<1> QED BY <1>2, <1>3, <1>5 DEF x

LEMMA MoveImmediateMade ==
    ASSUME NEW cond, NEW r, NEW n
    PROVE  /\ Immediated(newInstrI("ARM_MOV", cond, r, NOT_USED, NOT_USED, n),
                         "ARM_MOV", cond, r, NOT_USED, n)
           /\ newInstrI("ARM_MOV", cond, r, NOT_USED, NOT_USED, n).S = FALSE
<1>1. "ARM_MOV" \in DataOps
  BY DEF DataOps
<1> QED BY <1>1, NewMade

\* Their second operand.
LEMMA ByRegister ==
    ASSUME NEW s, Proc(s), NEW x, Bare(x), x.I = FALSE, Physical(x.R2) \in Registers
    PROVE  Operand2(s, x) = s.reg[Physical(x.R2)] /\ s.reg[Physical(x.R2)] \in Word0
<1> DEFINE v == s.reg[Physical(x.R2)]
<1>1. v \in Word0
  BY DEF Proc
<1>2. Operand2(s, x) = Shifted2(v, "LSL", 0)
  BY DEF Operand2, Value, Bare
<1>3. W \in Nat /\ W >= 4 /\ 2^0 = 1
  BY Sizes, PowersAssumption
<1> HIDE DEF v
<1>4. Shifted2(v, "LSL", 0) = (v * 1) % Words
  BY <1>3 DEF Shifted2
<1>5. (v * 1) % Words = v
  <2>1. v * 1 = v
    BY <1>1, Sizes DEF Word0
  <2> QED BY <2>1, <1>1, Small, Sizes DEF Word0
<1> QED BY <1>1, <1>2, <1>4, <1>5 DEF v

LEMMA ByImmediate ==
    ASSUME NEW s, NEW x, x.I = TRUE, x.imm \in Word0
    PROVE  Operand2(s, x) = x.imm
<1>1. Operand2(s, x) = x.imm % Words
  BY DEF Operand2
<1> QED BY <1>1, Small, Sizes DEF Word0

LEMMA ResultIs ==
    ASSUME NEW s, NEW i, NEW x, x = Value(s, i.R1), NEW y, y = Operand2(s, i)
    PROVE  /\ i.op = "ARM_ADD" => Result(s, i) = Adder(x, y, 0)
           /\ i.op = "ARM_ADC" => Result(s, i) = Adder(x, y, Carried(s))
           /\ i.op \in {"ARM_SUB", "ARM_CMP"} => Result(s, i) = Adder(x, Flipped(y), 1)
           /\ i.op = "ARM_SBC" => Result(s, i) = Adder(x, Flipped(y), Carried(s))
           /\ i.op = "ARM_AND" => Result(s, i) = Plain(s, BitAnd(x, y))
           /\ i.op = "ARM_ORR" => Result(s, i) = Plain(s, BitOr(x, y))
           /\ i.op = "ARM_EOR" => Result(s, i) = Plain(s, BitXor(x, y))
           /\ i.op = "ARM_MOV" => Result(s, i) = Plain(s, y)
           /\ i.op = "ARM_MVN" => Result(s, i) = Plain(s, Flipped(y))
BY DEF Result

LEMMA PlainFields ==
    ASSUME NEW s, NEW v
    PROVE  Plain(s, v).val = v /\ Plain(s, v).c = s.c /\ Plain(s, v).v = s.v
BY DEF Plain

\* What the constructors' records compute.
LEMMA RegisterResult ==
    ASSUME NEW s, Proc(s), NEW i, NEW op, NEW cond, NEW r, NEW r1, NEW r2,
           Registered(i, op, cond, r, r1, r2), Physical(r2) \in Registers,
           NEW x, x = Value(s, r1), NEW y, y = Value(s, r2)
    PROVE  /\ y \in Word0
           /\ op = "ARM_ADD" => Result(s, i) = Adder(x, y, 0)
           /\ op = "ARM_ADC" => Result(s, i) = Adder(x, y, Carried(s))
           /\ op = "ARM_SUB" => Result(s, i) = Adder(x, Flipped(y), 1)
           /\ op = "ARM_SBC" => Result(s, i) = Adder(x, Flipped(y), Carried(s))
           /\ op = "ARM_AND" => Result(s, i) = Plain(s, BitAnd(x, y))
           /\ op = "ARM_ORR" => Result(s, i) = Plain(s, BitOr(x, y))
           /\ op = "ARM_EOR" => Result(s, i) = Plain(s, BitXor(x, y))
           /\ op = "ARM_MOV" => Result(s, i) = Plain(s, y) /\ Result(s, i).val = y
<1>1. Operand2(s, i) = y /\ y \in Word0
  BY ByRegister DEF Registered, Value
<1>2. x = Value(s, i.R1) /\ i.op = op
  BY DEF Registered
<1> QED BY <1>1, <1>2, ResultIs, PlainFields

LEMMA ImmediateResult ==
    ASSUME NEW s, Proc(s), NEW i, NEW op, NEW cond, NEW r, NEW r1, NEW n \in Word0,
           Immediated(i, op, cond, r, r1, n), NEW x, x = Value(s, r1)
    PROVE  /\ op = "ARM_ADD" => Result(s, i) = Adder(x, n, 0)
           /\ op = "ARM_ADC" => Result(s, i) = Adder(x, n, Carried(s))
           /\ op = "ARM_SUB" => Result(s, i) = Adder(x, Flipped(n), 1)
           /\ op = "ARM_AND" => Result(s, i) = Plain(s, BitAnd(x, n))
           /\ op = "ARM_ORR" => Result(s, i) = Plain(s, BitOr(x, n))
           /\ op = "ARM_EOR" => Result(s, i) = Plain(s, BitXor(x, n))
           /\ op = "ARM_MOV" => Result(s, i) = Plain(s, n) /\ Result(s, i).val = n
           /\ op = "ARM_MVN" => Result(s, i) = Plain(s, Flipped(n)) /\ Result(s, i).val = Flipped(n)
<1>1. Operand2(s, i) = n
  BY ByImmediate DEF Immediated
<1>2. x = Value(s, i.R1) /\ i.op = op
  BY DEF Immediated
<1> QED BY <1>1, <1>2, ResultIs, PlainFields

LEMMA CarriedBit ==
    ASSUME NEW s, Proc(s)
    PROVE  Carried(s) \in {0, 1} /\ (Carried(s) = 1 <=> s.c)
<1>1. Carried(s) = IF s.c THEN 1 ELSE 0
  BY DEF Carried
<1>2. CASE s.c
  BY <1>1, <1>2
<1>3. CASE ~s.c
  BY <1>1, <1>3
<1> QED BY <1>2, <1>3

\* The registers the operations name.
LEMMA RegisterNames ==
    /\ \A r \in 0 .. 31 : /\ Physical(r) = r /\ r \in Registers
                          /\ Physical(Wide(r)) = Wide(r) /\ Wide(r) = r + 64 /\ Wide(r) \in Registers
    /\ Physical(NOT_USED) = R(0) /\ Physical(SCRATCH0) = R(0) /\ Physical(SCRATCH1) = R(1)
    /\ Physical(R(0)) = R(0) /\ Physical(R(1)) = R(1)
    /\ R(0) = 512 /\ R(1) = 513 /\ R(0) \in Registers /\ R(1) \in Registers
BY DEF Registers, Physical, Wide, REG_WIDE, NOT_USED, R, REG_HOST, SCRATCH0, SCRATCH1, REG_TEMP

-----------------------------------------------------------------------------
\* What the decoder puts into the records of sums, comparisons and logic.
Immediates == SignedImmediate \cup ZeroImmediate \cup {"LUI"}
Simple == ThreeOperand \cup Immediates

LEMMA SimpleNames ==
    /\ \A n \in 0 .. 63 : Major[n + 1] \notin ThreeOperand /\ Special[n + 1] \notin Immediates
    /\ \A n \in 0 .. 31 : Regimm[n + 1] \notin Simple
    /\ \A w : Cop0(w) \notin Simple
<1> USE DEF Simple, Immediates, ThreeOperand, SignedImmediate, ZeroImmediate, X
<1>1. \A n \in 0 .. 63 : Major[n + 1] \notin ThreeOperand
  BY SMTT(90) DEF Major
<1>2. \A n \in 0 .. 63 : Special[n + 1] \notin Immediates
  BY SMTT(90) DEF Special
<1>3. \A n \in 0 .. 31 : Regimm[n + 1] \notin Simple
  BY SMTT(90) DEF Regimm
<1>4. \A w : Cop0(w) \notin Simple
  BY SMTT(90) DEF Cop0
<1> QED BY <1>1, <1>2, <1>3, <1>4

LEMMA SimpleFloats ==
    ASSUME NEW w \in MipsWord
    PROVE  Cop1(w) \notin Simple
<1>0. w.rs \in 0 .. 31 /\ w.rt \in 0 .. 31
  BY DEF MipsWord
<1>1. X \notin Simple /\ \A x \in Simple : x \in RemainingOps
  BY DEF X, Simple, Immediates, ThreeOperand, SignedImmediate, ZeroImmediate, RemainingOps, ListedOps,
         ImmediateOps
<1>2. \A f \in {"S", "D", "W", "L"} : Float(w, f) \notin Simple
  BY <1>1, FloatOpKinds
<1> USE DEF Simple, Immediates, ThreeOperand, SignedImmediate, ZeroImmediate
<1>3. CASE w.rs \in {0, 1, 2}
  <2>1. Cop1(w) = <<"MFC1", "DMFC1", "CFC1">>[w.rs + 1]
    BY <1>3 DEF Cop1
  <2> QED BY <1>3, <2>1
<1>4. CASE w.rs \in {4, 5, 6}
  <2>1. Cop1(w) = <<"MTC1", "DMTC1", "CTC1">>[w.rs - 3]
    BY <1>4 DEF Cop1
  <2> QED BY <1>4, <2>1
<1>5. CASE w.rs = 8
  <2>1. Cop1(w) = <<"BC1F", "BC1T", "BC1FL", "BC1TL">>[(w.rt % 4) + 1]
    BY <1>5 DEF Cop1
  <2>2. w.rt % 4 \in 0 .. 3
    BY <1>0
  <2> QED BY <1>5, <2>1, <2>2
<1>6. CASE w.rs \notin {0, 1, 2, 4, 5, 6, 8}
  <2>1. Cop1(w) \in {Float(w, "S"), Float(w, "D"), Float(w, "W"), Float(w, "L"), X}
    BY <1>6 DEF Cop1
  <2> HIDE DEF Simple
  <2> QED BY <1>1, <1>2, <2>1
<1> QED BY <1>3, <1>4, <1>5, <1>6

\* Which words have such a type.
LEMMA SimpleTypes ==
    ASSUME NEW w \in MipsWord
    PROVE  /\ ops_type(w) \in ThreeOperand => w.op = 0
           /\ ops_type(w) \in Immediates => w.op \notin {0, 1, 16, 17}
<1>1. w.op \in 0 .. 63 /\ w.fn \in 0 .. 63 /\ w.rt \in 0 .. 31
  BY DEF MipsWord
<1>2. CASE w.op = 0
  <2>1. ops_type(w) \in {"NO_OP", Special[w.fn + 1]}
    BY <1>2 DEF ops_type
  <2>2. "NO_OP" \notin Immediates
    BY DEF Immediates, SignedImmediate, ZeroImmediate
  <2> QED BY <1>1, <1>2, <2>1, <2>2, SimpleNames
<1>3. CASE w.op \in {1, 16, 17}
  <2>1. ops_type(w) \in {Regimm[w.rt + 1], Cop0(w), Cop1(w)}
    BY <1>3 DEF ops_type, IsNop, Word
  <2>2. ops_type(w) \notin Simple
    BY <1>1, <2>1, SimpleNames, SimpleFloats
  <2> QED BY <2>2 DEF Simple
<1>4. CASE w.op \notin {0, 1, 16, 17}
  <2>1. ops_type(w) = Major[w.op + 1]
    BY <1>4 DEF ops_type, IsNop, Word
  <2> QED BY <1>1, <1>4, <2>1, SimpleNames
<1> QED BY <1>2, <1>3, <1>4

\* The decoders keep the name.
LEMMA DecodedName ==
    ASSUME NEW w, mips_decode(w).op \in Simple
    PROVE  ops_type(w) = mips_decode(w).op
<1> DEFINE op == ops_type(w)
           e == newEmptyInstr(op)
<1>1. e.op = op /\ Shaped(e) /\ newEmptyInstr("UNKNOWN").op = "UNKNOWN"
  BY Empty
<1>2. mips_decode(w) \in {newEmptyInstr("UNKNOWN"), DecodeBranch(w, e), DecodeJump(w, e),
                          DecodeSpecial(w, e), DecodeCop(w, e), DecodeImmediate(w, e),
                          DecodeMemory(w, e)}
  BY DEF mips_decode
<1> HIDE DEF e
<1>3. "UNKNOWN" \notin Simple /\ "MFC1" \notin Simple
  BY DEF Simple, Immediates, ThreeOperand, SignedImmediate, ZeroImmediate
<1> USE DEF Shaped, newEmptyInstr
<1>4. DecodeBranch(w, e).op = op /\ DecodeJump(w, e).op = op
  BY <1>1 DEF DecodeBranch, DecodeJump
<1>5. DecodeSpecial(w, e).op = op
  BY <1>1 DEF DecodeSpecial
<1>6. DecodeImmediate(w, e).op = op /\ DecodeMemory(w, e).op = op
  BY <1>1 DEF DecodeImmediate, DecodeMemory
<1>7. DecodeCop(w, e).op \in {op, "MFC1"}
  BY <1>1 DEF DecodeCop, DecodeFloat
<1> QED BY <1>1, <1>2, <1>3, <1>4, <1>5, <1>6, <1>7

\* The fields.
HalfImm == 2^(ImmBits - 1)

LEMMA Fields ==
    ASSUME NEW w \in MipsWord, NEW d, d = mips_decode(w), d.op \in Simple
    PROVE  /\ Bare(d) /\ d.S = FALSE /\ d.cond = "AL" /\ d.Rd1 \in 0 .. 31
           /\ d.op \in ThreeOperand => d.R1 \in 0 .. 31 /\ d.R2 \in 0 .. 31 /\ d.I = FALSE
           /\ d.op \in Immediates => d.I = TRUE /\ d.imm \in -HalfImm .. TwoByte - 1
           /\ d.op \in SignedImmediate => d.R1 \in 0 .. 31 /\ d.imm \in -HalfImm .. HalfImm - 1
           /\ d.op \in ZeroImmediate => d.R1 \in 0 .. 31 /\ d.imm \in 0 .. TwoByte - 1
           /\ d.op = "LUI" => d.imm \in 0 .. TwoByte - 1
<1> DEFINE op == ops_type(w)
           e == newEmptyInstr(op)
<1>1. op = d.op /\ op \in Simple
  BY DecodedName
<1>2. e.op = op /\ Bare(e) /\ e.S = FALSE /\ e.cond = "AL" /\ e.I = FALSE
  BY BareEmpty DEF newEmptyInstr
<1>3. op \notin {X, "J", "JAL"} \cup Branches
  BY <1>1 DEF Simple, Immediates, ThreeOperand, SignedImmediate, ZeroImmediate, Branches, X
<1>4. w.rs \in 0 .. 31 /\ w.rt \in 0 .. 31 /\ w.rd \in 0 .. 31 /\ w.imm \in 0 .. 2^ImmBits - 1
  BY DEF MipsWord
<1>5. 2 * HalfImm = TwoByte /\ 2^ImmBits = TwoByte /\ HalfImm \in Nat
  BY Sizes DEF HalfImm
<1> HIDE DEF e, op
<1>6. CASE op \in ThreeOperand
  <2>1. w.op = 0
    BY <1>6, SimpleTypes DEF op
  <2>2. op \notin ImmediateOps \cup Shifted \cup ShiftedBy \cup IntoHiLo \cup Traps
                  \cup {"JR", "JALR", "MFHI", "MFLO", "MTHI", "MTLO"}
    BY <1>6 DEF ImmediateOps, SignedImmediate, ZeroImmediate, TrapsImmediate, ThreeOperand, Shifted,
                ShiftedBy, IntoHiLo, Traps
  <2>3. d = DecodeSpecial(w, e)
    BY <1>3, <2>1, <2>2, DecodedAs DEF op, e
  <2>4. d = [e EXCEPT !.Rd1 = w.rd, !.R1 = w.rs, !.R2 = w.rt]
    BY <1>2, <1>6, <2>2, <2>3 DEF DecodeSpecial
  <2>5. op \notin Immediates /\ op # "LUI" /\ op \notin SignedImmediate \cup ZeroImmediate
    BY <1>6 DEF Immediates, ThreeOperand, SignedImmediate, ZeroImmediate
  <2> QED BY <1>1, <1>2, <1>4, <2>4, <2>5 DEF Bare, Shaped, newEmptyInstr
<1>7. CASE op \in Immediates
  <2>1. w.op \notin {0, 1, 16, 17}
    BY <1>7, SimpleTypes DEF op
  <2>2. op \in ImmediateOps /\ op \notin TrapsImmediate \cup ThreeOperand
    BY <1>7 DEF ImmediateOps, SignedImmediate, ZeroImmediate, TrapsImmediate, ThreeOperand, Immediates
  <2>3. d = DecodeImmediate(w, e)
    BY <1>3, <2>1, <2>2, DecodedAs DEF op, e
  <2>4. PICK n : n = IMM(w) /\ n \in -HalfImm .. HalfImm - 1
    <3>1. IMM(w) = IF w.imm >= HalfImm THEN w.imm - 2^ImmBits ELSE w.imm
      BY DEF IMM, HalfImm
    <3> QED BY <1>4, <1>5, <3>1
  <2>5. IMMU(w) = w.imm
    BY DEF IMMU
  <2>6. CASE op = "LUI"
    <3>2. op \notin SignedImmediate \cup ZeroImmediate
      BY <2>6 DEF SignedImmediate, ZeroImmediate
    <3>1. d = [e EXCEPT !.Rd1 = w.rt, !.imm = w.imm, !.I = TRUE]
      BY <1>2, <2>2, <2>3, <2>5, <2>6, <3>2 DEF DecodeImmediate
    <3> QED BY <1>1, <1>2, <1>4, <1>5, <2>2, <3>1, <3>2 DEF Bare, Shaped, newEmptyInstr
  <2>7. CASE op \in ZeroImmediate
    <3>1. op # "LUI" /\ op \notin SignedImmediate
      BY <2>7 DEF SignedImmediate, ZeroImmediate
    <3>2. d = [e EXCEPT !.Rd1 = w.rt, !.R1 = w.rs, !.imm = w.imm, !.I = TRUE]
      BY <1>2, <2>2, <2>3, <2>5, <2>7, <3>1 DEF DecodeImmediate
    <3> QED BY <1>1, <1>2, <1>4, <1>5, <2>2, <3>1, <3>2 DEF Bare, Shaped, newEmptyInstr
  <2>8. CASE op \in SignedImmediate
    <3>1. op # "LUI" /\ op \notin ZeroImmediate
      BY <2>8 DEF SignedImmediate, ZeroImmediate
    <3>2. d = [e EXCEPT !.Rd1 = w.rt, !.R1 = w.rs, !.imm = n, !.I = TRUE]
      BY <1>2, <2>2, <2>3, <2>4, <2>8, <3>1 DEF DecodeImmediate
    <3> QED BY <1>1, <1>2, <1>4, <1>5, <2>2, <2>4, <3>1, <3>2 DEF Bare, Shaped, newEmptyInstr
  <2> QED BY <1>7, <2>6, <2>7, <2>8 DEF Immediates
<1> QED BY <1>1, <1>6, <1>7 DEF Simple

-----------------------------------------------------------------------------
\* The emitted code has run: what the list of the passes makes of the processor.
LEMMA Finished ==
    ASSUME Listed, phase = "done", I.op \in Handled \ {"LUI", "SLL"}
    PROVE  /\ Proc(before) /\ before.reg[0] = 0 /\ before.reg[Wide(0)] = 0
           /\ \E junk : Runs(before, Translated(I), after, junk)
<1>1. PICK reg \in Files, junk \in Junk :
        before = Machine(reg, junk) /\ after = Execute(before, code, junk)
  BY DEF Listed
<1>2. Proc(before) /\ before.reg[0] = 0 /\ before.reg[Wide(0)] = 0
  BY <1>1, MachineProc
<1>3. word \in MipsWord /\ code = Emitted(Translated(I))
  BY DEF Listed, Guarded
<1>4. Ready(I)
  BY <1>3, DecodedReady DEF I
<1> HIDE DEF I
<1> DEFINE L == Translated(I)
<1>5. /\ IsList(L)
      /\ \A k \in 1 .. Len(L) : L[k] = I \/ L[k].op \in Encoded \cup {"NO_OP", "ABORT"}
  BY <1>4, TranslatedKinds
<1>6. ~Dropped(I) /\ I.op # "NO_OP"
  BY DEF Dropped, Handled, Computed, MemoryOps
<1> HIDE DEF L
<1>7. \A k \in 1 .. Len(L) : Dropped(L[k]) <=> L[k].op = "NO_OP"
  BY <1>5, <1>6, Settled
<1>8. Runs(before, L, Execute(before, Emitted(L), junk), junk)
  BY <1>5, <1>7, Through
<1> QED BY <1>1, <1>2, <1>3, <1>8 DEF L

-----------------------------------------------------------------------------
\* Comparisons.

\* The sign of a sum, read off the flags.
LEMMA AdderOrder ==
    ASSUME NEW x \in Word0, NEW y \in Word0, NEW c \in {0, 1}, NEW r, r = Adder(x, y, c),
           NEW sum, sum = Signed(x) + Signed(y) + c
    PROVE  ((Signed(r.val) < 0) # r.v) <=> sum < 0
<1>1. /\ r.val \in Word0 /\ r.val = sum % Words
      /\ r.v \in BOOLEAN /\ (r.v <=> sum \notin -Half .. Half - 1)
      /\ ~r.v => Signed(r.val) = sum
  BY AdderFacts
<1>2. Words \in Nat \ {0} /\ Half \in Nat /\ Words = 2 * Half
  BY Sizes
<1>3. Signed(x) \in -Half .. Half - 1 /\ Signed(y) \in -Half .. Half - 1
  BY SignedFacts
<1>4. sum \in Int /\ sum >= -Words /\ sum <= Words - 1
  BY <1>2, <1>3
<1>5. Signed(r.val) = IF r.val >= Half THEN r.val - Words ELSE r.val
  BY <1>1, SignedFacts
<1> DEFINE neg == Signed(r.val) < 0
<1>6. neg \in BOOLEAN
  OBVIOUS
<1>7. CASE ~r.v
  <2>1. neg <=> sum < 0
    BY <1>1, <1>7
  <2>2. r.v = FALSE
    BY <1>1, <1>7
  <2> HIDE DEF neg
  <2>3. (neg # r.v) <=> sum < 0
    BY <1>6, <2>1, <2>2
  <2> QED BY <2>3 DEF neg
<1>8. CASE r.v /\ sum < -Half
  <2>1. sum \in -Words .. -1
    BY <1>2, <1>4, <1>8
  <2>2. r.val = sum + Words
    BY <1>1, <1>2, <1>4, <2>1, Near
  <2>3. ~neg
    BY <1>2, <1>4, <1>5, <1>8, <2>2
  <2>4. r.v = TRUE /\ sum < 0
    BY <1>1, <1>2, <1>4, <1>8
  <2> HIDE DEF neg
  <2>5. (neg # r.v) <=> sum < 0
    BY <1>6, <2>3, <2>4
  <2> QED BY <2>5 DEF neg
<1>9. CASE r.v /\ ~(sum < -Half)
  <2>1. sum >= Half
    BY <1>1, <1>2, <1>4, <1>9
  <2>2. r.val = sum
    BY <1>1, <1>2, <1>4, <2>1, Small
  <2>3. neg
    BY <1>2, <1>4, <1>5, <2>1, <2>2
  <2>4. r.v = TRUE /\ ~(sum < 0)
    BY <1>1, <1>2, <1>4, <1>9, <2>1
  <2> HIDE DEF neg
  <2>5. (neg # r.v) <=> sum < 0
    BY <1>6, <2>3, <2>4
  <2> QED BY <2>5 DEF neg
<1> QED BY <1>7, <1>8, <1>9

\* The conditions after a CMP.
LEMMA CompareConditions ==
    ASSUME NEW s, Proc(s), NEW i, NEW junk, i.op = "ARM_CMP", i.cond = "AL",
           NEW x \in Word0, x = Value(s, i.R1), NEW y \in Word0, y = Operand2(s, i),
           NEW t, t = Skip(s, i, junk)
    PROVE  /\ Proc(t) /\ t.reg = s.reg
           /\ Holds(t, "LT") <=> Signed(x) < Signed(y)
           /\ Holds(t, "GE") <=> ~(Signed(x) < Signed(y))
           /\ Holds(t, "CC") <=> x < y
           /\ Holds(t, "CS") <=> ~(x < y)
<1> DEFINE f == Result(s, i)
           z == Flipped(y)
<1>1. f = Adder(x, z, 1)
  BY ResultIs
<1>2. z \in Word0 /\ Signed(z) = -1 - Signed(y) /\ z = (Words - 1) - y
  BY SignedFacts DEF Flipped
<1> HIDE DEF f, z
<1>3. /\ f.c \in BOOLEAN /\ (f.c <=> x + z + 1 >= Words) /\ f.v \in BOOLEAN
  BY <1>1, <1>2, AdderFacts
<1>4. ((Signed(f.val) < 0) # f.v) <=> Signed(x) + Signed(z) + 1 < 0
  BY <1>1, <1>2, AdderOrder
<1>5. Holds(s, i.cond) /\ i.op \in Comparing
  BY DEF Holds, Comparing
<1>6. Proc(t) /\ t.reg = s.reg /\ Follow(t, f)
  BY <1>3, <1>5, DataCompares DEF f
<1>7. t.n = (Signed(f.val) < 0) /\ t.c = f.c /\ t.v = f.v /\ t.n \in BOOLEAN
  BY <1>6 DEF Follow, Proc
<1>8. (t.n # t.v) <=> Signed(x) + Signed(z) + 1 < 0
  BY <1>4, <1>7
<1>9. Signed(x) + Signed(z) + 1 < 0 <=> Signed(x) < Signed(y)
  <2>1. Signed(x) \in Int /\ Signed(y) \in Int
    BY SignedFacts, Sizes
  <2> QED BY <1>2, <2>1
<1>10. t.c <=> ~(x < y)
  BY <1>2, <1>3, <1>7, Sizes DEF Word0
<1>11. /\ Holds(t, "LT") <=> t.n # t.v
       /\ Holds(t, "GE") <=> t.n = t.v
       /\ Holds(t, "CC") <=> ~t.c
       /\ Holds(t, "CS") <=> t.c
  BY DEF Holds
<1> QED BY <1>6, <1>8, <1>9, <1>10, <1>11

\* One or zero.
LEMMA OneOrZeroRuns ==
    ASSUME NEW s, Proc(s), NEW d, d.Rd1 \in 0 .. 31, NEW junk, NEW t,
           NEW one, NEW zero, << one, zero >> \in {<< "LT", "GE" >>, << "CC", "CS" >>},
           Runs(s, OneOrZero(d, one, zero), t, junk)
    PROVE  t.reg[d.Rd1] = Truth(Holds(s, one))
<1> DEFINE p == newInstrI("ARM_MOV", one, d.Rd1, NOT_USED, NOT_USED, 1)
           q == newInstrI("ARM_MOV", zero, d.Rd1, NOT_USED, NOT_USED, 0)
           u == Skip(s, p, junk)
<1>1. "ARM_MOV" \in DataOps \ Comparing /\ 0 \in Word0 /\ 1 \in Word0
  BY Sizes DEF DataOps, Comparing, Word0
<1>2. /\ Immediated(p, "ARM_MOV", one, d.Rd1, NOT_USED, 1) /\ p.S = FALSE
      /\ Immediated(q, "ARM_MOV", zero, d.Rd1, NOT_USED, 0) /\ q.S = FALSE
  <2>1. \A cond, n : /\ Immediated(newInstrI("ARM_MOV", cond, d.Rd1, NOT_USED, NOT_USED, n),
                                   "ARM_MOV", cond, d.Rd1, NOT_USED, n)
                     /\ newInstrI("ARM_MOV", cond, d.Rd1, NOT_USED, NOT_USED, n).S = FALSE
    BY MoveImmediateMade
  <2> QED BY <2>1, Zenon
<1>3. t = Skip(u, q, junk)
  BY RunsTwo DEF OneOrZero
<1> HIDE DEF p, q, u
<1>4. Physical(d.Rd1) = d.Rd1 /\ d.Rd1 \in Registers
  BY RegisterNames
<1>5. \A m : SameFlags(s, m) => (Holds(m, zero) <=> ~Holds(s, one)) /\ (Holds(m, one) <=> Holds(s, one))
  BY DEF SameFlags, Holds
<1>6. Holds(s, zero) <=> ~Holds(s, one)
  <2>1. SameFlags(s, s)
    BY DEF SameFlags
  <2> QED BY <1>5, <2>1
<1>7. ASSUME NEW m, Proc(m)
      PROVE  /\ Result(m, p).val = 1 /\ Result(m, q).val = 0
  BY <1>1, <1>2, <1>7, ImmediateResult
<1>8. CASE Holds(s, one)
  <2>1. Writes(s, u, d.Rd1, 1) /\ SameFlags(s, u)
    BY <1>1, <1>2, <1>4, <1>7, <1>8, DataWrites DEF Immediated, u
  <2>2. ~Holds(u, zero)
    BY <1>5, <1>8, <2>1
  <2>3. t = u
    BY <1>2, <1>3, <2>1, <2>2, SkipIdle DEF Immediated, Writes
  <2> QED BY <1>4, <1>8, <2>1, <2>3 DEF Writes, Truth, Proc
<1>9. CASE ~Holds(s, one)
  <2>1. u = s
    BY <1>2, <1>9, SkipIdle DEF Immediated, u
  <2>2. Writes(s, t, d.Rd1, 0)
    BY <1>1, <1>2, <1>3, <1>4, <1>6, <1>7, <1>9, <2>1, DataWrites DEF Immediated
  <2> QED BY <1>4, <1>9, <2>2 DEF Writes, Truth, Proc
<1> QED BY <1>8, <1>9

LEMMA OneOrZeroListed == ASSUME NEW d, NEW one, NEW zero PROVE IsList(OneOrZero(d, one, zero))
<1>1. ASSUME NEW p, NEW q PROVE IsList(<< p, q >>)
  <2>1. << p, q >> \in Seq({p, q})
    OBVIOUS
  <2> QED BY <2>1 DEF IsList
<1> QED BY <1>1 DEF OneOrZero

\* SLT and SLTU.
LEMMA SetLessRight ==
    ASSUME NEW s, Proc(s), NEW d, Bare(d), d.Rd1 \in 0 .. 31, d.R1 \in 0 .. 31, d.R2 \in 0 .. 31,
           NEW one, NEW zero, << one, zero >> \in {<< "LT", "GE" >>, << "CC", "CS" >>},
           NEW junk, NEW t, Runs(s, SetLess(d, one, zero), t, junk),
           NEW x, x = s.reg[d.R1], NEW y, y = s.reg[d.R2]
    PROVE  /\ x \in Word0 /\ y \in Word0
           /\ t.reg[d.Rd1] = Truth(IF one = "LT" THEN Signed(x) < Signed(y) ELSE x < y)
<1> DEFINE p == Instr(d, "ARM_CMP", "AL", NOT_USED, d.R1, d.R2)
<1>1. Registered(p, "ARM_CMP", "AL", NOT_USED, d.R1, d.R2)
  BY MadeRegistered
<1>2. PICK u : Runs(s, << p >>, u, junk) /\ Runs(u, OneOrZero(d, one, zero), t, junk)
  <2>1. IsList(<< p >>)
    BY Single
  <2> QED BY <2>1, OneOrZeroListed, RunsJoin DEF SetLess
<1>3. u = Skip(s, p, junk)
  BY <1>2, RunsOne
<1> HIDE DEF p
<1>4. Physical(d.R1) = d.R1 /\ d.R1 \in Registers /\ Physical(d.R2) = d.R2 /\ d.R2 \in Registers
  BY RegisterNames
<1>5. x \in Word0 /\ y \in Word0 /\ x = Value(s, d.R1)
  BY <1>4 DEF Proc, Value
<1>6. Operand2(s, p) = y
  BY <1>1, <1>4, ByRegister DEF Registered
<1>7. p.op = "ARM_CMP" /\ p.cond = "AL" /\ p.R1 = d.R1
  BY <1>1 DEF Registered
<1>8. /\ Proc(u)
      /\ Holds(u, "LT") <=> Signed(x) < Signed(y)
      /\ Holds(u, "CC") <=> x < y
  BY <1>3, <1>5, <1>6, <1>7, CompareConditions
<1>9. t.reg[d.Rd1] = Truth(Holds(u, one))
  BY <1>2, <1>8, OneOrZeroRuns
<1>10. one \in {"LT", "CC"}
  OBVIOUS
<1>11. \A P, Q : (P <=> Q) => Truth(P) = Truth(Q)
  BY DEF Truth
<1> QED BY <1>5, <1>8, <1>9, <1>10, <1>11

\* The immediate of SLTI and SLTIU, put together in the temporary.
LEMMA HalvesFacts ==
    ASSUME NEW n \in 0 .. TwoByte - 1
    PROVE  /\ Lo(n) \in 0 .. OneByte - 1 /\ Hi(n) \in 0 .. TwoByte - 1 /\ Lo(n) + Hi(n) = n
           /\ Lo(n) \in Word0 /\ Hi(n) \in Word0 /\ n \in Word0 /\ n < Half
           /\ n < OneByte => Lo(n) = n
<1>1. OneByte \in Nat \ {0} /\ TwoByte \in Nat \ {0} /\ Words \in Nat /\ Words = 2 * Half
      /\ Half >= TwoByte /\ OneByte * OneByte = TwoByte /\ Half \in Nat
  BY Sizes
<1>2. Lo(n) = n % OneByte /\ Hi(n) = (n % TwoByte) - Lo(n)
  BY DEF Lo, Hi, OneByte, TwoByte
<1> HIDE DEF OneByte, TwoByte, Words, Half
<1>3. n % TwoByte = n
  BY <1>1, Small
<1>4. (n % OneByte) \in 0 .. OneByte - 1 /\ n \div OneByte \in Int
      /\ n = ((n \div OneByte) * OneByte) + (n % OneByte)
  BY <1>1, DivMod
<1>5. n % OneByte <= n
  <2> DEFINE q == n \div OneByte
             r == n % OneByte
  <2>1. r \in 0 .. OneByte - 1 /\ q \in Int /\ n = (q * OneByte) + r
    BY <1>4
  <2> HIDE DEF q, r
  <2>2. q >= 0
    <3> SUFFICES ASSUME q <= -1 PROVE FALSE
      BY <2>1
    <3>1. q * OneByte <= -OneByte
      BY <1>1, <2>1
    <3>2. q * OneByte \in Int
      BY <1>1, <2>1
    <3> QED BY <1>1, <2>1, <3>1, <3>2
  <2>3. q * OneByte >= 0 /\ q * OneByte \in Int
    BY <1>1, <2>1, <2>2
  <2>4. r <= n
    BY <2>1, <2>3
  <2> QED BY <2>4 DEF r
<1>6. n < OneByte => n % OneByte = n
  BY <1>1, Small
<1>7. OneByte <= TwoByte
  BY <1>1
<1> DEFINE r == n % OneByte
<1>8. Lo(n) = r /\ Hi(n) = n - r /\ r \in 0 .. OneByte - 1 /\ r <= n /\ (n < OneByte => r = n)
  BY <1>2, <1>3, <1>4, <1>5, <1>6
<1> HIDE DEF r
<1> QED BY <1>1, <1>7, <1>8 DEF Word0

LEMMA SetLessImmediateRight ==
    ASSUME NEW s, Proc(s), NEW d, Bare(d), d.Rd1 \in 0 .. 31, d.R1 \in 0 .. 31,
           d.imm \in 0 .. TwoByte - 1,
           NEW one, NEW zero, << one, zero >> \in {<< "LT", "GE" >>, << "CC", "CS" >>},
           NEW junk, NEW t, Runs(s, SetLessImmediate(d, one, zero), t, junk),
           NEW x, x = s.reg[d.R1]
    PROVE  /\ x \in Word0
           /\ t.reg[d.Rd1] = Truth(IF one = "LT" THEN Signed(x) < d.imm ELSE x < d.imm)
<1> DEFINE n == d.imm
           p == InstrI(d, "ARM_MOV", "AL", SCRATCH0, NOT_USED, NOT_USED, Lo(n))
           q == newInstrI("ARM_ADD", "AL", SCRATCH0, NOT_USED, NOT_USED, Hi(n))
           B == IF n >= 2^Byte THEN << q >> ELSE << >>
           c == newInstr("ARM_CMP", "AL", NOT_USED, d.R1, SCRATCH0)
           E == OneOrZero(d, one, zero)
<1>1. "ARM_MOV" \in DataOps /\ "ARM_ADD" \in DataOps /\ "ARM_MOV" \notin Comparing
      /\ "ARM_ADD" \notin Comparing
  BY DEF DataOps, Comparing
<1>2. /\ Immediated(p, "ARM_MOV", "AL", SCRATCH0, NOT_USED, Lo(n)) /\ p.S = FALSE
      /\ Immediated(q, "ARM_ADD", "AL", SCRATCH0, NOT_USED, Hi(n)) /\ q.S = FALSE
      /\ Registered(c, "ARM_CMP", "AL", NOT_USED, d.R1, SCRATCH0)
  BY <1>1, MadeImmediated, NewMade
<1>3. n \in 0 .. TwoByte - 1 /\ ~(n < 0) /\ n \in Int
  BY Sizes
<1>4. SetLessImmediate(d, one, zero) = (((<< p >> \o B) \o << c >>) \o E)
  BY <1>3 DEF SetLessImmediate
<1> HIDE DEF n, p, q, c, E
<1>5. IsList(<< p >>) /\ IsList(B) /\ IsList(<< c >>) /\ IsList(E)
      /\ IsList(<< p >> \o B) /\ IsList((<< p >> \o B) \o << c >>)
  <2>1. IsList(<< p >>) /\ IsList(<< q >>) /\ IsList(<< c >>) /\ IsList(E)
    BY Single, OneOrZeroListed DEF E
  <2>2. IsList(<< >>)
    BY DEF IsList
  <2>3. IsList(B)
    BY <2>1, <2>2
  <2> HIDE DEF B
  <2>4. IsList(<< p >> \o B)
    BY <2>1, <2>3, ListsJoin
  <2>5. IsList((<< p >> \o B) \o << c >>)
    BY <2>1, <2>4, ListsJoin
  <2> QED BY <2>1, <2>3, <2>4, <2>5
<1> HIDE DEF B
<1>6. PICK m : Runs(s, (<< p >> \o B) \o << c >>, m, junk) /\ Runs(m, E, t, junk)
  BY <1>4, <1>5, RunsJoin
<1>7. PICK l : Runs(s, << p >> \o B, l, junk) /\ Runs(l, << c >>, m, junk)
  BY <1>5, <1>6, RunsJoin
<1>8. PICK u : Runs(s, << p >>, u, junk) /\ Runs(u, B, l, junk)
  BY <1>5, <1>7, RunsJoin
<1>9. u = Skip(s, p, junk) /\ m = Skip(l, c, junk)
  BY <1>7, <1>8, RunsOne
<1>10. /\ Physical(d.R1) = d.R1 /\ d.R1 \in Registers /\ d.R1 # R(0)
       /\ Physical(SCRATCH0) = R(0) /\ Physical(NOT_USED) = R(0) /\ R(0) \in Registers
  BY RegisterNames
<1>11. Lo(n) \in Word0 /\ Hi(n) \in Word0 /\ n \in Word0 /\ Lo(n) + Hi(n) = n /\ n < Half
       /\ (n < OneByte => Lo(n) = n)
  BY <1>3, HalvesFacts
<1>12. \A z : Holds(z, "AL")
  BY DEF Holds
<1>13. Proc(u) /\ u.reg[R(0)] = Lo(n) /\ u.reg[d.R1] = x /\ x \in Word0
  <2>1. Result(s, p).val = Lo(n)
    BY <1>2, <1>11, ImmediateResult
  <2>2. Writes(s, u, SCRATCH0, Lo(n))
    BY <1>1, <1>2, <1>9, <1>10, <1>11, <1>12, <2>1, DataWrites DEF Immediated
  <2> QED BY <1>10, <2>2 DEF Writes, Proc
<1>14. Proc(l) /\ l.reg[R(0)] = n /\ l.reg[d.R1] = x
  <2>1. CASE n >= 2^Byte
    <3>1. l = Skip(u, q, junk)
      BY <1>8, <2>1, RunsOne DEF B
    <3>2. Value(u, NOT_USED) = Lo(n)
      BY <1>10, <1>13 DEF Value
    <3>3. Result(u, q) = Adder(Lo(n), Hi(n), 0)
      BY <1>2, <1>11, <1>13, <3>2, ImmediateResult
    <3>4. Result(u, q).val = n
      <4> DEFINE f == Result(u, q)
      <4>1. f.val = IF Lo(n) + Hi(n) + 0 >= Words THEN (Lo(n) + Hi(n) + 0) - Words
                    ELSE Lo(n) + Hi(n) + 0
        BY <1>11, <3>3, AdderFacts
      <4> HIDE DEF f
      <4>2. Lo(n) + Hi(n) + 0 = n /\ ~(n >= Words)
        BY <1>11, Sizes DEF Word0
      <4>3. f.val = n
        BY <4>1, <4>2
      <4> QED BY <4>3 DEF f
    <3>5. Writes(u, l, SCRATCH0, n)
      BY <1>1, <1>2, <1>10, <1>11, <1>12, <1>13, <3>1, <3>4, DataWrites DEF Immediated
    <3> QED BY <1>10, <1>13, <3>5 DEF Writes, Proc
  <2>2. CASE ~(n >= 2^Byte)
    <3>1. l = u
      BY <1>8, <2>2, RunsNone DEF B
    <3>2. n < OneByte
      BY <1>3, <2>2, Sizes DEF OneByte
    <3> QED BY <1>11, <1>13, <3>1, <3>2
  <2> QED BY <2>1, <2>2
<1>15. /\ Proc(m)
       /\ Holds(m, "LT") <=> Signed(x) < Signed(n)
       /\ Holds(m, "CC") <=> x < n
  <2>1. x = Value(l, c.R1) /\ n = Operand2(l, c) /\ c.op = "ARM_CMP" /\ c.cond = "AL"
    <3>1. x = Value(l, c.R1) /\ c.op = "ARM_CMP" /\ c.cond = "AL" /\ c.R2 = SCRATCH0 /\ c.I = FALSE
          /\ Bare(c)
      BY <1>2, <1>10, <1>14 DEF Registered, Value
    <3>2. Operand2(l, c) = l.reg[Physical(c.R2)]
      BY <1>10, <1>14, <3>1, ByRegister
    <3> QED BY <1>10, <1>14, <3>1, <3>2
  <2> QED BY <1>9, <1>11, <1>13, <1>14, <2>1, CompareConditions
<1>16. Signed(n) = n
  <2>1. n \in Word0 /\ ~(n >= Half)
    BY <1>3, <1>11, Sizes
  <2> QED BY <2>1, SignedFacts
<1>17. t.reg[d.Rd1] = Truth(Holds(m, one))
  BY <1>6, <1>15, OneOrZeroRuns DEF E
<1>18. one \in {"LT", "CC"}
  OBVIOUS
<1>19. \A P, Q : (P <=> Q) => Truth(P) = Truth(Q)
  BY DEF Truth
<1> QED BY <1>13, <1>15, <1>16, <1>17, <1>18, <1>19 DEF n

\* A doubleword that fits a word is its low word with the sign above it.
LEMMA FitFacts ==
    ASSUME NEW hi \in Word0, NEW lo \in Word0, SignedDouble(Double(hi, lo)) = Signed(lo)
    PROVE  /\ Double(hi, lo) = IF lo < Half THEN lo ELSE (Doubles - Words) + lo
           /\ lo < Half <=> Signed(lo) >= 0
<1>1. Words \in Nat \ {0} /\ Half \in Nat /\ Words = 2 * Half /\ Doubles \in Nat /\ Doubles = Words * Words
      /\ hi \in Int /\ lo \in Int
  BY Sizes DEF Word0
<1>2. Signed(hi) = (IF hi >= Half THEN hi - Words ELSE hi) /\ Signed(hi) \in Int
      /\ Signed(lo) = IF lo >= Half THEN lo - Words ELSE lo
  BY <1>1, SignedFacts
<1>3. Signed(hi) * Words + lo = Signed(lo)
  BY DoubleFacts
<1> HIDE DEF Words, Half
<1> DEFINE q == Signed(hi)
<1>4. q * Words \in Int /\ q \in Int
  BY <1>1, <1>2
<1>5. CASE lo < Half
  <2>1. q * Words = 0
    BY <1>1, <1>2, <1>3, <1>4, <1>5
  <2>2. 0 = q * Words + 0 /\ 0 = 0 * Words + 0 /\ 0 \in 0 .. Words - 1
    BY <1>1, <2>1
  <2>3. q = 0
    <3> HIDE DEF q
    <3>1. 0 \div Words = q /\ 0 \div Words = 0
      BY <1>1, <1>4, <2>2, Unique
    <3> QED BY <3>1
  <2>4. hi = 0
    BY <1>1, <1>2, <2>3 DEF Word0
  <2>5. Double(0, lo) = lo
    BY <1>1 DEF Double
  <2> QED BY <1>1, <1>2, <1>5, <2>4, <2>5 DEF Word0
<1>6. CASE ~(lo < Half)
  <2>1. q * Words = -Words
    BY <1>1, <1>2, <1>3, <1>4, <1>6
  <2>2. -Words = q * Words + 0 /\ -Words = (-1) * Words + 0 /\ 0 \in 0 .. Words - 1 /\ -1 \in Int
        /\ -Words \in Int
    BY <1>1, <2>1
  <2>3. q = -1
    <3> HIDE DEF q
    <3>1. (-Words) \div Words = q /\ (-Words) \div Words = -1
      BY <1>1, <1>4, <2>2, Unique
    <3> QED BY <3>1
  <2>4. hi = Words - 1
    BY <1>1, <1>2, <2>3 DEF Word0
  <2>5. (Words - 1) * Words = Words * Words - Words
    BY <1>1
  <2> QED BY <1>1, <1>2, <1>6, <2>4, <2>5 DEF Double, Word0
<1> QED BY <1>5, <1>6

\* The words of a register.
LEMMA Halved ==
    ASSUME NEW s, Proc(s), NEW r \in 0 .. 31
    PROVE  /\ Low(s.reg, r) = s.reg[r] /\ s.reg[r] \in Word0
           /\ Full(s.reg, r) = Double(s.reg[Wide(r)], s.reg[r]) /\ s.reg[Wide(r)] \in Word0
           /\ SignedLow(s.reg, r) = Signed(s.reg[r])
           /\ SignedFull(s.reg, r) = SignedDouble(Double(s.reg[Wide(r)], s.reg[r]))
BY RegisterNames DEF Proc, Low, Full, SignedLow, SignedFull

\* What is written for the comparisons.
LEMMA ComparisonsTranslated ==
    ASSUME NEW i
    PROVE  /\ i.op = "SLT" => Translated(i) = SetLess(i, "LT", "GE")
           /\ i.op = "SLTU" => Translated(i) = SetLess(i, "CC", "CS")
           /\ i.op = "SLTI" => Translated(i) = SetLessImmediate(i, "LT", "GE")
           /\ i.op = "SLTIU" => Translated(i) = SetLessImmediate(i, "CC", "CS")
<1>1. i.op \in {"SLT", "SLTU", "SLTI", "SLTIU"} => Translated(i) = Translate_ALU(i)
  BY DEF Translated, MemoryOps
<1>2. i.op = "SLT" => Translate_ALU(i) = SetLess(i, "LT", "GE")
  BY DEF Translate_ALU, Traps, TrapsImmediate
<1>3. i.op = "SLTU" => Translate_ALU(i) = SetLess(i, "CC", "CS")
  BY DEF Translate_ALU, Traps, TrapsImmediate
<1>4. i.op = "SLTI" => Translate_ALU(i) = SetLessImmediate(i, "LT", "GE")
  BY DEF Translate_ALU, Traps, TrapsImmediate
<1>5. i.op = "SLTIU" => Translate_ALU(i) = SetLessImmediate(i, "CC", "CS")
  BY DEF Translate_ALU, Traps, TrapsImmediate
<1> QED BY <1>1, <1>2, <1>3, <1>4, <1>5

\* The case of the property for one operation.
LEMMA ComparesOne ==
    ASSUME Listed, Done(Compares), FitsWord(I.R1), IF I.I THEN I.imm >= 0 ELSE FitsWord(I.R2)
    PROVE  Low(a, I.Rd1) = CompareMeaning(I, b)
<1>1. phase = "done" /\ I.op \in {"SLT", "SLTU", "SLTI", "SLTIU"}
  BY DEF Done, Compares
<1>2. I.op \in Simple /\ I.op \in Handled \ {"LUI", "SLL"}
  BY <1>1 DEF Simple, ThreeOperand, Immediates, SignedImmediate, Handled, Computed
<1>3. /\ Bare(I) /\ I.Rd1 \in 0 .. 31
      /\ I.op \in ThreeOperand => I.R1 \in 0 .. 31 /\ I.R2 \in 0 .. 31 /\ I.I = FALSE
      /\ I.op \in SignedImmediate => I.R1 \in 0 .. 31 /\ I.I = TRUE /\ I.imm \in -HalfImm .. HalfImm - 1
  <2>1. word \in MipsWord
    BY DEF Listed, Guarded
  <2>2. \A o \in SignedImmediate : o \in Immediates
    BY DEF Immediates
  <2> QED BY <1>2, <2>1, <2>2, Fields DEF I
<1>4. Proc(before) /\ \E junk : Runs(before, Translated(I), after, junk)
  BY <1>1, <1>2, Finished
<1>5. PICK junk : Runs(before, Translated(I), after, junk)
  BY <1>4
<1>6. FitsWord(I.R1) => SignedFull(b, I.R1) = SignedLow(b, I.R1)
  BY DEF FitsWord
<1>7. FitsWord(I.R2) => SignedFull(b, I.R2) = SignedLow(b, I.R2)
  BY DEF FitsWord
<1> HIDE DEF I
<1>8. Low(a, I.Rd1) = after.reg[I.Rd1]
  BY DEF Low, a
<1>9. Words \in Nat /\ Half \in Nat /\ Doubles \in Nat /\ Words = 2 * Half /\ Half >= TwoByte
      /\ TwoByte \in Nat /\ 2 * HalfImm = TwoByte /\ HalfImm \in Nat /\ Doubles = 2 * HalfDouble
      /\ HalfDouble \in Nat /\ OneByte * Words <= HalfDouble /\ OneByte \in Nat /\ OneByte >= 2
  BY Sizes DEF HalfImm
<1>10. Doubles >= 2 * Words
  <2>1. OneByte * Words >= 2 * Words
    BY <1>9
  <2>2. OneByte * Words \in Nat
    BY <1>9
  <2> QED BY <1>9, <2>1, <2>2
<1>11. \A P, Q : (P <=> Q) => Truth(P) = Truth(Q)
  BY DEF Truth
<1>12. CASE I.op \in {"SLT", "SLTU"}
  <2>1. I.R1 \in 0 .. 31 /\ I.R2 \in 0 .. 31 /\ I.I = FALSE
    BY <1>3, <1>12 DEF ThreeOperand
  <2> DEFINE x == before.reg[I.R1]
             y == before.reg[I.R2]
             xh == before.reg[Wide(I.R1)]
             yh == before.reg[Wide(I.R2)]
  <2>2. /\ x \in Word0 /\ y \in Word0 /\ xh \in Word0 /\ yh \in Word0
        /\ Full(b, I.R1) = Double(xh, x) /\ Full(b, I.R2) = Double(yh, y)
        /\ SignedLow(b, I.R1) = Signed(x) /\ SignedLow(b, I.R2) = Signed(y)
        /\ SignedFull(b, I.R1) = SignedDouble(Double(xh, x))
        /\ SignedFull(b, I.R2) = SignedDouble(Double(yh, y))
    BY <1>4, <2>1, Halved DEF b
  <2>3. SignedFull(b, I.R1) = SignedLow(b, I.R1) /\ SignedFull(b, I.R2) = SignedLow(b, I.R2)
    BY <1>6, <1>7, <2>1
  <2> HIDE DEF x, y, xh, yh
  <2>4. /\ Full(b, I.R1) = IF x < Half THEN x ELSE (Doubles - Words) + x
        /\ Full(b, I.R2) = IF y < Half THEN y ELSE (Doubles - Words) + y
    BY <2>2, <2>3, FitFacts
  <2>5. Full(b, I.R1) < Full(b, I.R2) <=> x < y
    BY <1>9, <1>10, <2>2, <2>4 DEF Word0
  <2>6. CASE I.op = "SLT"
    <3>1. Translated(I) = SetLess(I, "LT", "GE")
      BY <2>6, ComparisonsTranslated
    <3>2. after.reg[I.Rd1] = Truth(Signed(x) < Signed(y))
      BY <1>3, <1>4, <1>5, <2>1, <3>1, SetLessRight DEF x, y
    <3>3. CompareMeaning(I, b) = Truth(SignedFull(b, I.R1) < SignedFull(b, I.R2))
      BY <2>6 DEF CompareMeaning
    <3> QED BY <1>8, <2>2, <2>3, <3>2, <3>3
  <2>7. CASE I.op = "SLTU"
    <3>1. Translated(I) = SetLess(I, "CC", "CS")
      BY <2>7, ComparisonsTranslated
    <3>2. after.reg[I.Rd1] = Truth(x < y)
      BY <1>3, <1>4, <1>5, <2>1, <3>1, SetLessRight DEF x, y
    <3>3. CompareMeaning(I, b) = Truth(Full(b, I.R1) < Full(b, I.R2))
      BY <2>7 DEF CompareMeaning
    <3> QED BY <1>8, <1>11, <2>5, <3>2, <3>3
  <2> QED BY <1>12, <2>6, <2>7
<1>13. CASE I.op \in {"SLTI", "SLTIU"}
  <2>1. I.R1 \in 0 .. 31 /\ I.I = TRUE /\ I.imm \in -HalfImm .. HalfImm - 1
    BY <1>3, <1>13 DEF SignedImmediate
  <2>2. I.imm \in 0 .. TwoByte - 1 /\ I.imm < Half /\ I.imm \in 0 .. Doubles - 1
    BY <1>9, <1>10, <2>1
  <2> DEFINE x == before.reg[I.R1]
             xh == before.reg[Wide(I.R1)]
             n == I.imm
  <2>3. /\ x \in Word0 /\ xh \in Word0 /\ Full(b, I.R1) = Double(xh, x)
        /\ SignedLow(b, I.R1) = Signed(x) /\ SignedFull(b, I.R1) = SignedDouble(Double(xh, x))
    BY <1>4, <2>1, Halved DEF b
  <2>4. SignedFull(b, I.R1) = SignedLow(b, I.R1)
    BY <1>6
  <2> HIDE DEF x, xh
  <2>5. Full(b, I.R1) = IF x < Half THEN x ELSE (Doubles - Words) + x
    BY <2>3, <2>4, FitFacts
  <2>6. Full(b, I.R1) < n <=> x < n
    BY <1>9, <1>10, <2>2, <2>3, <2>5 DEF Word0
  <2>7. InDouble(n) = n
    <3>1. InDouble(n) = n % Doubles /\ Doubles \in Nat \ {0}
      BY <1>9, <1>10, <2>2 DEF InDouble, Doubles
    <3> QED BY <2>2, <3>1, Small
  <2>8. CASE I.op = "SLTI"
    <3>1. Translated(I) = SetLessImmediate(I, "LT", "GE")
      BY <2>8, ComparisonsTranslated
    <3>2. after.reg[I.Rd1] = Truth(Signed(x) < n)
      BY <1>3, <1>4, <1>5, <2>1, <2>2, <3>1, SetLessImmediateRight DEF x
    <3>3. CompareMeaning(I, b) = Truth(SignedFull(b, I.R1) < n)
      BY <2>8 DEF CompareMeaning
    <3> QED BY <1>8, <2>3, <2>4, <3>2, <3>3
  <2>9. CASE I.op = "SLTIU"
    <3>1. Translated(I) = SetLessImmediate(I, "CC", "CS")
      BY <2>9, ComparisonsTranslated
    <3>2. after.reg[I.Rd1] = Truth(x < n)
      BY <1>3, <1>4, <1>5, <2>1, <2>2, <3>1, SetLessImmediateRight DEF x
    <3>3. CompareMeaning(I, b) = Truth(Full(b, I.R1) < InDouble(n))
      BY <2>9 DEF CompareMeaning
    <3> QED BY <1>8, <1>11, <2>6, <2>7, <3>2, <3>3
  <2> QED BY <1>13, <2>8, <2>9
<1> QED BY <1>1, <1>12, <1>13

LEMMA AlwaysListed == Spec => []Listed
<1>1. Init => Listed
  BY ListedInit
<1>2. Listed /\ [Next]_vars => Listed'
  BY ListedNext
<1> QED BY <1>1, <1>2, PTL DEF Spec

\* Of operands that fit a word the emitted comparisons give the order of the
\* registers, signed and unsigned, whatever the words and the immediate are.
THEOREM ComparisonsRight == Spec => []ComparesRight
<1>1. Listed => ComparesRight
  <2> SUFFICES ASSUME Listed PROVE ComparesRight
    OBVIOUS
  <2> QED BY ComparesOne DEF ComparesRight
<1> QED BY <1>1, AlwaysListed, PTL
-----------------------------------------------------------------------------
\* Sums.

\* Whether a record sets the flags.
Mute(x) == x.S = FALSE
Loud(x) == x.S = TRUE

LEMMA Voices ==
    ASSUME NEW i, Bare(i), NEW op, NEW cond, NEW r, NEW r1, NEW r2, NEW n
    PROVE  /\ Mute(Instr(i, op, cond, r, r1, r2)) /\ Loud(InstrS(i, op, cond, r, r1, r2))
           /\ Mute(newInstr(op, cond, r, r1, r2)) /\ Loud(newInstrS(op, cond, r, r1, r2))
           /\ op \in DataOps =>
                /\ Mute(InstrI(i, op, cond, r, r1, r2, n)) /\ Loud(InstrIS(i, op, cond, r, r1, r2, n))
                /\ Mute(newInstrI(op, cond, r, r1, r2, n)) /\ Loud(newInstrIS(op, cond, r, r1, r2, n))
           /\ Mute(MOV(r, r1)) /\ Mute(MOVI(r, n)) /\ Mute(If(cond, MOV(r, r1)))
<1>1. Mute(Instr(i, op, cond, r, r1, r2))
  BY MadeRegistered DEF Mute
<1>2. Loud(InstrS(i, op, cond, r, r1, r2))
  BY MadeRegistered DEF Loud
<1>3. Mute(newInstr(op, cond, r, r1, r2))
  BY NewMade DEF Mute
<1>4. Loud(newInstrS(op, cond, r, r1, r2))
  BY NewMade DEF Loud
<1>5. ASSUME op \in DataOps PROVE Mute(InstrI(i, op, cond, r, r1, r2, n))
  BY <1>5, MadeImmediated DEF Mute
<1>6. ASSUME op \in DataOps PROVE Loud(InstrIS(i, op, cond, r, r1, r2, n))
  BY <1>6, MadeImmediated DEF Loud
<1>7. ASSUME op \in DataOps PROVE Mute(newInstrI(op, cond, r, r1, r2, n))
  BY <1>7, NewMade DEF Mute
<1>8. ASSUME op \in DataOps PROVE Loud(newInstrIS(op, cond, r, r1, r2, n))
  BY <1>8, NewMade DEF Loud
<1>9. Mute(MOV(r, r1)) /\ Mute(MOVI(r, n)) /\ Mute(If(cond, MOV(r, r1)))
  BY MoveMade DEF Mute
<1> QED BY <1>1, <1>2, <1>3, <1>4, <1>5, <1>6, <1>7, <1>8, <1>9

\* One instruction of the adder.
Adding == {"ARM_ADD", "ARM_ADC", "ARM_SUB", "ARM_SBC"}
Summand(op, y) == IF op \in {"ARM_SUB", "ARM_SBC"} THEN Flipped(y) ELSE y
CarryIn(op, s) == IF op = "ARM_ADD" THEN 0 ELSE IF op = "ARM_SUB" THEN 1 ELSE Carried(s)

LEMMA AddingFacts ==
    ASSUME NEW s, Proc(s), NEW op \in Adding, NEW x \in Word0, NEW y \in Word0,
           NEW f, f = Adder(x, Summand(op, y), CarryIn(op, s))
    PROVE  /\ Summand(op, y) \in Word0 /\ CarryIn(op, s) \in {0, 1}
           /\ f.val \in Word0 /\ f.c \in BOOLEAN /\ f.v \in BOOLEAN
           /\ op \in DataOps \ Comparing
<1>1. Summand(op, y) \in Word0
  BY SignedFacts DEF Summand
<1>2. CarryIn(op, s) \in {0, 1}
  BY CarriedBit DEF CarryIn
<1>3. f.val \in Word0 /\ f.c \in BOOLEAN /\ f.v \in BOOLEAN
  BY <1>1, <1>2, AdderFacts
<1> QED BY <1>1, <1>2, <1>3 DEF Adding, DataOps, Comparing

\* What a step that writes a value leaves.
Steps(s, t, i, r, f) ==
    /\ Writes(s, t, r, f.val)
    /\ Loud(i) => Follow(t, f)
    /\ Mute(i) => SameFlags(s, t)

LEMMA SumByRegister ==
    ASSUME NEW s, Proc(s), NEW i, NEW op \in Adding, NEW cond, Holds(s, cond), NEW r, NEW r1, NEW r2,
           Physical(r) \in Registers, Physical(r1) \in Registers, Physical(r2) \in Registers,
           Registered(i, op, cond, r, r1, r2), NEW junk, NEW t, t = Skip(s, i, junk),
           NEW x, x = Value(s, r1), NEW y, y = Value(s, r2),
           NEW f, f = Adder(x, Summand(op, y), CarryIn(op, s)), Loud(i) \/ Mute(i)
    PROVE  x \in Word0 /\ y \in Word0 /\ Steps(s, t, i, r, f)
<1>1. x \in Word0 /\ y \in Word0
  BY DEF Value, Proc
<1>2. /\ f.val \in Word0 /\ f.c \in BOOLEAN /\ f.v \in BOOLEAN /\ op \in DataOps \ Comparing
  BY <1>1, AddingFacts
<1>3. f = Result(s, i)
  BY RegisterResult DEF Adding, Summand, CarryIn
<1>4. i.op = op /\ i.cond = cond /\ i.Rd1 = r
  BY DEF Registered
<1>5. Loud(i) => Writes(s, t, r, f.val) /\ Follow(t, f)
  BY <1>2, <1>3, <1>4, DataFlags DEF Loud
<1>6. Mute(i) => Writes(s, t, r, f.val) /\ SameFlags(s, t)
  BY <1>2, <1>3, <1>4, DataWrites DEF Mute
<1> QED BY <1>1, <1>5, <1>6 DEF Steps

LEMMA SumByImmediate ==
    ASSUME NEW s, Proc(s), NEW i, NEW op \in Adding \ {"ARM_SBC"}, NEW cond, Holds(s, cond),
           NEW r, NEW r1, Physical(r) \in Registers, Physical(r1) \in Registers, NEW n \in Word0,
           Immediated(i, op, cond, r, r1, n), NEW junk, NEW t, t = Skip(s, i, junk),
           NEW x, x = Value(s, r1), NEW f, f = Adder(x, Summand(op, n), CarryIn(op, s)),
           Loud(i) \/ Mute(i)
    PROVE  x \in Word0 /\ Steps(s, t, i, r, f)
<1>1. x \in Word0
  BY DEF Value, Proc
<1>2. /\ f.val \in Word0 /\ f.c \in BOOLEAN /\ f.v \in BOOLEAN /\ op \in DataOps \ Comparing
  BY <1>1, AddingFacts
<1>3. f = Result(s, i)
  BY ImmediateResult DEF Adding, Summand, CarryIn
<1>4. i.op = op /\ i.cond = cond /\ i.Rd1 = r
  BY DEF Immediated
<1>5. Loud(i) => Writes(s, t, r, f.val) /\ Follow(t, f)
  BY <1>2, <1>3, <1>4, DataFlags DEF Loud
<1>6. Mute(i) => Writes(s, t, r, f.val) /\ SameFlags(s, t)
  BY <1>2, <1>3, <1>4, DataWrites DEF Mute
<1> QED BY <1>1, <1>5, <1>6 DEF Steps

\* A move.
LEMMA MoveByRegister ==
    ASSUME NEW s, Proc(s), NEW i, NEW cond, NEW r, NEW r2, Physical(r) \in Registers,
           Physical(r2) \in Registers, Registered(i, "ARM_MOV", cond, r, NOT_USED, r2), Mute(i),
           NEW junk, NEW t, t = Skip(s, i, junk), NEW y, y = Value(s, r2)
    PROVE  /\ Holds(s, cond) => Writes(s, t, r, y) /\ SameFlags(s, t)
           /\ ~Holds(s, cond) => t = s
<1>1. y \in Word0
  BY DEF Value, Proc
<1>2. i.op = "ARM_MOV" /\ i.cond = cond /\ i.Rd1 = r /\ "ARM_MOV" \in DataOps \ Comparing
  BY DEF Registered, DataOps, Comparing
<1>3. Result(s, i).val = y
  BY RegisterResult
<1>4. Holds(s, cond) => Writes(s, t, r, y) /\ SameFlags(s, t)
  BY <1>1, <1>2, <1>3, DataWrites DEF Mute
<1>5. ~Holds(s, cond) => t = s
  BY <1>2, SkipIdle
<1> QED BY <1>4, <1>5

LEMMA MoveByImmediate ==
    ASSUME NEW s, Proc(s), NEW i, NEW r, Physical(r) \in Registers, NEW n \in Word0,
           Immediated(i, "ARM_MOV", "AL", r, NOT_USED, n), Mute(i),
           NEW junk, NEW t, t = Skip(s, i, junk)
    PROVE  Writes(s, t, r, n) /\ SameFlags(s, t)
<1>1. i.op = "ARM_MOV" /\ i.cond = "AL" /\ i.Rd1 = r /\ "ARM_MOV" \in DataOps \ Comparing
  BY DEF Immediated, DataOps, Comparing
<1>2. Result(s, i).val = n
  BY ImmediateResult
<1>3. Holds(s, "AL")
  BY DEF Holds
<1> QED BY <1>1, <1>2, <1>3, DataWrites DEF Mute

\* Longer lists.
LEMMA RunsSix ==
    ASSUME NEW s, NEW p1, NEW p2, NEW p3, NEW p4, NEW p5, NEW p6, NEW t, NEW junk,
           Runs(s, << p1, p2, p3, p4, p5, p6 >>, t, junk)
    PROVE  \E s1, s2, s3, s4, s5 :
              /\ s1 = Skip(s, p1, junk) /\ s2 = Skip(s1, p2, junk) /\ s3 = Skip(s2, p3, junk)
              /\ s4 = Skip(s3, p4, junk) /\ s5 = Skip(s4, p5, junk) /\ t = Skip(s5, p6, junk)
<1> DEFINE L == << p1, p2, p3, p4, p5, p6 >>
<1>1. /\ Len(L) = 6 /\ L[1] = p1 /\ L[2] = p2 /\ L[3] = p3 /\ L[4] = p4 /\ L[5] = p5 /\ L[6] = p6
  OBVIOUS
<1> HIDE DEF L
<1>2. PICK st : /\ st[0] = s /\ st[6] = t
                /\ \A k \in 1 .. 6 : st[k] = Skip(st[k - 1], L[k], junk)
  BY <1>1 DEF Runs, L
<1>3. /\ st[1] = Skip(s, p1, junk) /\ st[2] = Skip(st[1], p2, junk) /\ st[3] = Skip(st[2], p3, junk)
      /\ st[4] = Skip(st[3], p4, junk) /\ st[5] = Skip(st[4], p5, junk) /\ t = Skip(st[5], p6, junk)
  BY <1>1, <1>2
<1> QED BY <1>3, Zenon

\* The sum of two doublewords out of two instructions.
Added(xh, x, zh, z, c, low, c1, high, sum) ==
    /\ low.val \in Word0 /\ high.val \in Word0
    /\ Double(high.val, low.val) = sum % Doubles
    /\ high.v \in BOOLEAN /\ (high.v <=> sum \notin -HalfDouble .. HalfDouble - 1)

LEMMA DoubleAdder ==
    ASSUME NEW xh \in Word0, NEW x \in Word0, NEW zh \in Word0, NEW z \in Word0, NEW c \in {0, 1},
           NEW low, low = Adder(x, z, c), NEW c1, c1 = IF low.c THEN 1 ELSE 0,
           NEW high, high = Adder(xh, zh, c1),
           NEW sum, sum = SignedDouble(Double(xh, x)) + SignedDouble(Double(zh, z)) + c
    PROVE  Added(xh, x, zh, z, c, low, c1, high, sum)
<1> DEFINE u == Signed(xh) + Signed(zh) + c1
<1>1. /\ low.val \in Word0 /\ low.c \in BOOLEAN /\ (low.c <=> x + z + c >= Words)
      /\ low.val = IF x + z + c >= Words THEN (x + z + c) - Words ELSE x + z + c
  BY AdderFacts
<1>2. c1 \in {0, 1} /\ (c1 = 1 <=> low.c)
  BY <1>1
<1>3. /\ high.val \in Word0 /\ high.val = u % Words
      /\ high.v \in BOOLEAN /\ (high.v <=> u \notin -Half .. Half - 1)
  BY <1>2, AdderFacts
<1>4. /\ SignedDouble(Double(xh, x)) = Signed(xh) * Words + x
      /\ SignedDouble(Double(zh, z)) = Signed(zh) * Words + z
  BY DoubleFacts
<1>5. Words \in Nat /\ x \in Int /\ z \in Int /\ c \in Int /\ c1 \in Int /\ low.val \in Int
  BY <1>1, <1>2, Sizes DEF Word0
<1>6. Signed(xh) \in Int /\ Signed(zh) \in Int
  BY SignedFacts, Sizes
<1>7. x + z + c = c1 * Words + low.val
  BY <1>1, <1>2, <1>5
<1>8. u * Words = Signed(xh) * Words + Signed(zh) * Words + c1 * Words
  BY <1>2, <1>5, <1>6
<1>9. /\ u * Words \in Int /\ Signed(xh) * Words \in Int /\ Signed(zh) * Words \in Int
      /\ c1 * Words \in Int /\ u \in Int
  BY <1>2, <1>5, <1>6
<1> HIDE DEF u
<1>10. sum = u * Words + low.val
  BY <1>4, <1>5, <1>7, <1>8, <1>9
<1>11. /\ (u * Words + low.val) % Doubles = Double(u % Words, low.val)
       /\ u * Words + low.val \in -HalfDouble .. HalfDouble - 1 <=> u \in -Half .. Half - 1
  BY <1>1, <1>9, HighLow
<1> QED BY <1>1, <1>3, <1>10, <1>11 DEF Added

\* What the property asks of a sum.
Leaves(d, s, t) ==
    (IF d.op \in DoubleSums THEN Full(t.reg, d.Rd1) ELSE Low(t.reg, d.Rd1)) =
      IF d.op \in Trapping /\ Overflows(d, s.reg)
      THEN (IF d.op \in DoubleSums THEN Full(s.reg, d.Rd1) ELSE Low(s.reg, d.Rd1))
      ELSE Sum(d, s.reg) % 2^Bits(d)

LEMMA WordLeft ==
    ASSUME NEW d, d.op \in WordSums, NEW s, NEW t, NEW x \in Word0, NEW z \in Word0, NEW c \in {0, 1},
           NEW f, f = Adder(x, z, c), Sum(d, s.reg) = Signed(x) + Signed(z) + c,
           d.op \in Trapping /\ f.v => t.reg[d.Rd1] = s.reg[d.Rd1],
           ~(d.op \in Trapping /\ f.v) => t.reg[d.Rd1] = f.val
    PROVE  Leaves(d, s, t)
<1>1. d.op \notin DoubleSums
  BY DEF WordSums, DoubleSums
<1>2. f.val = Sum(d, s.reg) % Words /\ f.v \in BOOLEAN
      /\ (f.v <=> Sum(d, s.reg) \notin -Half .. Half - 1)
  BY AdderFacts
<1>3. Bits(d) = W
  BY DEF Bits
<1>4. Overflows(d, s.reg) <=> Sum(d, s.reg) \notin -Half .. Half - 1
  BY <1>3 DEF Overflows, Half
<1>5. Leaves(d, s, t) <=>
        t.reg[d.Rd1] = IF d.op \in Trapping /\ Overflows(d, s.reg) THEN s.reg[d.Rd1]
                       ELSE Sum(d, s.reg) % Words
  BY <1>1, <1>3 DEF Leaves, Low, Words
<1>6. CASE d.op \in Trapping /\ f.v
  BY <1>2, <1>4, <1>5, <1>6
<1>7. CASE ~(d.op \in Trapping /\ f.v)
  BY <1>2, <1>4, <1>5, <1>7
<1> QED BY <1>6, <1>7

LEMMA DoubleLeft ==
    ASSUME NEW d, d.op \in DoubleSums, NEW s, NEW t,
           NEW xh \in Word0, NEW x \in Word0, NEW zh \in Word0, NEW z \in Word0, NEW c \in {0, 1},
           NEW low, low = Adder(x, z, c), NEW c1, c1 = IF low.c THEN 1 ELSE 0,
           NEW high, high = Adder(xh, zh, c1),
           Sum(d, s.reg) = SignedDouble(Double(xh, x)) + SignedDouble(Double(zh, z)) + c,
           d.op \in Trapping /\ high.v =>
             t.reg[d.Rd1] = s.reg[d.Rd1] /\ t.reg[Wide(d.Rd1)] = s.reg[Wide(d.Rd1)],
           ~(d.op \in Trapping /\ high.v) =>
             t.reg[d.Rd1] = low.val /\ t.reg[Wide(d.Rd1)] = high.val
    PROVE  Leaves(d, s, t)
<1>1. d.op \notin WordSums
  BY DEF WordSums, DoubleSums
<1>2. Double(high.val, low.val) = Sum(d, s.reg) % Doubles /\ high.v \in BOOLEAN
      /\ (high.v <=> Sum(d, s.reg) \notin -HalfDouble .. HalfDouble - 1)
  <2> DEFINE sum == Sum(d, s.reg)
  <2>1. sum = SignedDouble(Double(xh, x)) + SignedDouble(Double(zh, z)) + c
    OBVIOUS
  <2> HIDE DEF sum
  <2>2. Double(high.val, low.val) = sum % Doubles /\ high.v \in BOOLEAN
        /\ (high.v <=> sum \notin -HalfDouble .. HalfDouble - 1)
    <3>1. Added(xh, x, zh, z, c, low, c1, high, sum)
      BY <2>1, DoubleAdder
    <3> QED BY <3>1 DEF Added
  <2> QED BY <2>2 DEF sum
<1>3. Bits(d) = 2 * W
  BY <1>1 DEF Bits
<1>4. Overflows(d, s.reg) <=> Sum(d, s.reg) \notin -HalfDouble .. HalfDouble - 1
  BY <1>3 DEF Overflows, HalfDouble
<1>5. Leaves(d, s, t) <=>
        Full(t.reg, d.Rd1) = IF d.op \in Trapping /\ Overflows(d, s.reg) THEN Full(s.reg, d.Rd1)
                             ELSE Sum(d, s.reg) % Doubles
  BY <1>3 DEF Leaves, Doubles
<1>6. CASE d.op \in Trapping /\ high.v
  <2>1. Full(t.reg, d.Rd1) = Full(s.reg, d.Rd1)
    BY <1>6 DEF Full
  <2> QED BY <1>2, <1>4, <1>5, <1>6, <2>1
<1>7. CASE ~(d.op \in Trapping /\ high.v)
  <2>1. Full(t.reg, d.Rd1) = Double(high.val, low.val)
    BY <1>7 DEF Full
  <2> QED BY <1>2, <1>4, <1>5, <1>7, <2>1
<1> QED BY <1>6, <1>7

\* An operation by registers.
ByRegisters(d) ==
    Bare(d) /\ d.Rd1 \in 0 .. 31 /\ d.R1 \in 0 .. 31 /\ d.R2 \in 0 .. 31

\* ADDU.
LEMMA AdduRight ==
    ASSUME NEW s, Proc(s), NEW d, d.op = "ADDU", ByRegisters(d), NEW junk, NEW t,
           Runs(s, ADDU(d), t, junk)
    PROVE  Leaves(d, s, t)
<1> DEFINE p == Instr(d, "ARM_ADD", "AL", d.Rd1, d.R1, d.R2)
           x == s.reg[d.R1]
           y == s.reg[d.R2]
           f == Adder(x, y, 0)
<1>1. t = Skip(s, p, junk)
  BY RunsOne DEF ADDU
<1>2. Registered(p, "ARM_ADD", "AL", d.Rd1, d.R1, d.R2) /\ Mute(p)
  <2>1. Bare(d)
    BY DEF ByRegisters
  <2> QED BY <2>1, MadeRegistered, Voices
<1> HIDE DEF p
<1>3. /\ Physical(d.Rd1) = d.Rd1 /\ Physical(d.R1) = d.R1 /\ Physical(d.R2) = d.R2
      /\ d.Rd1 \in Registers /\ d.R1 \in Registers /\ d.R2 \in Registers
  BY RegisterNames DEF ByRegisters
<1>4. x = Value(s, d.R1) /\ y = Value(s, d.R2)
  BY <1>3 DEF Value
<1>5. "ARM_ADD" \in Adding /\ Holds(s, "AL") /\ (Loud(p) \/ Mute(p))
  BY <1>2 DEF Adding, Holds
<1> HIDE DEF x, y
<1>6. f = Adder(x, Summand("ARM_ADD", y), CarryIn("ARM_ADD", s))
  BY DEF Summand, CarryIn
<1> HIDE DEF f
<1>7. x \in Word0 /\ y \in Word0 /\ Steps(s, t, p, d.Rd1, f)
  BY <1>1, <1>2, <1>3, <1>4, <1>5, <1>6, SumByRegister, ZenonT(60)
<1>8. t.reg[d.Rd1] = f.val
  BY <1>3, <1>7 DEF Steps, Writes, Proc
<1>9. Sum(d, s.reg) = Signed(x) + Signed(y) + 0
  <2>1. Sum(d, s.reg) = Signed(x) + Signed(y)
    BY DEF Sum, SignedLow, x, y
  <2>2. Signed(x) \in Int /\ Signed(y) \in Int
    BY <1>7, SignedFacts, Sizes
  <2> QED BY <2>1, <2>2
<1>10. d.op \in WordSums /\ d.op \notin Trapping
  BY DEF WordSums, Trapping
<1>11. f = Adder(x, y, 0)
  BY DEF f
<1> QED BY <1>7, <1>8, <1>9, <1>10, <1>11, WordLeft

\* A naming record does nothing; nor does a move that is not to happen.
LEMMA NamingIdle ==
    ASSUME NEW s, Proc(s), NEW d, Bare(d), NEW r, NEW r1, NEW r2, NEW junk
    PROVE  /\ Skip(s, Naming(d, r), junk) = s /\ Skip(s, NewNaming(r), junk) = s
           /\ Skip(s, Instr(d, "NO_OP", "AL", r, r1, r2), junk) = s
           /\ Skip(s, newInstr("NO_OP", "AL", r, r1, r2), junk) = s
<1>1. /\ Registered(Instr(d, "NO_OP", "AL", r, r1, r2), "NO_OP", "AL", r, r1, r2)
      /\ Registered(newInstr("NO_OP", "AL", r, r1, r2), "NO_OP", "AL", r, r1, r2)
  BY MadeRegistered, NewMade
<1>2. /\ Registered(Instr(d, "NO_OP", "AL", NOT_USED, r, NOT_USED), "NO_OP", "AL", NOT_USED, r, NOT_USED)
      /\ Registered(newInstr("NO_OP", "AL", NOT_USED, r, NOT_USED), "NO_OP", "AL", NOT_USED, r, NOT_USED)
  BY MadeRegistered, NewMade
<1>3. /\ Instr(d, "NO_OP", "AL", r, r1, r2).op = "NO_OP" /\ newInstr("NO_OP", "AL", r, r1, r2).op = "NO_OP"
      /\ Naming(d, r).op = "NO_OP" /\ NewNaming(r).op = "NO_OP"
  BY <1>1, <1>2 DEF Registered, Naming, NewNaming
<1> QED BY <1>3, SkipIdle

\* The move of a trapping sum.
Moved(s, t, r, r2) ==
    /\ Proc(t) /\ SameFlags(s, t)
    /\ s.v => t = s
    /\ ~s.v => t.reg = [s.reg EXCEPT ![Physical(r)] = s.reg[Physical(r2)]]

LEMMA Kept ==
    ASSUME NEW s, Proc(s), NEW r, NEW r2, Physical(r) \in Registers, Physical(r2) \in Registers,
           NEW junk
    PROVE  Moved(s, Skip(s, If("VC", MOV(r, r2)), junk), r, r2)
<1> DEFINE q == If("VC", MOV(r, r2))
           t == Skip(s, q, junk)
<1>1. Registered(q, "ARM_MOV", "VC", r, NOT_USED, r2) /\ Mute(q) /\ t = Skip(s, q, junk)
  BY BareEmpty, MoveMade, Voices
<1> HIDE DEF q, t
<1>2. Holds(s, "VC") <=> ~s.v
  BY DEF Holds
<1>3. /\ Holds(s, "VC") => Writes(s, t, r, Value(s, r2)) /\ SameFlags(s, t)
      /\ ~Holds(s, "VC") => t = s
  BY <1>1, MoveByRegister
<1>4. SameFlags(s, s)
  BY DEF SameFlags
<1>5. Moved(s, t, r, r2)
  BY <1>2, <1>3, <1>4 DEF Writes, Value, Moved
<1> QED BY <1>5 DEF q, t

\* ADD.
LEMMA AddRight ==
    ASSUME NEW s, Proc(s), NEW d, d.op = "ADD", ByRegisters(d), NEW junk, NEW t,
           Runs(s, ADD(d), t, junk)
    PROVE  Leaves(d, s, t)
<1> DEFINE n == Naming(d, d.Rd1)
           p == newInstrS("ARM_ADD", "AL", SCRATCH0, d.R1, d.R2)
           q == If("VC", MOV(d.Rd1, SCRATCH0))
           x == s.reg[d.R1]
           y == s.reg[d.R2]
           f == Adder(x, y, 0)
           u == Skip(s, p, junk)
<1>1. t = Skip(u, q, junk)
  <2>1. t = Skip(Skip(Skip(s, n, junk), p, junk), q, junk)
    BY RunsThree DEF ADD
  <2>2. Skip(s, n, junk) = s
    BY NamingIdle DEF ByRegisters
  <2> QED BY <2>1, <2>2
<1>2. Registered(p, "ARM_ADD", "AL", SCRATCH0, d.R1, d.R2) /\ Loud(p)
  BY NewMade, Voices DEF ByRegisters
<1> HIDE DEF p
<1>3. /\ Physical(d.Rd1) = d.Rd1 /\ Physical(d.R1) = d.R1 /\ Physical(d.R2) = d.R2
      /\ d.Rd1 \in Registers /\ d.R1 \in Registers /\ d.R2 \in Registers
      /\ Physical(SCRATCH0) = R(0) /\ R(0) \in Registers /\ R(0) # d.Rd1
  BY RegisterNames DEF ByRegisters
<1>4. x = Value(s, d.R1) /\ y = Value(s, d.R2)
  BY <1>3 DEF Value
<1>5. "ARM_ADD" \in Adding /\ Holds(s, "AL") /\ (Loud(p) \/ Mute(p))
  BY <1>2 DEF Adding, Holds
<1> HIDE DEF x, y
<1>6. f = Adder(x, Summand("ARM_ADD", y), CarryIn("ARM_ADD", s))
  BY DEF Summand, CarryIn
<1> HIDE DEF f
<1>7. x \in Word0 /\ y \in Word0 /\ Steps(s, u, p, SCRATCH0, f)
  BY <1>2, <1>3, <1>4, <1>5, <1>6, SumByRegister
<1> HIDE DEF u
<1>8. Proc(u) /\ u.reg = [s.reg EXCEPT ![R(0)] = f.val] /\ u.v = f.v
  BY <1>2, <1>3, <1>7 DEF Steps, Writes, Follow
<1>9. /\ u.v => t = u
      /\ ~u.v => t.reg = [u.reg EXCEPT ![d.Rd1] = u.reg[R(0)]]
  <2>1. Moved(u, t, d.Rd1, SCRATCH0)
    BY <1>1, <1>3, <1>8, Kept
  <2> QED BY <1>3, <2>1 DEF Moved
<1>10. f.v => t.reg[d.Rd1] = s.reg[d.Rd1]
  BY <1>3, <1>8, <1>9 DEF Proc
<1>11. ~f.v => t.reg[d.Rd1] = f.val
  BY <1>3, <1>8, <1>9 DEF Proc
<1>12. Sum(d, s.reg) = Signed(x) + Signed(y) + 0
  <2>1. Sum(d, s.reg) = Signed(x) + Signed(y)
    BY DEF Sum, SignedLow, x, y
  <2>2. Signed(x) \in Int /\ Signed(y) \in Int
    BY <1>7, SignedFacts, Sizes
  <2> QED BY <2>1, <2>2
<1>13. d.op \in WordSums /\ d.op \in Trapping
  BY DEF WordSums, Trapping
<1>14. f = Adder(x, y, 0)
  BY DEF f
<1> QED BY <1>7, <1>10, <1>11, <1>12, <1>13, <1>14, WordLeft

\* Doublewords by registers: the operations on the two words.
Paired(d, low, high) ==
    \/ d.op \in {"DADD", "DADDU"} /\ low = "ARM_ADD" /\ high = "ARM_ADC"
    \/ d.op \in {"DSUB", "DSUBU"} /\ low = "ARM_SUB" /\ high = "ARM_SBC"

LEMMA DoubleOperands ==
    ASSUME NEW s, Proc(s), NEW d, ByRegisters(d), NEW lowOp, NEW highOp, Paired(d, lowOp, highOp),
           NEW x, x = s.reg[d.R1], NEW xh, xh = s.reg[Wide(d.R1)],
           NEW y, y = s.reg[d.R2], NEW yh, yh = s.reg[Wide(d.R2)],
           NEW z, z = Summand(lowOp, y), NEW zh, zh = Summand(highOp, yh), NEW c, c = CarryIn(lowOp, s)
    PROVE  /\ x \in Word0 /\ xh \in Word0 /\ y \in Word0 /\ yh \in Word0 /\ z \in Word0 /\ zh \in Word0
           /\ c \in {0, 1} /\ lowOp \in Adding /\ highOp \in Adding
           /\ \A u : CarryIn(highOp, u) = Carried(u)
           /\ Sum(d, s.reg) = SignedDouble(Double(xh, x)) + SignedDouble(Double(zh, z)) + c
<1>1. x \in Word0 /\ xh \in Word0 /\ y \in Word0 /\ yh \in Word0
  BY RegisterNames DEF ByRegisters, Proc
<1>2. z \in Word0 /\ zh \in Word0
  BY <1>1, SignedFacts DEF Summand
<1>3. c \in {0, 1} /\ lowOp \in Adding /\ highOp \in Adding /\ \A u : CarryIn(highOp, u) = Carried(u)
  BY DEF Paired, CarryIn, Adding
<1>4. SignedFull(s.reg, d.R1) = SignedDouble(Double(xh, x)) /\ SignedFull(s.reg, d.R2) = SignedDouble(Double(yh, y))
  BY DEF SignedFull, Full
<1>5. /\ SignedDouble(Double(xh, x)) \in Int /\ SignedDouble(Double(yh, y)) \in Int
      /\ SignedDouble(Double(yh, y)) = Signed(yh) * Words + y
      /\ SignedDouble(Double(zh, z)) = Signed(zh) * Words + z
  BY <1>1, <1>2, DoubleFacts
<1>6. CASE d.op \in {"DADD", "DADDU"}
  <2>1. z = y /\ zh = yh /\ c = 0
    BY <1>6 DEF Paired, Summand, CarryIn
  <2>2. Sum(d, s.reg) = SignedFull(s.reg, d.R1) + SignedFull(s.reg, d.R2)
    BY <1>6 DEF Sum
  <2>3. Sum(d, s.reg) = SignedDouble(Double(xh, x)) + SignedDouble(Double(zh, z)) + c
    BY <1>4, <1>5, <2>1, <2>2
  <2> QED BY <1>1, <1>2, <1>3, <2>3
<1>7. CASE d.op \in {"DSUB", "DSUBU"}
  <2>1. z = Flipped(y) /\ zh = Flipped(yh) /\ c = 1
    BY <1>7 DEF Paired, Summand, CarryIn
  <2>2. Sum(d, s.reg) = SignedFull(s.reg, d.R1) - SignedFull(s.reg, d.R2)
    BY <1>7 DEF Sum
  <2>3. Signed(zh) = -1 - Signed(yh) /\ Signed(yh) \in Int /\ z = (Words - 1) - y /\ Words \in Nat
        /\ y \in Int
    <3>1. Signed(zh) = -1 - Signed(yh)
      BY <1>1, <2>1, SignedFacts
    <3>2. Signed(yh) \in Int
      BY <1>1, SignedFacts, Sizes
    <3>3. Words \in Nat /\ y \in Int
      BY <1>1, Sizes DEF Word0
    <3> QED BY <2>1, <3>1, <3>2, <3>3 DEF Flipped
  <2>4. Signed(zh) * Words = -Words - Signed(yh) * Words /\ Signed(yh) * Words \in Int
    BY <2>3
  <2>5. SignedDouble(Double(zh, z)) + 1 = -SignedDouble(Double(yh, y))
    BY <1>5, <2>3, <2>4
  <2>6. SignedDouble(Double(zh, z)) \in Int
    BY <1>2, DoubleFacts
  <2>7. Sum(d, s.reg) = SignedDouble(Double(xh, x)) + SignedDouble(Double(zh, z)) + c
    BY <1>4, <1>5, <2>1, <2>2, <2>5, <2>6
  <2> QED BY <1>1, <1>2, <1>3, <2>7
<1> QED BY <1>6, <1>7 DEF Paired

\* DADDU and DSUBU.
LEMMA PlainDoubleRight ==
    ASSUME NEW s, Proc(s), NEW d, d.op \in {"DADDU", "DSUBU"}, ByRegisters(d), NEW lowOp, NEW highOp,
           Paired(d, lowOp, highOp), NEW junk, NEW t, Runs(s, PlainDouble(d, lowOp, highOp), t, junk)
    PROVE  Leaves(d, s, t)
<1> DEFINE p == InstrS(d, lowOp, "AL", d.Rd1, d.R1, d.R2)
           q == newInstr(highOp, "AL", Rdw(d), R1w(d), R2w(d))
           u == Skip(s, p, junk)
           x == s.reg[d.R1]
           y == s.reg[d.R2]
           xh == s.reg[Wide(d.R1)]
           yh == s.reg[Wide(d.R2)]
           z == Summand(lowOp, y)
           zh == Summand(highOp, yh)
           c == CarryIn(lowOp, s)
           low == Adder(x, z, c)
           c1 == IF low.c THEN 1 ELSE 0
           high == Adder(xh, zh, c1)
<1>1. t = Skip(u, q, junk)
  BY RunsTwo DEF PlainDouble
<1>2. /\ Registered(p, lowOp, "AL", d.Rd1, d.R1, d.R2) /\ Loud(p)
      /\ Registered(q, highOp, "AL", Wide(d.Rd1), Wide(d.R1), Wide(d.R2)) /\ Mute(q)
  <2>1. Bare(d)
    BY DEF ByRegisters
  <2>2. Registered(p, lowOp, "AL", d.Rd1, d.R1, d.R2) /\ Loud(p)
    BY <2>1, MadeRegistered, Voices
  <2>3. Registered(q, highOp, "AL", Wide(d.Rd1), Wide(d.R1), Wide(d.R2)) /\ Mute(q)
    BY <2>1, NewMade, Voices DEF Rdw, R1w, R2w
  <2> QED BY <2>2, <2>3
<1> HIDE DEF p, q
<1>3. /\ Physical(d.Rd1) = d.Rd1 /\ Physical(d.R1) = d.R1 /\ Physical(d.R2) = d.R2
      /\ d.Rd1 \in Registers /\ d.R1 \in Registers /\ d.R2 \in Registers
      /\ Physical(Wide(d.Rd1)) = Wide(d.Rd1) /\ Physical(Wide(d.R1)) = Wide(d.R1)
      /\ Physical(Wide(d.R2)) = Wide(d.R2)
      /\ Wide(d.Rd1) \in Registers /\ Wide(d.R1) \in Registers /\ Wide(d.R2) \in Registers
  BY RegisterNames DEF ByRegisters
<1>4. d.Rd1 # Wide(d.Rd1) /\ d.Rd1 # Wide(d.R1) /\ d.Rd1 # Wide(d.R2)
  BY RegisterNames DEF ByRegisters
<1>5. /\ x \in Word0 /\ xh \in Word0 /\ y \in Word0 /\ yh \in Word0 /\ z \in Word0 /\ zh \in Word0
      /\ c \in {0, 1} /\ lowOp \in Adding /\ highOp \in Adding
      /\ \A m : CarryIn(highOp, m) = Carried(m)
      /\ Sum(d, s.reg) = SignedDouble(Double(xh, x)) + SignedDouble(Double(zh, z)) + c
  <2>1. /\ x = s.reg[d.R1] /\ xh = s.reg[Wide(d.R1)] /\ y = s.reg[d.R2] /\ yh = s.reg[Wide(d.R2)]
        /\ z = Summand(lowOp, y) /\ zh = Summand(highOp, yh) /\ c = CarryIn(lowOp, s)
    OBVIOUS
  <2> HIDE DEF x, xh, y, yh, z, zh, c
  <2> QED BY <2>1, DoubleOperands
<1>6. x = Value(s, d.R1) /\ y = Value(s, d.R2) /\ low = Adder(x, Summand(lowOp, y), CarryIn(lowOp, s))
  BY <1>3 DEF Value
<1>7. Holds(s, "AL") /\ Holds(u, "AL") /\ (Loud(p) \/ Mute(p)) /\ (Loud(q) \/ Mute(q))
  BY <1>2 DEF Holds
<1> HIDE DEF x, y, z, c, low
<1>8. Steps(s, u, p, d.Rd1, low)
  <2>1. u = Skip(s, p, junk)
    OBVIOUS
  <2> HIDE DEF u
  <2> QED BY <1>2, <1>3, <1>5, <1>6, <1>7, <2>1, SumByRegister
<1> HIDE DEF u
<1>9. Proc(u) /\ u.reg = [s.reg EXCEPT ![d.Rd1] = low.val] /\ u.c = low.c
  BY <1>2, <1>3, <1>8 DEF Steps, Writes, Follow
<1>10. xh = Value(u, Wide(d.R1)) /\ yh = Value(u, Wide(d.R2))
  BY <1>3, <1>4, <1>9 DEF Value, Proc
<1>11. high = Adder(xh, Summand(highOp, yh), CarryIn(highOp, u))
  BY <1>5, <1>9 DEF Carried
<1> HIDE DEF xh, yh, zh, c1, high
<1>12. Steps(u, t, q, Wide(d.Rd1), high)
  BY <1>1, <1>2, <1>3, <1>5, <1>7, <1>9, <1>10, <1>11, SumByRegister, SMTT(60)
<1>13. t.reg[d.Rd1] = low.val /\ t.reg[Wide(d.Rd1)] = high.val
  BY <1>3, <1>4, <1>9, <1>12 DEF Steps, Writes, Proc
<1>14. d.op \in DoubleSums /\ d.op \notin Trapping
  BY DEF DoubleSums, Trapping
<1>15. low = Adder(x, z, c) /\ c1 = (IF low.c THEN 1 ELSE 0) /\ high = Adder(xh, zh, c1)
  BY DEF low, c1, high
<1> QED BY <1>5, <1>13, <1>14, <1>15, DoubleLeft

\* Two moves, where the sum did not overflow.
BothMoved(s, t, r) ==
    /\ s.v => t = s
    /\ ~s.v => t.reg[r] = s.reg[R(0)] /\ t.reg[Wide(r)] = s.reg[R(1)]

LEMMA BothKept ==
    ASSUME NEW s, Proc(s), NEW r \in 0 .. 31, NEW junk
    PROVE  BothMoved(s, Skip(Skip(s, If("VC", MOV(r, SCRATCH0)), junk),
                             If("VC", MOV(Wide(r), SCRATCH1)), junk), r)
<1> DEFINE u == Skip(s, If("VC", MOV(r, SCRATCH0)), junk)
           t == Skip(u, If("VC", MOV(Wide(r), SCRATCH1)), junk)
<1>1. /\ Physical(r) = r /\ r \in Registers /\ Physical(Wide(r)) = Wide(r) /\ Wide(r) \in Registers
      /\ Physical(SCRATCH0) = R(0) /\ Physical(SCRATCH1) = R(1) /\ R(0) \in Registers /\ R(1) \in Registers
      /\ r # R(1) /\ r # Wide(r) /\ Wide(r) # R(1)
  BY RegisterNames
<1>2. Physical(r) \in Registers /\ Physical(SCRATCH0) \in Registers /\ Physical(Wide(r)) \in Registers
      /\ Physical(SCRATCH1) \in Registers
  BY <1>1
<1>3. Moved(s, u, r, SCRATCH0)
  BY <1>2, Kept
<1> HIDE DEF u
<1>4. Moved(u, t, Wide(r), SCRATCH1)
  <2>1. Proc(u)
    BY <1>3 DEF Moved
  <2> QED BY <1>2, <2>1, Kept
<1> HIDE DEF t
<1>5. u.v = s.v /\ Proc(u) /\ s.v \in BOOLEAN
  BY <1>3 DEF Moved, SameFlags, Proc
<1>6. s.v => t = s
  BY <1>3, <1>4, <1>5 DEF Moved
<1>7. ASSUME ~s.v PROVE t.reg[r] = s.reg[R(0)] /\ t.reg[Wide(r)] = s.reg[R(1)]
  <2>1. u.reg = [s.reg EXCEPT ![r] = s.reg[R(0)]]
    BY <1>1, <1>3, <1>7 DEF Moved
  <2>2. t.reg = [u.reg EXCEPT ![Wide(r)] = u.reg[R(1)]]
    BY <1>1, <1>4, <1>5, <1>7 DEF Moved
  <2>3. u.reg[R(1)] = s.reg[R(1)]
    BY <1>1, <2>1 DEF Proc
  <2> QED BY <1>1, <1>5, <1>7, <2>1, <2>2, <2>3 DEF Proc
<1>8. BothMoved(s, t, r)
  BY <1>6, <1>7 DEF BothMoved
<1> QED BY <1>8 DEF u, t

\* DADD and DSUB.
LEMMA TrappingDoubleRight ==
    ASSUME NEW s, Proc(s), NEW d, d.op \in {"DADD", "DSUB"}, ByRegisters(d), NEW lowOp, NEW highOp,
           Paired(d, lowOp, highOp), NEW junk, NEW t, Runs(s, TrappingDouble(d, lowOp, highOp), t, junk)
    PROVE  Leaves(d, s, t)
<1> DEFINE n == Naming(d, d.Rd1)
           nw == NewNaming(Rdw(d))
           p == newInstrS(lowOp, "AL", SCRATCH0, d.R1, d.R2)
           q == newInstrS(highOp, "AL", SCRATCH1, R1w(d), R2w(d))
           m == If("VC", MOV(d.Rd1, SCRATCH0))
           mw == If("VC", MOV(Rdw(d), SCRATCH1))
           u == Skip(s, p, junk)
           v == Skip(u, q, junk)
           x == s.reg[d.R1]
           y == s.reg[d.R2]
           xh == s.reg[Wide(d.R1)]
           yh == s.reg[Wide(d.R2)]
           z == Summand(lowOp, y)
           zh == Summand(highOp, yh)
           c == CarryIn(lowOp, s)
           low == Adder(x, z, c)
           c1 == IF low.c THEN 1 ELSE 0
           high == Adder(xh, zh, c1)
<1>1. t = Skip(Skip(v, m, junk), mw, junk)
  <2>1. PICK s1, s2, s3, s4, s5 :
              /\ s1 = Skip(s, n, junk) /\ s2 = Skip(s1, nw, junk) /\ s3 = Skip(s2, p, junk)
              /\ s4 = Skip(s3, q, junk) /\ s5 = Skip(s4, m, junk) /\ t = Skip(s5, mw, junk)
    BY RunsSix DEF TrappingDouble
  <2>2. Skip(s, n, junk) = s /\ Skip(s, nw, junk) = s
    BY NamingIdle DEF ByRegisters
  <2> QED BY <2>1, <2>2
<1>2. /\ Registered(p, lowOp, "AL", SCRATCH0, d.R1, d.R2) /\ Loud(p)
      /\ Registered(q, highOp, "AL", SCRATCH1, Wide(d.R1), Wide(d.R2)) /\ Loud(q)
  <2>1. Bare(d)
    BY DEF ByRegisters
  <2>2. Registered(p, lowOp, "AL", SCRATCH0, d.R1, d.R2) /\ Loud(p)
    BY <2>1, NewMade, Voices
  <2>3. Registered(q, highOp, "AL", SCRATCH1, Wide(d.R1), Wide(d.R2)) /\ Loud(q)
    BY <2>1, NewMade, Voices DEF R1w, R2w
  <2> QED BY <2>2, <2>3
<1> HIDE DEF p, q
<1>3. /\ Physical(d.R1) = d.R1 /\ Physical(d.R2) = d.R2 /\ d.R1 \in Registers /\ d.R2 \in Registers
      /\ d.Rd1 \in Registers /\ Wide(d.Rd1) \in Registers
      /\ Physical(Wide(d.R1)) = Wide(d.R1) /\ Physical(Wide(d.R2)) = Wide(d.R2)
      /\ Wide(d.R1) \in Registers /\ Wide(d.R2) \in Registers
      /\ Physical(SCRATCH0) = R(0) /\ Physical(SCRATCH1) = R(1) /\ R(0) \in Registers /\ R(1) \in Registers
  BY RegisterNames DEF ByRegisters
<1>4. /\ R(0) # Wide(d.R1) /\ R(0) # Wide(d.R2) /\ R(0) # R(1)
      /\ d.Rd1 \notin {R(0), R(1)} /\ Wide(d.Rd1) \notin {R(0), R(1)}
  BY RegisterNames DEF ByRegisters
<1>5. /\ x \in Word0 /\ xh \in Word0 /\ y \in Word0 /\ yh \in Word0 /\ z \in Word0 /\ zh \in Word0
      /\ c \in {0, 1} /\ lowOp \in Adding /\ highOp \in Adding
      /\ \A o : CarryIn(highOp, o) = Carried(o)
      /\ Sum(d, s.reg) = SignedDouble(Double(xh, x)) + SignedDouble(Double(zh, z)) + c
  <2>1. /\ x = s.reg[d.R1] /\ xh = s.reg[Wide(d.R1)] /\ y = s.reg[d.R2] /\ yh = s.reg[Wide(d.R2)]
        /\ z = Summand(lowOp, y) /\ zh = Summand(highOp, yh) /\ c = CarryIn(lowOp, s)
    OBVIOUS
  <2> HIDE DEF x, xh, y, yh, z, zh, c
  <2> QED BY <2>1, DoubleOperands
<1>6. x = Value(s, d.R1) /\ y = Value(s, d.R2) /\ low = Adder(x, Summand(lowOp, y), CarryIn(lowOp, s))
  BY <1>3 DEF Value
<1>7. Holds(s, "AL") /\ Holds(u, "AL")
  BY DEF Holds
<1> HIDE DEF x, y, z, c, low
<1>8. Steps(s, u, p, SCRATCH0, low)
  <2>1. u = Skip(s, p, junk)
    OBVIOUS
  <2> HIDE DEF u
  <2> QED BY <1>2, <1>3, <1>5, <1>6, <1>7, <2>1, SumByRegister
<1> HIDE DEF u
<1>9. Proc(u) /\ u.reg = [s.reg EXCEPT ![R(0)] = low.val] /\ u.c = low.c
  BY <1>2, <1>3, <1>8 DEF Steps, Writes, Follow
<1>10. xh = Value(u, Wide(d.R1)) /\ yh = Value(u, Wide(d.R2))
  BY <1>3, <1>4, <1>9 DEF Value, Proc
<1>11. high = Adder(xh, Summand(highOp, yh), CarryIn(highOp, u))
  BY <1>5, <1>9 DEF Carried
<1> HIDE DEF xh, yh, zh, c1, high
<1>12. Steps(u, v, q, SCRATCH1, high)
  <2>1. v = Skip(u, q, junk)
    OBVIOUS
  <2> HIDE DEF v
  <2> QED BY <1>2, <1>3, <1>5, <1>7, <1>9, <1>10, <1>11, <2>1, SumByRegister
<1> HIDE DEF v
<1>13. Proc(v) /\ v.reg = [u.reg EXCEPT ![R(1)] = high.val] /\ v.v = high.v
  BY <1>2, <1>3, <1>12 DEF Steps, Writes, Follow
<1>14. /\ v.v => t = v
       /\ ~v.v => t.reg[d.Rd1] = v.reg[R(0)] /\ t.reg[Wide(d.Rd1)] = v.reg[R(1)]
  <2>1. d.Rd1 \in 0 .. 31
    BY DEF ByRegisters
  <2>2. BothMoved(v, t, d.Rd1)
    BY <1>1, <1>13, <2>1, BothKept DEF Rdw
  <2> QED BY <2>2 DEF BothMoved
<1>15. high.v => t.reg[d.Rd1] = s.reg[d.Rd1] /\ t.reg[Wide(d.Rd1)] = s.reg[Wide(d.Rd1)]
  BY <1>3, <1>4, <1>9, <1>13, <1>14 DEF Proc
<1>16. ~high.v => t.reg[d.Rd1] = low.val /\ t.reg[Wide(d.Rd1)] = high.val
  BY <1>3, <1>4, <1>9, <1>13, <1>14 DEF Proc
<1>17. d.op \in DoubleSums /\ d.op \in Trapping
  BY DEF DoubleSums, Trapping
<1>18. low = Adder(x, z, c) /\ c1 = (IF low.c THEN 1 ELSE 0) /\ high = Adder(xh, zh, c1)
  BY DEF low, c1, high
<1> QED BY <1>5, <1>15, <1>16, <1>17, <1>18, DoubleLeft, ZenonT(60)

-----------------------------------------------------------------------------
\* Sums with an immediate.
WithImmediate(d) ==
    Bare(d) /\ d.Rd1 \in 0 .. 31 /\ d.R1 \in 0 .. 31 /\ d.imm \in -HalfImm .. HalfImm - 1

LEMMA SmallFacts ==
    ASSUME NEW n \in 0 .. TwoByte - 1
    PROVE  /\ n \in Word0 /\ n \in Int /\ Signed(n) = n
           /\ Flipped(n) \in Word0 /\ Signed(Flipped(n)) = -1 - n
           /\ SignedDouble(Double(0, n)) = n
<1>1. n \in Word0 /\ n < Half
  BY HalvesFacts
<1>2. Words \in Nat /\ Half \in Nat /\ Words = 2 * Half /\ Half >= TwoByte /\ TwoByte \in Nat /\ Half >= 1
      /\ TwoByte >= 1
  <2>1. TwoByte = OneByte * OneByte /\ OneByte \in Nat /\ OneByte >= 2
    BY Sizes
  <2>2. TwoByte >= 1
    BY <2>1
  <2> QED BY <2>2, Sizes
<1> HIDE DEF TwoByte, Half, Words
<1>3. n \in Int /\ ~(n >= Half)
  BY <1>1, <1>2
<1>4. Signed(n) = n
  BY <1>1, <1>3, SignedFacts
<1>5. Flipped(n) \in Word0 /\ Signed(Flipped(n)) = -1 - n
  BY <1>1, <1>4, SignedFacts
<1>6. 0 \in Word0 /\ ~(0 >= Half)
  BY <1>2 DEF Word0
<1>7. Signed(0) = 0
  BY <1>6, SignedFacts
<1>8. SignedDouble(Double(0, n)) = Signed(0) * Words + n
  BY <1>1, <1>6, DoubleFacts
<1>9. 0 * Words = 0
  BY <1>2
<1> QED BY <1>1, <1>3, <1>4, <1>5, <1>7, <1>8, <1>9

\* The immediates have two bytes at most.
LEMMA Within ==
    ASSUME NEW n \in -HalfImm .. HalfImm - 1
    PROVE  /\ n \in Int
           /\ n >= 0 => n \in 0 .. TwoByte - 1
           /\ n < 0 => -n \in 0 .. TwoByte - 1
<1>1. 2 * HalfImm = TwoByte /\ HalfImm \in Nat /\ TwoByte \in Nat /\ TwoByte >= 2
  <2>1. TwoByte = OneByte * OneByte /\ OneByte \in Nat /\ OneByte >= 2
    BY Sizes
  <2>2. TwoByte >= 2
    BY <2>1
  <2> QED BY <2>2, Sizes DEF HalfImm
<1> HIDE DEF HalfImm, TwoByte
<1> QED BY <1>1

LEMMA ImmediateNames ==
    ASSUME NEW d, WithImmediate(d)
    PROVE  /\ Physical(d.Rd1) = d.Rd1 /\ Physical(d.R1) = d.R1 /\ d.Rd1 \in Registers /\ d.R1 \in Registers
           /\ Physical(Wide(d.Rd1)) = Wide(d.Rd1) /\ Physical(Wide(d.R1)) = Wide(d.R1)
           /\ Wide(d.Rd1) \in Registers /\ Wide(d.R1) \in Registers
           /\ Physical(SCRATCH0) = R(0) /\ Physical(SCRATCH1) = R(1) /\ R(0) \in Registers /\ R(1) \in Registers
           /\ Physical(NOT_USED) = R(0)
           /\ R(0) # R(1) /\ d.Rd1 \notin {R(0), R(1)} /\ Wide(d.Rd1) \notin {R(0), R(1)}
           /\ d.R1 \notin {R(0), R(1)} /\ Wide(d.R1) \notin {R(0), R(1)}
           /\ d.Rd1 # Wide(d.Rd1) /\ d.Rd1 # Wide(d.R1) /\ d.R1 # Wide(d.Rd1)
BY RegisterNames DEF WithImmediate

LEMMA AddNames ==
    /\ "ARM_ADD" \in Adding \ {"ARM_SBC"} /\ "ARM_SUB" \in Adding \ {"ARM_SBC"}
    /\ "ARM_ADC" \in Adding \ {"ARM_SBC"}
    /\ "ARM_ADD" \in DataOps /\ "ARM_SUB" \in DataOps /\ "ARM_ADC" \in DataOps /\ "ARM_MOV" \in DataOps
    /\ \A y, s : /\ Summand("ARM_ADD", y) = y /\ CarryIn("ARM_ADD", s) = 0
                 /\ Summand("ARM_SUB", y) = Flipped(y) /\ CarryIn("ARM_SUB", s) = 1
                 /\ Summand("ARM_ADC", y) = y /\ CarryIn("ARM_ADC", s) = Carried(s)
    /\ \A s : Holds(s, "AL")
BY DEF Adding, DataOps, Summand, CarryIn, Holds

\* One sum with an immediate.
LEMMA AddImmediate ==
    ASSUME NEW s, Proc(s), NEW i, NEW r, NEW r1, Physical(r) \in Registers, Physical(r1) \in Registers,
           NEW n \in Word0, Immediated(i, "ARM_ADD", "AL", r, r1, n), Loud(i) \/ Mute(i),
           NEW junk, NEW x, x = Value(s, r1), NEW f, f = Adder(x, n, 0)
    PROVE  x \in Word0 /\ Steps(s, Skip(s, i, junk), i, r, f)
<1> DEFINE t == Skip(s, i, junk)
<1>1. t = Skip(s, i, junk) /\ f = Adder(x, Summand("ARM_ADD", n), CarryIn("ARM_ADD", s))
  BY AddNames
<1> HIDE DEF t
<1>2. x \in Word0 /\ Steps(s, t, i, r, f)
  <2> DEFINE g == Adder(x, Summand("ARM_ADD", n), CarryIn("ARM_ADD", s))
  <2>1. "ARM_ADD" \in Adding \ {"ARM_SBC"} /\ Holds(s, "AL") /\ f = g
    BY <1>1, AddNames
  <2>2. g = Adder(x, Summand("ARM_ADD", n), CarryIn("ARM_ADD", s))
    OBVIOUS
  <2> HIDE DEF g
  <2>3. x \in Word0 /\ Steps(s, t, i, r, g)
    BY <1>1, <2>1, <2>2, SumByImmediate
  <2> QED BY <2>1, <2>3
<1> QED BY <1>2 DEF t

LEMMA SubtractImmediate ==
    ASSUME NEW s, Proc(s), NEW i, NEW r, NEW r1, Physical(r) \in Registers, Physical(r1) \in Registers,
           NEW n \in Word0, Immediated(i, "ARM_SUB", "AL", r, r1, n), Loud(i) \/ Mute(i),
           NEW junk, NEW x, x = Value(s, r1), NEW f, f = Adder(x, Flipped(n), 1)
    PROVE  x \in Word0 /\ Steps(s, Skip(s, i, junk), i, r, f)
<1> DEFINE t == Skip(s, i, junk)
<1>1. t = Skip(s, i, junk) /\ f = Adder(x, Summand("ARM_SUB", n), CarryIn("ARM_SUB", s))
  BY AddNames
<1> HIDE DEF t
<1>2. x \in Word0 /\ Steps(s, t, i, r, f)
  <2> DEFINE g == Adder(x, Summand("ARM_SUB", n), CarryIn("ARM_SUB", s))
  <2>1. "ARM_SUB" \in Adding \ {"ARM_SBC"} /\ Holds(s, "AL") /\ f = g
    BY <1>1, AddNames
  <2>2. g = Adder(x, Summand("ARM_SUB", n), CarryIn("ARM_SUB", s))
    OBVIOUS
  <2> HIDE DEF g
  <2>3. x \in Word0 /\ Steps(s, t, i, r, g)
    BY <1>1, <2>1, <2>2, SumByImmediate
  <2> QED BY <2>1, <2>3
<1> QED BY <1>2 DEF t

LEMMA CarryImmediate ==
    ASSUME NEW s, Proc(s), NEW i, NEW r, NEW r1, Physical(r) \in Registers, Physical(r1) \in Registers,
           NEW n \in Word0, Immediated(i, "ARM_ADC", "AL", r, r1, n), Loud(i) \/ Mute(i),
           NEW junk, NEW x, x = Value(s, r1), NEW f, f = Adder(x, n, Carried(s))
    PROVE  x \in Word0 /\ Steps(s, Skip(s, i, junk), i, r, f)
<1> DEFINE t == Skip(s, i, junk)
<1>1. t = Skip(s, i, junk) /\ f = Adder(x, Summand("ARM_ADC", n), CarryIn("ARM_ADC", s))
  BY AddNames
<1> HIDE DEF t
<1>2. x \in Word0 /\ Steps(s, t, i, r, f)
  <2> DEFINE g == Adder(x, Summand("ARM_ADC", n), CarryIn("ARM_ADC", s))
  <2>1. "ARM_ADC" \in Adding \ {"ARM_SBC"} /\ Holds(s, "AL") /\ f = g
    BY <1>1, AddNames
  <2>2. g = Adder(x, Summand("ARM_ADC", n), CarryIn("ARM_ADC", s))
    OBVIOUS
  <2> HIDE DEF g
  <2>3. x \in Word0 /\ Steps(s, t, i, r, g)
    BY <1>1, <2>1, <2>2, SumByImmediate
  <2> QED BY <2>1, <2>3
<1> QED BY <1>2 DEF t

\* The sum of a word and an immediate.
LEMMA WordSum ==
    ASSUME NEW s, Proc(s), NEW d, WithImmediate(d), d.op \in {"ADDI", "ADDIU"}
    PROVE  /\ d.op \in WordSums /\ (d.op \in Trapping <=> d.op = "ADDI")
           /\ Sum(d, s.reg) = Signed(s.reg[d.R1]) + d.imm /\ Signed(s.reg[d.R1]) \in Int
           /\ s.reg[d.R1] \in Word0
<1>1. d.op \in WordSums /\ (d.op \in Trapping <=> d.op = "ADDI")
  BY DEF WordSums, Trapping
<1>2. Sum(d, s.reg) = Signed(s.reg[d.R1]) + d.imm
  BY DEF Sum, SignedLow
<1>3. s.reg[d.R1] \in Word0
  BY ImmediateNames DEF Proc
<1>4. Signed(s.reg[d.R1]) \in Int
  BY <1>3, SignedFacts, Sizes
<1> QED BY <1>1, <1>2, <1>3, <1>4

\* A negative immediate of one byte.
LEMMA SubtractRight ==
    ASSUME NEW s, Proc(s), NEW d, WithImmediate(d), d.op \in {"ADDI", "ADDIU"}, d.imm < 0,
           d.op = "ADDI" => ~Overflows(d, s.reg), NEW junk, NEW t,
           Runs(s, << InstrI(d, "ARM_SUB", "AL", d.Rd1, d.R1, NOT_USED, -d.imm) >>, t, junk)
    PROVE  Leaves(d, s, t)
<1> DEFINE n == -d.imm
           p == InstrI(d, "ARM_SUB", "AL", d.Rd1, d.R1, NOT_USED, n)
           x == s.reg[d.R1]
           z == Flipped(n)
           f == Adder(x, z, 1)
<1>1. t = Skip(s, p, junk)
  BY RunsOne
<1>2. Immediated(p, "ARM_SUB", "AL", d.Rd1, d.R1, n) /\ Mute(p)
  <2>1. Bare(d)
    BY DEF WithImmediate
  <2> HIDE DEF n
  <2> QED BY <2>1, AddNames, MadeImmediated, Voices
<1>3. d.imm \in Int /\ n \in 0 .. TwoByte - 1
  BY Within DEF WithImmediate
<1>4. d.imm = -n
  BY <1>3
<1> HIDE DEF n, p, f
<1>5. n \in Word0 /\ n \in Int /\ z \in Word0 /\ Signed(z) = -1 - n
  BY <1>3, SmallFacts
<1>6. x = Value(s, d.R1)
  BY ImmediateNames DEF Value
<1>7. x \in Word0 /\ Steps(s, t, p, d.Rd1, f)
  <2> HIDE DEF x
  <2> QED BY <1>1, <1>2, <1>5, <1>6, ImmediateNames, SubtractImmediate DEF f
<1>8. t.reg[d.Rd1] = f.val
  BY <1>7, ImmediateNames DEF Steps, Writes, Proc
<1> HIDE DEF x, z
<1>9. Sum(d, s.reg) = Signed(x) + Signed(z) + 1
  <2>1. Sum(d, s.reg) = Signed(x) + d.imm /\ Signed(x) \in Int
    BY WordSum DEF x
  <2> QED BY <1>4, <1>5, <2>1
<1>10. f = Adder(x, z, 1)
  BY DEF f
<1>11. d.op \in WordSums /\ (d.op \in Trapping <=> d.op = "ADDI")
  BY WordSum
<1>12. d.op = "ADDI" => ~f.v
  <2>1. f.v <=> Sum(d, s.reg) \notin -Half .. Half - 1
    BY <1>5, <1>7, <1>9, <1>10, AdderFacts
  <2>2. Overflows(d, s.reg) <=> Sum(d, s.reg) \notin -Half .. Half - 1
    BY <1>11 DEF Overflows, Bits, Half
  <2> QED BY <2>1, <2>2
<1> QED BY <1>5, <1>7, <1>8, <1>9, <1>10, <1>11, <1>12, WordLeft

\* From zero nothing is carried.
LEMMA FromZeroFacts ==
    ASSUME NEW n \in 0 .. TwoByte - 1, NEW f, f = Adder(0, n, 0)
    PROVE  0 \in Word0 /\ n \in Word0 /\ f.val = n /\ f.c = FALSE /\ f.v = FALSE
<1>1. 0 \in 0 .. TwoByte - 1 /\ n \in Int
  BY HalvesFacts, Sizes DEF Word0
<1>2. 0 \in Word0 /\ Signed(0) = 0 /\ n \in Word0 /\ Signed(n) = n
  BY <1>1, SmallFacts
<1>3. n < Half /\ Words = 2 * Half /\ Half \in Nat /\ n >= 0
  BY HalvesFacts, Sizes
<1> DEFINE sum == Signed(0) + Signed(n) + 0
<1>4. /\ f.val = IF 0 + n + 0 >= Words THEN (0 + n + 0) - Words ELSE 0 + n + 0
      /\ f.c \in BOOLEAN /\ (f.c <=> 0 + n + 0 >= Words)
      /\ f.v \in BOOLEAN /\ (f.v <=> sum \notin -Half .. Half - 1)
  <2>1. 0 \in {0, 1} /\ sum = Signed(0) + Signed(n) + 0
    OBVIOUS
  <2> HIDE DEF sum
  <2> QED BY <1>2, <2>1, AdderFacts
<1> HIDE DEF Words, Half
<1>5. sum = n /\ 0 + n + 0 = n /\ ~(n >= Words) /\ n \in -Half .. Half - 1
  BY <1>1, <1>2, <1>3
<1> QED BY <1>2, <1>4, <1>5

\* What a sum from zero has left in the low word.
Left(s, t, r, n) == Proc(t) /\ t.reg[r] = n /\ \A q \in Registers \ {r} : t.reg[q] = s.reg[q]

LowFromZero(d) ==
    IF WithoutByte(d.imm) THEN FromZero(d, "ARM_ADD", d.imm)
    ELSE << InstrI(d, "ARM_MOV", "AL", d.Rd1, NOT_USED, NOT_USED, d.imm) >>

LEMMA ZeroLow ==
    ASSUME NEW s, Proc(s), NEW d, WithImmediate(d), d.imm > 0, NEW junk, NEW t,
           Runs(s, LowFromZero(d), t, junk)
    PROVE  Left(s, t, d.Rd1, d.imm)
<1> DEFINE n == d.imm
<1>1. n \in 0 .. TwoByte - 1
  BY Within DEF WithImmediate
<1>2. Lo(n) \in Word0 /\ Hi(n) \in Word0 /\ Lo(n) + Hi(n) = n /\ n \in Word0
  BY <1>1, HalvesFacts
<1>3. Physical(d.Rd1) = d.Rd1 /\ d.Rd1 \in Registers /\ Bare(d)
  BY ImmediateNames DEF WithImmediate
<1>4. CASE WithoutByte(d.imm)
  <2> DEFINE p == InstrI(d, "ARM_MOV", "AL", d.Rd1, NOT_USED, NOT_USED, Lo(n))
             q == newInstrI("ARM_ADD", "AL", d.Rd1, d.Rd1, NOT_USED, Hi(n))
             u == Skip(s, p, junk)
             f == Adder(Lo(n), Hi(n), 0)
  <2>1. t = Skip(u, q, junk)
    BY <1>4, RunsTwo DEF LowFromZero, FromZero
  <2>2. Immediated(p, "ARM_MOV", "AL", d.Rd1, NOT_USED, Lo(n)) /\ Mute(p)
    <3> DEFINE k == Lo(n)
    <3> HIDE DEF k
    <3>1. LET g == InstrI(d, "ARM_MOV", "AL", d.Rd1, NOT_USED, NOT_USED, k)
          IN  Immediated(g, "ARM_MOV", "AL", d.Rd1, NOT_USED, k) /\ Mute(g)
      BY <1>3, AddNames, MadeImmediated, Voices
    <3> QED BY <3>1 DEF k
  <2>3. Immediated(q, "ARM_ADD", "AL", d.Rd1, d.Rd1, Hi(n)) /\ Mute(q)
    <3> DEFINE k == Hi(n)
    <3> HIDE DEF k
    <3>1. LET g == newInstrI("ARM_ADD", "AL", d.Rd1, d.Rd1, NOT_USED, k)
          IN  Immediated(g, "ARM_ADD", "AL", d.Rd1, d.Rd1, k) /\ Mute(g)
      BY <1>3, AddNames, NewMade, Voices
    <3> QED BY <3>1 DEF k
  <2> HIDE DEF n, p, q
  <2>4. Writes(s, u, d.Rd1, Lo(n))
    BY <1>2, <1>3, <2>2, MoveByImmediate
  <2> HIDE DEF u
  <2>5. Proc(u) /\ u.reg = [s.reg EXCEPT ![d.Rd1] = Lo(n)]
    BY <1>3, <2>4 DEF Writes
  <2>6. Lo(n) = Value(u, d.Rd1)
    BY <1>3, <2>5 DEF Value, Proc
  <2>7. Steps(u, t, q, d.Rd1, f)
    <3>1. f = Adder(Lo(n), Hi(n), 0)
      OBVIOUS
    <3> HIDE DEF f
    <3> QED BY <1>2, <1>3, <2>1, <2>3, <2>5, <2>6, <3>1, AddImmediate
  <2>8. f.val = n
    <3>1. f.val = IF Lo(n) + Hi(n) + 0 >= Words THEN (Lo(n) + Hi(n) + 0) - Words ELSE Lo(n) + Hi(n) + 0
      <4> DEFINE g == f
      <4>1. g = Adder(Lo(n), Hi(n), 0) /\ 0 \in {0, 1}
        OBVIOUS
      <4> HIDE DEF g
      <4>2. g.val = IF Lo(n) + Hi(n) + 0 >= Words THEN (Lo(n) + Hi(n) + 0) - Words ELSE Lo(n) + Hi(n) + 0
        BY <1>2, <4>1, AdderFacts
      <4> QED BY <4>2 DEF g
    <3>2. n < Words /\ Words \in Nat /\ n \in Int /\ Lo(n) \in Int /\ Hi(n) \in Int
      BY <1>2, Sizes DEF Word0
    <3> HIDE DEF f, Words
    <3> QED BY <1>2, <3>1, <3>2
  <2> HIDE DEF f
  <2>9. Proc(t) /\ t.reg = [u.reg EXCEPT ![d.Rd1] = n]
    BY <1>3, <2>7, <2>8 DEF Steps, Writes
  <2>10. Left(s, t, d.Rd1, n)
    BY <1>3, <2>5, <2>9 DEF Left, Proc
  <2> QED BY <2>10 DEF n
<1>5. CASE ~WithoutByte(d.imm)
  <2> DEFINE p == InstrI(d, "ARM_MOV", "AL", d.Rd1, NOT_USED, NOT_USED, n)
  <2>1. t = Skip(s, p, junk)
    BY <1>5, RunsOne DEF LowFromZero
  <2>2. Immediated(p, "ARM_MOV", "AL", d.Rd1, NOT_USED, n) /\ Mute(p)
    BY <1>3, AddNames, MadeImmediated, Voices
  <2> HIDE DEF p, n
  <2>3. Writes(s, t, d.Rd1, n)
    BY <1>2, <1>3, <2>1, <2>2, MoveByImmediate
  <2>4. Left(s, t, d.Rd1, n)
    BY <1>3, <2>3 DEF Left, Writes, Proc
  <2> QED BY <2>4 DEF n
<1> QED BY <1>4, <1>5

\* The sum of a word with zero.
LEMMA WordFromZero ==
    ASSUME NEW s, Proc(s), NEW d, WithImmediate(d), d.op \in {"ADDI", "ADDIU"}, d.imm > 0, d.R1 = 0,
           s.reg[0] = 0, NEW junk, NEW t, Runs(s, LowFromZero(d), t, junk)
    PROVE  Leaves(d, s, t)
<1> DEFINE n == d.imm
           f == Adder(0, n, 0)
<1>1. n \in 0 .. TwoByte - 1
  BY Within DEF WithImmediate
<1>2. t.reg[d.Rd1] = n
  BY ZeroLow DEF Left
<1>3. Sum(d, s.reg) = Signed(0) + n
  BY WordSum
<1> HIDE DEF n
<1>4. f = Adder(0, n, 0)
  OBVIOUS
<1> HIDE DEF f
<1>5. 0 \in Word0 /\ n \in Word0 /\ f.val = n /\ f.v = FALSE
  BY <1>1, <1>4, FromZeroFacts
<1>6. Sum(d, s.reg) = Signed(0) + Signed(n) + 0
  <2>1. 0 \in 0 .. TwoByte - 1 /\ n \in Int
    BY <1>1, HalvesFacts, Sizes DEF Word0
  <2>2. Signed(0) = 0 /\ Signed(n) = n
    BY <1>1, <2>1, SmallFacts
  <2> QED BY <1>3, <2>1, <2>2
<1>7. d.op \in WordSums
  BY WordSum
<1>8. 0 \in {0, 1} /\ ~f.v
  BY <1>5
<1> QED BY <1>2, <1>4, <1>5, <1>6, <1>7, <1>8, WordLeft

\* ADDIU with one byte.
LEMMA AddiuOne ==
    ASSUME NEW s, Proc(s), NEW d, WithImmediate(d), d.op = "ADDIU", d.imm > 0, NEW junk, NEW t,
           Runs(s, << InstrI(d, "ARM_ADD", "AL", d.Rd1, d.R1, NOT_USED, d.imm) >>, t, junk)
    PROVE  Leaves(d, s, t)
<1> DEFINE n == d.imm
           p == InstrI(d, "ARM_ADD", "AL", d.Rd1, d.R1, NOT_USED, n)
           x == s.reg[d.R1]
           f == Adder(x, n, 0)
<1>1. t = Skip(s, p, junk)
  BY RunsOne
<1>2. Immediated(p, "ARM_ADD", "AL", d.Rd1, d.R1, n) /\ Mute(p)
  BY AddNames, MadeImmediated, Voices DEF WithImmediate
<1>3. n \in 0 .. TwoByte - 1
  BY Within DEF WithImmediate
<1>4. Sum(d, s.reg) = Signed(x) + n /\ Signed(x) \in Int /\ x \in Word0
  BY WordSum
<1>5. x = Value(s, d.R1)
  BY ImmediateNames DEF Value
<1> HIDE DEF n, p, x
<1>6. n \in Word0 /\ n \in Int /\ Signed(n) = n
  BY <1>3, SmallFacts
<1>7. f = Adder(x, n, 0)
  OBVIOUS
<1> HIDE DEF f
<1>8. Steps(s, t, p, d.Rd1, f)
  BY <1>1, <1>2, <1>5, <1>6, <1>7, ImmediateNames, AddImmediate
<1>9. t.reg[d.Rd1] = f.val
  BY <1>8, ImmediateNames DEF Steps, Writes, Proc
<1>10. Sum(d, s.reg) = Signed(x) + Signed(n) + 0
  BY <1>4, <1>6
<1>11. d.op \in WordSums /\ d.op \notin Trapping
  BY WordSum
<1> QED BY <1>4, <1>6, <1>7, <1>9, <1>10, <1>11, WordLeft

\* ADDI with one byte.
LEMMA AddiOne ==
    ASSUME NEW s, Proc(s), NEW d, WithImmediate(d), d.op = "ADDI", d.imm > 0, NEW junk, NEW t,
           Runs(s, << InstrIS(d, "ARM_ADD", "AL", SCRATCH0, d.R1, NOT_USED, d.imm),
                      If("VC", MOV(d.Rd1, SCRATCH0)) >>, t, junk)
    PROVE  Leaves(d, s, t)
<1> DEFINE n == d.imm
           p == InstrIS(d, "ARM_ADD", "AL", SCRATCH0, d.R1, NOT_USED, n)
           q == If("VC", MOV(d.Rd1, SCRATCH0))
           x == s.reg[d.R1]
           f == Adder(x, n, 0)
           u == Skip(s, p, junk)
<1>1. t = Skip(u, q, junk)
  BY RunsTwo
<1>2. Immediated(p, "ARM_ADD", "AL", SCRATCH0, d.R1, n) /\ Loud(p)
  BY AddNames, MadeImmediated, Voices DEF WithImmediate
<1>3. n \in 0 .. TwoByte - 1
  BY Within DEF WithImmediate
<1>4. Sum(d, s.reg) = Signed(x) + n /\ Signed(x) \in Int /\ x \in Word0
  BY WordSum
<1>5. x = Value(s, d.R1)
  BY ImmediateNames DEF Value
<1> HIDE DEF n, p, x
<1>6. n \in Word0 /\ n \in Int /\ Signed(n) = n
  BY <1>3, SmallFacts
<1>7. f = Adder(x, n, 0)
  OBVIOUS
<1> HIDE DEF f
<1>8. Steps(s, u, p, SCRATCH0, f)
  BY <1>2, <1>5, <1>6, <1>7, ImmediateNames, AddImmediate
<1> HIDE DEF u
<1>9. Proc(u) /\ u.reg = [s.reg EXCEPT ![R(0)] = f.val] /\ u.v = f.v
  BY <1>2, <1>8, ImmediateNames DEF Steps, Writes, Follow
<1>10. /\ u.v => t = u
       /\ ~u.v => t.reg = [u.reg EXCEPT ![d.Rd1] = u.reg[R(0)]]
  <2>1. Moved(u, t, d.Rd1, SCRATCH0)
    BY <1>1, <1>9, ImmediateNames, Kept
  <2> QED BY <2>1, ImmediateNames DEF Moved
<1>11. f.v => t.reg[d.Rd1] = s.reg[d.Rd1]
  BY <1>9, <1>10, ImmediateNames DEF Proc
<1>12. ~f.v => t.reg[d.Rd1] = f.val
  BY <1>9, <1>10, ImmediateNames DEF Proc
<1>13. Sum(d, s.reg) = Signed(x) + Signed(n) + 0
  BY <1>4, <1>6
<1>14. d.op \in WordSums /\ d.op \in Trapping
  BY WordSum
<1> QED BY <1>4, <1>6, <1>7, <1>11, <1>12, <1>13, <1>14, WordLeft

LEMMA ListsOfTwo ==
    ASSUME NEW p, NEW r
    PROVE  IsList(<< p, r >>) /\ IsList(<< p >>)
<1>1. << p, r >> \in Seq({p, r}) /\ << p >> \in Seq({p})
  OBVIOUS
<1> QED BY <1>1 DEF IsList

\* The sum of a doubleword and an immediate.
LEMMA DoubleSum ==
    ASSUME NEW s, Proc(s), NEW d, WithImmediate(d), d.op \in {"DADDI", "DADDIU"},
           NEW x, x = s.reg[d.R1], NEW xh, xh = s.reg[Wide(d.R1)]
    PROVE  /\ d.op \in DoubleSums /\ (d.op \in Trapping <=> d.op = "DADDI")
           /\ x \in Word0 /\ xh \in Word0
           /\ Sum(d, s.reg) = SignedDouble(Double(xh, x)) + d.imm /\ SignedDouble(Double(xh, x)) \in Int
<1>1. d.op \in DoubleSums /\ (d.op \in Trapping <=> d.op = "DADDI")
  BY DEF DoubleSums, Trapping
<1>2. Sum(d, s.reg) = SignedDouble(Double(xh, x)) + d.imm
  BY DEF Sum, SignedFull, Full
<1>3. x \in Word0 /\ xh \in Word0
  BY ImmediateNames DEF Proc
<1>4. SignedDouble(Double(xh, x)) \in Int
  BY <1>3, DoubleFacts
<1> QED BY <1>1, <1>2, <1>3, <1>4

\* A positive immediate as the other doubleword.
LEMMA DoublePlus ==
    ASSUME NEW s, Proc(s), NEW d, WithImmediate(d), d.op \in {"DADDI", "DADDIU"}, d.imm >= 0,
           NEW x, x = s.reg[d.R1], NEW xh, xh = s.reg[Wide(d.R1)], NEW n, n = d.imm
    PROVE  /\ d.op \in DoubleSums /\ (d.op \in Trapping <=> d.op = "DADDI")
           /\ x \in Word0 /\ xh \in Word0 /\ 0 \in Word0 /\ n \in Word0 /\ n \in 0 .. TwoByte - 1
           /\ Sum(d, s.reg) = SignedDouble(Double(xh, x)) + SignedDouble(Double(0, n)) + 0
<1>1. n \in 0 .. TwoByte - 1
  BY Within DEF WithImmediate
<1>2. /\ d.op \in DoubleSums /\ (d.op \in Trapping <=> d.op = "DADDI")
      /\ x \in Word0 /\ xh \in Word0
      /\ Sum(d, s.reg) = SignedDouble(Double(xh, x)) + n /\ SignedDouble(Double(xh, x)) \in Int
  BY DoubleSum
<1>3. n \in Word0 /\ n \in Int /\ SignedDouble(Double(0, n)) = n
  BY <1>1, SmallFacts
<1>4. 0 \in Word0
  BY <1>2, Sizes DEF Word0
<1> QED BY <1>1, <1>2, <1>3, <1>4

\* The sum of a doubleword with zero.
LEMMA DoubleFromZero ==
    ASSUME NEW s, Proc(s), NEW d, WithImmediate(d), d.op \in {"DADDI", "DADDIU"}, d.imm > 0, d.R1 = 0,
           s.reg[0] = 0, s.reg[Wide(0)] = 0, NEW junk, NEW t,
           Runs(s, LowFromZero(d) \o Above(d, "ARM_MOV"), t, junk)
    PROVE  Leaves(d, s, t)
<1> DEFINE n == d.imm
           q == newInstrI("ARM_MOV", "AL", Wide(d.Rd1), NOT_USED, NOT_USED, 0)
           low == Adder(0, n, 0)
           c1 == IF low.c THEN 1 ELSE 0
           high == Adder(0, 0, c1)
<1>1. PICK u : Runs(s, LowFromZero(d), u, junk) /\ Runs(u, << q >>, t, junk)
  <2>1. IsList(LowFromZero(d))
    <3>1. \A p, r : IsList(<< p, r >>) /\ IsList(<< p >>)
      BY ListsOfTwo
    <3> QED BY <3>1 DEF LowFromZero, FromZero
  <2>2. Above(d, "ARM_MOV") = << q >>
    BY DEF Above, Rdw
  <2>3. IsList(<< q >>)
    BY ListsOfTwo
  <2> QED BY <2>1, <2>2, <2>3, RunsJoin
<1>2. Left(s, u, d.Rd1, n)
  BY <1>1, ZeroLow
<1>3. Proc(u) /\ u.reg[d.Rd1] = n
  BY <1>2 DEF Left
<1>4. t = Skip(u, q, junk)
  BY <1>1, RunsOne
<1>5. Immediated(q, "ARM_MOV", "AL", Wide(d.Rd1), NOT_USED, 0) /\ Mute(q)
  <2> DEFINE r == Wide(d.Rd1)
  <2> HIDE DEF r
  <2>1. LET g == newInstrI("ARM_MOV", "AL", r, NOT_USED, NOT_USED, 0)
        IN  Immediated(g, "ARM_MOV", "AL", r, NOT_USED, 0) /\ Mute(g)
    BY AddNames, NewMade, Voices DEF WithImmediate
  <2> QED BY <2>1 DEF r
<1> HIDE DEF q
<1>6. /\ d.op \in DoubleSums /\ (d.op \in Trapping <=> d.op = "DADDI")
      /\ 0 \in Word0 /\ n \in Word0 /\ n \in 0 .. TwoByte - 1
      /\ Sum(d, s.reg) = SignedDouble(Double(0, 0)) + SignedDouble(Double(0, n)) + 0
  <2>1. 0 = s.reg[d.R1] /\ 0 = s.reg[Wide(d.R1)] /\ n = d.imm /\ d.imm >= 0
    BY Within DEF WithImmediate
  <2> HIDE DEF n
  <2> QED BY <2>1, DoublePlus
<1> HIDE DEF n
<1>7. Writes(u, t, Wide(d.Rd1), 0)
  BY <1>3, <1>4, <1>5, <1>6, ImmediateNames, MoveByImmediate
<1>8. t.reg[d.Rd1] = n /\ t.reg[Wide(d.Rd1)] = 0
  BY <1>3, <1>7, ImmediateNames DEF Writes, Proc
<1>9. low = Adder(0, n, 0)
  OBVIOUS
<1> HIDE DEF low
<1>10. low.val = n /\ low.c = FALSE
  BY <1>6, <1>9, FromZeroFacts
<1>11. c1 = 0 /\ 0 \in {0, 1}
  BY <1>10
<1>12. c1 = (IF low.c THEN 1 ELSE 0) /\ high = Adder(0, 0, c1)
  OBVIOUS
<1> HIDE DEF c1, high
<1>13. high.val = 0 /\ high.v = FALSE
  <2>1. 0 \in 0 .. TwoByte - 1
    BY <1>6, HalvesFacts, Sizes DEF Word0
  <2> QED BY <1>11, <1>12, <2>1, FromZeroFacts
<1>14. ~high.v
  BY <1>13
<1> QED BY <1>6, <1>8, <1>9, <1>10, <1>11, <1>12, <1>13, <1>14, DoubleLeft

\* Nothing is added.
LEMMA PlusNothing ==
    ASSUME NEW x \in Word0, NEW f, f = Adder(x, 0, 0)
    PROVE  0 \in Word0 /\ f.val = x /\ f.c = FALSE /\ f.v = FALSE /\ Signed(0) = 0
<1>1. x \in Int /\ Words \in Nat /\ x < Words /\ x >= 0
  BY Sizes DEF Word0
<1>2. 0 \in 0 .. TwoByte - 1
  BY Sizes, HalvesFacts DEF Word0, TwoByte
<1>3. 0 \in Word0 /\ Signed(0) = 0
  BY <1>2, SmallFacts
<1>4. Signed(x) \in -Half .. Half - 1 /\ Half \in Nat
  BY SignedFacts, Sizes
<1> DEFINE sum == Signed(x) + Signed(0) + 0
<1>5. /\ f.val = IF x + 0 + 0 >= Words THEN (x + 0 + 0) - Words ELSE x + 0 + 0
      /\ f.c \in BOOLEAN /\ (f.c <=> x + 0 + 0 >= Words)
      /\ f.v \in BOOLEAN /\ (f.v <=> sum \notin -Half .. Half - 1)
  <2>1. 0 \in {0, 1} /\ sum = Signed(x) + Signed(0) + 0
    OBVIOUS
  <2> HIDE DEF sum
  <2> QED BY <1>3, <2>1, AdderFacts
<1> HIDE DEF Words, Half
<1>6. sum = Signed(x) /\ x + 0 + 0 = x
  BY <1>1, <1>3, <1>4
<1> QED BY <1>1, <1>3, <1>4, <1>5, <1>6

LEMMA WordNothing ==
    ASSUME NEW s, Proc(s), NEW d, WithImmediate(d), d.op \in {"ADDI", "ADDIU"}, d.imm = 0, d.Rd1 = d.R1
    PROVE  Leaves(d, s, s)
<1> DEFINE x == s.reg[d.R1]
           f == Adder(x, 0, 0)
<1>1. Sum(d, s.reg) = Signed(x) + 0 /\ Signed(x) \in Int /\ x \in Word0 /\ d.op \in WordSums
  BY WordSum
<1>2. s.reg[d.Rd1] = x
  OBVIOUS
<1> HIDE DEF x
<1>3. f = Adder(x, 0, 0)
  OBVIOUS
<1> HIDE DEF f
<1>4. 0 \in Word0 /\ f.val = x /\ f.v = FALSE /\ Signed(0) = 0
  BY <1>1, <1>3, PlusNothing
<1>5. Sum(d, s.reg) = Signed(x) + Signed(0) + 0 /\ 0 \in {0, 1} /\ ~f.v
  BY <1>1, <1>4
<1> QED BY <1>1, <1>2, <1>3, <1>4, <1>5, WordLeft

LEMMA DoubleNothing ==
    ASSUME NEW s, Proc(s), NEW d, WithImmediate(d), d.op \in {"DADDI", "DADDIU"}, d.imm = 0, d.Rd1 = d.R1
    PROVE  Leaves(d, s, s)
<1> DEFINE x == s.reg[d.R1]
           xh == s.reg[Wide(d.R1)]
           low == Adder(x, 0, 0)
           c1 == IF low.c THEN 1 ELSE 0
           high == Adder(xh, 0, c1)
<1>1. d.imm >= 0 /\ d.imm = 0
  OBVIOUS
<1>2. /\ d.op \in DoubleSums /\ x \in Word0 /\ xh \in Word0 /\ 0 \in Word0
      /\ Sum(d, s.reg) = SignedDouble(Double(xh, x)) + SignedDouble(Double(0, 0)) + 0
  BY <1>1, DoublePlus
<1>3. s.reg[d.Rd1] = x /\ s.reg[Wide(d.Rd1)] = xh
  OBVIOUS
<1> HIDE DEF x, xh
<1>4. low = Adder(x, 0, 0)
  OBVIOUS
<1> HIDE DEF low
<1>5. low.val = x /\ low.c = FALSE
  BY <1>2, <1>4, PlusNothing
<1>6. c1 = 0 /\ 0 \in {0, 1} /\ c1 = (IF low.c THEN 1 ELSE 0) /\ high = Adder(xh, 0, c1)
  BY <1>5
<1> HIDE DEF c1, high
<1>7. high.val = xh /\ high.v = FALSE
  BY <1>2, <1>6, PlusNothing
<1>8. ~high.v
  BY <1>7
<1> QED BY <1>2, <1>3, <1>4, <1>5, <1>6, <1>7, <1>8, DoubleLeft

\* The low word of a sum with an immediate, left in the register r.
LowSum(d, r) ==
    IF WithoutByte(d.imm)
    THEN << newInstrIS("ARM_ADD", "AL", SCRATCH0, d.R1, NOT_USED, Lo(d.imm)),
            newInstrIS("ARM_ADD", "AL", r, SCRATCH0, NOT_USED, Hi(d.imm)) >>
    ELSE << newInstrIS("ARM_ADD", "AL", r, d.R1, NOT_USED, d.imm) >>

Summed(s, t, r, f) ==
    /\ Proc(t) /\ t.reg[Physical(r)] = f.val /\ (t.c <=> f.c) /\ t.c \in BOOLEAN
    /\ \A q \in Registers \ {R(0), Physical(r)} : t.reg[q] = s.reg[q]

LEMMA LoudAdd ==
    ASSUME NEW s, Proc(s), NEW r, NEW r1, Physical(r) \in Registers, Physical(r1) \in Registers,
           NEW n \in Word0, NEW junk, NEW f, f = Adder(Value(s, r1), n, 0)
    PROVE  /\ Value(s, r1) \in Word0
           /\ Summed(s, Skip(s, newInstrIS("ARM_ADD", "AL", r, r1, NOT_USED, n), junk), r, f)
<1> DEFINE p == newInstrIS("ARM_ADD", "AL", r, r1, NOT_USED, n)
           t == Skip(s, p, junk)
           x == Value(s, r1)
<1>1. Immediated(p, "ARM_ADD", "AL", r, r1, n) /\ Loud(p)
  BY AddNames, NewMade, Voices, BareEmpty
<1>2. t = Skip(s, p, junk) /\ x = Value(s, r1) /\ f = Adder(x, n, 0)
  OBVIOUS
<1> HIDE DEF p, t, x
<1>3. x \in Word0 /\ Steps(s, t, p, r, f)
  BY <1>1, <1>2, AddImmediate
<1>4. f.c \in BOOLEAN
  <2>1. 0 \in {0, 1}
    OBVIOUS
  <2> QED BY <1>2, <1>3, <2>1, AdderFacts
<1>5. Summed(s, t, r, f)
  BY <1>1, <1>3, <1>4 DEF Steps, Writes, Follow, Summed, Proc
<1> QED BY <1>3, <1>5 DEF p, t, x

LEMMA LowSumRight ==
    ASSUME NEW s, Proc(s), NEW d, WithImmediate(d), d.imm > 0, NEW r \in {SCRATCH0, d.Rd1},
           NEW x, x = s.reg[d.R1], WithoutByte(d.imm) => x + Lo(d.imm) < Words,
           NEW f, f = Adder(x, d.imm, 0), NEW junk, NEW t, Runs(s, LowSum(d, r), t, junk)
    PROVE  Summed(s, t, r, f)
<1> DEFINE n == d.imm
<1>1. n \in 0 .. TwoByte - 1
  BY Within DEF WithImmediate
<1>2. Lo(n) \in Word0 /\ Hi(n) \in Word0 /\ Lo(n) + Hi(n) = n /\ n \in Word0
  BY <1>1, HalvesFacts
<1>3. /\ Physical(d.R1) = d.R1 /\ Physical(SCRATCH0) = R(0) /\ Physical(r) \in Registers
      /\ d.R1 \in Registers /\ R(0) \in Registers
  BY ImmediateNames
<1>4. x = Value(s, d.R1) /\ x \in Word0
  BY <1>3 DEF Value, Proc
<1>5. CASE ~WithoutByte(d.imm)
  <2>1. t = Skip(s, newInstrIS("ARM_ADD", "AL", r, d.R1, NOT_USED, n), junk)
    BY <1>5, RunsOne DEF LowSum
  <2> HIDE DEF n
  <2>2. f = Adder(Value(s, d.R1), n, 0) /\ Physical(d.R1) \in Registers
    BY <1>3, <1>4 DEF n
  <2> QED BY <1>2, <1>3, <2>1, <2>2, LoudAdd
<1>6. CASE WithoutByte(d.imm)
  <2> DEFINE p == newInstrIS("ARM_ADD", "AL", SCRATCH0, d.R1, NOT_USED, Lo(n))
             q == newInstrIS("ARM_ADD", "AL", r, SCRATCH0, NOT_USED, Hi(n))
             u == Skip(s, p, junk)
             g == Adder(x, Lo(n), 0)
             h == Adder(g.val, Hi(n), 0)
  <2>1. t = Skip(u, q, junk)
    BY <1>6, RunsTwo DEF LowSum
  <2>2. x + Lo(n) < Words
    BY <1>6
  <2>3. f = Adder(x, n, 0)
    OBVIOUS
  <2> HIDE DEF n
  <2>4. g = Adder(Value(s, d.R1), Lo(n), 0) /\ Physical(d.R1) \in Registers /\ Physical(SCRATCH0) \in Registers
    BY <1>3, <1>4
  <2>5. g = Adder(x, Lo(n), 0) /\ 0 \in {0, 1}
    OBVIOUS
  <2> HIDE DEF g
  <2>6. Summed(s, u, SCRATCH0, g)
    <3> DEFINE k == Lo(n)
    <3>1. k \in Word0 /\ g = Adder(Value(s, d.R1), k, 0)
      BY <1>2, <2>4
    <3> HIDE DEF k
    <3>2. Summed(s, Skip(s, newInstrIS("ARM_ADD", "AL", SCRATCH0, d.R1, NOT_USED, k), junk), SCRATCH0, g)
      BY <2>4, <3>1, LoudAdd
    <3> QED BY <3>2 DEF k
  <2> HIDE DEF u
  <2>7. Proc(u) /\ Value(u, SCRATCH0) = g.val
    BY <1>3, <2>6 DEF Summed, Value
  <2>8. h = Adder(Value(u, SCRATCH0), Hi(n), 0)
    BY <2>7
  <2>9. h = Adder(g.val, Hi(n), 0)
    OBVIOUS
  <2> HIDE DEF h
  <2>10. Summed(u, t, r, h) /\ Value(u, SCRATCH0) \in Word0
    <3> DEFINE k == Hi(n)
    <3>1. k \in Word0 /\ h = Adder(Value(u, SCRATCH0), k, 0)
      BY <1>2, <2>8
    <3> HIDE DEF k
    <3>2. /\ Summed(u, Skip(u, newInstrIS("ARM_ADD", "AL", r, SCRATCH0, NOT_USED, k), junk), r, h)
          /\ Value(u, SCRATCH0) \in Word0
      BY <1>3, <2>4, <2>7, <3>1, LoudAdd
    <3> QED BY <2>1, <3>2 DEF k
  <2>11. h.val = f.val /\ (h.c <=> f.c)
    <3>1. g.val = IF x + Lo(n) + 0 >= Words THEN (x + Lo(n) + 0) - Words ELSE x + Lo(n) + 0
      BY <1>2, <1>4, <2>5, AdderFacts
    <3>2. /\ x \in Int /\ Lo(n) \in Int /\ Hi(n) \in Int /\ n \in Int /\ Words \in Nat
      BY <1>2, <1>4, Sizes DEF Word0
    <3>3. g.val = x + Lo(n) /\ g.val \in Word0
      <4> HIDE DEF Words
      <4>1. g.val = x + Lo(n)
        BY <2>2, <3>1, <3>2
      <4> QED BY <2>7, <2>10, <4>1
    <3>4. /\ h.val = IF g.val + Hi(n) + 0 >= Words THEN (g.val + Hi(n) + 0) - Words ELSE g.val + Hi(n) + 0
          /\ (h.c <=> g.val + Hi(n) + 0 >= Words)
      BY <1>2, <2>5, <2>9, <3>3, AdderFacts
    <3>5. /\ f.val = IF x + n + 0 >= Words THEN (x + n + 0) - Words ELSE x + n + 0
          /\ (f.c <=> x + n + 0 >= Words)
      BY <1>2, <1>4, <2>3, <2>5, AdderFacts
    <3>6. g.val + Hi(n) + 0 = x + n + 0
      BY <1>2, <3>2, <3>3
    <3> QED BY <3>4, <3>5, <3>6
  <2> QED BY <1>3, <2>6, <2>10, <2>11 DEF Summed
<1> QED BY <1>5, <1>6

\* The naming records in front of a sum of doublewords.
LEMMA PastNaming ==
    ASSUME NEW s, Proc(s), NEW d, Bare(d), NEW A, NEW B, IsList(A), IsList(B), NEW junk, NEW t,
           Runs(s, NamingBoth(d) \o A \o B, t, junk)
    PROVE  \E u : Runs(s, A, u, junk) /\ Runs(u, B, t, junk)
<1>1. IsList(NamingBoth(d))
  BY ListsOfTwo DEF NamingBoth
<1>2. IsList(NamingBoth(d) \o A)
  BY <1>1, ListsJoin
<1>3. PICK u : Runs(s, NamingBoth(d) \o A, u, junk) /\ Runs(u, B, t, junk)
  BY <1>2, RunsJoin
<1>4. PICK v : Runs(s, NamingBoth(d), v, junk) /\ Runs(v, A, u, junk)
  BY <1>1, <1>3, RunsJoin
<1>5. v = s
  <2>1. v = Skip(Skip(s, Naming(d, d.Rd1), junk), NewNaming(Rdw(d)), junk)
    BY <1>4, RunsTwo DEF NamingBoth
  <2> QED BY <2>1, NamingIdle
<1> QED BY <1>3, <1>4, <1>5

LEMMA LowSumListed == ASSUME NEW d, NEW r PROVE IsList(LowSum(d, r))
<1>1. \A p, q : IsList(<< p, q >>) /\ IsList(<< p >>)
  BY ListsOfTwo
<1> QED BY <1>1 DEF LowSum

\* DADDIU.
LEMMA DaddiuPlus ==
    ASSUME NEW s, Proc(s), NEW d, WithImmediate(d), d.op = "DADDIU", d.imm > 0,
           WithoutByte(d.imm) => s.reg[d.R1] + Lo(d.imm) < Words, NEW junk, NEW t,
           Runs(s, NamingBoth(d) \o LowSum(d, d.Rd1)
                   \o << newInstrI("ARM_ADC", "AL", Rdw(d), R1w(d), NOT_USED, 0) >>, t, junk)
    PROVE  Leaves(d, s, t)
<1> DEFINE n == d.imm
           q == newInstrI("ARM_ADC", "AL", Wide(d.Rd1), Wide(d.R1), NOT_USED, 0)
           x == s.reg[d.R1]
           xh == s.reg[Wide(d.R1)]
           low == Adder(x, n, 0)
           c1 == IF low.c THEN 1 ELSE 0
           high == Adder(xh, 0, c1)
<1>1. PICK u : Runs(s, LowSum(d, d.Rd1), u, junk) /\ Runs(u, << q >>, t, junk)
  <2> DEFINE A == LowSum(d, d.Rd1)
             B == << q >>
  <2>1. IsList(A) /\ IsList(B) /\ Runs(s, NamingBoth(d) \o A \o B, t, junk) /\ Bare(d)
    BY LowSumListed, ListsOfTwo DEF Rdw, R1w, WithImmediate
  <2> HIDE DEF A, B
  <2> QED BY <2>1, PastNaming DEF A, B
<1>2. Summed(s, u, d.Rd1, low)
  <2>1. x = s.reg[d.R1] /\ low = Adder(x, d.imm, 0) /\ (WithoutByte(d.imm) => x + Lo(d.imm) < Words)
    OBVIOUS
  <2> HIDE DEF x, low
  <2> QED BY <1>1, <2>1, LowSumRight
<1>3. Proc(u) /\ u.reg[d.Rd1] = low.val /\ u.reg[Wide(d.R1)] = xh /\ (u.c <=> low.c)
  BY <1>2, ImmediateNames DEF Summed
<1>4. t = Skip(u, q, junk)
  BY <1>1, RunsOne
<1>5. Immediated(q, "ARM_ADC", "AL", Wide(d.Rd1), Wide(d.R1), 0) /\ Mute(q)
  <2> DEFINE r == Wide(d.Rd1)
             r1 == Wide(d.R1)
  <2> HIDE DEF r, r1
  <2>1. LET g == newInstrI("ARM_ADC", "AL", r, r1, NOT_USED, 0)
        IN  Immediated(g, "ARM_ADC", "AL", r, r1, 0) /\ Mute(g)
    BY AddNames, NewMade, Voices DEF WithImmediate
  <2> QED BY <2>1 DEF r, r1
<1> HIDE DEF q
<1>6. /\ d.op \in DoubleSums /\ d.op \notin Trapping
      /\ x \in Word0 /\ xh \in Word0 /\ 0 \in Word0 /\ n \in Word0
      /\ Sum(d, s.reg) = SignedDouble(Double(xh, x)) + SignedDouble(Double(0, n)) + 0
  <2>1. x = s.reg[d.R1] /\ xh = s.reg[Wide(d.R1)] /\ n = d.imm /\ d.imm >= 0
    BY Within DEF WithImmediate
  <2> HIDE DEF x, xh, n
  <2> QED BY <2>1, DoublePlus
<1>7. low = Adder(x, n, 0) /\ c1 = (IF low.c THEN 1 ELSE 0) /\ high = Adder(xh, 0, c1) /\ 0 \in {0, 1}
  OBVIOUS
<1> HIDE DEF x, xh, n, low
<1>8. c1 = Carried(u)
  BY <1>3 DEF Carried
<1>9. high = Adder(xh, 0, Carried(u)) /\ xh = Value(u, Wide(d.R1))
  BY <1>3, <1>8, ImmediateNames DEF Value
<1> HIDE DEF c1, high
<1>10. Steps(u, t, q, Wide(d.Rd1), high)
  BY <1>3, <1>4, <1>5, <1>6, <1>9, ImmediateNames, CarryImmediate
<1>11. t.reg[d.Rd1] = low.val /\ t.reg[Wide(d.Rd1)] = high.val
  BY <1>3, <1>10, ImmediateNames DEF Steps, Writes, Proc
<1> QED BY <1>6, <1>7, <1>11, DoubleLeft

\* DADDI.
LEMMA DaddiPlus ==
    ASSUME NEW s, Proc(s), NEW d, WithImmediate(d), d.op = "DADDI", d.imm > 0,
           WithoutByte(d.imm) => s.reg[d.R1] + Lo(d.imm) < Words, NEW junk, NEW t,
           Runs(s, NamingBoth(d) \o LowSum(d, SCRATCH0) \o CarryUp(d), t, junk)
    PROVE  Leaves(d, s, t)
<1> DEFINE n == d.imm
           q == newInstrIS("ARM_ADC", "AL", SCRATCH1, Wide(d.R1), NOT_USED, 0)
           x == s.reg[d.R1]
           xh == s.reg[Wide(d.R1)]
           low == Adder(x, n, 0)
           c1 == IF low.c THEN 1 ELSE 0
           high == Adder(xh, 0, c1)
<1>1. PICK u : Runs(s, LowSum(d, SCRATCH0), u, junk) /\ Runs(u, CarryUp(d), t, junk)
  <2> DEFINE A == LowSum(d, SCRATCH0)
             B == CarryUp(d)
  <2>1. IsList(A) /\ IsList(B) /\ Runs(s, NamingBoth(d) \o A \o B, t, junk) /\ Bare(d)
    <3>1. \A p, r, m : << p, r, m >> \in Seq({p, r, m})
      OBVIOUS
    <3>2. IsList(B)
      BY <3>1 DEF CarryUp, IsList
    <3> QED BY <3>2, LowSumListed DEF WithImmediate
  <2> HIDE DEF A, B
  <2> QED BY <2>1, PastNaming DEF A, B
<1>2. Summed(s, u, SCRATCH0, low)
  <2>1. x = s.reg[d.R1] /\ low = Adder(x, d.imm, 0) /\ (WithoutByte(d.imm) => x + Lo(d.imm) < Words)
    OBVIOUS
  <2> HIDE DEF x, low
  <2> QED BY <1>1, <2>1, LowSumRight
<1>3. /\ Proc(u) /\ u.reg[R(0)] = low.val /\ u.reg[Wide(d.R1)] = xh /\ (u.c <=> low.c)
      /\ u.reg[d.Rd1] = s.reg[d.Rd1] /\ u.reg[Wide(d.Rd1)] = s.reg[Wide(d.Rd1)]
  BY <1>2, ImmediateNames DEF Summed
<1> DEFINE v == Skip(u, q, junk)
<1>4. t = Skip(Skip(v, If("VC", MOV(d.Rd1, SCRATCH0)), junk), If("VC", MOV(Wide(d.Rd1), SCRATCH1)), junk)
  BY <1>1, RunsThree DEF CarryUp, Rdw, R1w
<1>5. Immediated(q, "ARM_ADC", "AL", SCRATCH1, Wide(d.R1), 0) /\ Loud(q)
  <2> DEFINE r1 == Wide(d.R1)
  <2> HIDE DEF r1
  <2>1. LET g == newInstrIS("ARM_ADC", "AL", SCRATCH1, r1, NOT_USED, 0)
        IN  Immediated(g, "ARM_ADC", "AL", SCRATCH1, r1, 0) /\ Loud(g)
    BY AddNames, NewMade, Voices DEF WithImmediate
  <2> QED BY <2>1 DEF r1
<1> HIDE DEF q
<1>6. /\ d.op \in DoubleSums /\ d.op \in Trapping
      /\ x \in Word0 /\ xh \in Word0 /\ 0 \in Word0 /\ n \in Word0
      /\ Sum(d, s.reg) = SignedDouble(Double(xh, x)) + SignedDouble(Double(0, n)) + 0
  <2>1. x = s.reg[d.R1] /\ xh = s.reg[Wide(d.R1)] /\ n = d.imm /\ d.imm >= 0
    BY Within DEF WithImmediate
  <2> HIDE DEF x, xh, n
  <2> QED BY <2>1, DoublePlus
<1>7. low = Adder(x, n, 0) /\ c1 = (IF low.c THEN 1 ELSE 0) /\ high = Adder(xh, 0, c1) /\ 0 \in {0, 1}
  OBVIOUS
<1> HIDE DEF x, xh, n, low
<1>8. c1 = Carried(u)
  BY <1>3 DEF Carried
<1>9. high = Adder(xh, 0, Carried(u)) /\ xh = Value(u, Wide(d.R1))
  BY <1>3, <1>8, ImmediateNames DEF Value
<1> HIDE DEF c1, high
<1>10. Steps(u, v, q, SCRATCH1, high)
  BY <1>3, <1>5, <1>6, <1>9, ImmediateNames, CarryImmediate
<1> HIDE DEF v
<1>11. Proc(v) /\ v.reg = [u.reg EXCEPT ![R(1)] = high.val] /\ v.v = high.v
  BY <1>5, <1>10, ImmediateNames DEF Steps, Writes, Follow
<1>12. /\ v.v => t = v
       /\ ~v.v => t.reg[d.Rd1] = v.reg[R(0)] /\ t.reg[Wide(d.Rd1)] = v.reg[R(1)]
  <2>1. d.Rd1 \in 0 .. 31
    BY DEF WithImmediate
  <2>2. BothMoved(v, t, d.Rd1)
    BY <1>4, <1>11, <2>1, BothKept
  <2> QED BY <2>2 DEF BothMoved
<1>13. high.v => t.reg[d.Rd1] = s.reg[d.Rd1] /\ t.reg[Wide(d.Rd1)] = s.reg[Wide(d.Rd1)]
  BY <1>3, <1>11, <1>12, ImmediateNames DEF Proc
<1>14. ~high.v => t.reg[d.Rd1] = low.val /\ t.reg[Wide(d.Rd1)] = high.val
  BY <1>3, <1>11, <1>12, ImmediateNames DEF Proc
<1> QED BY <1>6, <1>7, <1>13, <1>14, DoubleLeft

\* The operands of a sum with a negative immediate.
LEMMA MinusSum ==
    ASSUME NEW xh \in Word0, NEW x \in Word0, NEW n \in 0 .. TwoByte - 1
    PROVE  /\ n \in Word0 /\ 0 \in Word0 /\ Flipped(0) \in Word0 /\ Flipped(n) \in Word0
           /\ SignedDouble(Double(xh, x)) \in Int
           /\ SignedDouble(Double(Flipped(0), Flipped(n))) + 1 = -n
           /\ SignedDouble(Double(Flipped(0), Flipped(n))) \in Int
<1>1. n \in Word0 /\ n \in Int /\ Flipped(n) \in Word0
  BY SmallFacts
<1>2. 0 \in 0 .. TwoByte - 1
  <2>1. TwoByte \in Nat
    BY Sizes
  <2> HIDE DEF TwoByte
  <2> QED BY <1>1, <2>1
<1>3. 0 \in Word0 /\ Flipped(0) \in Word0 /\ Signed(Flipped(0)) = -1
  <2>1. -1 - 0 = -1
    OBVIOUS
  <2> QED BY <1>2, <2>1, SmallFacts
<1>4. SignedDouble(Double(xh, x)) \in Int
  BY DoubleFacts
<1>5. SignedDouble(Double(Flipped(0), Flipped(n))) = Signed(Flipped(0)) * Words + Flipped(n)
      /\ SignedDouble(Double(Flipped(0), Flipped(n))) \in Int
  BY <1>1, <1>3, DoubleFacts
<1>6. Words \in Nat /\ Flipped(n) = (Words - 1) - n
  BY Sizes DEF Flipped
<1> HIDE DEF Words
<1>7. (-1) * Words = -Words
  BY <1>6
<1>8. SignedDouble(Double(Flipped(0), Flipped(n))) = -Words + ((Words - 1) - n)
  BY <1>3, <1>5, <1>6, <1>7
<1>9. SignedDouble(Double(Flipped(0), Flipped(n))) + 1 = -n
  BY <1>1, <1>6, <1>8
<1> QED BY <1>1, <1>3, <1>4, <1>5, <1>9

\* The high word follows the borrow of the low one.
LEMMA Borrows ==
    ASSUME NEW xh \in Word0, NEW x \in Word0, NEW n \in 0 .. TwoByte - 1,
           NEW low, low = Adder(x, Flipped(n), 1), NEW c1, c1 = IF low.c THEN 1 ELSE 0,
           NEW high, high = Adder(xh, Flipped(0), c1), NEW one, one = Adder(xh, Flipped(1), 1),
           (x < n) <=> (Signed(x) - n < -Half)
    PROVE  /\ low.v => high.val = one.val
           /\ ~low.v => high.val = xh
<1>1. 0 \in Word0 /\ n \in Word0 /\ n \in Int /\ Flipped(n) \in Word0 /\ Signed(Flipped(n)) = -1 - n
  BY MinusSum, SmallFacts
<1>2. 0 \in 0 .. TwoByte - 1 /\ 1 \in 0 .. TwoByte - 1
  <2>1. TwoByte = OneByte * OneByte /\ OneByte \in Nat /\ OneByte >= 2
    BY Sizes
  <2>2. TwoByte >= 2 /\ TwoByte \in Nat
    BY <2>1
  <2> HIDE DEF TwoByte
  <2> QED BY <2>2
<1>3. Flipped(0) \in Word0 /\ Flipped(1) \in Word0
  BY <1>2, SmallFacts
<1>4. /\ Words \in Nat /\ Half \in Nat /\ x \in Int /\ xh \in Int /\ xh >= 0 /\ xh < Words
      /\ Signed(x) \in -Half .. Half - 1 /\ n >= 0 /\ x >= 0 /\ x < Words
  BY Sizes, SignedFacts DEF Word0
<1>5. Flipped(0) = (Words - 1) - 0 /\ Flipped(1) = (Words - 1) - 1 /\ Flipped(n) = (Words - 1) - n
  BY DEF Flipped
<1> DEFINE sum == Signed(x) + Signed(Flipped(n)) + 1
<1>6. /\ low.c \in BOOLEAN /\ (low.c <=> x + Flipped(n) + 1 >= Words)
      /\ low.v \in BOOLEAN /\ (low.v <=> sum \notin -Half .. Half - 1)
  <2>1. sum = Signed(x) + Signed(Flipped(n)) + 1 /\ 1 \in {0, 1}
    OBVIOUS
  <2> HIDE DEF sum
  <2> DEFINE z == Flipped(n)
  <2>2. z \in Word0 /\ low = Adder(x, z, 1) /\ sum = Signed(x) + Signed(z) + 1
    BY <1>1, <2>1
  <2> HIDE DEF z
  <2>3. /\ low.c \in BOOLEAN /\ (low.c <=> x + z + 1 >= Words)
        /\ low.v \in BOOLEAN /\ (low.v <=> sum \notin -Half .. Half - 1)
    BY <2>1, <2>2, AdderFacts
  <2> QED BY <2>3 DEF z
<1>7. c1 \in {0, 1}
  BY <1>6
<1>8. high.val = IF xh + Flipped(0) + c1 >= Words THEN (xh + Flipped(0) + c1) - Words ELSE xh + Flipped(0) + c1
  BY <1>3, <1>7, AdderFacts
<1>9. one.val = IF xh + Flipped(1) + 1 >= Words THEN (xh + Flipped(1) + 1) - Words ELSE xh + Flipped(1) + 1
  <2>1. 1 \in {0, 1}
    OBVIOUS
  <2> QED BY <1>3, <2>1, AdderFacts
<1> HIDE DEF Words, Half
<1>10. low.v <=> Signed(x) - n < -Half
  <2>1. sum = Signed(x) - n
    BY <1>1, <1>4
  <2> QED BY <1>1, <1>4, <1>6, <2>1
<1>11. low.c <=> ~(x < n)
  BY <1>1, <1>4, <1>5, <1>6
<1>12. low.c <=> ~low.v
  BY <1>10, <1>11
<1>13. ASSUME low.v PROVE high.val = one.val
  <2>1. c1 = 0
    BY <1>6, <1>12, <1>13
  <2> QED BY <1>4, <1>5, <1>8, <1>9, <2>1
<1>14. ASSUME ~low.v PROVE high.val = xh
  <2>1. c1 = 1
    BY <1>6, <1>12, <1>14
  <2> QED BY <1>4, <1>5, <1>8, <2>1
<1> QED BY <1>13, <1>14

\* DADDIU with a negative immediate of one byte.
LEMMA DaddiuMinus ==
    ASSUME NEW s, Proc(s), NEW d, WithImmediate(d), d.op = "DADDIU", d.imm < 0,
           (s.reg[d.R1] < -d.imm) <=> (Signed(s.reg[d.R1]) + d.imm < -Half), NEW junk, NEW t,
           Runs(s, << InstrIS(d, "ARM_SUB", "AL", d.Rd1, d.R1, NOT_USED, -d.imm), MOV(Rdw(d), R1w(d)),
                      newInstrI("ARM_SUB", "VS", Rdw(d), Rdw(d), NOT_USED, 1) >>, t, junk)
    PROVE  Leaves(d, s, t)
<1> DEFINE n == -d.imm
           p == InstrIS(d, "ARM_SUB", "AL", d.Rd1, d.R1, NOT_USED, n)
           m == MOV(Wide(d.Rd1), Wide(d.R1))
           q == newInstrI("ARM_SUB", "VS", Wide(d.Rd1), Wide(d.Rd1), NOT_USED, 1)
           u == Skip(s, p, junk)
           v == Skip(u, m, junk)
           x == s.reg[d.R1]
           xh == s.reg[Wide(d.R1)]
           low == Adder(x, Flipped(n), 1)
           c1 == IF low.c THEN 1 ELSE 0
           high == Adder(xh, Flipped(0), c1)
           one == Adder(xh, Flipped(1), 1)
<1>1. t = Skip(v, q, junk)
  BY RunsThree DEF Rdw, R1w
<1>2. Immediated(p, "ARM_SUB", "AL", d.Rd1, d.R1, n) /\ Loud(p)
  <2>1. Bare(d)
    BY DEF WithImmediate
  <2> HIDE DEF n
  <2> QED BY <2>1, AddNames, MadeImmediated, Voices
<1>3. Registered(m, "ARM_MOV", "AL", Wide(d.Rd1), NOT_USED, Wide(d.R1)) /\ Mute(m)
  <2> DEFINE r == Wide(d.Rd1)
             r1 == Wide(d.R1)
  <2> HIDE DEF r, r1
  <2>1. Registered(MOV(r, r1), "ARM_MOV", "AL", r, NOT_USED, r1) /\ Mute(MOV(r, r1))
    BY MoveMade, Voices DEF WithImmediate
  <2> QED BY <2>1 DEF r, r1
<1>4. Immediated(q, "ARM_SUB", "VS", Wide(d.Rd1), Wide(d.Rd1), 1) /\ Mute(q) /\ q.op = "ARM_SUB" /\ q.cond = "VS"
  <2> DEFINE r == Wide(d.Rd1)
  <2> HIDE DEF r
  <2>1. LET g == newInstrI("ARM_SUB", "VS", r, r, NOT_USED, 1)
        IN  Immediated(g, "ARM_SUB", "VS", r, r, 1) /\ Mute(g)
    BY AddNames, NewMade, Voices DEF WithImmediate
  <2> QED BY <2>1 DEF r, Immediated
<1> HIDE DEF p, m, q
<1>5. d.imm \in Int /\ n \in 0 .. TwoByte - 1
  BY Within DEF WithImmediate
<1>6. d.imm = -n /\ n \in Int
  BY <1>5
<1>7. /\ d.op \in DoubleSums /\ d.op \notin Trapping /\ x \in Word0 /\ xh \in Word0
      /\ Sum(d, s.reg) = SignedDouble(Double(xh, x)) + d.imm /\ SignedDouble(Double(xh, x)) \in Int
  <2>1. x = s.reg[d.R1] /\ xh = s.reg[Wide(d.R1)]
    OBVIOUS
  <2> HIDE DEF x, xh
  <2> QED BY <2>1, DoubleSum
<1>8. x = Value(s, d.R1) /\ low = Adder(x, Flipped(n), 1) /\ xh = s.reg[Wide(d.R1)]
  BY ImmediateNames DEF Value
<1>9. (x < n) <=> (Signed(x) + d.imm < -Half)
  OBVIOUS
<1> HIDE DEF n, x, xh
<1>10. (x < n) <=> (Signed(x) - n < -Half)
  <2>1. Signed(x) \in Int
    BY <1>7, SignedFacts, Sizes
  <2>2. Signed(x) + d.imm = Signed(x) - n
    BY <1>6, <2>1
  <2> QED BY <1>9, <2>2
<1>11. /\ n \in Word0 /\ 0 \in Word0 /\ Flipped(0) \in Word0 /\ Flipped(n) \in Word0
       /\ SignedDouble(Double(Flipped(0), Flipped(n))) + 1 = -n
       /\ SignedDouble(Double(Flipped(0), Flipped(n))) \in Int
  BY <1>5, <1>7, MinusSum
<1>12. c1 = (IF low.c THEN 1 ELSE 0) /\ high = Adder(xh, Flipped(0), c1) /\ one = Adder(xh, Flipped(1), 1)
  OBVIOUS
<1> HIDE DEF low, c1, high, one
<1>13. Steps(s, u, p, d.Rd1, low)
  BY <1>2, <1>8, <1>11, ImmediateNames, SubtractImmediate
<1>14. v = Skip(u, m, junk)
  OBVIOUS
<1> HIDE DEF u, v
<1>15. Proc(u) /\ u.reg = [s.reg EXCEPT ![d.Rd1] = low.val] /\ u.v = low.v
  BY <1>2, <1>13, ImmediateNames DEF Steps, Writes, Follow
<1>16. Value(u, Wide(d.R1)) = xh
  BY <1>8, <1>15, ImmediateNames DEF Value, Proc
<1>17. Writes(u, v, Wide(d.Rd1), xh) /\ SameFlags(u, v)
  <2>1. Holds(u, "AL")
    BY DEF Holds
  <2> QED BY <1>3, <1>14, <1>15, <1>16, <2>1, ImmediateNames, MoveByRegister
<1>18. Proc(v) /\ v.reg = [u.reg EXCEPT ![Wide(d.Rd1)] = xh] /\ v.v = low.v
  BY <1>15, <1>17, ImmediateNames DEF Writes, SameFlags
<1>19. v.reg[d.Rd1] = low.val /\ v.reg[Wide(d.Rd1)] = xh
  BY <1>15, <1>18, ImmediateNames DEF Proc
<1>20. /\ low.v => high.val = one.val
       /\ ~low.v => high.val = xh
  BY <1>5, <1>7, <1>8, <1>10, <1>12, Borrows
<1>21. Holds(v, "VS") <=> v.v
  BY DEF Holds
<1>22. ASSUME low.v PROVE t.reg[d.Rd1] = low.val /\ t.reg[Wide(d.Rd1)] = high.val
  <2>1. 1 \in Word0
    <3>1. Words >= 2 /\ Words \in Nat
      <4>1. Words = 2 * Half /\ Half \in Nat /\ Half >= TwoByte /\ TwoByte \in Nat /\ n < TwoByte /\ n >= 0
        BY <1>5, Sizes
      <4> HIDE DEF Words, Half, TwoByte
      <4> QED BY <1>6, <4>1
    <3> HIDE DEF Words
    <3> QED BY <3>1 DEF Word0
  <2>2. Holds(v, "VS")
    BY <1>18, <1>21, <1>22
  <2>3. xh = Value(v, Wide(d.Rd1))
    BY <1>19, ImmediateNames DEF Value
  <2>4. one = Adder(xh, Summand("ARM_SUB", 1), CarryIn("ARM_SUB", v))
    BY <1>12, AddNames
  <2>5. Steps(v, t, q, Wide(d.Rd1), one)
    BY <1>1, <1>4, <1>18, <2>1, <2>2, <2>3, <2>4, AddNames, ImmediateNames, SumByImmediate, ZenonT(60)
  <2>6. t.reg[d.Rd1] = low.val /\ t.reg[Wide(d.Rd1)] = one.val
    BY <1>18, <1>19, <2>5, ImmediateNames DEF Steps, Writes, Proc
  <2> QED BY <1>20, <1>22, <2>6
<1>23. ASSUME ~low.v PROVE t.reg[d.Rd1] = low.val /\ t.reg[Wide(d.Rd1)] = high.val
  <2>1. ~Holds(v, "VS")
    BY <1>18, <1>21, <1>23
  <2>2. t = v
    BY <1>1, <1>4, <1>18, <2>1, SkipIdle
  <2> QED BY <1>19, <1>20, <1>23, <2>2
<1>24. Sum(d, s.reg) = SignedDouble(Double(xh, x)) + SignedDouble(Double(Flipped(0), Flipped(n))) + 1
  BY <1>6, <1>7, <1>11
<1>25. 1 \in {0, 1}
  OBVIOUS
<1> QED BY <1>7, <1>8, <1>11, <1>12, <1>22, <1>23, <1>24, <1>25, DoubleLeft, SMTT(60)

\* What is left as it was decoded is refused and never runs.
LEMMA NotAsDecoded ==
    ASSUME Listed, phase = "done", I.op \in Handled \ {"LUI", "SLL"}
    PROVE  Translated(I) # << I >>
<1> SUFFICES ASSUME Translated(I) = << I >> PROVE FALSE
  OBVIOUS
<1>1. /\ word \in MipsWord /\ code = Emitted(Translated(I))
      /\ \A k \in DOMAIN code : code[k].op \in Encoded
  BY DEF Listed, Guarded
<1>2. Ready(I)
  BY <1>1, DecodedReady DEF I
<1> HIDE DEF I
<1>3. ~Dropped(I)
  BY DEF Dropped, Handled, Computed, MemoryOps
<1> DEFINE Q == [k \in DOMAIN << I >> |-> Translate_CleanUp(<< I >>[k])]
<1>4. Q = [k \in DOMAIN << I >> |-> Q[k]] /\ Q[1] = << I >>
  BY <1>3, Single DEF Translate_CleanUp
<1>5. Emitted(<< I >>) = FlattenSeq(Q)
  BY DEF Emitted
<1> HIDE DEF Q
<1>6. code = << I >>
  BY <1>1, <1>4, <1>5, FlattenSingle
<1>7. DOMAIN code = 1 .. 1 /\ code[1] = I
  BY <1>6, Single
<1>8. I.op \in Encoded
  BY <1>1, <1>7
<1> QED BY <1>2, <1>8 DEF Ready

\* What the translations give for an immediate.
LEMMA ImmediateShapes ==
    ASSUME NEW d, d.imm \in Int
    PROVE  /\ d.imm = 0 => /\ ADDI(d) = AddNothing(d) /\ ADDIU(d) = AddNothing(d)
                           /\ DADDI(d) = AddNothing(d) /\ DADDIU(d) = AddNothing(d)
           /\ d.imm < 0 /\ ~WithoutByte(-d.imm) =>
                /\ ADDI(d) = << InstrI(d, "ARM_SUB", "AL", d.Rd1, d.R1, NOT_USED, -d.imm) >>
                /\ ADDIU(d) = << InstrI(d, "ARM_SUB", "AL", d.Rd1, d.R1, NOT_USED, -d.imm) >>
                /\ DADDIU(d) = << InstrIS(d, "ARM_SUB", "AL", d.Rd1, d.R1, NOT_USED, -d.imm), MOV(Rdw(d), R1w(d)),
                                  newInstrI("ARM_SUB", "VS", Rdw(d), Rdw(d), NOT_USED, 1) >>
           /\ d.imm > 0 /\ d.R1 = 0 =>
                /\ ADDI(d) = LowFromZero(d) /\ ADDIU(d) = LowFromZero(d)
                /\ DADDI(d) = LowFromZero(d) \o Above(d, "ARM_MOV")
                /\ DADDIU(d) = LowFromZero(d) \o Above(d, "ARM_MOV")
           /\ d.imm > 0 /\ d.R1 # 0 /\ ~WithoutByte(d.imm) =>
                /\ ADDI(d) = << InstrIS(d, "ARM_ADD", "AL", SCRATCH0, d.R1, NOT_USED, d.imm),
                                If("VC", MOV(d.Rd1, SCRATCH0)) >>
                /\ ADDIU(d) = << InstrI(d, "ARM_ADD", "AL", d.Rd1, d.R1, NOT_USED, d.imm) >>
           /\ d.imm > 0 /\ d.R1 # 0 =>
                /\ DADDI(d) = NamingBoth(d) \o LowSum(d, SCRATCH0) \o CarryUp(d)
                /\ DADDIU(d) = NamingBoth(d) \o LowSum(d, d.Rd1)
                               \o << newInstrI("ARM_ADC", "AL", Rdw(d), R1w(d), NOT_USED, 0) >>
<1>1. CASE d.imm = 0
  <2>1. ADDI(d) = AddNothing(d)
    BY <1>1 DEF ADDI
  <2>2. ADDIU(d) = AddNothing(d)
    BY <1>1 DEF ADDIU
  <2>3. DADDI(d) = AddNothing(d)
    BY <1>1 DEF DADDI
  <2>4. DADDIU(d) = AddNothing(d)
    BY <1>1 DEF DADDIU
  <2> QED BY <1>1, <2>1, <2>2, <2>3, <2>4
<1>2. CASE d.imm < 0
  <2>1. CASE WithoutByte(-d.imm)
    BY <1>2, <2>1
  <2>2. CASE ~WithoutByte(-d.imm)
    <3>1. ADDI(d) = << InstrI(d, "ARM_SUB", "AL", d.Rd1, d.R1, NOT_USED, -d.imm) >>
      BY <1>2, <2>2 DEF ADDI
    <3>2. ADDIU(d) = << InstrI(d, "ARM_SUB", "AL", d.Rd1, d.R1, NOT_USED, -d.imm) >>
      BY <1>2, <2>2 DEF ADDIU
    <3>3. DADDIU(d) = << InstrIS(d, "ARM_SUB", "AL", d.Rd1, d.R1, NOT_USED, -d.imm), MOV(Rdw(d), R1w(d)),
                         newInstrI("ARM_SUB", "VS", Rdw(d), Rdw(d), NOT_USED, 1) >>
      BY <1>2, <2>2 DEF DADDIU
    <3> QED BY <1>2, <3>1, <3>2, <3>3
  <2> QED BY <2>1, <2>2
<1>3. CASE d.imm > 0 /\ d.R1 = 0
  <2>1. ADDI(d) = LowFromZero(d)
    BY <1>3 DEF ADDI, LowFromZero
  <2>2. ADDIU(d) = LowFromZero(d)
    BY <1>3 DEF ADDIU, LowFromZero
  <2>3. DADDI(d) = LowFromZero(d) \o Above(d, "ARM_MOV")
    BY <1>3 DEF DADDI, LowFromZero
  <2>4. DADDIU(d) = LowFromZero(d) \o Above(d, "ARM_MOV")
    <3>1. ASSUME WithoutByte(d.imm)
          PROVE  DADDIU(d) = FromZero(d, "ARM_ADD", d.imm) \o Above(d, "ARM_MOV")
      BY <1>3, <3>1 DEF DADDIU
    <3>2. ASSUME ~WithoutByte(d.imm)
          PROVE  DADDIU(d) = << InstrI(d, "ARM_MOV", "AL", d.Rd1, NOT_USED, NOT_USED, d.imm) >> \o Above(d, "ARM_MOV")
      BY <1>3, <3>2 DEF DADDIU
    <3> QED BY <3>1, <3>2 DEF LowFromZero
  <2> QED BY <1>3, <2>1, <2>2, <2>3, <2>4
<1>4. CASE d.imm > 0 /\ d.R1 # 0
  <2>1. ~WithoutByte(d.imm) =>
          ADDI(d) = << InstrIS(d, "ARM_ADD", "AL", SCRATCH0, d.R1, NOT_USED, d.imm),
                       If("VC", MOV(d.Rd1, SCRATCH0)) >>
    BY <1>4 DEF ADDI
  <2>2. ~WithoutByte(d.imm) =>
          ADDIU(d) = << InstrI(d, "ARM_ADD", "AL", d.Rd1, d.R1, NOT_USED, d.imm) >>
    BY <1>4 DEF ADDIU
  <2>3. DADDI(d) = NamingBoth(d) \o LowSum(d, SCRATCH0) \o CarryUp(d)
    BY <1>4 DEF DADDI, LowSum
  <2>4. DADDIU(d) = NamingBoth(d) \o LowSum(d, d.Rd1)
                    \o << newInstrI("ARM_ADC", "AL", Rdw(d), R1w(d), NOT_USED, 0) >>
    BY <1>4 DEF DADDIU, LowSum
  <2> QED BY <1>4, <2>1, <2>2, <2>3, <2>4
<1> QED BY <1>1, <1>2, <1>3, <1>4

LEMMA SumsTranslated ==
    ASSUME NEW i
    PROVE  /\ i.op = "ADD" => Translated(i) = ADD(i)
           /\ i.op = "ADDU" => Translated(i) = ADDU(i)
           /\ i.op = "DADD" => Translated(i) = TrappingDouble(i, "ARM_ADD", "ARM_ADC")
           /\ i.op = "DADDU" => Translated(i) = PlainDouble(i, "ARM_ADD", "ARM_ADC")
           /\ i.op = "DSUB" => Translated(i) = TrappingDouble(i, "ARM_SUB", "ARM_SBC")
           /\ i.op = "DSUBU" => Translated(i) = PlainDouble(i, "ARM_SUB", "ARM_SBC")
           /\ i.op = "ADDI" => Translated(i) = ADDI(i)
           /\ i.op = "ADDIU" => Translated(i) = ADDIU(i)
           /\ i.op = "DADDI" => Translated(i) = DADDI(i)
           /\ i.op = "DADDIU" => Translated(i) = DADDIU(i)
<1>1. i.op \in WordSums \cup DoubleSums => Translated(i) = Translate_ALU(i)
  BY DEF Translated, MemoryOps, WordSums, DoubleSums
<1>2. /\ i.op = "ADD" => Translate_ALU(i) = ADD(i)
      /\ i.op = "ADDU" => Translate_ALU(i) = ADDU(i)
  BY DEF Translate_ALU, Traps, TrapsImmediate
<1>3. /\ i.op = "DADD" => Translate_ALU(i) = TrappingDouble(i, "ARM_ADD", "ARM_ADC")
      /\ i.op = "DADDU" => Translate_ALU(i) = PlainDouble(i, "ARM_ADD", "ARM_ADC")
  BY DEF Translate_ALU, Traps, TrapsImmediate
<1>4. /\ i.op = "DSUB" => Translate_ALU(i) = TrappingDouble(i, "ARM_SUB", "ARM_SBC")
      /\ i.op = "DSUBU" => Translate_ALU(i) = PlainDouble(i, "ARM_SUB", "ARM_SBC")
  BY DEF Translate_ALU, Traps, TrapsImmediate
<1>5. /\ i.op = "ADDI" => Translate_ALU(i) = ADDI(i)
      /\ i.op = "ADDIU" => Translate_ALU(i) = ADDIU(i)
  BY DEF Translate_ALU, Traps, TrapsImmediate
<1>6. /\ i.op = "DADDI" => Translate_ALU(i) = DADDI(i)
      /\ i.op = "DADDIU" => Translate_ALU(i) = DADDIU(i)
  BY DEF Translate_ALU, Traps, TrapsImmediate
<1>7. {"ADD", "ADDU", "DADD", "DADDU", "DSUB", "DSUBU", "ADDI", "ADDIU", "DADDI", "DADDIU"}
        \subseteq WordSums \cup DoubleSums
  BY DEF WordSums, DoubleSums
<1> QED BY <1>1, <1>2, <1>3, <1>4, <1>5, <1>6, <1>7

\* The operations by registers.
LEMMA RegistersRight ==
    ASSUME NEW s, Proc(s), NEW d, ByRegisters(d), NEW junk, NEW t, Runs(s, Translated(d), t, junk),
           d.op \in {"ADD", "ADDU", "DADD", "DADDU", "DSUB", "DSUBU"}
    PROVE  Leaves(d, s, t)
<1>1. CASE d.op = "ADD"
  BY <1>1, SumsTranslated, AddRight
<1>2. CASE d.op = "ADDU"
  BY <1>2, SumsTranslated, AdduRight
<1>3. CASE d.op \in {"DADD", "DSUB"}
  <2>1. d.op = "DADD" => Paired(d, "ARM_ADD", "ARM_ADC") /\ Runs(s, TrappingDouble(d, "ARM_ADD", "ARM_ADC"), t, junk)
    BY SumsTranslated DEF Paired
  <2>2. d.op = "DSUB" => Paired(d, "ARM_SUB", "ARM_SBC") /\ Runs(s, TrappingDouble(d, "ARM_SUB", "ARM_SBC"), t, junk)
    BY SumsTranslated DEF Paired
  <2> QED BY <1>3, <2>1, <2>2, TrappingDoubleRight
<1>4. CASE d.op \in {"DADDU", "DSUBU"}
  <2>1. d.op = "DADDU" => Paired(d, "ARM_ADD", "ARM_ADC") /\ Runs(s, PlainDouble(d, "ARM_ADD", "ARM_ADC"), t, junk)
    BY SumsTranslated DEF Paired
  <2>2. d.op = "DSUBU" => Paired(d, "ARM_SUB", "ARM_SBC") /\ Runs(s, PlainDouble(d, "ARM_SUB", "ARM_SBC"), t, junk)
    BY SumsTranslated DEF Paired
  <2> QED BY <1>4, <2>1, <2>2, PlainDoubleRight
<1> QED BY <1>1, <1>2, <1>3, <1>4

\* Nothing to add: an operation that names one register twice.
LEMMA NothingRuns ==
    ASSUME NEW s, Proc(s), NEW d, WithImmediate(d), NEW junk, NEW t, Runs(s, AddNothing(d), t, junk),
           AddNothing(d) # << d >>
    PROVE  d.Rd1 = d.R1 /\ t = s
<1>1. d.Rd1 = d.R1 /\ AddNothing(d) = << Instr(d, "NO_OP", "AL", NOT_USED, NOT_USED, NOT_USED) >>
  BY DEF AddNothing
<1>2. t = Skip(s, Instr(d, "NO_OP", "AL", NOT_USED, NOT_USED, NOT_USED), junk)
  BY <1>1, RunsOne
<1> QED BY <1>1, <1>2, NamingIdle DEF WithImmediate

\* The operations with an immediate, without the cases the property names.
LEMMA ImmediatesRight ==
    ASSUME NEW s, Proc(s), s.reg[0] = 0, s.reg[Wide(0)] = 0, NEW d, WithImmediate(d),
           NEW junk, NEW t, Runs(s, Translated(d), t, junk), Translated(d) # << d >>,
           d.op \in {"ADDI", "ADDIU", "DADDI", "DADDIU"},
           d.imm < 0 => ~WithoutByte(-d.imm) /\ d.op # "DADDI",
           d.imm > 0 /\ WithoutByte(d.imm) =>
             /\ d.op \in {"ADDI", "ADDIU"} => d.R1 = 0
             /\ s.reg[d.R1] + Lo(d.imm) < Words,
           d.op = "ADDI" /\ d.imm < 0 => ~Overflows(d, s.reg),
           d.op = "DADDIU" /\ d.imm < 0 =>
             ((s.reg[d.R1] < -d.imm) <=> (Signed(s.reg[d.R1]) + d.imm < -Half))
    PROVE  Leaves(d, s, t)
<1>1. d.imm \in Int
  BY Within DEF WithImmediate
<1>2. Translated(d) = (CASE d.op = "ADDI" -> ADDI(d) [] d.op = "ADDIU" -> ADDIU(d)
                         [] d.op = "DADDI" -> DADDI(d) [] d.op = "DADDIU" -> DADDIU(d))
  BY SumsTranslated
<1>3. CASE d.imm = 0
  <2>1. Translated(d) = AddNothing(d)
    BY <1>1, <1>2, <1>3, ImmediateShapes
  <2>2. d.Rd1 = d.R1 /\ t = s
    BY <2>1, NothingRuns
  <2>3. d.op \in {"ADDI", "ADDIU"} => Leaves(d, s, s)
    BY <1>3, <2>2, WordNothing
  <2>4. d.op \in {"DADDI", "DADDIU"} => Leaves(d, s, s)
    BY <1>3, <2>2, DoubleNothing
  <2> QED BY <2>2, <2>3, <2>4
<1>4. CASE d.imm < 0
  <2>1. CASE d.op \in {"ADDI", "ADDIU"}
    <3>1. Runs(s, << InstrI(d, "ARM_SUB", "AL", d.Rd1, d.R1, NOT_USED, -d.imm) >>, t, junk)
      BY <1>1, <1>2, <1>4, <2>1, ImmediateShapes
    <3> QED BY <1>4, <2>1, <3>1, SubtractRight
  <2>2. CASE d.op = "DADDIU"
    <3>1. Runs(s, DADDIU(d), t, junk)
      BY <1>2, <2>2
    <3>2. Runs(s, << InstrIS(d, "ARM_SUB", "AL", d.Rd1, d.R1, NOT_USED, -d.imm), MOV(Rdw(d), R1w(d)),
                     newInstrI("ARM_SUB", "VS", Rdw(d), Rdw(d), NOT_USED, 1) >>, t, junk)
      BY <1>1, <1>4, <3>1, ImmediateShapes
    <3> QED BY <1>4, <2>2, <3>2, DaddiuMinus
  <2> QED BY <1>4, <2>1, <2>2
<1>5. CASE d.imm > 0 /\ d.R1 = 0
  <2>1. CASE d.op \in {"ADDI", "ADDIU"}
    <3>1. Runs(s, LowFromZero(d), t, junk)
      BY <1>1, <1>2, <1>5, <2>1, ImmediateShapes
    <3> QED BY <1>5, <2>1, <3>1, WordFromZero
  <2>2. CASE d.op \in {"DADDI", "DADDIU"}
    <3>1. Runs(s, LowFromZero(d) \o Above(d, "ARM_MOV"), t, junk)
      BY <1>1, <1>2, <1>5, <2>2, ImmediateShapes
    <3> QED BY <1>5, <2>2, <3>1, DoubleFromZero
  <2> QED BY <2>1, <2>2
<1>6. CASE d.imm > 0 /\ d.R1 # 0
  <2>1. CASE d.op = "ADDI"
    <3>1. ~WithoutByte(d.imm) /\ Runs(s, ADDI(d), t, junk)
      BY <1>2, <1>6, <2>1
    <3>2. Runs(s, << InstrIS(d, "ARM_ADD", "AL", SCRATCH0, d.R1, NOT_USED, d.imm),
                     If("VC", MOV(d.Rd1, SCRATCH0)) >>, t, junk)
      BY <1>1, <1>6, <3>1, ImmediateShapes
    <3> QED BY <1>6, <2>1, <3>2, AddiOne
  <2>2. CASE d.op = "ADDIU"
    <3>1. ~WithoutByte(d.imm) /\ Runs(s, ADDIU(d), t, junk)
      BY <1>2, <1>6, <2>2
    <3>2. Runs(s, << InstrI(d, "ARM_ADD", "AL", d.Rd1, d.R1, NOT_USED, d.imm) >>, t, junk)
      BY <1>1, <1>6, <3>1, ImmediateShapes
    <3> QED BY <1>6, <2>2, <3>2, AddiuOne
  <2>3. CASE d.op = "DADDI"
    <3>1. Runs(s, NamingBoth(d) \o LowSum(d, SCRATCH0) \o CarryUp(d), t, junk)
      BY <1>1, <1>2, <1>6, <2>3, ImmediateShapes
    <3> QED BY <1>6, <2>3, <3>1, DaddiPlus
  <2>4. CASE d.op = "DADDIU"
    <3>1. Runs(s, NamingBoth(d) \o LowSum(d, d.Rd1)
                  \o << newInstrI("ARM_ADC", "AL", Rdw(d), R1w(d), NOT_USED, 0) >>, t, junk)
      BY <1>1, <1>2, <1>6, <2>4, ImmediateShapes
    <3> QED BY <1>6, <2>4, <3>1, DaddiuPlus
  <2> QED BY <2>1, <2>2, <2>3, <2>4
<1> QED BY <1>1, <1>3, <1>4, <1>5, <1>6

\* The case of the property for one operation.
LEMMA SumsOne ==
    ASSUME Listed, Done(WordSums \cup DoubleSums), ~PutTogetherWrongly, ~NegativeUnnoticed, ~HighWordStale
    PROVE  Got(DoubleSums) = IF I.op \in Trapping /\ Overflows(I, b) THEN Had(DoubleSums)
                             ELSE Sum(I, b) % 2^Bits(I)
<1>1. /\ phase = "done"
      /\ I.op \in {"ADD", "ADDU", "DADD", "DADDU", "DSUB", "DSUBU"} \cup {"ADDI", "ADDIU", "DADDI", "DADDIU"}
  BY DEF Done, WordSums, DoubleSums
<1>2. I.op \in Simple /\ I.op \in Handled \ {"LUI", "SLL"}
  BY <1>1 DEF Simple, ThreeOperand, Immediates, SignedImmediate, Handled, Computed
<1>3. /\ Bare(I) /\ I.Rd1 \in 0 .. 31
      /\ I.op \in ThreeOperand => I.R1 \in 0 .. 31 /\ I.R2 \in 0 .. 31 /\ I.I = FALSE
      /\ I.op \in SignedImmediate => I.R1 \in 0 .. 31 /\ I.I = TRUE /\ I.imm \in -HalfImm .. HalfImm - 1
  <2>1. word \in MipsWord
    BY DEF Listed, Guarded
  <2>2. \A o \in SignedImmediate : o \in Immediates
    BY DEF Immediates
  <2> QED BY <1>2, <2>1, <2>2, Fields DEF I
<1>4. /\ Proc(before) /\ before.reg[0] = 0 /\ before.reg[Wide(0)] = 0
      /\ \E junk : Runs(before, Translated(I), after, junk)
  BY <1>1, <1>2, Finished
<1>5. PICK junk : Runs(before, Translated(I), after, junk)
  BY <1>4
<1>6. Translated(I) # << I >>
  BY <1>1, <1>2, NotAsDecoded
<1> SUFFICES Leaves(I, before, after)
  BY DEF Leaves, Got, Had, a, b
<1>7. /\ ~(TwoBytes /\ (I.imm < 0 \/ (I.R1 # 0 /\ I.op \in WordSums) \/ Low(b, I.R1) + Lo(I.imm) >= Words))
      /\ ~(I.op \in {"ADDI", "DADDI"} /\ I.imm < 0 /\ Overflows(I, b))
      /\ ~(I.imm < 0 /\ (\/ I.op = "DADDI"
                         \/ /\ I.op = "DADDIU"
                            /\ (Low(b, I.R1) < -I.imm) # (Signed(Low(b, I.R1)) + I.imm < -(2^(W - 1)))))
      /\ TwoBytes <=> I.I /\ WithoutByte(IF I.imm < 0 THEN -I.imm ELSE I.imm)
  BY DEF PutTogetherWrongly, NegativeUnnoticed, HighWordStale, TwoBytes
<1>10. TwoBytes => ~(I.imm < 0) /\ ~(I.R1 # 0 /\ I.op \in WordSums) /\ ~(Low(b, I.R1) + Lo(I.imm) >= Words)
  BY <1>7
<1> HIDE DEF I
<1>8. CASE I.op \in {"ADD", "ADDU", "DADD", "DADDU", "DSUB", "DSUBU"}
  <2>1. ByRegisters(I)
    BY <1>3, <1>8 DEF ByRegisters, ThreeOperand
  <2> QED BY <1>4, <1>5, <1>8, <2>1, RegistersRight
<1>9. CASE I.op \in {"ADDI", "ADDIU", "DADDI", "DADDIU"}
  <2> DEFINE x == before.reg[I.R1]
  <2>1. WithImmediate(I) /\ I.I = TRUE
    BY <1>3, <1>9 DEF WithImmediate, SignedImmediate
  <2>2. I.imm \in Int
    BY <2>1, Within DEF WithImmediate
  <2>3. Low(b, I.R1) = x
    BY DEF Low, b
  <2>4. x \in Word0
    BY <1>4, <2>1, ImmediateNames DEF Proc
  <2>5. I.op \in {"ADDI", "ADDIU"} => I.op \in WordSums
    BY DEF WordSums
  <2>6. ASSUME I.imm < 0 PROVE ~WithoutByte(-I.imm) /\ I.op # "DADDI"
    <3>1. I.op # "DADDI"
      BY <1>7, <2>6
    <3>2. (IF I.imm < 0 THEN -I.imm ELSE I.imm) = -I.imm
      BY <2>6
    <3>3. ~TwoBytes
      BY <1>10, <2>6
    <3> QED BY <1>7, <2>1, <3>1, <3>2, <3>3
  <2>7. I.imm > 0 /\ WithoutByte(I.imm) =>
          /\ I.op \in {"ADDI", "ADDIU"} => I.R1 = 0
          /\ x + Lo(I.imm) < Words
    <3> SUFFICES ASSUME I.imm > 0, WithoutByte(I.imm)
                 PROVE  /\ I.op \in {"ADDI", "ADDIU"} => I.R1 = 0
                        /\ x + Lo(I.imm) < Words
      OBVIOUS
    <3>1. ~(I.R1 # 0 /\ I.op \in WordSums) /\ ~(x + Lo(I.imm) >= Words)
      BY <1>7, <2>1, <2>2, <2>3
    <3>2. I.imm \in 0 .. TwoByte - 1
      BY <2>1, Within DEF WithImmediate
    <3>3. x \in Int /\ Lo(I.imm) \in Int /\ Words \in Int
      BY <2>4, <3>2, HalvesFacts, Sizes DEF Word0
    <3> QED BY <2>5, <3>1, <3>3
  <2>8. I.op = "ADDI" /\ I.imm < 0 => ~Overflows(I, before.reg)
    BY <1>7 DEF b
  <2>9. I.op = "DADDIU" /\ I.imm < 0 => ((x < -I.imm) <=> (Signed(x) + I.imm < -Half))
    <3>1. Half = 2^(W - 1)
      BY DEF Half
    <3> HIDE DEF x
    <3> QED BY <1>7, <2>3, <3>1
  <2> QED BY <1>4, <1>5, <1>6, <1>9, <2>1, <2>6, <2>7, <2>8, <2>9, ImmediatesRight
<1> QED BY <1>1, <1>8, <1>9

\* Sums and differences of words and doublewords leave the sum in their target,
\* the carry between its two host registers included, and a sum that traps and
\* overflows leaves both of them as they were, but for the deviations the
\* property names.
THEOREM SumsAreRight == Spec => []SumsRight
<1>1. Listed => SumsRight
  <2> SUFFICES ASSUME Listed PROVE SumsRight
    OBVIOUS
  <2> QED BY SumsOne DEF SumsRight
<1> QED BY <1>1, AlwaysListed, PTL

-----------------------------------------------------------------------------
\* Words as their bits.
LEMMA BitRange == ASSUME NEW x \in Int, NEW k \in 0 .. 2 * W PROVE Bit(x, k) \in 0 .. 1
<1> DEFINE q == x \div 2^k
<1>1. Power(k) \in Nat \ {0} /\ Power(k) = 2^k
  <2>1. k \in 0 .. 2 * W + 1
    BY Sizes
  <2> QED BY <2>1, PowersPositive DEF Power
<1>2. q \in Int
  BY <1>1, DivMod
<1>3. Bit(x, k) = q % 2
  BY DEF Bit
<1> HIDE DEF q
<1>4. (q % 2) \in 0 .. 1
  BY <1>2
<1> QED BY <1>3, <1>4

\* The bit between a multiple above it and a rest below it.
LEMMA BitAt ==
    ASSUME NEW x \in Int, NEW k \in 0 .. 2 * W, NEW q \in Int, NEW c \in 0 .. 1,
           NEW r \in 0 .. Power(k) - 1, x = q * Power(k + 1) + c * Power(k) + r
    PROVE  Bit(x, k) = c
<1> DEFINE P == Power(k)
           m == 2 * q + c
<1>1. P \in Nat \ {0} /\ P = 2^k /\ Power(k + 1) = 2 * P
  <2>1. k \in 0 .. 2 * W + 1
    BY Sizes
  <2> QED BY <2>1, PowersPositive, PowerFacts DEF Power
<1> HIDE DEF P
<1>2. m \in Int /\ x = m * P + r
  <2>1. (2 * q + c) * P = q * (2 * P) + c * P
    BY <1>1
  <2> QED BY <1>1, <2>1 DEF P
<1>3. r \in 0 .. P - 1
  BY DEF P
<1>4. x \div P = m
  <2> HIDE DEF m
  <2> QED BY <1>1, <1>2, <1>3, Unique
<1>5. m % 2 = c
  <2>1. m = q * 2 + c /\ c \in 0 .. 2 - 1 /\ 2 \in Nat \ {0}
    OBVIOUS
  <2> HIDE DEF m
  <2> QED BY <1>2, <2>1, Unique
<1> QED BY <1>1, <1>4, <1>5 DEF Bit

\* A word around one of its bits.
LEMMA AroundBit ==
    ASSUME NEW x \in Int, NEW k \in 0 .. 2 * W
    PROVE  /\ x % Power(k) \in 0 .. Power(k) - 1
           /\ x % Power(k + 1) = (x % Power(k)) + Bit(x, k) * Power(k)
           /\ \E q \in Int : x = q * Power(k + 1) + Bit(x, k) * Power(k) + (x % Power(k))
<1> DEFINE P == Power(k)
           D == Power(k + 1)
           m == x \div P
           r == x % P
           q == m \div 2
           c == m % 2
<1>1. P \in Nat \ {0} /\ P = 2^k /\ D = 2 * P /\ D \in Nat \ {0}
  <2>1. k \in 0 .. 2 * W + 1
    BY Sizes
  <2> QED BY <2>1, PowersPositive, PowerFacts DEF Power
<1>2. Bit(x, k) = c
  BY <1>1 DEF Bit
<1> HIDE DEF P, D
<1>3. m \in Int /\ r \in 0 .. P - 1 /\ x = (m * P) + r
  BY <1>1, DivMod
<1> HIDE DEF m, r
<1>4. q \in Int /\ c \in 0 .. 2 - 1 /\ m = (q * 2) + c
  <2>1. 2 \in Nat \ {0}
    OBVIOUS
  <2> QED BY <1>3, <2>1, DivMod
<1> HIDE DEF q, c
<1>5. x = q * D + (c * P + r)
  <2>1. ((q * 2) + c) * P = q * (2 * P) + c * P
    BY <1>1, <1>4
  <2>2. q * D \in Int /\ c * P \in Int
    BY <1>1, <1>4
  <2> QED BY <1>1, <1>3, <1>4, <2>1, <2>2
<1>6. c * P + r \in 0 .. D - 1
  <2>1. c * P \in {0, P}
    BY <1>1, <1>4
  <2> QED BY <1>1, <1>3, <2>1
<1>7. x % D = c * P + r
  BY <1>1, <1>4, <1>5, <1>6, Unique
<1>8. c * P \in Int /\ q * D \in Int /\ r \in Int
  BY <1>1, <1>3, <1>4
<1>9. x = q * D + c * P + r /\ x % D = r + c * P
  BY <1>5, <1>7, <1>8
<1>10. Bit(x, k) = c /\ q \in Int /\ r \in 0 .. P - 1
  BY <1>2, <1>3, <1>4
<1> QED BY <1>9, <1>10 DEF P, D, r

\* The bits determine the word.
LEMMA SameBits ==
    ASSUME NEW x \in Word0, NEW y \in Word0, \A k \in 0 .. W - 1 : Bit(x, k) = Bit(y, k)
    PROVE  x = y
<1> DEFINE T == {k \in 0 .. W : x % Power(k) # y % Power(k)}
<1>1. W \in Nat /\ Power(W) = Words /\ Words \in Nat \ {0} /\ x \in Int /\ y \in Int
  BY Sizes DEF Power, Words, Word0
<1>2. T = {}
  <2> SUFFICES ASSUME T # {} PROVE FALSE
    OBVIOUS
  <2>1. PICK k \in T : \A j \in T : k <= j
    <3>1. T \in SUBSET Nat
      BY <1>1
    <3> HIDE DEF T
    <3> QED BY <3>1, LeastNumber
  <2>2. k # 0
    <3>1. x % Power(0) = 0 /\ y % Power(0) = 0
      BY <1>1, PowerFacts
    <3> QED BY <2>1, <3>1
  <2> DEFINE j == k - 1
  <2>3. j \in 0 .. W - 1 /\ j \in 0 .. 2 * W /\ ~(k <= j) /\ j \in 0 .. W /\ j + 1 = k
    BY <1>1, <2>1, <2>2
  <2>4. j \notin T
    BY <2>1, <2>3
  <2> HIDE DEF j
  <2>5. x % Power(j) = y % Power(j)
    BY <2>3, <2>4
  <2>6. x % Power(j + 1) = (x % Power(j)) + Bit(x, j) * Power(j)
        /\ y % Power(j + 1) = (y % Power(j)) + Bit(y, j) * Power(j)
    BY <1>1, <2>3, AroundBit
  <2> QED BY <2>1, <2>3, <2>5, <2>6
<1>3. W \in 0 .. W
  BY <1>1
<1>4. x % Words = y % Words
  BY <1>1, <1>2, <1>3
<1> QED BY <1>1, <1>4, Small DEF Word0

-----------------------------------------------------------------------------
\* What BitByBit computes, one power after the other.
Picked(rule, x, y, k) == rule[Bit(x, k)][Bit(y, k)]
Picking(f, rule, x, y) ==
    f = [k \in 0 .. W |-> IF k = 0 THEN 0 ELSE f[k - 1] + Picked(rule, x, y, k - 1) * 2^(k - 1)]

LEMMA BitFunction ==
    ASSUME NEW rule, NEW x, NEW y
    PROVE  \E f : Picking(f, rule, x, y) /\ BitByBit(rule, x, y) = f[W]
<1> DEFINE Term(k) == Picked(rule, x, y, k) * 2^k
           AddsUp(f, n) == f = [k \in 0 .. n |-> IF k = 0 THEN 0 ELSE f[k - 1] + Term(k - 1)]
           T == {n \in Nat : ~\E f : AddsUp(f, n)}
<1> HIDE DEF Term
<1>1. T = {}
  <2> SUFFICES ASSUME T # {} PROVE FALSE
    OBVIOUS
  <2>1. PICK n \in T : \A m \in T : n <= m
    BY LeastNumber
  <2>2. n # 0
    <3> DEFINE f == [k \in 0 .. 0 |-> 0]
    <3>1. f = [k \in 0 .. 0 |-> IF k = 0 THEN 0 ELSE f[k - 1] + Term(k - 1)]
      OBVIOUS
    <3> QED BY <3>1
  <2>3. n - 1 \in Nat /\ n - 1 \notin T
    <3>1. n - 1 \in Nat /\ ~(n <= n - 1)
      BY <2>1, <2>2
    <3> HIDE DEF T
    <3> QED BY <2>1, <3>1
  <2>4. PICK f : AddsUp(f, n - 1)
    BY <2>3
  <2> DEFINE g == [k \in 0 .. n |-> IF k < n THEN f[k] ELSE f[n - 1] + Term(n - 1)]
  <2>5. ASSUME NEW k \in 0 .. n
        PROVE  g[k] = IF k = 0 THEN 0 ELSE g[k - 1] + Term(k - 1)
    <3>1. CASE k = 0
      BY <3>1, <2>2, <2>4
    <3>2. CASE k # 0 /\ k < n
      <4>1. k \in 0 .. n - 1 /\ k - 1 \in 0 .. n /\ k - 1 < n
        BY <3>2
      <4>2. f[k] = f[k - 1] + Term(k - 1)
        BY <2>4, <3>2, <4>1
      <4> QED BY <3>2, <4>1, <4>2
    <3>3. CASE k = n
      <4>1. g[n - 1] = f[n - 1]
        BY <2>2
      <4> QED BY <2>2, <3>3, <4>1
    <3> QED BY <3>1, <3>2, <3>3
  <2>6. g = [k \in 0 .. n |-> IF k = 0 THEN 0 ELSE g[k - 1] + Term(k - 1)]
    BY <2>5
  <2> QED BY <2>1, <2>6
<1>2. W \in Nat
  BY Sizes
<1>3. \E f : AddsUp(f, W)
  BY <1>1, <1>2
<1> DEFINE F == CHOOSE f : AddsUp(f, W)
<1>4. AddsUp(F, W)
  BY <1>3
<1>5. BitByBit(rule, x, y) = F[W]
  BY DEF BitByBit, Term, Picked
<1>6. Picking(F, rule, x, y)
  BY <1>4 DEF Term, Picking
<1> HIDE DEF F
<1> QED BY <1>5, <1>6

\* A rule for two bits.
Rule(rule) == \A x, y \in Int : \A k \in 0 .. 2 * W : Picked(rule, x, y, k) \in 0 .. 1

LEMMA BitSteps ==
    ASSUME NEW rule, Rule(rule), NEW x \in Int, NEW y \in Int
    PROVE  \E f : /\ f[0] = 0 /\ BitByBit(rule, x, y) = f[W]
                  /\ \A k \in 0 .. W - 1 : f[k + 1] = f[k] + Picked(rule, x, y, k) * Power(k)
                  /\ \A k \in 0 .. W : f[k] \in 0 .. Power(k) - 1
<1>1. PICK f : Picking(f, rule, x, y) /\ BitByBit(rule, x, y) = f[W]
  BY BitFunction
<1>2. W \in Nat
  BY Sizes
<1>3. f[0] = 0
  BY <1>1, <1>2 DEF Picking
<1>4. ASSUME NEW k \in 0 .. W - 1 PROVE f[k + 1] = f[k] + Picked(rule, x, y, k) * Power(k)
  <2>1. k + 1 \in 0 .. W /\ k + 1 # 0 /\ (k + 1) - 1 = k
    BY <1>2
  <2> QED BY <1>1, <2>1 DEF Power, Picking
<1> DEFINE T == {k \in 0 .. W : f[k] \notin 0 .. Power(k) - 1}
<1>5. T = {}
  <2> SUFFICES ASSUME T # {} PROVE FALSE
    OBVIOUS
  <2>1. PICK k \in T : \A j \in T : k <= j
    <3>1. T \in SUBSET Nat
      BY <1>2
    <3> HIDE DEF T
    <3> QED BY <3>1, LeastNumber
  <2>2. k # 0
    BY <1>3, <2>1, PowerFacts
  <2> DEFINE j == k - 1
             c == Picked(rule, x, y, j)
  <2>3. j \in 0 .. W - 1 /\ j \in 0 .. 2 * W /\ ~(k <= j) /\ j \in 0 .. W /\ j + 1 = k
        /\ j \in 0 .. 2 * W + 1
    BY <1>2, <2>1, <2>2
  <2>4. j \notin T
    BY <2>1, <2>3
  <2>5. c \in 0 .. 1
    BY <2>3 DEF Rule
  <2> HIDE DEF j, c
  <2>6. f[k] = f[j] + c * Power(j) /\ f[j] \in 0 .. Power(j) - 1
    BY <1>4, <2>3, <2>4 DEF c
  <2>7. Power(j) \in Nat \ {0} /\ Power(k) = 2 * Power(j)
    BY <2>3, PowersPositive, PowerFacts
  <2>8. c * Power(j) \in {0, Power(j)}
    BY <2>5, <2>7
  <2>9. f[k] \in 0 .. Power(k) - 1
    BY <2>6, <2>7, <2>8
  <2> QED BY <2>1, <2>9
<1>6. \A k \in 0 .. W : f[k] \in 0 .. Power(k) - 1
  BY <1>5
<1> QED BY <1>1, <1>3, <1>4, <1>6

LEMMA BitsPicked ==
    ASSUME NEW rule, Rule(rule), NEW x \in Int, NEW y \in Int
    PROVE  /\ BitByBit(rule, x, y) \in Word0
           /\ \A k \in 0 .. W - 1 : Bit(BitByBit(rule, x, y), k) = Picked(rule, x, y, k)
<1>1. PICK f : /\ f[0] = 0 /\ BitByBit(rule, x, y) = f[W]
               /\ \A k \in 0 .. W - 1 : f[k + 1] = f[k] + Picked(rule, x, y, k) * Power(k)
               /\ \A k \in 0 .. W : f[k] \in 0 .. Power(k) - 1
  BY BitSteps
<1>2. W \in Nat /\ Power(W) = Words /\ Words \in Nat \ {0} /\ W \in 0 .. W
  BY Sizes DEF Power, Words
<1>3. BitByBit(rule, x, y) \in Word0
  BY <1>1, <1>2 DEF Word0
<1>4. ASSUME NEW k \in 0 .. W - 1 PROVE Bit(f[W], k) = Picked(rule, x, y, k)
  <2> DEFINE c == Picked(rule, x, y, k)
             D == Power(k + 1)
             T == {n \in k + 1 .. W : ~\E q \in Int : f[n] = f[k + 1] + q * D}
  <2>1. k \in 0 .. 2 * W /\ k \in 0 .. W /\ k + 1 \in 0 .. W /\ k + 1 \in 0 .. 2 * W + 1
        /\ W \in k + 1 .. W
    BY <1>2
  <2>2. c \in 0 .. 1 /\ D \in Nat \ {0}
    BY <2>1, PowersPositive DEF Rule
  <2>3. f[k + 1] = f[k] + c * Power(k) /\ f[k] \in 0 .. Power(k) - 1 /\ f[k + 1] \in 0 .. D - 1
    BY <1>1, <2>1
  <2> HIDE DEF c, D
  <2>4. T = {}
    <3> SUFFICES ASSUME T # {} PROVE FALSE
      OBVIOUS
    <3>1. PICK n \in T : \A j \in T : n <= j
      <4>1. T \in SUBSET Nat
        BY <1>2, <2>1
      <4> HIDE DEF T
      <4> QED BY <4>1, LeastNumber
    <3>2. n # k + 1
      <4>1. f[k + 1] = f[k + 1] + 0 * D /\ 0 \in Int
        BY <2>2, <2>3
      <4> QED BY <3>1, <4>1
    <3> DEFINE j == n - 1
               e == Picked(rule, x, y, j)
               h == (j - k) - 1
    <3>3. j \in 0 .. W - 1 /\ j \in 0 .. 2 * W /\ ~(n <= j) /\ j \in k + 1 .. W /\ j + 1 = n
          /\ h \in Nat /\ k + 1 \in Nat /\ (k + 1) + h = j /\ (k + 1) + h <= 2 * W + 1
          /\ h \in 0 .. 2 * W + 1
      BY <1>2, <2>1, <3>1, <3>2
    <3>4. j \notin T
      BY <3>1, <3>3
    <3>5. e \in 0 .. 1
      BY <3>3 DEF Rule
    <3> HIDE DEF j, e, h
    <3>6. PICK q \in Int : f[j] = f[k + 1] + q * D
      BY <3>3, <3>4
    <3>7. f[n] = f[j] + e * Power(j)
      BY <1>1, <3>3 DEF e
    <3>8. Power(j) = D * Power(h) /\ Power(h) \in Nat
      BY <3>3, PowersAdd, PowersPositive DEF D
    <3>9. f[n] = f[k + 1] + (q + e * Power(h)) * D /\ q + e * Power(h) \in Int
      <4>1. e * Power(h) \in Int /\ f[k + 1] \in Int /\ q * D \in Int
        BY <2>2, <2>3, <3>5, <3>8
      <4>2. (q + e * Power(h)) * D = q * D + (e * Power(h)) * D
        BY <2>2, <4>1
      <4>3. e * (D * Power(h)) = (e * Power(h)) * D /\ (e * Power(h)) * D \in Int
        BY <2>2, <3>5, <3>8
      <4> QED BY <3>6, <3>7, <3>8, <4>1, <4>2, <4>3
    <3> QED BY <3>1, <3>9
  <2>5. PICK q \in Int : f[W] = f[k + 1] + q * D
    BY <2>1, <2>4
  <2>6. f[W] = q * D + c * Power(k) + f[k] /\ f[W] \in Int
    <3>1. q * D \in Int /\ Power(k) \in Nat
      <4>1. k \in 0 .. 2 * W + 1
        BY <1>2
      <4> QED BY <2>2, <4>1, PowersPositive
    <3>2. c * Power(k) \in Int /\ f[k] \in Int
      BY <2>2, <2>3, <3>1
    <3> QED BY <2>3, <2>5, <3>1, <3>2
  <2>7. Bit(f[W], k) = c
    BY <2>1, <2>2, <2>3, <2>6, BitAt DEF D
  <2> QED BY <2>7 DEF c
<1> QED BY <1>1, <1>3, <1>4

-----------------------------------------------------------------------------
\* The three operations, bit by bit.
LEMMA LogicBits ==
    ASSUME NEW x \in Int, NEW y \in Int
    PROVE  /\ BitAnd(x, y) \in Word0 /\ BitOr(x, y) \in Word0 /\ BitXor(x, y) \in Word0
           /\ \A k \in 0 .. W - 1 :
                LET p == Bit(x, k)
                    q == Bit(y, k)
                IN  /\ p \in 0 .. 1 /\ q \in 0 .. 1
                    /\ Bit(BitAnd(x, y), k) = p * q
                    /\ Bit(BitOr(x, y), k) = p + q - p * q
                    /\ Bit(BitXor(x, y), k) = (p + q) % 2
<1> DEFINE both == [p \in 0 .. 1 |-> [q \in 0 .. 1 |-> p * q]]
           either == [p \in 0 .. 1 |-> [q \in 0 .. 1 |-> p + q - p * q]]
           one == [p \in 0 .. 1 |-> [q \in 0 .. 1 |-> (p + q) % 2]]
<1>1. \A p, q \in 0 .. 1 : both[p][q] = p * q /\ either[p][q] = p + q - p * q /\ one[p][q] = (p + q) % 2
  OBVIOUS
<1>2. /\ BitAnd(x, y) = BitByBit(both, x, y) /\ BitOr(x, y) = BitByBit(either, x, y)
      /\ BitXor(x, y) = BitByBit(one, x, y)
  BY DEF BitAnd, BitOr, BitXor
<1> HIDE DEF both, either, one
<1>3. \A p, q \in 0 .. 1 : p * q \in 0 .. 1 /\ p + q - p * q \in 0 .. 1 /\ (p + q) % 2 \in 0 .. 1
  OBVIOUS
<1>4. ASSUME NEW u \in Int, NEW v \in Int, NEW k \in 0 .. 2 * W
      PROVE  LET p == Bit(u, k)
                 q == Bit(v, k)
             IN  /\ p \in 0 .. 1 /\ q \in 0 .. 1
                 /\ Picked(both, u, v, k) = p * q /\ Picked(either, u, v, k) = p + q - p * q
                 /\ Picked(one, u, v, k) = (p + q) % 2
  <2> DEFINE p == Bit(u, k)
             q == Bit(v, k)
  <2>1. p \in 0 .. 1 /\ q \in 0 .. 1
    BY BitRange
  <2>2. Picked(both, u, v, k) = both[p][q] /\ Picked(either, u, v, k) = either[p][q]
        /\ Picked(one, u, v, k) = one[p][q]
    BY DEF Picked
  <2> HIDE DEF p, q
  <2>3. /\ Picked(both, u, v, k) = p * q /\ Picked(either, u, v, k) = p + q - p * q
        /\ Picked(one, u, v, k) = (p + q) % 2
    BY <1>1, <2>1, <2>2
  <2> QED BY <2>1, <2>3 DEF p, q
<1>5. Rule(both) /\ Rule(either) /\ Rule(one)
  BY <1>3, <1>4 DEF Rule
<1>6. \A k \in 0 .. W - 1 : k \in 0 .. 2 * W
  BY Sizes
<1> QED BY <1>2, <1>4, <1>5, <1>6, BitsPicked

\* The bits of a word.
LEMMA BitsOfWords == \A x \in Word0, k \in 0 .. W - 1 : x \in Int /\ Bit(x, k) \in 0 .. 1
<1>1. ASSUME NEW x \in Word0, NEW k \in 0 .. W - 1 PROVE x \in Int /\ Bit(x, k) \in 0 .. 1
  <2>1. x \in Int /\ k \in 0 .. 2 * W
    BY Sizes DEF Word0
  <2> QED BY <2>1, BitRange
<1> QED BY <1>1

\* No bit of 0 is set.
LEMMA BitsOfZero == 0 \in Word0 /\ \A k \in 0 .. W - 1 : Bit(0, k) = 0
<1>1. 0 \in Word0
  BY Sizes DEF Word0
<1>2. ASSUME NEW k \in 0 .. W - 1 PROVE Bit(0, k) = 0
  <2>1. k \in 0 .. 2 * W /\ k \in 0 .. 2 * W + 1 /\ k + 1 \in 0 .. 2 * W + 1
    BY Sizes
  <2>2. Power(k) \in Nat \ {0} /\ Power(k + 1) \in Nat
    BY <2>1, PowersPositive
  <2>3. 0 = 0 * Power(k + 1) + 0 * Power(k) + 0 /\ 0 \in 0 .. Power(k) - 1 /\ 0 \in 0 .. 1
    BY <2>2
  <2> QED BY <2>1, <2>3, BitAt
<1> QED BY <1>1, <1>2

\* Multiples of a higher power do not show in a bit.
LEMMA BitAbove ==
    ASSUME NEW x \in Int, NEW k \in 0 .. W - 1, NEW m \in Int
    PROVE  Bit(x + m * Power(k + 1), k) = Bit(x, k)
<1>1. k \in 0 .. 2 * W /\ k \in 0 .. 2 * W + 1 /\ k + 1 \in 0 .. 2 * W + 1
  BY Sizes
<1> DEFINE P == Power(k)
           D == Power(k + 1)
           c == Bit(x, k)
           r == x % P
<1>2. PICK q \in Int : x = q * D + c * P + r
  BY <1>1, AroundBit
<1>3. P \in Nat \ {0} /\ D \in Nat \ {0} /\ c \in 0 .. 1 /\ r \in 0 .. P - 1
  BY <1>1, PowersPositive, BitRange, AroundBit
<1> HIDE DEF P, D, c, r
<1>4. x + m * D = (q + m) * D + c * P + r /\ x + m * D \in Int /\ q + m \in Int
  <2>1. (q + m) * D = q * D + m * D /\ q * D \in Int /\ m * D \in Int /\ c * P \in Int
    BY <1>3
  <2> QED BY <1>2, <1>3, <2>1
<1>5. Bit(x + m * D, k) = c
  <2> DEFINE z == x + m * D
             n == q + m
  <2>1. z \in Int /\ n \in Int /\ z = n * Power(k + 1) + c * Power(k) + r /\ r \in 0 .. Power(k) - 1
    BY <1>3, <1>4 DEF P, D
  <2> HIDE DEF z, n
  <2>2. Bit(z, k) = c
    BY <1>1, <1>3, <2>1, BitAt
  <2> QED BY <2>2 DEF z
<1> QED BY <1>5 DEF D, c

\* The low and the high byte of an immediate share its bits.
LEMMA BitsShared ==
    ASSUME NEW n \in 0 .. TwoByte - 1, NEW k \in 0 .. W - 1
    PROVE  \/ Bit(Lo(n), k) = Bit(n, k) /\ Bit(Hi(n), k) = 0
           \/ Bit(Lo(n), k) = 0 /\ Bit(Hi(n), k) = Bit(n, k)
<1> DEFINE B == Power(Byte)
           l == Lo(n)
           h == Hi(n)
           Q == n \div B
<1>1. Byte \in Nat \ {0} /\ W = 4 * Byte /\ B = 2^Byte /\ B = OneByte
  BY ByteAssumption DEF W, Power, OneByte
<1>2. B \in Nat \ {0}
  <2>1. Byte \in 0 .. 2 * W + 1
    BY <1>1
  <2> QED BY <2>1, PowersPositive
<1>3. n \in Int /\ n \in Word0 /\ l \in Word0 /\ h \in Word0 /\ l + h = n
  BY HalvesFacts, SmallFacts
<1>4. l = n % B
  BY <1>1 DEF Lo
<1> HIDE DEF B, l, h
<1>5. Q \in Int /\ l \in 0 .. B - 1 /\ n = Q * B + l
  BY <1>2, <1>3, <1>4, DivMod
<1> HIDE DEF Q
<1>6. h = Q * B /\ l \in Int /\ h \in Int
  <2>1. Q * B \in Int
    BY <1>2, <1>5
  <2> QED BY <1>3, <1>5, <2>1 DEF Word0
<1>7. CASE k < Byte
  <2> DEFINE e == (Byte - k) - 1
             m == Q * Power(e)
  <2>1. e \in Nat /\ k + 1 \in Nat /\ (k + 1) + e = Byte /\ (k + 1) + e <= 2 * W + 1
        /\ e \in 0 .. 2 * W + 1 /\ k + 1 \in 0 .. 2 * W + 1
    BY <1>1, <1>7
  <2>2. B = Power(k + 1) * Power(e) /\ Power(e) \in Nat /\ Power(k + 1) \in Nat
    BY <2>1, PowersAdd, PowersPositive DEF B
  <2> HIDE DEF e
  <2>3. m \in Int /\ m * Power(k + 1) = Q * B
    BY <1>5, <2>2
  <2> HIDE DEF m
  <2>4. n = l + m * Power(k + 1) /\ h = 0 + m * Power(k + 1)
    BY <1>5, <1>6, <2>2, <2>3
  <2>5. Bit(n, k) = Bit(l, k)
    BY <1>6, <2>3, <2>4, BitAbove
  <2>6. Bit(h, k) = Bit(0, k)
    <3>1. 0 \in Int
      OBVIOUS
    <3> QED BY <2>3, <2>4, <3>1, BitAbove
  <2> QED BY <2>5, <2>6, BitsOfZero DEF l, h
<1>8. CASE ~(k < Byte)
  <2> DEFINE P == Power(k)
             c == Power(k - Byte)
             e == Q \div c
             r == Q % c
  <2>1. k - Byte \in Nat /\ Byte + (k - Byte) = k /\ Byte + (k - Byte) <= 2 * W + 1
        /\ k - Byte \in 0 .. 2 * W + 1 /\ k \in 0 .. 2 * W + 1 /\ k \in 0 .. 2 * W
    BY <1>1, <1>8
  <2>2. P = B * c /\ c \in Nat \ {0} /\ P \in Nat \ {0} /\ P = 2^k
    <3>1. P = B * c
      BY <1>1, <2>1, PowersAdd DEF B
    <3> QED BY <2>1, <3>1, PowersPositive DEF Power
  <2> HIDE DEF P, c
  <2>3. e \in Int /\ r \in 0 .. c - 1 /\ Q = e * c + r
    BY <1>5, <2>2, DivMod
  <2> HIDE DEF e, r
  <2>4. r * B + l \in 0 .. P - 1 /\ r * B \in 0 .. P - 1 /\ l \in 0 .. P - 1
    <3>1. r * B >= 0 /\ r * B \in Int /\ r * B <= (c - 1) * B
      BY <1>2, <2>2, <2>3
    <3>2. (c - 1) * B = P - B /\ P - B \in Int
      BY <1>2, <2>2
    <3>3. P >= B
      BY <1>2, <2>2, <2>3, <3>1, <3>2
    <3> QED BY <1>2, <1>5, <2>2, <3>1, <3>2, <3>3
  <2>5. h = e * P + r * B /\ n = e * P + (r * B + l) /\ l = 0 * P + l
    <3>1. (e * c + r) * B = e * (B * c) + r * B /\ e * (B * c) \in Int /\ r * B \in Int
      BY <1>2, <2>2, <2>3
    <3> QED BY <1>5, <1>6, <2>2, <2>3, <3>1
  <2>6. h \div P = e
    BY <1>6, <2>2, <2>3, <2>4, <2>5, Unique
  <2>7. n \div P = e
    <3> DEFINE z == r * B + l
    <3>1. z \in 0 .. P - 1 /\ n = e * P + z
      BY <2>4, <2>5
    <3> HIDE DEF z
    <3>2. n \in Int /\ P \in Nat \ {0} /\ e \in Int
      BY <1>3, <2>2, <2>3
    <3> QED BY <3>1, <3>2, Unique
  <2>8. l \div P = 0
    BY <2>2, <2>4, Small
  <2>9. Bit(h, k) = e % 2 /\ Bit(n, k) = e % 2 /\ Bit(l, k) = 0 % 2
    BY <2>2, <2>6, <2>7, <2>8 DEF Bit
  <2> QED BY <2>9 DEF l, h
<1> QED BY <1>1, <1>7, <1>8

\* The operations with an immediate, half by half.
LEMMA HalfByHalf ==
    ASSUME NEW x \in Word0, NEW n \in 0 .. TwoByte - 1
    PROVE  /\ BitOr(BitAnd(x, Lo(n)), BitAnd(x, Hi(n))) = BitAnd(x, n)
           /\ BitOr(BitOr(x, Hi(n)), Lo(n)) = BitOr(x, n)
           /\ BitXor(BitXor(x, Hi(n)), Lo(n)) = BitXor(x, n)
<1> DEFINE l == Lo(n)
           h == Hi(n)
           ax == BitAnd(x, l)
           ay == BitAnd(x, h)
           ox == BitOr(x, h)
           ex == BitXor(x, h)
<1>1. l \in Word0 /\ h \in Word0 /\ n \in Word0 /\ \A z \in Word0 : z \in Int
  BY HalvesFacts DEF Word0
<1>2. \A k \in 0 .. W - 1 : \/ Bit(l, k) = Bit(n, k) /\ Bit(h, k) = 0
                            \/ Bit(l, k) = 0 /\ Bit(h, k) = Bit(n, k)
  BY BitsShared
<1> HIDE DEF l, h
<1>3. ax \in Word0 /\ ay \in Word0 /\ ox \in Word0 /\ ex \in Word0
  BY <1>1, LogicBits
<1>4. ASSUME NEW k \in 0 .. W - 1
      PROVE  /\ Bit(x, k) \in 0 .. 1 /\ Bit(n, k) \in 0 .. 1 /\ Bit(l, k) \in 0 .. 1 /\ Bit(h, k) \in 0 .. 1
             /\ Bit(ax, k) = Bit(x, k) * Bit(l, k) /\ Bit(ay, k) = Bit(x, k) * Bit(h, k)
             /\ Bit(ox, k) = Bit(x, k) + Bit(h, k) - Bit(x, k) * Bit(h, k)
             /\ Bit(ex, k) = (Bit(x, k) + Bit(h, k)) % 2
  BY <1>1, LogicBits
<1> HIDE DEF ax, ay, ox, ex
<1>5. /\ BitOr(ax, ay) \in Word0 /\ BitOr(ox, l) \in Word0 /\ BitXor(ex, l) \in Word0
      /\ BitAnd(x, n) \in Word0 /\ BitOr(x, n) \in Word0 /\ BitXor(x, n) \in Word0
  BY <1>1, <1>3, LogicBits
<1>6. ASSUME NEW k \in 0 .. W - 1
      PROVE  /\ Bit(BitOr(ax, ay), k) = Bit(ax, k) + Bit(ay, k) - Bit(ax, k) * Bit(ay, k)
             /\ Bit(BitOr(ox, l), k) = Bit(ox, k) + Bit(l, k) - Bit(ox, k) * Bit(l, k)
             /\ Bit(BitXor(ex, l), k) = (Bit(ex, k) + Bit(l, k)) % 2
             /\ Bit(BitAnd(x, n), k) = Bit(x, k) * Bit(n, k)
             /\ Bit(BitOr(x, n), k) = Bit(x, k) + Bit(n, k) - Bit(x, k) * Bit(n, k)
             /\ Bit(BitXor(x, n), k) = (Bit(x, k) + Bit(n, k)) % 2
  BY <1>1, <1>3, LogicBits
<1>7. ASSUME NEW k \in 0 .. W - 1
      PROVE  /\ Bit(BitOr(ax, ay), k) = Bit(BitAnd(x, n), k)
             /\ Bit(BitOr(ox, l), k) = Bit(BitOr(x, n), k)
             /\ Bit(BitXor(ex, l), k) = Bit(BitXor(x, n), k)
  <2>1. \A p, q \in 0 .. 1 :
          /\ p * q + p * 0 - (p * q) * (p * 0) = p * q /\ p * 0 + p * q - (p * 0) * (p * q) = p * q
          /\ (p + 0 - p * 0) + q - (p + 0 - p * 0) * q = p + q - p * q
          /\ (p + q - p * q) + 0 - (p + q - p * q) * 0 = p + q - p * q
          /\ (((p + 0) % 2) + q) % 2 = (p + q) % 2 /\ (((p + q) % 2) + 0) % 2 = (p + q) % 2
    OBVIOUS
  <2>2. CASE Bit(l, k) = Bit(n, k) /\ Bit(h, k) = 0
    BY <1>4, <1>6, <2>1, <2>2
  <2>3. CASE Bit(l, k) = 0 /\ Bit(h, k) = Bit(n, k)
    BY <1>4, <1>6, <2>1, <2>3
  <2> QED BY <1>2, <2>2, <2>3
<1>8. BitOr(ax, ay) = BitAnd(x, n)
  BY <1>5, <1>7, SameBits
<1>9. BitOr(ox, l) = BitOr(x, n)
  BY <1>5, <1>7, SameBits
<1>10. BitXor(ex, l) = BitXor(x, n)
  BY <1>5, <1>7, SameBits
<1> QED BY <1>8, <1>9, <1>10 DEF ax, ay, ox, ex, l, h

\* The high word, where an immediate has no bits.
LEMMA WithZero ==
    ASSUME NEW x \in Word0
    PROVE  BitAnd(x, 0) = 0 /\ BitOr(x, 0) = x /\ BitXor(x, 0) = x
<1>1. x \in Int /\ 0 \in Int /\ 0 \in Word0
  BY BitsOfZero DEF Word0
<1>2. BitAnd(x, 0) \in Word0 /\ BitOr(x, 0) \in Word0 /\ BitXor(x, 0) \in Word0
  BY <1>1, LogicBits
<1>3. ASSUME NEW k \in 0 .. W - 1
      PROVE  /\ Bit(BitAnd(x, 0), k) = Bit(0, k) /\ Bit(BitOr(x, 0), k) = Bit(x, k)
             /\ Bit(BitXor(x, 0), k) = Bit(x, k)
  <2> DEFINE p == Bit(x, k)
  <2>1. /\ p \in 0 .. 1 /\ Bit(0, k) = 0
        /\ Bit(BitAnd(x, 0), k) = p * Bit(0, k) /\ Bit(BitOr(x, 0), k) = p + Bit(0, k) - p * Bit(0, k)
        /\ Bit(BitXor(x, 0), k) = (p + Bit(0, k)) % 2
    BY <1>1, LogicBits, BitsOfZero
  <2> HIDE DEF p
  <2>2. \A q \in 0 .. 1 : q * 0 = 0 /\ q + 0 - q * 0 = q /\ (q + 0) % 2 = q
    OBVIOUS
  <2>3. Bit(BitAnd(x, 0), k) = Bit(0, k) /\ Bit(BitOr(x, 0), k) = p /\ Bit(BitXor(x, 0), k) = p
    BY <2>1, <2>2
  <2> QED BY <2>3 DEF p
<1>4. BitAnd(x, 0) = 0
  BY <1>1, <1>2, <1>3, SameBits
<1>5. BitOr(x, 0) = x
  BY <1>2, <1>3, SameBits
<1>6. BitXor(x, 0) = x
  BY <1>2, <1>3, SameBits
<1> QED BY <1>4, <1>5, <1>6

-----------------------------------------------------------------------------
\* One instruction of the logical operations.
LogicOps == {"ARM_AND", "ARM_ORR", "ARM_EOR"}
Combined(op, x, y) ==
    IF op = "ARM_AND" THEN BitAnd(x, y) ELSE IF op = "ARM_ORR" THEN BitOr(x, y) ELSE BitXor(x, y)

LEMMA CombinedFacts ==
    ASSUME NEW op \in LogicOps, NEW x \in Word0, NEW y \in Word0
    PROVE  Combined(op, x, y) \in Word0 /\ op \in DataOps \ Comparing
<1>1. x \in Int /\ y \in Int
  BY Sizes DEF Word0
<1>2. BitAnd(x, y) \in Word0 /\ BitOr(x, y) \in Word0 /\ BitXor(x, y) \in Word0
  BY <1>1, LogicBits
<1>3. Combined(op, x, y) \in Word0
  BY <1>2 DEF Combined
<1>4. op \in DataOps \ Comparing
  BY DEF LogicOps, DataOps, Comparing
<1> QED BY <1>3, <1>4

LEMMA LogicByRegister ==
    ASSUME NEW s, Proc(s), NEW i, NEW op \in LogicOps, NEW r, NEW r1, NEW r2,
           Physical(r) \in Registers, Physical(r1) \in Registers, Physical(r2) \in Registers,
           Registered(i, op, "AL", r, r1, r2), Mute(i), NEW junk, NEW t, t = Skip(s, i, junk),
           NEW x, x = Value(s, r1), NEW y, y = Value(s, r2)
    PROVE  x \in Word0 /\ y \in Word0 /\ Writes(s, t, r, Combined(op, x, y))
<1> DEFINE f == Result(s, i)
           v == Combined(op, x, y)
<1>1. x \in Word0 /\ y \in Word0
  BY DEF Value, Proc
<1>2. v \in Word0 /\ op \in DataOps \ Comparing
  BY <1>1, CombinedFacts
<1>3. f = Plain(s, v)
  BY RegisterResult DEF LogicOps, Combined
<1> HIDE DEF v
<1>4. f.val = v
  BY <1>3, PlainFields
<1>5. i.op = op /\ i.cond = "AL" /\ i.Rd1 = r /\ Holds(s, "AL")
  BY DEF Registered, Holds
<1>6. f = Result(s, i)
  OBVIOUS
<1> HIDE DEF f
<1>7. Writes(s, t, r, v)
  BY <1>2, <1>4, <1>5, <1>6, DataWrites DEF Mute
<1> QED BY <1>1, <1>7 DEF v

LEMMA LogicByImmediate ==
    ASSUME NEW s, Proc(s), NEW i, NEW op \in LogicOps, NEW r, NEW r1,
           Physical(r) \in Registers, Physical(r1) \in Registers, NEW n \in Word0,
           Immediated(i, op, "AL", r, r1, n), Mute(i), NEW junk, NEW t, t = Skip(s, i, junk),
           NEW x, x = Value(s, r1)
    PROVE  x \in Word0 /\ Writes(s, t, r, Combined(op, x, n))
<1> DEFINE f == Result(s, i)
           v == Combined(op, x, n)
<1>1. x \in Word0
  BY DEF Value, Proc
<1>2. v \in Word0 /\ op \in DataOps \ Comparing
  BY <1>1, CombinedFacts
<1>3. f = Plain(s, v)
  BY ImmediateResult DEF LogicOps, Combined
<1> HIDE DEF v
<1>4. f.val = v
  BY <1>3, PlainFields
<1>5. i.op = op /\ i.cond = "AL" /\ i.Rd1 = r /\ Holds(s, "AL")
  BY DEF Immediated, Holds
<1>6. f = Result(s, i)
  OBVIOUS
<1> HIDE DEF f
<1>7. Writes(s, t, r, v)
  BY <1>2, <1>4, <1>5, <1>6, DataWrites DEF Mute
<1> QED BY <1>1, <1>7 DEF v

\* AND, OR and XOR: one instruction for either word.
LEMMA LogicRegistersRight ==
    ASSUME NEW s, Proc(s), NEW d, ByRegisters(d), NEW op \in LogicOps, NEW junk, NEW t,
           Runs(s, Logic(d, op), t, junk)
    PROVE  /\ t.reg[d.Rd1] = Combined(op, s.reg[d.R1], s.reg[d.R2])
           /\ t.reg[Wide(d.Rd1)] = Combined(op, s.reg[Wide(d.R1)], s.reg[Wide(d.R2)])
<1> DEFINE p == Instr(d, op, "AL", d.Rd1, d.R1, d.R2)
           q == newInstr(op, "AL", Rdw(d), R1w(d), R2w(d))
           u == Skip(s, p, junk)
           x == s.reg[d.R1]
           y == s.reg[d.R2]
           xh == s.reg[Wide(d.R1)]
           yh == s.reg[Wide(d.R2)]
           low == Combined(op, x, y)
           high == Combined(op, xh, yh)
<1>1. t = Skip(u, q, junk)
  BY RunsTwo DEF Logic
<1>2. /\ Registered(p, op, "AL", d.Rd1, d.R1, d.R2) /\ Mute(p)
      /\ Registered(q, op, "AL", Wide(d.Rd1), Wide(d.R1), Wide(d.R2)) /\ Mute(q)
  <2>1. Bare(d)
    BY DEF ByRegisters
  <2>2. Registered(p, op, "AL", d.Rd1, d.R1, d.R2) /\ Mute(p)
    BY <2>1, MadeRegistered, Voices
  <2>3. Registered(q, op, "AL", Wide(d.Rd1), Wide(d.R1), Wide(d.R2)) /\ Mute(q)
    BY <2>1, NewMade, Voices DEF Rdw, R1w, R2w
  <2> QED BY <2>2, <2>3
<1> HIDE DEF p, q
<1>3. /\ Physical(d.Rd1) = d.Rd1 /\ Physical(d.R1) = d.R1 /\ Physical(d.R2) = d.R2
      /\ d.Rd1 \in Registers /\ d.R1 \in Registers /\ d.R2 \in Registers
      /\ Physical(Wide(d.Rd1)) = Wide(d.Rd1) /\ Physical(Wide(d.R1)) = Wide(d.R1)
      /\ Physical(Wide(d.R2)) = Wide(d.R2)
      /\ Wide(d.Rd1) \in Registers /\ Wide(d.R1) \in Registers /\ Wide(d.R2) \in Registers
  BY RegisterNames DEF ByRegisters
<1>4. d.Rd1 # Wide(d.Rd1) /\ d.Rd1 # Wide(d.R1) /\ d.Rd1 # Wide(d.R2)
  BY RegisterNames DEF ByRegisters
<1>5. x = Value(s, d.R1) /\ y = Value(s, d.R2) /\ low = Combined(op, x, y) /\ u = Skip(s, p, junk)
  BY <1>3 DEF Value
<1> HIDE DEF x, y, u
<1>6. Writes(s, u, d.Rd1, low)
  BY <1>2, <1>3, <1>5, LogicByRegister
<1> HIDE DEF low
<1>7. Proc(u) /\ u.reg = [s.reg EXCEPT ![d.Rd1] = low]
  BY <1>3, <1>6 DEF Writes
<1>8. xh = Value(u, Wide(d.R1)) /\ yh = Value(u, Wide(d.R2)) /\ high = Combined(op, xh, yh)
  BY <1>3, <1>4, <1>7 DEF Value, Proc
<1> HIDE DEF xh, yh
<1>9. Writes(u, t, Wide(d.Rd1), high)
  BY <1>1, <1>2, <1>3, <1>7, <1>8, LogicByRegister
<1> HIDE DEF high
<1>10. t.reg[d.Rd1] = low /\ t.reg[Wide(d.Rd1)] = high
  BY <1>3, <1>4, <1>7, <1>9 DEF Writes, Proc
<1> QED BY <1>10 DEF low, high, x, y, xh, yh

\* The operations with an immediate of two bytes.
WithBytes(d) == Bare(d) /\ d.Rd1 \in 0 .. 31 /\ d.R1 \in 0 .. 31 /\ d.imm \in 0 .. TwoByte - 1

LEMMA BytesNames ==
    ASSUME NEW d, WithBytes(d)
    PROVE  /\ Physical(d.Rd1) = d.Rd1 /\ Physical(d.R1) = d.R1
           /\ Physical(SCRATCH0) = R(0) /\ R(0) \in Registers
           /\ d.Rd1 \in Registers /\ d.R1 \in Registers
           /\ Physical(Wide(d.Rd1)) = Wide(d.Rd1) /\ Physical(Wide(d.R1)) = Wide(d.R1)
           /\ Wide(d.Rd1) \in Registers /\ Wide(d.R1) \in Registers
           /\ d.Rd1 # Wide(d.Rd1) /\ d.Rd1 # Wide(d.R1)
           /\ R(0) \notin {d.Rd1, d.R1, Wide(d.Rd1), Wide(d.R1)}
           /\ d.imm \in Word0 /\ Lo(d.imm) \in Word0 /\ Hi(d.imm) \in Word0
<1>1. d.imm \in Word0 /\ Lo(d.imm) \in Word0 /\ Hi(d.imm) \in Word0
  BY HalvesFacts DEF WithBytes
<1>2. d.Rd1 \in 0 .. 31 /\ d.R1 \in 0 .. 31
  BY DEF WithBytes
<1>3. /\ Wide(d.Rd1) = d.Rd1 + 64 /\ Wide(d.R1) = d.R1 + 64 /\ R(0) = 512
  BY <1>2, RegisterNames
<1>4. /\ d.Rd1 # Wide(d.Rd1) /\ d.Rd1 # Wide(d.R1)
      /\ R(0) \notin {d.Rd1, d.R1, Wide(d.Rd1), Wide(d.R1)}
  BY <1>2, <1>3
<1> QED BY <1>1, <1>2, <1>4, RegisterNames

\* The low word is there, and the high word of the operand still is.
LowDone(d, s, u, v) ==
    Proc(u) /\ u.reg[d.Rd1] = v /\ u.reg[Wide(d.R1)] = s.reg[Wide(d.R1)]

\* In one instruction.
LEMMA LowAtOnce ==
    ASSUME NEW s, Proc(s), NEW d, WithBytes(d), NEW op \in LogicOps, NEW junk, NEW u,
           Runs(s, << InstrI(d, op, "AL", d.Rd1, d.R1, NOT_USED, d.imm) >>, u, junk)
    PROVE  LowDone(d, s, u, Combined(op, s.reg[d.R1], d.imm))
<1> DEFINE p == InstrI(d, op, "AL", d.Rd1, d.R1, NOT_USED, d.imm)
           x == s.reg[d.R1]
           v == Combined(op, x, d.imm)
<1>1. u = Skip(s, p, junk)
  BY RunsOne
<1>2. op \in DataOps /\ Bare(d)
  BY DEF LogicOps, DataOps, WithBytes
<1>3. Immediated(p, op, "AL", d.Rd1, d.R1, d.imm) /\ Mute(p)
  BY <1>2, MadeImmediated, Voices
<1> HIDE DEF p
<1>4. x = Value(s, d.R1)
  BY BytesNames DEF Value
<1> HIDE DEF x
<1>5. Writes(s, u, d.Rd1, v)
  <2>1. /\ Physical(d.Rd1) \in Registers /\ Physical(d.R1) \in Registers /\ d.imm \in Word0
    BY BytesNames
  <2> QED BY <1>1, <1>3, <1>4, <2>1, LogicByImmediate
<1> HIDE DEF v
<1>6. LowDone(d, s, u, v)
  BY <1>5, BytesNames DEF Writes, LowDone, Proc
<1> QED BY <1>6 DEF v, x

\* ORI and XORI in two instructions.
LEMMA LowInTwo ==
    ASSUME NEW s, Proc(s), NEW d, WithBytes(d), NEW op \in {"ARM_ORR", "ARM_EOR"}, NEW junk, NEW u,
           Runs(s, << InstrI(d, op, "AL", d.Rd1, d.R1, NOT_USED, Hi(d.imm)),
                      newInstrI(op, "AL", d.Rd1, d.Rd1, NOT_USED, Lo(d.imm)) >>, u, junk)
    PROVE  LowDone(d, s, u, Combined(op, s.reg[d.R1], d.imm))
<1> DEFINE p == InstrI(d, op, "AL", d.Rd1, d.R1, NOT_USED, Hi(d.imm))
           q == newInstrI(op, "AL", d.Rd1, d.Rd1, NOT_USED, Lo(d.imm))
           m == Skip(s, p, junk)
           l == Lo(d.imm)
           h == Hi(d.imm)
           x == s.reg[d.R1]
           v == Combined(op, x, h)
           z == Combined(op, v, l)
<1>1. u = Skip(m, q, junk)
  BY RunsTwo
<1>2. op \in DataOps /\ Bare(d) /\ op \in LogicOps
  BY DEF LogicOps, DataOps, WithBytes
<1>3. /\ Immediated(p, op, "AL", d.Rd1, d.R1, h) /\ Mute(p)
      /\ Immediated(q, op, "AL", d.Rd1, d.Rd1, l) /\ Mute(q)
  BY <1>2, MadeImmediated, NewMade, Voices
<1> HIDE DEF p, q
<1>4. x = Value(s, d.R1) /\ m = Skip(s, p, junk) /\ l \in Word0 /\ h \in Word0
      /\ Physical(d.Rd1) \in Registers /\ Physical(d.R1) \in Registers
  BY BytesNames DEF Value
<1> HIDE DEF x, m, l, h
<1>5. x \in Word0 /\ Writes(s, m, d.Rd1, v)
  BY <1>2, <1>3, <1>4, LogicByImmediate
<1> HIDE DEF v
<1>6. Proc(m) /\ m.reg = [s.reg EXCEPT ![d.Rd1] = v] /\ v = Value(m, d.Rd1)
  BY <1>5, BytesNames DEF Writes, Value, Proc
<1>7. Writes(m, u, d.Rd1, z)
  BY <1>1, <1>2, <1>3, <1>4, <1>6, LogicByImmediate
<1> HIDE DEF z
<1>8. LowDone(d, s, u, z)
  BY <1>6, <1>7, BytesNames DEF Writes, LowDone, Proc
<1>9. z = Combined(op, x, d.imm)
  <2>1. /\ BitOr(BitOr(x, Hi(d.imm)), Lo(d.imm)) = BitOr(x, d.imm)
        /\ BitXor(BitXor(x, Hi(d.imm)), Lo(d.imm)) = BitXor(x, d.imm)
    BY <1>5, HalfByHalf DEF WithBytes
  <2> QED BY <2>1 DEF z, v, l, h, Combined
<1> QED BY <1>8, <1>9 DEF x

\* ANDI in three.
LEMMA LowInThree ==
    ASSUME NEW s, Proc(s), NEW d, WithBytes(d), NEW junk, NEW u,
           Runs(s, << InstrI(d, "ARM_AND", "AL", SCRATCH0, d.R1, NOT_USED, Hi(d.imm)),
                      newInstrI("ARM_AND", "AL", d.Rd1, d.R1, NOT_USED, Lo(d.imm)),
                      newInstr("ARM_ORR", "AL", d.Rd1, d.Rd1, SCRATCH0) >>, u, junk)
    PROVE  LowDone(d, s, u, Combined("ARM_AND", s.reg[d.R1], d.imm))
<1> DEFINE p == InstrI(d, "ARM_AND", "AL", SCRATCH0, d.R1, NOT_USED, Hi(d.imm))
           q == newInstrI("ARM_AND", "AL", d.Rd1, d.R1, NOT_USED, Lo(d.imm))
           r == newInstr("ARM_ORR", "AL", d.Rd1, d.Rd1, SCRATCH0)
           m == Skip(s, p, junk)
           n == Skip(m, q, junk)
           l == Lo(d.imm)
           h == Hi(d.imm)
           x == s.reg[d.R1]
           v == Combined("ARM_AND", x, h)
           w == Combined("ARM_AND", x, l)
           z == Combined("ARM_ORR", w, v)
<1>1. u = Skip(n, r, junk)
  BY RunsThree
<1>2. "ARM_AND" \in DataOps /\ Bare(d) /\ "ARM_AND" \in LogicOps /\ "ARM_ORR" \in LogicOps
  BY DEF LogicOps, DataOps, WithBytes
<1>3. /\ Immediated(p, "ARM_AND", "AL", SCRATCH0, d.R1, h) /\ Mute(p)
      /\ Immediated(q, "ARM_AND", "AL", d.Rd1, d.R1, l) /\ Mute(q)
      /\ Registered(r, "ARM_ORR", "AL", d.Rd1, d.Rd1, SCRATCH0) /\ Mute(r)
  BY <1>2, MadeImmediated, NewMade, Voices
<1> HIDE DEF p, q, r
<1>4. x = Value(s, d.R1) /\ m = Skip(s, p, junk) /\ n = Skip(m, q, junk) /\ l \in Word0 /\ h \in Word0
      /\ Physical(d.Rd1) \in Registers /\ Physical(d.R1) \in Registers /\ Physical(SCRATCH0) \in Registers
  BY BytesNames DEF Value
<1> HIDE DEF x, m, n, l, h
<1>5. x \in Word0 /\ Writes(s, m, SCRATCH0, v)
  BY <1>2, <1>3, <1>4, LogicByImmediate
<1> HIDE DEF v
<1>6. Proc(m) /\ m.reg = [s.reg EXCEPT ![R(0)] = v] /\ x = Value(m, d.R1)
  BY <1>4, <1>5, BytesNames DEF Writes, Value, Proc
<1>7. Writes(m, n, d.Rd1, w)
  BY <1>2, <1>3, <1>4, <1>6, LogicByImmediate
<1> HIDE DEF w
<1>8. Proc(n) /\ n.reg = [m.reg EXCEPT ![d.Rd1] = w] /\ w = Value(n, d.Rd1) /\ v = Value(n, SCRATCH0)
  BY <1>6, <1>7, BytesNames DEF Writes, Value, Proc
<1>9. Writes(n, u, d.Rd1, z)
  BY <1>1, <1>2, <1>3, <1>4, <1>8, LogicByRegister
<1> HIDE DEF z
<1>10. LowDone(d, s, u, z)
  BY <1>6, <1>8, <1>9, BytesNames DEF Writes, LowDone, Proc
<1>11. z = Combined("ARM_AND", x, d.imm)
  <2>1. BitOr(BitAnd(x, Lo(d.imm)), BitAnd(x, Hi(d.imm))) = BitAnd(x, d.imm)
    BY <1>5, HalfByHalf DEF WithBytes
  <2> QED BY <2>1 DEF z, v, w, l, h, Combined
<1> QED BY <1>10, <1>11 DEF x

\* What the operations with an immediate leave: in the high word, the bits of
\* the operand combined with 0.
BothDone(d, s, t, op) ==
    /\ t.reg[d.Rd1] = Combined(op, s.reg[d.R1], d.imm)
    /\ t.reg[Wide(d.Rd1)] = Combined(op, s.reg[Wide(d.R1)], 0)

LEMMA ListOfThree ==
    ASSUME NEW p, NEW q, NEW r
    PROVE  IsList(<< p, q, r >>)
<1>1. << p, q, r >> \in Seq({p, q, r})
  OBVIOUS
<1> QED BY <1>1 DEF IsList

LEMMA HighCopied ==
    ASSUME NEW s, Proc(s), NEW d, WithBytes(d), NEW op \in {"ARM_ORR", "ARM_EOR"}, NEW junk, NEW u,
           LowDone(d, s, u, Combined(op, s.reg[d.R1], d.imm)), NEW t,
           Runs(u, << MOV(Rdw(d), R1w(d)) >>, t, junk)
    PROVE  BothDone(d, s, t, op)
<1> DEFINE p == MOV(Rdw(d), R1w(d))
           xh == s.reg[Wide(d.R1)]
           v == Combined(op, s.reg[d.R1], d.imm)
<1>1. t = Skip(u, p, junk)
  BY RunsOne
<1>2. Registered(p, "ARM_MOV", "AL", Wide(d.Rd1), NOT_USED, Wide(d.R1)) /\ Mute(p)
  <2>1. Registered(p, "ARM_MOV", "AL", Wide(d.Rd1), NOT_USED, Wide(d.R1)) /\ p.S = FALSE
    BY MoveMade DEF Rdw, R1w
  <2> QED BY <2>1 DEF Mute
<1> HIDE DEF p
<1>3. Proc(u) /\ u.reg[d.Rd1] = v /\ xh = Value(u, Wide(d.R1)) /\ Holds(u, "AL")
  BY BytesNames DEF LowDone, Value, Holds
<1> HIDE DEF v
<1>4. Physical(Wide(d.Rd1)) \in Registers /\ Physical(Wide(d.R1)) \in Registers
  BY BytesNames
<1>5. xh \in Word0
  BY BytesNames DEF Proc
<1> HIDE DEF xh
<1>6. Writes(u, t, Wide(d.Rd1), xh)
  BY <1>1, <1>2, <1>3, <1>4, MoveByRegister
<1>7. t.reg[d.Rd1] = v /\ t.reg[Wide(d.Rd1)] = xh
  BY <1>3, <1>6, BytesNames DEF Writes, Proc
<1>8. Combined(op, xh, 0) = xh
  BY <1>5, WithZero DEF Combined
<1> QED BY <1>7, <1>8 DEF BothDone, v, xh

LEMMA HighCleared ==
    ASSUME NEW s, Proc(s), NEW d, WithBytes(d), NEW junk, NEW u,
           LowDone(d, s, u, Combined("ARM_AND", s.reg[d.R1], d.imm)), NEW t,
           Runs(u, << MOVI(Rdw(d), 0) >>, t, junk)
    PROVE  BothDone(d, s, t, "ARM_AND")
<1> DEFINE p == MOVI(Rdw(d), 0)
           xh == s.reg[Wide(d.R1)]
           v == Combined("ARM_AND", s.reg[d.R1], d.imm)
<1>1. t = Skip(u, p, junk)
  BY RunsOne
<1>2. Immediated(p, "ARM_MOV", "AL", Wide(d.Rd1), NOT_USED, 0) /\ Mute(p)
  <2>1. Immediated(p, "ARM_MOV", "AL", Wide(d.Rd1), NOT_USED, 0) /\ p.S = FALSE
    BY MoveMade DEF Rdw
  <2> QED BY <2>1 DEF Mute
<1> HIDE DEF p
<1>3. Proc(u) /\ u.reg[d.Rd1] = v
  BY DEF LowDone
<1> HIDE DEF v
<1>4. Physical(Wide(d.Rd1)) \in Registers /\ 0 \in Word0
  BY BytesNames, BitsOfZero
<1>5. xh \in Word0
  BY BytesNames DEF Proc
<1> HIDE DEF xh
<1>6. Writes(u, t, Wide(d.Rd1), 0)
  BY <1>1, <1>2, <1>3, <1>4, MoveByImmediate
<1>7. t.reg[d.Rd1] = v /\ t.reg[Wide(d.Rd1)] = 0
  BY <1>3, <1>6, BytesNames DEF Writes, Proc
<1>8. Combined("ARM_AND", xh, 0) = 0
  BY <1>5, WithZero DEF Combined
<1> QED BY <1>7, <1>8 DEF BothDone, v, xh

\* ORI and XORI.
LEMMA OrImmediateRight ==
    ASSUME NEW s, Proc(s), NEW d, WithBytes(d), NEW op \in {"ARM_ORR", "ARM_EOR"}, NEW junk, NEW t,
           Runs(s, OrImmediate(d, op), t, junk)
    PROVE  BothDone(d, s, t, op)
<1> DEFINE two == << InstrI(d, op, "AL", d.Rd1, d.R1, NOT_USED, Hi(d.imm)),
                     newInstrI(op, "AL", d.Rd1, d.Rd1, NOT_USED, Lo(d.imm)) >>
           one == << InstrI(d, op, "AL", d.Rd1, d.R1, NOT_USED, d.imm) >>
           L == IF WithoutByte(d.imm) THEN two ELSE one
           H == << MOV(Rdw(d), R1w(d)) >>
<1>1. OrImmediate(d, op) = L \o H
  BY DEF OrImmediate
<1>2. IsList(two) /\ IsList(one) /\ IsList(H)
  BY ListsOfTwo
<1>3. \A u : Runs(s, two, u, junk) \/ Runs(s, one, u, junk)
             => LowDone(d, s, u, Combined(op, s.reg[d.R1], d.imm))
  BY LowInTwo, LowAtOnce DEF LogicOps
<1>4. L = two \/ L = one
  OBVIOUS
<1>5. \A u : Runs(u, H, t, junk) => Runs(u, << MOV(Rdw(d), R1w(d)) >>, t, junk)
  OBVIOUS
<1> HIDE DEF two, one, L, H
<1>6. IsList(L) /\ Runs(s, L \o H, t, junk)
  BY <1>1, <1>2, <1>4
<1>7. PICK u : Runs(s, L, u, junk) /\ Runs(u, H, t, junk)
  BY <1>2, <1>6, RunsJoin
<1>8. LowDone(d, s, u, Combined(op, s.reg[d.R1], d.imm))
  BY <1>3, <1>4, <1>7
<1> QED BY <1>5, <1>7, <1>8, HighCopied

\* ANDI.
LEMMA AndImmediateRight ==
    ASSUME NEW s, Proc(s), NEW d, WithBytes(d), NEW junk, NEW t, Runs(s, ANDI(d), t, junk)
    PROVE  BothDone(d, s, t, "ARM_AND")
<1> DEFINE three == << InstrI(d, "ARM_AND", "AL", SCRATCH0, d.R1, NOT_USED, Hi(d.imm)),
                       newInstrI("ARM_AND", "AL", d.Rd1, d.R1, NOT_USED, Lo(d.imm)),
                       newInstr("ARM_ORR", "AL", d.Rd1, d.Rd1, SCRATCH0) >>
           one == << InstrI(d, "ARM_AND", "AL", d.Rd1, d.R1, NOT_USED, d.imm) >>
           L == IF WithoutByte(d.imm) THEN three ELSE one
           H == << MOVI(Rdw(d), 0) >>
<1>1. ANDI(d) = L \o H
  BY DEF ANDI
<1>2. IsList(three) /\ IsList(one) /\ IsList(H)
  BY ListsOfTwo, ListOfThree
<1>3. \A u : Runs(s, three, u, junk) \/ Runs(s, one, u, junk)
             => LowDone(d, s, u, Combined("ARM_AND", s.reg[d.R1], d.imm))
  BY LowInThree, LowAtOnce DEF LogicOps
<1>4. L = three \/ L = one
  OBVIOUS
<1>5. \A u : Runs(u, H, t, junk) => Runs(u, << MOVI(Rdw(d), 0) >>, t, junk)
  OBVIOUS
<1> HIDE DEF three, one, L, H
<1>6. IsList(L) /\ Runs(s, L \o H, t, junk)
  BY <1>1, <1>2, <1>4
<1>7. PICK u : Runs(s, L, u, junk) /\ Runs(u, H, t, junk)
  BY <1>2, <1>6, RunsJoin
<1>8. LowDone(d, s, u, Combined("ARM_AND", s.reg[d.R1], d.imm))
  BY <1>3, <1>4, <1>7
<1> QED BY <1>5, <1>7, <1>8, HighCleared

LEMMA LogicTranslated ==
    ASSUME NEW i
    PROVE  /\ i.op = "AND" => Translated(i) = Logic(i, "ARM_AND")
           /\ i.op = "OR" => Translated(i) = Logic(i, "ARM_ORR")
           /\ i.op = "XOR" => Translated(i) = Logic(i, "ARM_EOR")
           /\ i.op = "ANDI" => Translated(i) = ANDI(i)
           /\ i.op = "ORI" => Translated(i) = OrImmediate(i, "ARM_ORR")
           /\ i.op = "XORI" => Translated(i) = OrImmediate(i, "ARM_EOR")
<1>1. i.op \in {"AND", "OR", "XOR", "ANDI", "ORI", "XORI"} => Translated(i) = Translate_ALU(i)
  BY DEF Translated, MemoryOps
<1>2. /\ i.op = "AND" => Translate_ALU(i) = Logic(i, "ARM_AND")
      /\ i.op = "OR" => Translate_ALU(i) = Logic(i, "ARM_ORR")
      /\ i.op = "XOR" => Translate_ALU(i) = Logic(i, "ARM_EOR")
  BY DEF Translate_ALU, Traps, TrapsImmediate
<1>3. /\ i.op = "ANDI" => Translate_ALU(i) = ANDI(i)
      /\ i.op = "ORI" => Translate_ALU(i) = OrImmediate(i, "ARM_ORR")
      /\ i.op = "XORI" => Translate_ALU(i) = OrImmediate(i, "ARM_EOR")
  BY DEF Translate_ALU, Traps, TrapsImmediate
<1> QED BY <1>1, <1>2, <1>3

\* What the operations mean.
LEMMA LogicMeaning ==
    ASSUME NEW i, NEW f
    PROVE  /\ i.op = "AND" => BitwiseMeaning(i, f) = Double(BitAnd(f[Wide(i.R1)], f[Wide(i.R2)]),
                                                        BitAnd(f[i.R1], f[i.R2]))
           /\ i.op = "OR" => BitwiseMeaning(i, f) = Double(BitOr(f[Wide(i.R1)], f[Wide(i.R2)]),
                                                        BitOr(f[i.R1], f[i.R2]))
           /\ i.op = "XOR" => BitwiseMeaning(i, f) = Double(BitXor(f[Wide(i.R1)], f[Wide(i.R2)]),
                                                        BitXor(f[i.R1], f[i.R2]))
           /\ i.op = "ANDI" => BitwiseMeaning(i, f) = Double(BitAnd(f[Wide(i.R1)], 0), BitAnd(f[i.R1], i.imm))
           /\ i.op = "ORI" => BitwiseMeaning(i, f) = Double(BitOr(f[Wide(i.R1)], 0), BitOr(f[i.R1], i.imm))
           /\ i.op = "XORI" => BitwiseMeaning(i, f) = Double(BitXor(f[Wide(i.R1)], 0), BitXor(f[i.R1], i.imm))
BY DEF BitwiseMeaning, ZeroImmediate, Low

\* The case of the property for one operation.
LEMMA LogicOne ==
    ASSUME Listed, Done(Bitwise2 \ {"NOR"})
    PROVE  Full(a, I.Rd1) = BitwiseMeaning(I, b)
<1>1. phase = "done" /\ I.op \in {"AND", "OR", "XOR", "ANDI", "ORI", "XORI"}
  BY DEF Done, Bitwise2
<1>2. I.op \in Simple /\ I.op \in Handled \ {"LUI", "SLL"}
  BY <1>1 DEF Simple, ThreeOperand, Immediates, ZeroImmediate, Handled, Computed
<1>3. /\ Bare(I) /\ I.Rd1 \in 0 .. 31
      /\ I.op \in ThreeOperand => I.R1 \in 0 .. 31 /\ I.R2 \in 0 .. 31
      /\ I.op \in ZeroImmediate => I.R1 \in 0 .. 31 /\ I.imm \in 0 .. TwoByte - 1
  <2>1. word \in MipsWord
    BY DEF Listed, Guarded
  <2> QED BY <1>2, <2>1, Fields DEF I
<1>4. /\ Proc(before) /\ \E junk : Runs(before, Translated(I), after, junk)
  BY <1>1, <1>2, Finished
<1>5. PICK junk : Runs(before, Translated(I), after, junk)
  BY <1>4
<1>6. b = before.reg /\ a = after.reg
  BY DEF a, b
<1> HIDE DEF I, a, b
<1>7. CASE I.op \in {"AND", "OR", "XOR"}
  <2>1. ByRegisters(I)
    BY <1>3, <1>7 DEF ByRegisters, ThreeOperand
  <2>2. PICK op \in LogicOps : /\ Translated(I) = Logic(I, op)
                               /\ BitwiseMeaning(I, b) = Double(Combined(op, b[Wide(I.R1)], b[Wide(I.R2)]),
                                                                Combined(op, b[I.R1], b[I.R2]))
    <3>1. CASE I.op = "AND"
      BY <3>1, LogicTranslated, LogicMeaning DEF LogicOps, Combined
    <3>2. CASE I.op = "OR"
      BY <3>2, LogicTranslated, LogicMeaning DEF LogicOps, Combined
    <3>3. CASE I.op = "XOR"
      BY <3>3, LogicTranslated, LogicMeaning DEF LogicOps, Combined
    <3> QED BY <1>7, <3>1, <3>2, <3>3
  <2>3. Runs(before, Logic(I, op), after, junk)
    BY <1>5, <2>2
  <2>4. /\ a[I.Rd1] = Combined(op, b[I.R1], b[I.R2])
        /\ a[Wide(I.Rd1)] = Combined(op, b[Wide(I.R1)], b[Wide(I.R2)])
    BY <1>4, <1>6, <2>1, <2>3, LogicRegistersRight
  <2> QED BY <2>2, <2>4 DEF Full
<1>8. CASE I.op \in {"ANDI", "ORI", "XORI"}
  <2>1. WithBytes(I)
    BY <1>3, <1>8 DEF WithBytes, ZeroImmediate
  <2>2. PICK op \in LogicOps : /\ BothDone(I, before, after, op)
                               /\ BitwiseMeaning(I, b) = Double(Combined(op, b[Wide(I.R1)], 0),
                                                                Combined(op, b[I.R1], I.imm))
    <3>1. CASE I.op = "ANDI"
      <4>1. BothDone(I, before, after, "ARM_AND")
        BY <1>4, <1>5, <2>1, <3>1, LogicTranslated, AndImmediateRight
      <4> QED BY <3>1, <4>1, LogicMeaning DEF LogicOps, Combined
    <3>2. CASE I.op = "ORI"
      <4>1. BothDone(I, before, after, "ARM_ORR")
        BY <1>4, <1>5, <2>1, <3>2, LogicTranslated, OrImmediateRight
      <4> QED BY <3>2, <4>1, LogicMeaning DEF LogicOps, Combined
    <3>3. CASE I.op = "XORI"
      <4>1. BothDone(I, before, after, "ARM_EOR")
        BY <1>4, <1>5, <2>1, <3>3, LogicTranslated, OrImmediateRight
      <4> QED BY <3>3, <4>1, LogicMeaning DEF LogicOps, Combined
    <3> QED BY <1>8, <3>1, <3>2, <3>3
  <2> QED BY <1>6, <2>2 DEF BothDone, Full
<1> QED BY <1>1, <1>7, <1>8

\* LUI: the literal that is loaded, and what the operation means.
LEMMA LuiValue ==
    ASSUME NEW i, i.imm \in 0 .. TwoByte - 1
    PROVE  /\ i.imm * 2^ImmBits \in Word0
           /\ (i.imm * 2^ImmBits) % Words = i.imm * 2^ImmBits
           /\ LuiMeaning(i) % Words = i.imm * 2^ImmBits
<1> DEFINE n == i.imm * 2^ImmBits
           h == IF i.imm >= 2^(ImmBits - 1) THEN Words - 1 ELSE 0
           D == SignedDouble(Double(h, n))
<1>1. /\ TwoByte \in Nat \ {0} /\ Words \in Nat \ {0} /\ Words = TwoByte * TwoByte
      /\ 2^ImmBits = TwoByte /\ Doubles \in Nat \ {0} /\ Doubles = Words * Words /\ i.imm \in Int
  BY Sizes
<1>2. n = i.imm * TwoByte
  BY <1>1
<1>3. n \in 0 .. Words - 1
  <2>1. n \in Int /\ n >= 0 /\ i.imm <= TwoByte - 1
    BY <1>1, <1>2
  <2>2. i.imm * TwoByte <= (TwoByte - 1) * TwoByte
    BY <1>1, <2>1
  <2>3. (TwoByte - 1) * TwoByte = Words - TwoByte
    BY <1>1
  <2> QED BY <1>1, <1>2, <2>1, <2>2, <2>3
<1>4. h \in 0 .. Words - 1
  BY <1>1
<1>5. LuiMeaning(i) = D % Doubles
  BY DEF LuiMeaning, InDouble, Doubles
<1> HIDE DEF n, h
<1>6. D = Signed(h) * Words + n /\ Signed(h) \in Int /\ D \in Int
  <2>1. h \in Word0 /\ n \in Word0
    BY <1>3, <1>4 DEF Word0
  <2>2. Signed(h) \in Int
    BY <2>1, SignedFacts, Sizes
  <2> QED BY <2>1, <2>2, DoubleFacts
<1> HIDE DEF D
<1> DEFINE q == D \div Doubles
           r == D % Doubles
<1>7. q \in Int /\ r \in Int /\ D = q * Doubles + r
  <2>1. D \in Int /\ Doubles \in Nat \ {0}
    BY <1>1, <1>6
  <2>2. q \in Int /\ r \in 0 .. Doubles - 1 /\ D = q * Doubles + r
    BY <2>1, DivMod
  <2> QED BY <2>1, <2>2
<1> HIDE DEF q, r
<1> DEFINE m == Signed(h) - q * Words
<1>8. m \in Int /\ r = n + m * Words
  <2>1. q * Doubles = (q * Words) * Words
    BY <1>1, <1>7
  <2>2. q * Words \in Int
    BY <1>1, <1>7
  <2>3. m * Words = Signed(h) * Words - (q * Words) * Words
    BY <1>1, <1>6, <2>2
  <2>4. Signed(h) * Words \in Int /\ (q * Words) * Words \in Int /\ n \in Int
    BY <1>1, <1>3, <1>6, <2>2
  <2> QED BY <1>6, <1>7, <2>1, <2>2, <2>3, <2>4
<1> HIDE DEF m
<1>9. r % Words = n % Words /\ n % Words = n
  <2>1. n \in Int /\ m \in Int /\ Words \in Nat \ {0}
    BY <1>1, <1>3, <1>8
  <2>2. (n + m * Words) % Words = n % Words
    BY <2>1, Multiples
  <2>3. n % Words = n
    BY <1>1, <1>3, Small
  <2> QED BY <1>8, <2>2, <2>3
<1> QED BY <1>3, <1>5, <1>9 DEF n, r, Word0

LEMMA LuiOne ==
    ASSUME Listed, Done({"LUI"}), WithoutByte(I.imm)
    PROVE  Low(a, I.Rd1) = LuiMeaning(I) % Words
<1>1. phase = "done" /\ I.op = "LUI"
  BY DEF Done
<1>2. I.op \in Simple /\ I.op \in Handled
  BY <1>1 DEF Simple, Immediates, Handled
<1>3. Bare(I) /\ I.Rd1 \in 0 .. 31 /\ I.imm \in 0 .. TwoByte - 1
  <2>1. word \in MipsWord
    BY DEF Listed, Guarded
  <2> QED BY <1>1, <1>2, <2>1, Fields DEF I
<1>4. PICK reg \in Files, junk \in Junk :
        before = Machine(reg, junk) /\ after = Execute(before, code, junk)
  BY <1>1 DEF Listed
<1>5. Proc(before)
  BY <1>4, MachineProc
<1>6. code = Emitted(Translated(I))
  BY <1>1, <1>2 DEF Listed
<1>7. a = after.reg
  BY DEF a
<1> HIDE DEF I, a
<1> DEFINE n == (I.imm * 2^ImmBits) % Words
           p == InstrI(I, "ARM_LDR_LIT", "AL", I.Rd1, NOT_USED, NOT_USED, n)
           L == << p >>
<1>8. Translated(I) = L
  <2>1. Translated(I) = Translate_Constants(I)
    BY <1>1 DEF Translated, MemoryOps
  <2>2. I.op = "LUI" /\ WithoutByte(I.imm)
    BY <1>1
  <2>3. Translate_Constants(I) =
          << InstrI(I, "ARM_LDR_LIT", "AL", I.Rd1, NOT_USED, NOT_USED, (I.imm * 2^ImmBits) % Words) >>
    BY <2>2 DEF Translate_Constants
  <2> QED BY <2>1, <2>3
<1>9. n \in Word0 /\ LuiMeaning(I) % Words = n
  BY <1>3, LuiValue
<1> HIDE DEF n
<1>10. p.op = "ARM_LDR_LIT" /\ p.cond = "AL" /\ p.Rd1 = I.Rd1 /\ p.imm = n
  <2>1. ~(n < 0)
    BY <1>9, Sizes DEF Word0
  <2>2. p = [I EXCEPT !.op = "ARM_LDR_LIT", !.cond = "AL", !.Rd1 = I.Rd1, !.R1 = NOT_USED,
                      !.R2 = NOT_USED, !.I = TRUE, !.S = FALSE, !.Ln = FALSE, !.imm = n, !.U = I.U]
    BY <2>1 DEF InstrI
  <2> HIDE DEF p
  <2> QED BY <1>3, <2>2 DEF Bare, Shaped, newEmptyInstr
<1> HIDE DEF p
<1>11. IsList(L) /\ Len(L) = 1 /\ L[1] = p
  BY Single
<1> HIDE DEF L
<1>12. \A k \in 1 .. Len(L) : Dropped(L[k]) <=> L[k].op = "NO_OP"
  <2>1. p.op \in Encoded
    BY <1>10 DEF Encoded, LoadOps
  <2> QED BY <1>11, <2>1, Settled
<1>13. Runs(before, L, after, junk)
  BY <1>4, <1>6, <1>8, <1>11, <1>12, Through
<1>14. after = Skip(before, p, junk)
  BY <1>13, RunsOne DEF L
<1>15. Skip(before, p, junk) = Load(before, p)
  <2>1. ~(before.stopped \/ ~Holds(before, p.cond))
    BY <1>5, <1>10 DEF Proc, Holds
  <2>2. p.op \notin DataOps /\ p.op \in LoadOps /\ p.op # "NO_OP"
    BY <1>10 DEF DataOps, LoadOps
  <2>3. Skip(before, p, junk) = Step(before, p, junk)
    BY <2>2 DEF Skip
  <2>4. Step(before, p, junk) = Load(before, p)
    BY <1>10, <2>1, <2>2 DEF Step
  <2> QED BY <2>3, <2>4
<1>16. Load(before, p) = [before EXCEPT !.reg[Physical(I.Rd1)] = n]
  BY <1>10 DEF Load
<1>17. I.Rd1 \in Registers /\ Physical(I.Rd1) = I.Rd1
  BY <1>3, RegisterNames
<1>18. after.reg = [before.reg EXCEPT ![I.Rd1] = n]
  BY <1>5, <1>14, <1>15, <1>16, <1>17, IdleFields DEF Proc
<1>19. after.reg[I.Rd1] = n
  BY <1>5, <1>17, <1>18 DEF Proc
<1> QED BY <1>7, <1>9, <1>19 DEF Low

\* AND, OR and XOR leave in both words of their target the operands combined bit
\* by bit; an immediate clears the high word (ANDI) or keeps it (ORI, XORI), also
\* where it takes two instructions and the target is the operand; and LUI leaves
\* its immediate in the upper half of the word, where no byte can give it.
THEOREM LogicIsRight == Spec => []LogicRight
<1>1. Listed => LogicRight
  <2> SUFFICES ASSUME Listed PROVE LogicRight
    OBVIOUS
  <2> QED BY LogicOne, LuiOne DEF LogicRight
<1> QED BY <1>1, AlwaysListed, PTL

=============================================================================
