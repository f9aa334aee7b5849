--------------------------- MODULE CounterProofs ---------------------------
(***************************************************************************)
(* The arithmetic of unsigned counters that wrap around, as the rings of   *)
(* pipe.c and console.c use them.                                          *)
(***************************************************************************)
EXTENDS Integers, TLAPS

\* A multiple of w that lies strictly between -w and w is zero.
LEMMA SmallMultiple ==
    ASSUME NEW w \in Nat \ {0}, NEW k \in Int, -w < w * k, w * k < w
    PROVE  k = 0
<1>1. CASE k >= 1
  <2>1. w * k >= w
    BY <1>1, SMTT(20)
  <2> QED
    BY <2>1
<1>2. CASE k <= -1
  <2>1. w * k <= -w
    BY <1>2, SMTT(20)
  <2> QED
    BY <2>1
<1> QED
  BY <1>1, <1>2

\* Quotient and remainder, as % is defined.
LEMMA DivMod ==
    ASSUME NEW w \in Nat \ {0}, NEW a \in Int
    PROVE  /\ a % w \in 0 .. w - 1 /\ a \div w \in Int
           /\ a = w * (a \div w) + (a % w)
  BY SMTT(20)

\* The remainder is the only number below w from which a differs by a
\* multiple of w.
LEMMA ModUnique ==
    ASSUME NEW w \in Nat \ {0}, NEW a \in Int, NEW k \in Int, NEW r \in 0 .. w - 1,
           a = w * k + r
    PROVE  a % w = r
<1> DEFINE s == a % w
           j == a \div w
<1>1. s \in 0 .. w - 1 /\ j \in Int /\ a = w * j + s
  BY DivMod, Zenon
<1> HIDE DEF s, j
<1>2. w * (k - j) = s - r
  BY <1>1, SMTT(20)
<1>3. k - j \in Int /\ -w < w * (k - j) /\ w * (k - j) < w
  BY <1>1, <1>2
<1>4. k - j = 0
  BY <1>3, SmallMultiple, Zenon
<1>5. s = r
  BY <1>1, <1>4
<1> QED
  BY <1>5, Zenon DEF s

\* Remainders of numbers less than two turns away.
LEMMA ModNear ==
    ASSUME NEW w \in Nat \ {0}, NEW a \in Int
    PROVE  /\ a \in 0 .. w - 1 => a % w = a
           /\ a \in w .. 2 * w - 1 => a % w = a - w
           /\ a \in -w .. -1 => a % w = a + w
<1>1. ASSUME a \in 0 .. w - 1 PROVE a % w = a
  <2>1. a = w * 0 + a
    OBVIOUS
  <2> QED
    BY <1>1, <2>1, ModUnique
<1>2. ASSUME a \in w .. 2 * w - 1 PROVE a % w = a - w
  <2>1. a = w * 1 + (a - w) /\ a - w \in 0 .. w - 1
    BY <1>2
  <2> QED
    BY <2>1, ModUnique
<1>3. ASSUME a \in -w .. -1 PROVE a % w = a + w
  <2>1. a = w * (-1) + (a + w) /\ a + w \in 0 .. w - 1
    BY <1>3
  <2> QED
    BY <2>1, ModUnique
<1> QED
  BY <1>1, <1>2, <1>3, Zenon

\* A counter that advances by less than one turn.
LEMMA ModTurn ==
    ASSUME NEW w \in Nat \ {0}, NEW i \in Int, NEW k \in Int, NEW j, j = (i + k) % w
    PROVE  /\ i + k \in 0 .. w - 1 => j = i + k
           /\ i + k \in w .. 2 * w - 1 => j = i + k - w
<1> DEFINE sum == i + k
<1>1. sum \in Int /\ j = sum % w
  OBVIOUS
<1> HIDE DEF sum
<1>2. /\ sum \in 0 .. w - 1 => j = sum
      /\ sum \in w .. 2 * w - 1 => j = sum - w
  BY <1>1, ModNear, Zenon
<1> QED
  BY <1>2 DEF sum

\* Two numbers less than one turn apart have different remainders.
LEMMA ModDistinct ==
    ASSUME NEW w \in Nat \ {0}, NEW a \in Int, NEW b \in Int,
           a % w = b % w, a - b < w, b - a < w
    PROVE  a = b
<1> DEFINE r == a % w
           j == a \div w
           k == b \div w
<1>1. r \in 0 .. w - 1 /\ j \in Int /\ k \in Int /\ a = w * j + r /\ b = w * k + r
  BY DivMod, Zenon
<1> HIDE DEF r, j, k
<1>2. w * (j - k) = a - b
  BY <1>1, SMTT(20)
<1>3. j - k \in Int /\ -w < w * (j - k) /\ w * (j - k) < w
  BY <1>1, <1>2
<1>4. j - k = 0
  BY <1>3, SmallMultiple, Zenon
<1>5. j = k
  BY <1>1, <1>4
<1> QED
  BY <1>1, <1>5, Zenon

\* Reducing first modulo a multiple of the size of the ring changes nothing.
LEMMA ModMod ==
    ASSUME NEW s \in Nat \ {0}, NEW w \in Nat \ {0}, w % s = 0, NEW a \in Int
    PROVE  (a % w) % s = a % s
<1> DEFINE m == w \div s
           r == a % w
           k == a \div w
           t == r % s
           j == r \div s
<1>1. m \in Int /\ w = s * m
  BY DivMod
<1>2. r \in 0 .. w - 1 /\ k \in Int /\ a = w * k + r
  BY DivMod, Zenon
<1>3. t \in 0 .. s - 1 /\ j \in Int /\ r = s * j + t
  BY <1>2, DivMod
<1> HIDE DEF m, r, k, t, j
<1>4. a = s * (m * k + j) + t
  <2>1. w * k = s * (m * k)
    BY <1>1, <1>2, SMTT(20)
  <2>2. m * k \in Int
    BY <1>1, <1>2
  <2> DEFINE x == m * k
  <2>3. x \in Int /\ a = s * x + (s * j + t)
    BY <2>1, <2>2, <1>2, <1>3
  <2> HIDE DEF x
  <2>4. a = s * (x + j) + t
    BY <2>3, <1>3, SMTT(20)
  <2> QED
    BY <2>4, Zenon DEF x
<1>5. m * k + j \in Int
  BY <1>1, <1>2, <1>3
<1>6. a % s = t
  BY <1>3, <1>4, <1>5, ModUnique
<1> QED
  BY <1>6, Zenon DEF t, r

\* Reducing a number before adding to it, or subtracting from it, changes nothing.
LEMMA ModAdd ==
    ASSUME NEW w \in Nat \ {0}, NEW a \in Int, NEW b \in Int
    PROVE  ((a % w) + b) % w = (a + b) % w
<1> DEFINE r == a % w
           k == a \div w
           t == (r + b) % w
           j == (r + b) \div w
<1>1. r \in 0 .. w - 1 /\ k \in Int /\ a = w * k + r
  BY DivMod
<1>2. r + b \in Int
  BY <1>1
<1>3. t \in 0 .. w - 1 /\ j \in Int /\ r + b = w * j + t
  BY <1>2, DivMod
<1> HIDE DEF r, k, t, j
<1>4. a + b = w * (k + j) + t /\ a + b \in Int /\ k + j \in Int
  <2>1. a + b = w * k + (w * j + t)
    BY <1>1, <1>3
  <2>2. w * (k + j) = w * k + w * j
    BY <1>1, <1>3, SMTT(20)
  <2> QED
    BY <1>1, <1>3, <2>1, <2>2
<1>5. (a + b) % w = t
  BY <1>3, <1>4, ModUnique
<1> QED
  BY <1>5 DEF t, r

\* The same of a number that is subtracted.
LEMMA ModSubtract ==
    ASSUME NEW w \in Nat \ {0}, NEW a \in Int, NEW b \in Int
    PROVE  (b - (a % w)) % w = (b - a) % w
<1> DEFINE r == a % w
           k == a \div w
           t == (b - r) % w
           j == (b - r) \div w
<1>1. r \in 0 .. w - 1 /\ k \in Int /\ a = w * k + r
  BY DivMod
<1>2. b - r \in Int
  BY <1>1
<1>3. t \in 0 .. w - 1 /\ j \in Int /\ b - r = w * j + t
  BY <1>2, DivMod
<1> HIDE DEF r, k, t, j
<1>4. b - a = w * (j - k) + t /\ b - a \in Int /\ j - k \in Int
  <2>1. b - a = w * j + t - w * k
    BY <1>1, <1>3
  <2>2. w * (j - k) = w * j - w * k
    BY <1>1, <1>3, SMTT(20)
  <2> QED
    BY <1>1, <1>3, <2>1, <2>2
<1>5. (b - a) % w = t
  BY <1>3, <1>4, ModUnique
<1> QED
  BY <1>5 DEF t, r
============================================================================
