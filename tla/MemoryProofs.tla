---------------------------- MODULE MemoryProofs ----------------------------
(***************************************************************************)
(* Proofs about Memory, for any sizes of words, headers and heap.          *)
(***************************************************************************)
EXTENDS Memory, FiniteSetTheorems, WellFoundedInduction, NaturalsInduction, TLAPS

-----------------------------------------------------------------------------
(* Numbers and their bytes *)

\* Division by a positive number.
LEMMA Division ==
  ASSUME NEW v \in Int, NEW d \in Nat \ {0}
  PROVE  v = d * (v \div d) + (v % d) /\ v % d \in 0 .. d - 1 /\ v \div d \in Int
OBVIOUS

\* There is only one quotient.
LEMMA OneQuotient ==
  ASSUME NEW d \in Nat \ {0}, NEW q \in Int, NEW r \in 0 .. d - 1,
         NEW p \in Int, NEW s \in 0 .. d - 1, d * q + r = d * p + s
  PROVE  q = p /\ r = s
<1>1. d * (q - p) = s - r
  BY SMT
<1>2. ASSUME q - p >= 1 PROVE FALSE
  <2>1. d * (q - p) >= d
    BY <1>2, SMT
  <2>2. QED
    BY <2>1, <1>1
<1>3. ASSUME q - p <= -1 PROVE FALSE
  <2>1. d * (q - p) <= -d
    BY <1>3, SMT
  <2>2. QED
    BY <2>1, <1>1
<1>4. q = p
  BY <1>2, <1>3
<1>5. QED
  BY <1>4

\* A quotient and a remainder in range are those of the division.
LEMMA Divided ==
  ASSUME NEW v \in Int, NEW d \in Nat \ {0}, NEW q \in Int, NEW r \in 0 .. d - 1,
         v = d * q + r
  PROVE  v \div d = q /\ v % d = r
BY Division, OneQuotient

\* One digit more of a number.
LEMMA NextDigit ==
  ASSUME NEW v \in Int, NEW p \in Nat \ {0}, NEW b \in Nat \ {0}
  PROVE  /\ b * p \in Nat \ {0}
         /\ v % (b * p) = (v % p) + ((v \div p) % b) * p
         /\ (v \div p) % b \in 0 .. b - 1 /\ v % p \in 0 .. p - 1
<1> DEFINE q == v \div p
           r == v % p
           t == q \div b
           d == q % b
<1>1. v = p * q + r /\ r \in 0 .. p - 1 /\ q \in Int
  BY Division
<1>2. q = b * t + d /\ d \in 0 .. b - 1 /\ t \in Int
  BY <1>1, Division
<1> HIDE DEF q, r, t, d
<1>3. b * p \in Nat \ {0}
  BY SMT
<1>4. v = (b * p) * t + (r + d * p)
  <2>1. p * (b * t + d) = (b * p) * t + d * p
    BY <1>2, SMT
  <2>2. d * p \in Int
    BY <1>2, SMT
  <2>3. QED
    BY <1>1, <1>2, <2>1, <2>2
<1>5. r + d * p \in 0 .. b * p - 1
  <2>1. d * p \in Nat /\ d * p <= (b - 1) * p
    BY <1>2, SMT
  <2>2. (b - 1) * p = b * p - p
    BY SMT
  <2>3. QED
    BY <2>1, <2>2, <1>1, <1>3
<1>6. v % (b * p) = r + d * p
  BY <1>3, <1>4, <1>5, <1>2, Divided
<1>7. QED
  BY <1>1, <1>2, <1>3, <1>6 DEF q, r, t, d

\* A nonempty set of natural numbers has a least element.
LEMMA Least ==
  ASSUME NEW T \in SUBSET Nat, T # {}
  PROVE  \E x \in T : \A y \in T : x <= y
<1> DEFINE R == {ss \in Nat \X Nat : ss[1] < ss[2]}
<1>1. IsWellFoundedOn(R, Nat)
  BY NatLessThanWellFounded DEF OpToRel
<1>2. \A x, y \in T : <<y, x>> \in R <=> y < x
  OBVIOUS
<1> HIDE DEF R
<1>3. PICK x \in T : \A y \in T : ~ (<<y, x>> \in R)
  BY <1>1, WFMin
<1>4. \A y \in T : ~ (y < x)
  BY <1>2, <1>3
<1>5. QED
  BY <1>4

\* The bytes of the values there are.
Widths == 1 .. 2 * ALIGN + STACKABLE

\* The weights of the bytes.
LEMMA Powers ==
  /\ ByteTop \in Nat \ {0} /\ Base \in Nat \ {0} /\ Base = 2 * ByteTop
  /\ Base ^ 0 = 1
  /\ \A n \in Widths : /\ n \in Nat \ {0}
                       /\ \A k \in 0 .. n : Base ^ k \in Nat \ {0}
                       /\ \A k \in 1 .. n : Base ^ k = Base * Base ^ (k - 1)
<1>1. /\ ALIGN \in Nat /\ STACKABLE \in Nat /\ ByteTop \in Nat \ {0}
      /\ Base \in Nat \ {0} /\ Base = 2 * ByteTop /\ Base ^ 0 = 1
  BY MemoryAssumption, PowersAssumption DEF Base
<1> DEFINE N == 2 * ALIGN + STACKABLE
<1>2. N \in Nat
  BY <1>1
<1>3. ASSUME NEW k \in 1 .. N PROVE Base ^ k = Base * Base ^ (k - 1) /\ Base ^ (k - 1) \in Nat
  <2>1. k - 1 \in 0 .. N /\ (k - 1) + 1 = k
    BY <1>2
  <2>2. QED
    BY <2>1, PowersAssumption
<1> HIDE DEF N
<1>4. \A k \in 0 .. N : Base ^ k \in Nat \ {0}
  <2> DEFINE T == {k \in 0 .. N : Base ^ k \notin Nat \ {0}}
  <2>1. SUFFICES ASSUME T # {} PROVE FALSE
    OBVIOUS
  <2>2. T \in SUBSET Nat
    BY <1>2
  <2> HIDE DEF T
  <2>3. PICK k \in T : \A j \in T : k <= j
    BY <2>1, <2>2, Least
  <2>4. k \in 0 .. N /\ Base ^ k \notin Nat \ {0}
    BY DEF T
  <2>5. k # 0
    BY <2>4, <1>1
  <2>6. k - 1 \in 0 .. N /\ ~ (k <= k - 1)
    BY <2>4, <2>5, <1>2
  <2>7. Base ^ (k - 1) \in Nat \ {0}
    BY <2>3, <2>6 DEF T
  <2> DEFINE q == Base ^ (k - 1)
  <2>8. Base ^ k = Base * q
    BY <1>3, <2>4, <2>5, <1>2
  <2> HIDE DEF q
  <2>9. Base * q \in Nat \ {0}
    BY <2>7, <1>1 DEF q
  <2>10. QED
    BY <2>8, <2>9, <2>4
<1>5. ASSUME NEW n \in Widths
      PROVE  /\ n \in Nat \ {0}
             /\ \A k \in 0 .. n : k \in 0 .. N
             /\ \A k \in 1 .. n : k \in 1 .. N
  BY <1>2 DEF Widths, N
<1>6. QED
  BY <1>1, <1>3, <1>4, <1>5

\* The partial sums that Number is defined by.
Sums(bytes, f) ==
  f = [k \in 0 .. Len(bytes) |-> IF k = 0 THEN 0 ELSE f[k - 1] + bytes[k] * Base ^ (k - 1)]

UpTo(bytes) == CHOOSE f : Sums(bytes, f)

\* Number is the last sum, less the weight of the sign.
LEMMA NumberIsLastSum ==
  ASSUME NEW bytes
  PROVE  Number(bytes) = IF bytes[Len(bytes)] >= ByteTop
                         THEN UpTo(bytes)[Len(bytes)] - Base ^ Len(bytes)
                         ELSE UpTo(bytes)[Len(bytes)]
BY DEF Number, UpTo, Sums

\* The sums are determined by the bytes.
LEMMA SumsUnique ==
  ASSUME NEW bytes \in Seq(Byte), NEW f, NEW g, Sums(bytes, f), Sums(bytes, g)
  PROVE  f = g
<1> DEFINE n == Len(bytes)
           T == {k \in 0 .. n : f[k] # g[k]}
<1>1. n \in Nat
  OBVIOUS
<1>2. /\ f = [k \in 0 .. n |-> IF k = 0 THEN 0 ELSE f[k - 1] + bytes[k] * Base ^ (k - 1)]
      /\ g = [k \in 0 .. n |-> IF k = 0 THEN 0 ELSE g[k - 1] + bytes[k] * Base ^ (k - 1)]
  BY DEF Sums
<1> HIDE DEF n
<1>3. /\ f[0] = 0 /\ g[0] = 0
      /\ \A k \in 1 .. n : f[k] = f[k - 1] + bytes[k] * Base ^ (k - 1)
      /\ \A k \in 1 .. n : g[k] = g[k - 1] + bytes[k] * Base ^ (k - 1)
  BY <1>1, <1>2
<1>4. T = {}
  <2>1. SUFFICES ASSUME T # {} PROVE FALSE
    OBVIOUS
  <2>2. T \in SUBSET Nat
    BY <1>1
  <2> HIDE DEF T
  <2>3. PICK k \in T : \A j \in T : k <= j
    BY <2>1, <2>2, Least
  <2>4. k \in 0 .. n /\ f[k] # g[k]
    BY DEF T
  <2>5. k \in 1 .. n /\ k - 1 \in 0 .. n /\ ~ (k <= k - 1)
    BY <2>4, <1>3, <1>1
  <2>6. f[k - 1] = g[k - 1]
    BY <2>3, <2>5 DEF T
  <2>7. QED
    BY <2>4, <2>5, <2>6, <1>3
<1>5. \A k \in 0 .. n : f[k] = g[k]
  BY <1>4
<1>6. DOMAIN f = 0 .. n /\ DOMAIN g = 0 .. n
  BY <1>2
<1>7. f = [k \in 0 .. n |-> f[k]] /\ g = [k \in 0 .. n |-> g[k]]
  BY <1>2, <1>6
<1>8. QED
  BY <1>5, <1>7

\* Bytes are a sequence of bytes.
LEMMA BytesOfType ==
  ASSUME NEW v \in Int, NEW n \in Widths
  PROVE  /\ BytesOf(v, n) \in Seq(Byte) /\ Len(BytesOf(v, n)) = n
         /\ \A k \in 1 .. n : BytesOf(v, n)[k] = (v \div Base ^ (k - 1)) % Base
         /\ \A k \in 1 .. n : BytesOf(v, n)[k] \in Byte
<1>1. n \in Nat /\ Base \in Nat \ {0}
  BY Powers
<1>2. ASSUME NEW k \in 1 .. n
      PROVE  (v \div Base ^ (k - 1)) % Base \in Byte
  <2>1. k - 1 \in 0 .. n
    BY <1>1
  <2> DEFINE p == Base ^ (k - 1)
  <2>2. p \in Nat \ {0}
    BY <2>1, Powers
  <2> HIDE DEF p
  <2> DEFINE q == v \div p
  <2>3. q \in Int
    BY <2>2, Division
  <2> HIDE DEF q
  <2>4. q % Base \in Byte
    BY <2>3, <1>1, Division DEF Byte
  <2>5. QED
    BY <2>4 DEF q, p
<1>3. BytesOf(v, n) \in [1 .. n -> Byte]
  BY <1>2 DEF BytesOf
<1>4. \A k \in 1 .. n : BytesOf(v, n)[k] = (v \div Base ^ (k - 1)) % Base
  BY DEF BytesOf
<1> DEFINE b == BytesOf(v, n)
<1> HIDE DEF b
<1>5. b \in [1 .. n -> Byte]
  BY <1>3 DEF b
<1>6. b \in Seq(Byte) /\ Len(b) = n
  BY <1>1, <1>5
<1>7. QED
  BY <1>4, <1>5, <1>6 DEF b

\* The sums of the bytes of v are its remainders.
LEMMA SumsOfBytes ==
  ASSUME NEW v \in Int, NEW n \in Widths
  PROVE  Sums(BytesOf(v, n), [k \in 0 .. n |-> v % Base ^ k])
<1> DEFINE b == BytesOf(v, n)
           f == [k \in 0 .. n |-> v % Base ^ k]
<1>1. n \in Nat /\ Base \in Nat \ {0} /\ Base ^ 0 = 1
  BY Powers
<1>2. Len(b) = n /\ \A k \in 1 .. n : b[k] = (v \div Base ^ (k - 1)) % Base
  BY BytesOfType
<1>3. ASSUME NEW k \in 1 .. n
      PROVE  v % Base ^ k = (v % Base ^ (k - 1)) + b[k] * Base ^ (k - 1)
  <2> DEFINE p == Base ^ (k - 1)
  <2>1. p \in Nat \ {0} /\ Base ^ k = Base * p
    <3>1. k - 1 \in 0 .. n
      BY <1>1
    <3>2. QED
      BY <3>1, Powers
  <2> HIDE DEF p
  <2>2. v % (Base * p) = (v % p) + ((v \div p) % Base) * p
    BY <2>1, <1>1, NextDigit
  <2>3. b[k] = (v \div p) % Base
    BY <1>2 DEF p
  <2>4. v % Base ^ k = (v % p) + b[k] * p
    BY <2>1, <2>2, <2>3
  <2>5. QED
    BY <2>4 DEF p
<1>4. v % Base ^ 0 = 0
  <2>1. v = 1 * v + 0 /\ 0 \in 0 .. 1 - 1 /\ 1 \in Nat \ {0}
    OBVIOUS
  <2>2. v % 1 = 0
    BY <2>1, Divided
  <2>3. QED
    BY <2>2, <1>1
<1> HIDE DEF b
<1>5. f = [k \in 0 .. n |-> IF k = 0 THEN 0 ELSE f[k - 1] + b[k] * Base ^ (k - 1)]
  <2>1. ASSUME NEW k \in 0 .. n
        PROVE  v % Base ^ k = IF k = 0 THEN 0 ELSE f[k - 1] + b[k] * Base ^ (k - 1)
    <3>1. CASE k = 0
      BY <3>1, <1>4
    <3>2. CASE k # 0
      <4>1. k \in 1 .. n /\ k - 1 \in 0 .. n
        BY <3>2, <1>1
      <4>2. f[k - 1] = v % Base ^ (k - 1)
        BY <4>1
      <4>3. QED
        BY <4>1, <4>2, <1>3, <3>2
    <3>3. QED
      BY <3>1, <3>2
  <2>2. QED
    BY <2>1
<1>6. QED
  BY <1>2, <1>5 DEF Sums, b

\* v cut to a signed number of 2 * half values.
Signed(half, v) == IF v % (2 * half) >= half THEN (v % (2 * half)) - 2 * half ELSE v % (2 * half)

\* The sign bit of a number of n bytes.
Half(n) == ByteTop * Base ^ (n - 1)

\* The sign bit of a number of n bytes, and what fits above it.
LEMMA HalfType ==
  ASSUME NEW n \in Widths
  PROVE  Half(n) \in Nat \ {0} /\ Base ^ n = 2 * Half(n)
<1> DEFINE p == Base ^ (n - 1)
<1>1. n \in Nat \ {0} /\ ByteTop \in Nat \ {0} /\ Base = 2 * ByteTop
  BY Powers
<1>2. n - 1 \in 0 .. n /\ n \in 1 .. n
  BY <1>1
<1>3. p \in Nat \ {0} /\ Base ^ n = Base * p
  BY <1>2, Powers
<1> HIDE DEF p
<1>4. ByteTop * p \in Nat \ {0} /\ (2 * ByteTop) * p = 2 * (ByteTop * p)
  BY <1>1, <1>3, SMT
<1>5. QED
  BY <1>1, <1>3, <1>4 DEF Half, p

\* Reading the bytes of v gives v cut to their width.
LEMMA NumberOfBytes ==
  ASSUME NEW v \in Int, NEW n \in Widths
  PROVE  Number(BytesOf(v, n)) = Signed(Half(n), v)
<1> DEFINE b == BytesOf(v, n)
           f == [k \in 0 .. n |-> v % Base ^ k]
           p == Base ^ (n - 1)
           d == (v \div p) % Base
<1>1. n \in Nat \ {0} /\ ByteTop \in Nat \ {0} /\ Base = 2 * ByteTop /\ Base \in Nat \ {0}
  BY Powers
<1>2. b \in Seq(Byte) /\ Len(b) = n /\ b[n] = d
  <2>1. n \in 1 .. n
    BY <1>1
  <2>2. BytesOf(v, n)[n] = (v \div Base ^ (n - 1)) % Base
    BY <2>1, BytesOfType
  <2>3. QED
    BY <2>2, BytesOfType
<1>3. Sums(b, f)
  BY SumsOfBytes
<1>4. UpTo(b) = f
  <2>1. Sums(b, UpTo(b))
    BY <1>3, Zenon DEF UpTo
  <2> HIDE DEF b, f
  <2>2. QED
    BY <1>2, <1>3, <2>1, SumsUnique
<1>5. UpTo(b)[n] = v % Base ^ n
  BY <1>4, <1>1
<1>6. Number(b) = IF d >= ByteTop THEN (v % Base ^ n) - Base ^ n ELSE v % Base ^ n
  BY <1>2, <1>5, NumberIsLastSum
<1>7. Half(n) \in Nat \ {0} /\ Base ^ n = 2 * Half(n)
  BY HalfType
<1>8. d >= ByteTop <=> v % Base ^ n >= Half(n)
  <2>1. n - 1 \in 0 .. n /\ n \in 1 .. n
    BY <1>1
  <2>2. p \in Nat \ {0} /\ Base ^ n = Base * p
    BY <2>1, Powers
  <2> HIDE DEF p
  <2>3. v % (Base * p) = (v % p) + d * p /\ d \in 0 .. Base - 1 /\ v % p \in 0 .. p - 1
    BY <2>2, <1>1, NextDigit
  <2> HIDE DEF d
  <2>4. Half(n) = ByteTop * p
    BY DEF Half, p
  <2>5. ASSUME d >= ByteTop PROVE d * p >= ByteTop * p
    BY <2>5, <2>2, <2>3, <1>1, SMT
  <2>6. ASSUME d < ByteTop PROVE d * p <= ByteTop * p - p
    <3>1. d * p <= (ByteTop - 1) * p
      BY <2>6, <2>2, <2>3, <1>1, SMT
    <3>2. (ByteTop - 1) * p = ByteTop * p - p
      BY <2>2, <1>1, SMT
    <3>3. QED
      BY <3>1, <3>2
  <2>7. d * p \in Int /\ ByteTop * p \in Int
    BY <2>2, <2>3, <1>1, SMT
  <2> DEFINE x == d * p
             y == ByteTop * p
             r == v % p
  <2> HIDE DEF x, y, r
  <2>8. /\ x \in Int /\ y \in Int /\ r \in 0 .. p - 1
        /\ d >= ByteTop => x >= y
        /\ d < ByteTop => x <= y - p
    BY <2>3, <2>5, <2>6, <2>7 DEF x, y, r
  <2>9. d >= ByteTop <=> r + x >= y
    BY <2>8, <2>2, <2>3, <1>1
  <2>10. v % Base ^ n = r + x /\ Half(n) = y
    BY <2>2, <2>3, <2>4 DEF x, y, r
  <2>11. QED
    BY <2>9, <2>10
<1>9. QED
  BY <1>6, <1>7, <1>8 DEF Signed

\* A number in range is read as it was stored.
LEMMA SignedFits ==
  ASSUME NEW h \in Nat \ {0}, NEW v \in -h .. h - 1
  PROVE  Signed(h, v) = v
<1>1. CASE v >= 0
  <2>1. v = (2 * h) * 0 + v /\ v \in 0 .. 2 * h - 1 /\ 2 * h \in Nat \ {0}
    BY <1>1
  <2>2. v % (2 * h) = v
    BY <2>1, Divided
  <2>3. QED
    BY <2>2, <1>1 DEF Signed
<1>2. CASE v < 0
  <2>1. v = (2 * h) * (-1) + (v + 2 * h) /\ v + 2 * h \in 0 .. 2 * h - 1 /\ 2 * h \in Nat \ {0}
    BY <1>2
  <2>2. v % (2 * h) = v + 2 * h
    BY <2>1, Divided
  <2>3. QED
    BY <2>2, <1>2 DEF Signed
<1>3. QED
  BY <1>1, <1>2

\* As JavaMemory writes it.
LEMMA SignedIsNarrow ==
  ASSUME NEW h \in Nat \ {0}, NEW v \in Int
  PROVE  Signed(h, v) = ((v + h) % (2 * h)) - h
<1> DEFINE m == 2 * h
           q == v \div m
           r == v % m
<1>1. m \in Nat \ {0}
  OBVIOUS
<1>2. Signed(h, v) = IF r >= h THEN r - m ELSE r
  BY DEF Signed
<1>3. m = 2 * h
  OBVIOUS
<1> HIDE DEF m
<1>4. v = m * q + r /\ r \in 0 .. m - 1 /\ q \in Int
  BY <1>1, Division
<1> HIDE DEF q, r
<1>5. m * q \in Int /\ m * (q + 1) = m * q + m
  BY <1>1, <1>4, SMT
<1>6. CASE r < h
  <2>1. v + h = m * q + (r + h) /\ r + h \in 0 .. m - 1 /\ v + h \in Int
    BY <1>3, <1>4, <1>5, <1>6
  <2>2. (v + h) % m = r + h
    BY <2>1, <1>1, <1>4, Divided
  <2>3. Signed(h, v) = ((v + h) % m) - h
    BY <2>2, <1>2, <1>4, <1>6
  <2>4. QED
    BY <2>3 DEF m
<1>7. CASE r >= h
  <2>1. v + h = m * (q + 1) + (r - h) /\ r - h \in 0 .. m - 1 /\ v + h \in Int /\ q + 1 \in Int
    BY <1>3, <1>4, <1>5, <1>7
  <2>2. (v + h) % m = r - h
    BY <2>1, <1>1, Divided
  <2>3. Signed(h, v) = ((v + h) % m) - h
    BY <2>2, <1>2, <1>3, <1>4, <1>7
  <2>4. QED
    BY <2>3 DEF m
<1>8. QED
  BY <1>4, <1>6, <1>7

\* Whatever the bytes, Number gives a number.
LEMMA NumberType ==
  ASSUME NEW b \in Seq(Byte), Len(b) \in Widths
  PROVE  Number(b) \in Int
<1> DEFINE n == Len(b)
           Weighs(k, f) == /\ f \in [0 .. k -> Int] /\ f[0] = 0
                           /\ \A j \in 1 .. k : f[j] = f[j - 1] + b[j] * Base ^ (j - 1)
           T == {k \in 0 .. n : ~ \E f : Weighs(k, f)}
<1>1. n \in Nat \ {0} /\ \A k \in 0 .. n : Base ^ k \in Nat
  BY Powers
<1>2. \A k \in 1 .. n : b[k] \in Int
  BY Powers DEF Byte
<1> HIDE DEF n
<1>3. T = {}
  <2>1. SUFFICES ASSUME T # {} PROVE FALSE
    OBVIOUS
  <2>2. T \in SUBSET Nat
    BY <1>1
  <2> HIDE DEF T
  <2>3. PICK k \in T : \A j \in T : k <= j
    BY <2>1, <2>2, Least
  <2>4. k \in 0 .. n /\ ~ \E f : Weighs(k, f)
    BY DEF T
  <2>5. k # 0
    <3>1. Weighs(0, [x \in 0 .. 0 |-> 0])
      OBVIOUS
    <3>2. QED
      BY <3>1, <2>4
  <2>6. k \in 1 .. n /\ k - 1 \in 0 .. n /\ ~ (k <= k - 1)
    BY <2>4, <2>5, <1>1
  <2>7. \E f : Weighs(k - 1, f)
    BY <2>3, <2>6 DEF T
  <2>8. PICK f : Weighs(k - 1, f)
    BY <2>7
  <2> DEFINE s == f[k - 1] + b[k] * Base ^ (k - 1)
             g == [x \in 0 .. k |-> IF x = k THEN s ELSE f[x]]
  <2>9. s \in Int
    <3>1. f[k - 1] \in Int
      BY <2>8, <2>6, <1>1
    <3>2. b[k] \in Int /\ Base ^ (k - 1) \in Int
      BY <2>6, <1>1, <1>2
    <3> DEFINE x == b[k]
               y == Base ^ (k - 1)
    <3> HIDE DEF x, y
    <3>3. x * y \in Int
      BY <3>2, SMT DEF x, y
    <3>4. QED
      BY <3>1, <3>3 DEF x, y
  <2> HIDE DEF s
  <2>10. g \in [0 .. k -> Int] /\ g[0] = 0
    BY <2>6, <2>8, <2>9, <1>1
  <2>11. ASSUME NEW j \in 1 .. k
         PROVE  g[j] = g[j - 1] + b[j] * Base ^ (j - 1)
    <3>1. k \in Nat /\ j - 1 \in 0 .. k /\ j - 1 # k /\ j \in 0 .. k
      BY <2>6, <1>1
    <3>2. g[j - 1] = f[j - 1]
      BY <3>1
    <3>3. CASE j = k
      BY <3>1, <3>2, <3>3 DEF s
    <3>4. CASE j # k
      <4>1. j \in 1 .. k - 1 /\ g[j] = f[j]
        BY <3>1, <3>4
      <4>2. QED
        BY <4>1, <3>2, <2>8
    <3>5. QED
      BY <3>3, <3>4
  <2>12. Weighs(k, g)
    BY <2>10, <2>11
  <2>13. QED
    BY <2>4, <2>12
<1>4. \E f : Weighs(n, f)
  <2>1. n \in 0 .. n
    BY <1>1
  <2> HIDE DEF Weighs
  <2>2. QED
    BY <2>1, <1>3
<1>5. PICK f : Weighs(n, f)
  BY <1>4
<1>6. Sums(b, f)
  <2>1. \A k \in 0 .. n : f[k] = IF k = 0 THEN 0 ELSE f[k - 1] + b[k] * Base ^ (k - 1)
    BY <1>1, <1>5
  <2>2. f = [k \in 0 .. n |-> f[k]]
    BY <1>5
  <2>3. f = [k \in 0 .. n |-> IF k = 0 THEN 0 ELSE f[k - 1] + b[k] * Base ^ (k - 1)]
    BY <2>1, <2>2
  <2>4. QED
    BY <2>3 DEF Sums, n
<1>7. UpTo(b) = f
  <2>1. Sums(b, UpTo(b))
    BY <1>6, Zenon DEF UpTo
  <2>2. QED
    BY <1>6, <2>1, SumsUnique
<1>8. UpTo(b)[n] \in Int /\ Base ^ n \in Int
  BY <1>1, <1>5, <1>7
<1>9. Number(b) = IF b[n] >= ByteTop THEN UpTo(b)[n] - Base ^ n ELSE UpTo(b)[n]
  BY NumberIsLastSum DEF n
<1>10. QED
  BY <1>8, <1>9

-----------------------------------------------------------------------------
(* Addresses *)

\* The widths that are read and stored.
LEMMA WidthsThere ==
  /\ ALIGN \in Nat \ {0} /\ STACKABLE \in Nat \ {0} /\ HEAP_HEADER_SIZE \in Nat \ {0}
  /\ 1 \in Widths /\ ALIGN \in Widths /\ 2 * ALIGN \in Widths /\ STACKABLE \in Widths
  /\ \A type \in ArrayTypes : ElementSize(type) \in Widths
<1>1. /\ ALIGN \in Nat \ {0} /\ STACKABLE \in Nat \ {0} /\ HEAP_HEADER_SIZE \in Nat \ {0}
  BY MemoryAssumption
<1>2. 1 \in Widths /\ ALIGN \in Widths /\ 2 * ALIGN \in Widths /\ STACKABLE \in Widths
  BY <1>1 DEF Widths
<1>3. ASSUME NEW type \in ArrayTypes PROVE ElementSize(type) \in {1, ALIGN, 2 * ALIGN}
  BY DEF ElementSize, ArrayTypes
<1>4. QED
  BY <1>1, <1>2, <1>3

\* A number of words that holds n bytes.
LEMMA Aligned ==
  ASSUME NEW n \in Nat
  PROVE  /\ ToAlignedSize(n) \in Nat /\ n <= ToAlignedSize(n) * ALIGN
         /\ ToAlignedSize(n) * ALIGN \in Nat
<1> DEFINE m == n + ALIGN - 1
           q == m \div ALIGN
           r == m % ALIGN
<1>1. ALIGN \in Nat \ {0} /\ m \in Nat
  BY WidthsThere
<1>2. m = ALIGN * q + r /\ r \in 0 .. ALIGN - 1 /\ q \in Int
  <2> HIDE DEF m
  <2>1. QED
    BY <1>1, Division
<1>3. ToAlignedSize(n) = q
  BY DEF ToAlignedSize
<1>4. m = n + ALIGN - 1
  OBVIOUS
<1> HIDE DEF m, q, r
<1>5. ALIGN * q = q * ALIGN /\ q * ALIGN \in Int
  BY <1>1, <1>2, SMT
<1>6. q >= 0
  <2>1. ASSUME q <= -1 PROVE ALIGN * q <= -ALIGN
    BY <2>1, <1>1, <1>2, SMT
  <2>2. ASSUME q <= -1 PROVE FALSE
    BY <2>1, <2>2, <1>1, <1>2, <1>5
  <2>3. QED
    BY <2>2, <1>2
<1>7. q * ALIGN >= n
  BY <1>1, <1>2, <1>4, <1>5
<1>8. QED
  BY <1>1, <1>2, <1>3, <1>5, <1>6, <1>7

\* The length of an array takes one word.
LEMMA ArrayHeader == GetAlignedArrayHeaderSize = 1
<1> DEFINE m == ALIGN + ALIGN - 1
<1>1. ALIGN \in Nat \ {0} /\ m \in Int /\ m = ALIGN * 1 + (ALIGN - 1) /\ ALIGN - 1 \in 0 .. ALIGN - 1
  BY WidthsThere
<1>2. m \div ALIGN = 1
  <2> HIDE DEF m
  <2>1. QED
    BY <1>1, Divided
<1>3. QED
  BY <1>2 DEF GetAlignedArrayHeaderSize, ToAlignedSize

-----------------------------------------------------------------------------
(* The invariant, and what the bytes stand for, as functions of the memory *)
(* m, the headers b and the first free word t: they are needed before and  *)
(* after a step.                                                           *)

Header == [type : ArrayTypes \cup {"object"}, words : Nat \ {0}]

Typed(m, b, t) ==
  /\ m \in [ALIGN .. (HeapSize + 1) * ALIGN - 1 -> Byte]
  /\ t \in 1 .. HeapSize + 1
  /\ b \in [DOMAIN b -> Header]
  /\ \A r \in DOMAIN b : r \in Nat \ {0} /\ r + b[r].words <= t
  /\ \A r, s \in DOMAIN b : r < s => r + b[r].words <= s

Read(m, address, size) == [k \in 1 .. size |-> m[address + k - 1]]

\* The variables of an object, elements of an array or slots of an instance:
\* how many, where, and how large.
CountIn(m, type, r) ==
  IF type \in ArrayTypes THEN Number(Read(m, GetObjectPayload(r), ALIGN)) ELSE NumSlots
FirstVar(type, r) == IF type \in ArrayTypes THEN jaGetArrayPayLoad(r) ELSE GetObjectPayload(r)
VarSize(type) == IF type \in ArrayTypes THEN ElementSize(type) ELSE STACKABLE
VarAt(type, r, i) == FirstVar(type, r) + i * VarSize(type)
ValueOf(type, bytes) == IF type \in ArrayTypes THEN Pushed(type, bytes) ELSE Number(bytes)

EndByte(b, r) == (r + b[r].words) * ALIGN

\* Every block has room for its variables.
Fits(m, b) ==
  \A r \in DOMAIN b : LET n == CountIn(m, b[r].type, r)
                      IN n \in Nat /\ VarAt(b[r].type, r, n) <= EndByte(b, r)

\* What is not allocated is as resetVM left it.
Fresh(m, t) == \A x \in t * ALIGN .. (HeapSize + 1) * ALIGN - 1 : m[x] = 0

VarIn(m, type, r, i) == ValueOf(type, Read(m, VarAt(type, r, i), VarSize(type)))
ObjectIn(m, type, r) ==
  [type |-> type, vars |-> [i \in 0 .. CountIn(m, type, r) - 1 |-> VarIn(m, type, r, i)]]
ObjectsIn(m, b) == [r \in DOMAIN b |-> ObjectIn(m, b[r].type, r)]

TInv ==
  Typed(mem, blocks, top) /\ staticMemory \in [0 .. NumStatics - 1 -> Int]

\* The inductive invariant.
IInv == TInv /\ Fits(mem, blocks) /\ Fresh(mem, top)

-----------------------------------------------------------------------------
(* Where things are *)

\* A multiple of a word.
LEMMA Scaled ==
  ASSUME NEW x \in Nat, NEW y \in Nat, NEW z \in Nat
  PROVE  /\ x * z \in Nat /\ (x + y) * z = x * z + y * z
         /\ x <= y => x * z <= y * z
         /\ x < y => x * z + z <= y * z
<1>1. x * z \in Nat /\ y * z \in Nat /\ (x + y) * z = x * z + y * z
  BY SMT
<1>2. ASSUME x <= y PROVE x * z <= y * z
  BY <1>2, SMT
<1>3. ASSUME x < y PROVE x * z + z <= y * z
  <2>1. (x + 1) * z <= y * z
    BY <1>3, SMT
  <2>2. (x + 1) * z = x * z + z
    BY SMT
  <2>3. QED
    BY <2>1, <2>2
<1>4. QED
  BY <1>1, <1>2, <1>3

\* Where a block lies.
LEMMA BlockBytes ==
  ASSUME NEW m, NEW b, NEW t, Typed(m, b, t), NEW r \in DOMAIN b
  PROVE  /\ r \in Nat \ {0} /\ b[r] \in Header
         /\ GetObjectPayload(r) \in Nat /\ ALIGN <= GetObjectPayload(r)
         /\ jaGetArrayPayLoad(r) = GetObjectPayload(r) + ALIGN
         /\ EndByte(b, r) \in Nat /\ EndByte(b, r) <= t * ALIGN
         /\ t * ALIGN \in Nat /\ t * ALIGN <= (HeapSize + 1) * ALIGN
         /\ (HeapSize + 1) * ALIGN \in Nat
<1>1. /\ ALIGN \in Nat \ {0} /\ HEAP_HEADER_SIZE \in Nat \ {0} /\ HeapSize \in Nat
  BY MemoryAssumption
<1>2. /\ r \in Nat \ {0} /\ b[r] \in Header /\ r + b[r].words <= t /\ t \in 1 .. HeapSize + 1
  BY DEF Typed
<1>3. b[r].words \in Nat \ {0}
  BY <1>2 DEF Header
<1>4. GetObjectPayload(r) \in Nat /\ ALIGN <= GetObjectPayload(r)
  <2> DEFINE x == r + HEAP_HEADER_SIZE
  <2>1. x \in Nat /\ 1 <= x
    BY <1>1, <1>2
  <2>2. GetObjectPayload(r) = x * ALIGN
    BY DEF GetObjectPayload
  <2> HIDE DEF x
  <2>3. x * ALIGN \in Nat /\ 1 * ALIGN <= x * ALIGN /\ 1 * ALIGN = ALIGN
    BY <2>1, <1>1, Scaled
  <2>4. QED
    BY <2>2, <2>3
<1>5. jaGetArrayPayLoad(r) = GetObjectPayload(r) + ALIGN
  BY <1>1, ArrayHeader DEF jaGetArrayPayLoad
<1>6. EndByte(b, r) \in Nat /\ EndByte(b, r) <= t * ALIGN
  <2> DEFINE x == r + b[r].words
  <2>1. x \in Nat /\ x <= t /\ t \in Nat
    BY <1>1, <1>2, <1>3
  <2>2. EndByte(b, r) = x * ALIGN
    BY DEF EndByte
  <2> HIDE DEF x
  <2>3. QED
    BY <2>1, <2>2, <1>1, Scaled
<1>7. /\ t * ALIGN \in Nat /\ t * ALIGN <= (HeapSize + 1) * ALIGN
      /\ (HeapSize + 1) * ALIGN \in Nat
  <2> DEFINE x == HeapSize + 1
  <2>1. x \in Nat /\ t \in Nat /\ t <= x
    BY <1>1, <1>2
  <2> HIDE DEF x
  <2>2. t * ALIGN \in Nat /\ t * ALIGN <= x * ALIGN /\ x * ALIGN \in Nat
    BY <2>1, <1>1, Scaled
  <2>3. QED
    BY <2>2 DEF x
<1>8. QED
  BY <1>2, <1>4, <1>5, <1>6, <1>7

\* Of two blocks, one ends before the payload of the other.
LEMMA BlocksApart ==
  ASSUME NEW m, NEW b, NEW t, Typed(m, b, t),
         NEW r \in DOMAIN b, NEW s \in DOMAIN b, r < s
  PROVE  EndByte(b, r) <= GetObjectPayload(s)
<1>1. ALIGN \in Nat /\ HEAP_HEADER_SIZE \in Nat
  BY WidthsThere
<1>2. r \in Nat /\ s \in Nat /\ b[r].words \in Nat /\ r + b[r].words <= s
  BY DEF Typed, Header
<1> DEFINE x == r + b[r].words
           y == s + HEAP_HEADER_SIZE
<1>3. x \in Nat /\ y \in Nat /\ x <= y
  BY <1>1, <1>2
<1>4. EndByte(b, r) = x * ALIGN /\ GetObjectPayload(s) = y * ALIGN
  BY DEF EndByte, GetObjectPayload
<1> HIDE DEF x, y
<1>5. QED
  BY <1>1, <1>3, <1>4, Scaled

\* Where the variables of an object lie.
LEMMA VarBytes ==
  ASSUME NEW m, NEW b, NEW t, Typed(m, b, t), NEW r \in DOMAIN b,
         NEW n \in Nat, VarAt(b[r].type, r, n) <= EndByte(b, r)
  PROVE  /\ VarSize(b[r].type) \in Widths /\ VarSize(b[r].type) \in Nat \ {0}
         /\ FirstVar(b[r].type, r) \in Nat /\ GetObjectPayload(r) <= FirstVar(b[r].type, r)
         /\ b[r].type \in ArrayTypes => GetObjectPayload(r) + ALIGN = FirstVar(b[r].type, r)
         /\ \A i \in 0 .. n : /\ VarAt(b[r].type, r, i) \in Nat
                              /\ FirstVar(b[r].type, r) <= VarAt(b[r].type, r, i)
                              /\ VarAt(b[r].type, r, i) <= EndByte(b, r)
         /\ \A i, j \in 0 .. n : i < j =>
              VarAt(b[r].type, r, i) + VarSize(b[r].type) <= VarAt(b[r].type, r, j)
<1> DEFINE type == b[r].type
           z == VarSize(type)
           f == FirstVar(type, r)
           e == EndByte(b, r)
<1>1. /\ ALIGN \in Nat /\ STACKABLE \in Widths
      /\ \A ty \in ArrayTypes : ElementSize(ty) \in Widths
  BY WidthsThere
<1>2. /\ GetObjectPayload(r) \in Nat /\ e \in Nat
      /\ jaGetArrayPayLoad(r) = GetObjectPayload(r) + ALIGN
  BY BlockBytes
<1>3. z \in Widths /\ z \in Nat \ {0}
  <2>1. z \in Widths
    BY <1>1 DEF VarSize
  <2>2. QED
    BY <2>1, Powers
<1>4. /\ f \in Nat /\ GetObjectPayload(r) <= f
      /\ type \in ArrayTypes => GetObjectPayload(r) + ALIGN = f
  BY <1>1, <1>2 DEF FirstVar
<1>5. \A i : VarAt(type, r, i) = f + i * z
  BY DEF VarAt
<1>6. f + n * z <= e
  BY <1>5
<1> HIDE DEF type, z, f, e
<1>7. ASSUME NEW i \in 0 .. n
      PROVE  f + i * z \in Nat /\ f <= f + i * z /\ f + i * z <= e
  <2>1. i \in Nat /\ i * z \in Nat /\ i * z <= n * z /\ n * z \in Nat
    BY <1>3, Scaled
  <2>2. QED
    BY <2>1, <1>2, <1>4, <1>6
<1>8. ASSUME NEW i \in 0 .. n, NEW j \in 0 .. n, i < j
      PROVE  (f + i * z) + z <= f + j * z
  <2>1. i * z \in Nat /\ j * z \in Nat /\ i * z + z <= j * z
    BY <1>3, <1>8, Scaled
  <2>2. QED
    BY <2>1, <1>3, <1>4
<1>9. /\ \A i \in 0 .. n : /\ VarAt(type, r, i) \in Nat /\ f <= VarAt(type, r, i)
                           /\ VarAt(type, r, i) <= e
      /\ \A i, j \in 0 .. n : i < j => VarAt(type, r, i) + z <= VarAt(type, r, j)
  BY <1>5, <1>7, <1>8
<1>10. QED
  BY <1>3, <1>4, <1>9 DEF type, z, f, e

-----------------------------------------------------------------------------
(* Writing and reading bytes *)

\* The bytes of the heap.
HeapBytes == ALIGN .. (HeapSize + 1) * ALIGN - 1
IsMemory(m) == m \in [HeapBytes -> Byte]

Covers(m, x, n) == x .. x + n - 1 \subseteq DOMAIN m
Part(bs, o, n) == [k \in 1 .. n |-> bs[o + k]]

\* Bytes are replaced by bytes.
LEMMA WrittenType ==
  ASSUME NEW m, IsMemory(m), NEW a \in Int, NEW bs \in Seq(Byte)
  PROVE  IsMemory(Written(m, a, bs))
<1>0. m \in [HeapBytes -> Byte] /\ HeapBytes \subseteq Int
  BY DEF IsMemory, HeapBytes
<1>1. ASSUME NEW x \in HeapBytes, x \in a .. a + Len(bs) - 1 PROVE bs[x - a + 1] \in Byte
  <2>1. x \in Int /\ Len(bs) \in Nat
    BY <1>0, <1>1
  <2>2. x - a + 1 \in 1 .. Len(bs)
    BY <2>1, <1>1
  <2>3. QED
    BY <2>2
<1>2. QED
  BY <1>0, <1>1 DEF Written, IsMemory

\* What is read elsewhere is as before.
LEMMA ReadElsewhere ==
  ASSUME NEW m, NEW a \in Int, NEW bs, Len(bs) \in Nat, NEW x \in Int, NEW n \in Nat,
         Covers(m, x, n), x + n <= a \/ a + Len(bs) <= x
  PROVE  Read(Written(m, a, bs), x, n) = Read(m, x, n)
<1>1. ASSUME NEW k \in 1 .. n
      PROVE  Written(m, a, bs)[x + k - 1] = m[x + k - 1]
  <2> DEFINE y == x + k - 1
  <2>1. y \in x .. x + n - 1 /\ y \in Int
    OBVIOUS
  <2>2. ~ (y \in a .. a + Len(bs) - 1)
    BY <2>1
  <2>3. y \in DOMAIN m
    BY <2>1 DEF Covers
  <2> HIDE DEF y
  <2>4. Written(m, a, bs)[y] = m[y]
    BY <2>2, <2>3 DEF Written
  <2>5. QED
    BY <2>4 DEF y
<1>2. QED
  BY <1>1 DEF Read

\* What is read there is what was written.
LEMMA ReadThere ==
  ASSUME NEW m, NEW a \in Int, NEW bs, Len(bs) \in Nat, NEW o \in Nat, NEW n \in Nat,
         o + n <= Len(bs), Covers(m, a + o, n)
  PROVE  Read(Written(m, a, bs), a + o, n) = Part(bs, o, n)
<1>1. ASSUME NEW k \in 1 .. n
      PROVE  Written(m, a, bs)[a + o + k - 1] = bs[o + k]
  <2> DEFINE y == a + o + k - 1
  <2>1. y \in a + o .. a + o + n - 1 /\ y \in a .. a + Len(bs) - 1 /\ y - a + 1 = o + k
    OBVIOUS
  <2>2. y \in DOMAIN m
    BY <2>1 DEF Covers
  <2> HIDE DEF y
  <2>3. Written(m, a, bs)[y] = bs[y - a + 1]
    BY <2>1, <2>2 DEF Written
  <2>4. QED
    BY <2>1, <2>3 DEF y
<1>2. QED
  BY <1>1 DEF Read, Part

\* The bytes of a block are in the heap.
LEMMA InHeap ==
  ASSUME NEW m, NEW b, NEW t, Typed(m, b, t), NEW r \in DOMAIN b,
         NEW x \in Int, NEW n \in Nat, GetObjectPayload(r) <= x, x + n <= EndByte(b, r)
  PROVE  Covers(m, x, n)
<1>1. /\ ALIGN \in Nat /\ ALIGN <= GetObjectPayload(r) /\ GetObjectPayload(r) \in Nat
      /\ EndByte(b, r) \in Nat /\ t * ALIGN \in Nat /\ EndByte(b, r) <= t * ALIGN
      /\ t * ALIGN <= (HeapSize + 1) * ALIGN /\ (HeapSize + 1) * ALIGN \in Nat
  BY BlockBytes, WidthsThere
<1>2. DOMAIN m = ALIGN .. (HeapSize + 1) * ALIGN - 1
  BY DEF Typed
<1> DEFINE p == GetObjectPayload(r)
           e == EndByte(b, r)
           u == t * ALIGN
           h == (HeapSize + 1) * ALIGN
<1> HIDE DEF p, e, u, h
<1>3. /\ ALIGN \in Nat /\ ALIGN <= p /\ p \in Nat /\ e \in Nat /\ u \in Nat /\ h \in Nat
      /\ e <= u /\ u <= h /\ p <= x /\ x + n <= e
  BY <1>1 DEF p, e, u, h
<1>4. x .. x + n - 1 \subseteq ALIGN .. h - 1
  BY <1>3
<1>5. QED
  BY <1>2, <1>4 DEF h, Covers

\* A store within one block is not read in another.
LEMMA ReadOtherBlock ==
  ASSUME NEW m, NEW b, NEW t, Typed(m, b, t),
         NEW r \in DOMAIN b, NEW s \in DOMAIN b, r # s,
         NEW a \in Int, NEW bs, Len(bs) \in Nat,
         GetObjectPayload(r) <= a, a + Len(bs) <= EndByte(b, r),
         NEW x \in Int, NEW n \in Nat, GetObjectPayload(s) <= x, x + n <= EndByte(b, s)
  PROVE  Read(Written(m, a, bs), x, n) = Read(m, x, n)
<1>1. Covers(m, x, n)
  BY InHeap
<1>2. r \in Nat /\ s \in Nat
  BY BlockBytes
<1>3. /\ GetObjectPayload(r) \in Nat /\ EndByte(b, r) \in Nat
      /\ GetObjectPayload(s) \in Nat /\ EndByte(b, s) \in Nat
  BY BlockBytes
<1>4. \/ EndByte(b, r) <= GetObjectPayload(s)
      \/ EndByte(b, s) <= GetObjectPayload(r)
  <2>1. CASE r < s
    BY <2>1, BlocksApart
  <2>2. CASE s < r
    BY <2>2, BlocksApart
  <2>3. QED
    BY <2>1, <2>2, <1>2
<1>5. x + n <= a \/ a + Len(bs) <= x
  BY <1>3, <1>4
<1>6. QED
  BY <1>1, <1>5, ReadElsewhere

-----------------------------------------------------------------------------
(* A store to variables of one object *)

\* What changes when bs is written to the variables i .. i + n - 1 of r.
StoredIn(m, m2, b, r, i, n, bs) ==
  LET type == b[r].type
      z == VarSize(type)
  IN /\ \A s \in DOMAIN b : CountIn(m2, b[s].type, s) = CountIn(m, b[s].type, s)
     /\ \A s \in DOMAIN b : s # r =>
          \A j \in 0 .. CountIn(m, b[s].type, s) - 1 :
            VarIn(m2, b[s].type, s, j) = VarIn(m, b[s].type, s, j)
     /\ \A j \in 0 .. CountIn(m, type, r) - 1 :
          VarIn(m2, type, r, j) =
            IF j \in i .. i + n - 1
            THEN ValueOf(type, Part(bs, (j - i) * z, z))
            ELSE VarIn(m, type, r, j)

\* A store within the variables of one object changes those and no other object.
LEMMA StoreKeeps ==
  ASSUME NEW m, NEW b, NEW t, Typed(m, b, t), Fits(m, b), NEW r \in DOMAIN b,
         NEW i \in Nat, NEW n \in Nat, i + n <= CountIn(m, b[r].type, r),
         NEW bs \in Seq(Byte), Len(bs) = n * VarSize(b[r].type)
  PROVE  LET m2 == Written(m, VarAt(b[r].type, r, i), bs)
         IN /\ StoredIn(m, m2, b, r, i, n, bs)
            /\ Typed(m2, b, t) /\ Fits(m2, b)
            /\ Fresh(m, t) => Fresh(m2, t)
<1> DEFINE type == b[r].type
           c == CountIn(m, type, r)
           z == VarSize(type)
           a == VarAt(type, r, i)
           f == FirstVar(type, r)
           e == EndByte(b, r)
           m2 == Written(m, a, bs)
<1>1. ALIGN \in Nat \ {0} /\ STACKABLE \in Nat \ {0}
  BY WidthsThere
<1>2. c \in Nat /\ VarAt(type, r, c) <= e
  BY DEF Fits
<1>3. /\ z \in Nat \ {0} /\ f \in Nat /\ GetObjectPayload(r) <= f
      /\ type \in ArrayTypes => GetObjectPayload(r) + ALIGN = f
      /\ \A j \in 0 .. c : VarAt(type, r, j) \in Nat /\ f <= VarAt(type, r, j)
                           /\ VarAt(type, r, j) <= e
      /\ \A j, k \in 0 .. c : j < k => VarAt(type, r, j) + z <= VarAt(type, r, k)
  BY <1>2, VarBytes
<1>4. GetObjectPayload(r) \in Nat /\ e \in Nat
  BY BlockBytes
<1>5. \A j \in Nat : VarAt(type, r, j) = f + j * z
  BY DEF VarAt
<1>6. a \in Nat /\ a + Len(bs) = VarAt(type, r, i + n) /\ f <= a /\ a + Len(bs) <= e
      /\ Len(bs) \in Nat
  <2>1. i \in 0 .. c /\ i + n \in 0 .. c
    BY <1>2
  <2>2. a = f + i * z /\ VarAt(type, r, i + n) = f + (i + n) * z
    BY <1>5
  <2>3. (i + n) * z = i * z + n * z /\ i * z \in Nat /\ n * z \in Nat
    BY <1>3, Scaled
  <2>4. a + Len(bs) = VarAt(type, r, i + n)
    BY <2>2, <2>3, <1>3
  <2>5. QED
    BY <2>1, <2>4, <1>3
<1> HIDE DEF type, c, z, a, f, e, m2
<1>7. ASSUME NEW s \in DOMAIN b, s # r, NEW x \in Int, NEW w \in Nat,
             GetObjectPayload(s) <= x, x + w <= EndByte(b, s)
      PROVE  Read(m2, x, w) = Read(m, x, w)
  <2>1. GetObjectPayload(r) <= a
    BY <1>3, <1>4, <1>6
  <2>2. a + Len(bs) <= EndByte(b, r)
    BY <1>6 DEF e
  <2>3. QED
    BY <1>6, <1>7, <2>1, <2>2, ReadOtherBlock DEF m2
<1>8. ASSUME NEW s \in DOMAIN b, s # r
      PROVE  /\ CountIn(m2, b[s].type, s) = CountIn(m, b[s].type, s)
             /\ \A j \in 0 .. CountIn(m, b[s].type, s) - 1 :
                  VarIn(m2, b[s].type, s, j) = VarIn(m, b[s].type, s, j)
  <2> DEFINE ty == b[s].type
             d == CountIn(m, ty, s)
             y == VarSize(ty)
             g == FirstVar(ty, s)
             l == EndByte(b, s)
             p == GetObjectPayload(s)
  <2>1. d \in Nat /\ VarAt(ty, s, d) <= l
    BY DEF Fits
  <2>2. /\ y \in Nat \ {0} /\ g \in Nat /\ p <= g
        /\ ty \in ArrayTypes => p + ALIGN = g
        /\ \A j \in 0 .. d : VarAt(ty, s, j) \in Nat /\ g <= VarAt(ty, s, j)
                             /\ VarAt(ty, s, j) <= l
        /\ \A j, k \in 0 .. d : j < k => VarAt(ty, s, j) + y <= VarAt(ty, s, k)
    BY <2>1, VarBytes
  <2>3. p \in Nat /\ l \in Nat
    BY BlockBytes
  <2> HIDE DEF ty, d, y, g, l, p
  <2>4. CountIn(m2, ty, s) = d
    <3>1. CASE ty \in ArrayTypes
      <4>1. 0 \in 0 .. d
        BY <2>1
      <4>2. g <= VarAt(ty, s, 0) /\ VarAt(ty, s, 0) <= l /\ VarAt(ty, s, 0) \in Nat
        BY <4>1, <2>2
      <4>3. p + ALIGN <= l
        BY <4>2, <3>1, <2>2, <2>3, <1>1
      <4>4. Read(m2, p, ALIGN) = Read(m, p, ALIGN)
        BY <4>3, <2>3, <1>1, <1>7, <1>8 DEF p, l
      <4>5. QED
        BY <4>4 DEF CountIn, d, p
    <3>2. CASE ty \notin ArrayTypes
      BY <3>2 DEF CountIn, d
    <3>3. QED
      BY <3>1, <3>2
  <2>5. ASSUME NEW j \in 0 .. d - 1 PROVE VarIn(m2, ty, s, j) = VarIn(m, ty, s, j)
    <3>1. j \in 0 .. d /\ j + 1 \in 0 .. d /\ j < j + 1
      BY <2>1
    <3> DEFINE x == VarAt(ty, s, j)
    <3>2. x \in Nat /\ g <= x /\ x + y <= VarAt(ty, s, j + 1) /\ VarAt(ty, s, j + 1) <= l
          /\ VarAt(ty, s, j + 1) \in Nat
      BY <3>1, <2>2
    <3> HIDE DEF x
    <3>3. p <= x /\ x + y <= l
      BY <3>2, <2>2, <2>3
    <3>4. Read(m2, x, y) = Read(m, x, y)
      BY <3>2, <3>3, <2>2, <1>7, <1>8 DEF p, l
    <3>5. QED
      BY <3>4 DEF VarIn, x, y
  <2>6. QED
    BY <2>4, <2>5 DEF ty, d
<1>9. CountIn(m2, type, r) = c
  <2>1. CASE type \in ArrayTypes
    <3> DEFINE p == GetObjectPayload(r)
    <3>1. p \in Int /\ p + ALIGN <= a /\ p + ALIGN <= e
      BY <2>1, <1>1, <1>3, <1>4, <1>6
    <3> HIDE DEF p
    <3>2. Covers(m, p, ALIGN)
      BY <3>1, <1>1, <1>4, InHeap DEF p, e
    <3>3. Read(m2, p, ALIGN) = Read(m, p, ALIGN)
      BY <3>1, <3>2, <1>1, <1>6, ReadElsewhere DEF m2
    <3>4. QED
      BY <3>3 DEF CountIn, c, p
  <2>2. CASE type \notin ArrayTypes
    BY <2>2 DEF CountIn, c
  <2>3. QED
    BY <2>1, <2>2
<1>10. ASSUME NEW j \in 0 .. c - 1
       PROVE  VarIn(m2, type, r, j) = IF j \in i .. i + n - 1
                THEN ValueOf(type, Part(bs, (j - i) * z, z))
                ELSE VarIn(m, type, r, j)
  <2>1. j \in 0 .. c /\ j + 1 \in 0 .. c /\ i \in 0 .. c /\ i + n \in 0 .. c /\ j < j + 1
    BY <1>2 DEF c, type
  <2> DEFINE x == VarAt(type, r, j)
  <2>2. x \in Nat /\ f <= x /\ x + z <= e
    BY <2>1, <1>3, <1>4
  <2>3. j < i => x + z <= a
    BY <2>1, <1>3 DEF a
  <2>4. j >= i + n => a + Len(bs) <= x
    <3>1. CASE j = i + n
      BY <3>1, <1>6, <2>2
    <3>2. CASE j > i + n
      <4>1. VarAt(type, r, i + n) + z <= x
        BY <3>2, <2>1, <1>3
      <4>2. QED
        BY <4>1, <1>6, <1>3, <2>2
    <3>3. QED
      BY <3>1, <3>2, <2>1
  <2>5. GetObjectPayload(r) <= x
    BY <2>2, <1>3, <1>4
  <2>6. Covers(m, x, z)
    <3> HIDE DEF x
    <3>1. QED
      BY <2>2, <2>5, <1>3, InHeap DEF e
  <2>7. CASE j \notin i .. i + n - 1
    <3>1. j < i \/ j >= i + n
      BY <2>7, <2>1
    <3>2. x + z <= a \/ a + Len(bs) <= x
      BY <3>1, <2>3, <2>4
    <3> HIDE DEF x
    <3>3. Read(m2, x, z) = Read(m, x, z)
      BY <3>2, <2>2, <2>6, <1>3, <1>6, ReadElsewhere DEF m2
    <3>4. QED
      BY <3>3, <2>7 DEF VarIn, x, z
  <2>8. CASE j \in i .. i + n - 1
    <3> DEFINE o == (j - i) * z
    <3>1. j - i \in Nat /\ j - i < n /\ j = i + (j - i)
      BY <2>8, <2>1
    <3> DEFINE d == j - i
    <3>2. d \in Nat /\ d < n /\ j = i + d
      BY <3>1
    <3> HIDE DEF d
    <3>3. d * z \in Nat /\ d * z + z <= n * z /\ (i + d) * z = i * z + d * z /\ i * z \in Nat
      BY <3>2, <1>3, Scaled
    <3>4. x = f + j * z /\ a = f + i * z
      BY <2>1, <1>5 DEF a
    <3>5. o = d * z
      BY DEF d
    <3>6. Len(bs) = n * z
      BY DEF z, type
    <3> HIDE DEF x, o
    <3>7. x = a + o /\ o \in Nat /\ o + z <= Len(bs)
      BY <3>2, <3>3, <3>4, <3>5, <3>6, <1>3
    <3>8. Covers(m, a + o, z)
      BY <2>6, <3>7
    <3>9. Read(m2, a + o, z) = Part(bs, o, z)
      BY <3>7, <3>8, <1>3, <1>6, ReadThere DEF m2
    <3>10. Read(m2, x, z) = Part(bs, o, z)
      BY <3>7, <3>9
    <3>11. VarIn(m2, type, r, j) = ValueOf(type, Part(bs, o, z))
      BY <3>10 DEF VarIn, x, z
    <3>12. QED
      BY <3>11, <2>8 DEF o
  <2>9. QED
    BY <2>7, <2>8
<1>11. \A s \in DOMAIN b : CountIn(m2, b[s].type, s) = CountIn(m, b[s].type, s)
  BY <1>8, <1>9 DEF type, c
<1>12. StoredIn(m, m2, b, r, i, n, bs)
  BY <1>8, <1>10, <1>11 DEF StoredIn, type, c, z
<1>13. Typed(m2, b, t)
  <2>1. IsMemory(m)
    BY DEF Typed, HeapBytes, IsMemory
  <2>2. IsMemory(m2)
    BY <2>1, <1>6, WrittenType DEF m2
  <2>3. QED
    BY <2>2 DEF Typed, HeapBytes, IsMemory
<1>14. Fits(m2, b)
  BY <1>11 DEF Fits
<1>15. ASSUME Fresh(m, t) PROVE Fresh(m2, t)
  <2>1. /\ e <= t * ALIGN /\ t * ALIGN \in Nat /\ (HeapSize + 1) * ALIGN \in Nat
        /\ ALIGN <= GetObjectPayload(r)
    BY BlockBytes DEF e
  <2>2. DOMAIN m = ALIGN .. (HeapSize + 1) * ALIGN - 1
    BY DEF Typed
  <2> DEFINE u == t * ALIGN
             h == (HeapSize + 1) * ALIGN
  <2> HIDE DEF u, h
  <2>3. ASSUME NEW x \in u .. h - 1 PROVE m2[x] = m[x]
    <3>1. u \in Nat /\ h \in Nat /\ e <= u /\ DOMAIN m = ALIGN .. h - 1
      BY <2>1, <2>2 DEF u, h
    <3>2. ALIGN <= e
      BY <2>1, <1>1, <1>3, <1>4, <1>6
    <3>3. x \in DOMAIN m /\ ~ (x \in a .. a + Len(bs) - 1)
      BY <3>1, <3>2, <1>1, <1>4, <1>6
    <3>4. QED
      BY <3>3 DEF m2, Written
  <2>4. QED
    BY <2>3, <1>15 DEF Fresh, u, h
<1>16. QED
  BY <1>12, <1>13, <1>14, <1>15 DEF m2, a, type

-----------------------------------------------------------------------------
(* Allocation *)

\* The headers with the one of a new block at t.
WithBlock(b, t, type, words) ==
  [r \in DOMAIN b \cup {t} |-> IF r = t THEN [type |-> type, words |-> words] ELSE b[r]]

\* A block at the first free word keeps the headers apart.
LEMMA AllocateTyped ==
  ASSUME NEW m, NEW b, NEW t, Typed(m, b, t),
         NEW type \in ArrayTypes \cup {"object"}, NEW words \in Nat \ {0},
         t + words <= HeapSize + 1, NEW bs \in Seq(Byte)
  PROVE  /\ Typed(Written(m, GetObjectPayload(t), bs), WithBlock(b, t, type, words), t + words)
         /\ t \notin DOMAIN b
<1> DEFINE b2 == WithBlock(b, t, type, words)
<1>1. /\ t \in Nat \ {0} /\ HeapSize \in Nat /\ ALIGN \in Nat /\ HEAP_HEADER_SIZE \in Nat
      /\ \A r \in DOMAIN b : r \in Nat \ {0} /\ r + b[r].words <= t /\ b[r].words \in Nat \ {0}
      /\ \A r, s \in DOMAIN b : r < s => r + b[r].words <= s
      /\ \A r \in DOMAIN b : b[r] \in Header
  <2>1. t \in Nat \ {0} /\ HeapSize \in Nat /\ ALIGN \in Nat /\ HEAP_HEADER_SIZE \in Nat
    <3>1. HeapSize \in Nat /\ ALIGN \in Nat /\ HEAP_HEADER_SIZE \in Nat
      BY MemoryAssumption
    <3>2. t \in 1 .. HeapSize + 1
      BY DEF Typed
    <3>3. QED
      BY <3>1, <3>2
  <2>2. \A r \in DOMAIN b : r \in Nat \ {0} /\ r + b[r].words <= t /\ b[r] \in Header
    BY DEF Typed
  <2>3. \A r \in DOMAIN b : b[r].words \in Nat \ {0}
    BY <2>2 DEF Header
  <2>4. \A r, s \in DOMAIN b : r < s => r + b[r].words <= s
    BY DEF Typed
  <2>5. QED
    BY <2>1, <2>2, <2>3, <2>4
<1>2. \A r \in DOMAIN b : r < t
  BY <1>1
<1>3. t \notin DOMAIN b
  BY <1>1, <1>2
<1>4. DOMAIN b2 = DOMAIN b \cup {t}
  BY DEF WithBlock
<1>5. b2[t] = [type |-> type, words |-> words] /\ \A r \in DOMAIN b : b2[r] = b[r]
  BY <1>3 DEF WithBlock
<1>6. b2[t] \in Header /\ b2[t].words = words
  BY <1>5 DEF Header
<1>7. b2 = [r \in DOMAIN b2 |-> b2[r]]
  BY DEF WithBlock
<1> HIDE DEF b2
<1>8. \A r \in DOMAIN b2 : b2[r] \in Header
  BY <1>1, <1>4, <1>5, <1>6
<1>9. b2 \in [DOMAIN b2 -> Header]
  BY <1>7, <1>8
<1>10. \A r \in DOMAIN b2 : r \in Nat \ {0} /\ r + b2[r].words <= t + words
  <2>1. ASSUME NEW r \in DOMAIN b
        PROVE  r \in Nat \ {0} /\ r + b2[r].words <= t + words
    BY <1>1, <1>5
  <2>2. t \in Nat \ {0} /\ t + b2[t].words <= t + words
    BY <1>1, <1>6
  <2>3. QED
    BY <2>1, <2>2, <1>4
<1>11. ASSUME NEW r \in DOMAIN b2, NEW s \in DOMAIN b2, r < s
       PROVE  r + b2[r].words <= s
  <2>1. CASE r \in DOMAIN b /\ s \in DOMAIN b
    BY <2>1, <1>1, <1>5, <1>11
  <2>2. CASE r \in DOMAIN b /\ s = t
    BY <2>2, <1>1, <1>5
  <2>3. CASE r = t
    <3>1. s \in DOMAIN b \/ s = t
      BY <1>4
    <3>2. FALSE
      BY <3>1, <2>3, <1>1, <1>2, <1>11
    <3>3. QED
      BY <3>2
  <2>4. QED
    BY <2>1, <2>2, <2>3, <1>4
<1>12. GetObjectPayload(t) \in Nat
  <2> DEFINE x == t + HEAP_HEADER_SIZE
  <2>1. x \in Nat
    BY <1>1
  <2>2. GetObjectPayload(t) = x * ALIGN
    BY DEF GetObjectPayload
  <2> HIDE DEF x
  <2>3. QED
    BY <2>1, <2>2, <1>1, Scaled
<1>13. IsMemory(Written(m, GetObjectPayload(t), bs))
  <2>1. IsMemory(m)
    BY DEF Typed, IsMemory, HeapBytes
  <2>2. QED
    BY <2>1, <1>12, WrittenType
<1>14. t + words \in 1 .. HeapSize + 1
  BY <1>1
<1>15. Typed(Written(m, GetObjectPayload(t), bs), b2, t + words)
  BY <1>9, <1>10, <1>11, <1>13, <1>14 DEF Typed, IsMemory, HeapBytes
<1>16. QED
  BY <1>3, <1>15 DEF b2

\* Zero is all zero bytes.
Zeros(n) == [k \in 1 .. n |-> 0]

\* Bytes of zero are the number 0.
LEMMA ZeroBytes ==
  ASSUME NEW n \in Widths
  PROVE  Zeros(n) = BytesOf(0, n) /\ Number(Zeros(n)) = 0
<1>1. n \in Nat \ {0} /\ Base \in Nat \ {0}
  BY Powers
<1>2. \A d \in Nat \ {0} : 0 \div d = 0 /\ 0 % d = 0
  <2>1. ASSUME NEW d \in Nat \ {0} PROVE 0 = d * 0 + 0 /\ 0 \in 0 .. d - 1
    OBVIOUS
  <2>2. QED
    BY <2>1, Divided
<1>3. ASSUME NEW k \in 1 .. n PROVE (0 \div Base ^ (k - 1)) % Base = 0
  <2>1. k - 1 \in 0 .. n
    BY <1>1
  <2>2. Base ^ (k - 1) \in Nat \ {0}
    BY <2>1, Powers
  <2>3. 0 \div Base ^ (k - 1) = 0
    BY <2>2, <1>2
  <2>4. QED
    BY <2>3, <1>1, <1>2
<1>4. Zeros(n) = BytesOf(0, n)
  BY <1>3 DEF Zeros, BytesOf
<1>5. Half(n) \in Nat \ {0}
  BY HalfType
<1>6. 0 \in -Half(n) .. Half(n) - 1
  <2> DEFINE h == Half(n)
  <2> HIDE DEF h
  <2>1. h \in Nat \ {0}
    BY <1>5 DEF h
  <2>2. 0 \in -h .. h - 1
    BY <2>1
  <2>3. QED
    BY <2>2 DEF h
<1>7. Signed(Half(n), 0) = 0
  BY <1>5, <1>6, SignedFits
<1>8. Number(BytesOf(0, n)) = 0
  BY <1>7, NumberOfBytes
<1>9. QED
  BY <1>4, <1>8

\* An int has the width of a word.
LEMMA HalfWord == Half(ALIGN) = IntTop /\ IntTop \in Nat \ {0}
<1>1. ALIGN \in Widths
  BY WidthsThere
<1>2. Half(ALIGN) \in Nat \ {0} /\ Base ^ ALIGN = 2 * Half(ALIGN)
  BY <1>1, HalfType
<1>3. 2 * IntTop = Base ^ ALIGN /\ IntTop \in Nat \ {0}
  BY MemoryAssumption DEF Base
<1>4. QED
  BY <1>2, <1>3

\* A new object has no variable with a value other than 0, or false, or null.
LEMMA ZeroValue ==
  ASSUME NEW type \in ArrayTypes \cup {"object"}
  PROVE  ValueOf(type, Zeros(VarSize(type))) = 0
<1>1. /\ ALIGN \in Widths /\ 2 * ALIGN \in Widths /\ STACKABLE \in Widths /\ 1 \in Widths
      /\ ALIGN \in Nat \ {0}
  BY WidthsThere
<1>2. CASE type \notin ArrayTypes
  BY <1>1, <1>2, ZeroBytes DEF ValueOf, VarSize
<1>3. CASE type \in ArrayTypes
  <2>1. ValueOf(type, Zeros(VarSize(type))) = Pushed(type, Zeros(ElementSize(type)))
    BY <1>3 DEF ValueOf, VarSize
  <2>2. CASE type = "long"
    <3>1. ElementSize(type) = 2 * ALIGN
      BY <2>2 DEF ElementSize
    <3>2. SubSeq(Zeros(2 * ALIGN), 1, ALIGN) = Zeros(ALIGN)
      <4>1. Zeros(2 * ALIGN) \in Seq({0}) /\ Len(Zeros(2 * ALIGN)) = 2 * ALIGN
        BY <1>1 DEF Zeros
      <4>2. QED
        BY <4>1, <1>1 DEF Zeros
    <3>3. Pushed(type, Zeros(2 * ALIGN)) = Number(SubSeq(Zeros(2 * ALIGN), 1, ALIGN))
      BY <2>2 DEF Pushed
    <3>4. QED
      BY <2>1, <3>1, <3>2, <3>3, <1>1, ZeroBytes
  <2>3. CASE type # "long"
    <3>1. ElementSize(type) \in {1, ALIGN}
      BY <2>3, <1>3 DEF ElementSize, ArrayTypes
    <3>2. Number(Zeros(ElementSize(type))) = 0
      BY <3>1, <1>1, ZeroBytes
    <3>3. Pushed(type, Zeros(ElementSize(type))) = 0
      BY <3>2, <2>3 DEF Pushed
    <3>4. QED
      BY <2>1, <3>3
  <2>4. QED
    BY <2>2, <2>3
<1>4. QED
  BY <1>2, <1>3

\* What a new object of n variables changes: the others are as they were, and it
\* is all zero.
AllocatedIn(m, m2, b, t, type, n) ==
  /\ \A s \in DOMAIN b : CountIn(m2, b[s].type, s) = CountIn(m, b[s].type, s)
  /\ \A s \in DOMAIN b : \A j \in 0 .. CountIn(m, b[s].type, s) - 1 :
       VarIn(m2, b[s].type, s, j) = VarIn(m, b[s].type, s, j)
  /\ CountIn(m2, type, t) = n
  /\ \A j \in 0 .. n - 1 : VarIn(m2, type, t, j) = 0

\* What the caller of heap_alloc writes into the new block: the length of an
\* array, then zeros, and nothing for an instance.
Initial(type, n, bs) ==
  /\ bs \in Seq(Byte)
  /\ IF type \in ArrayTypes
     THEN /\ n \in 0 .. IntTop - 1 /\ ALIGN <= Len(bs)
          /\ Part(bs, 0, ALIGN) = BytesOf(n, ALIGN)
          /\ \A k \in ALIGN + 1 .. Len(bs) : bs[k] = 0
     ELSE n = NumSlots /\ Len(bs) = 0

\* A new block has variables of 0 and leaves the objects there are alone.
LEMMA AllocateKeeps ==
  ASSUME NEW m, NEW b, NEW t, Typed(m, b, t), Fits(m, b), Fresh(m, t),
         NEW type \in ArrayTypes \cup {"object"}, NEW words \in Nat \ {0},
         t + words <= HeapSize + 1, NEW n \in Nat, NEW bs, Initial(type, n, bs),
         VarAt(type, t, n) <= (t + words) * ALIGN,
         GetObjectPayload(t) + Len(bs) <= (t + words) * ALIGN
  PROVE  LET m2 == Written(m, GetObjectPayload(t), bs)
             b2 == WithBlock(b, t, type, words)
         IN /\ AllocatedIn(m, m2, b, t, type, n)
            /\ Fits(m2, b2) /\ Fresh(m2, t + words)
<1> DEFINE m2 == Written(m, GetObjectPayload(t), bs)
           b2 == WithBlock(b, t, type, words)
           a == GetObjectPayload(t)
           e == EndByte(b2, t)
           h == (HeapSize + 1) * ALIGN
           u == t * ALIGN
           z == VarSize(type)
           f == FirstVar(type, t)
<1>1. bs \in Seq(Byte) /\ Len(bs) \in Nat
  BY DEF Initial
<1>2. Typed(m2, b2, t + words) /\ t \notin DOMAIN b
  BY <1>1, AllocateTyped
<1>3. DOMAIN b2 = DOMAIN b \cup {t} /\ b2[t] = [type |-> type, words |-> words]
      /\ \A r \in DOMAIN b : b2[r] = b[r]
  BY <1>2 DEF WithBlock
<1>4. b2[t].type = type /\ b2[t].words = words /\ t \in DOMAIN b2
  BY <1>3
<1>5. ALIGN \in Nat \ {0} /\ HEAP_HEADER_SIZE \in Nat /\ HeapSize \in Nat /\ t \in Nat \ {0}
  <2>1. ALIGN \in Nat \ {0} /\ HEAP_HEADER_SIZE \in Nat /\ HeapSize \in Nat
    BY MemoryAssumption
  <2>2. t \in 1 .. HeapSize + 1
    BY DEF Typed
  <2>3. QED
    BY <2>1, <2>2
<1>6. e = (t + words) * ALIGN
  BY <1>4 DEF EndByte
<1> HIDE DEF m2, b2, e
<1>7. u \in Nat /\ u <= a /\ a \in Nat /\ e \in Nat /\ h \in Nat /\ e <= h
      /\ ALIGN <= u /\ a + Len(bs) <= e
  <2>1. a \in Nat /\ e \in Nat /\ e <= (t + words) * ALIGN /\ (t + words) * ALIGN <= h /\ h \in Nat
        /\ (t + words) * ALIGN \in Nat
    BY <1>2, <1>4, BlockBytes DEF e
  <2>2. u \in Nat /\ (t + HEAP_HEADER_SIZE) * ALIGN = u + HEAP_HEADER_SIZE * ALIGN
        /\ HEAP_HEADER_SIZE * ALIGN \in Nat
    BY <1>5, Scaled
  <2>3. a = (t + HEAP_HEADER_SIZE) * ALIGN
    BY DEF GetObjectPayload
  <2>4. 1 * ALIGN <= u /\ 1 * ALIGN = ALIGN
    BY <1>5, Scaled
  <2>5. a + Len(bs) <= e
    BY <1>6
  <2> HIDE DEF a, u, h
  <2>6. u <= a
    BY <2>1, <2>2, <2>3
  <2>7. e <= h
    BY <1>6, <2>1
  <2>8. QED
    BY <2>1, <2>2, <2>4, <2>5, <2>6, <2>7
<1>8. DOMAIN m = ALIGN .. h - 1 /\ \A x \in u .. h - 1 : m[x] = 0
  BY DEF Typed, Fresh
<1>9. /\ z \in Widths /\ z \in Nat \ {0} /\ f \in Nat /\ a <= f
      /\ type \in ArrayTypes => a + ALIGN = f
      /\ \A i \in 0 .. n : VarAt(type, t, i) \in Nat /\ f <= VarAt(type, t, i)
                           /\ VarAt(type, t, i) <= e
      /\ \A i, j \in 0 .. n : i < j => VarAt(type, t, i) + z <= VarAt(type, t, j)
  <2>1. VarAt(b2[t].type, t, n) <= EndByte(b2, t)
    BY <1>4, <1>6 DEF e
  <2>2. QED
    BY <2>1, <1>2, <1>4, VarBytes DEF e
<1> HIDE DEF a, u, h, z, f
<1>10. ASSUME NEW s \in DOMAIN b
       PROVE  /\ CountIn(m2, b[s].type, s) = CountIn(m, b[s].type, s)
              /\ \A j \in 0 .. CountIn(m, b[s].type, s) - 1 :
                   VarIn(m2, b[s].type, s, j) = VarIn(m, b[s].type, s, j)
  <2> DEFINE ty == b[s].type
             d == CountIn(m, ty, s)
             y == VarSize(ty)
             g == FirstVar(ty, s)
             l == EndByte(b, s)
             p == GetObjectPayload(s)
  <2>1. d \in Nat /\ VarAt(ty, s, d) <= l
    BY DEF Fits
  <2>2. /\ y \in Nat \ {0} /\ g \in Nat /\ p <= g
        /\ ty \in ArrayTypes => p + ALIGN = g
        /\ \A j \in 0 .. d : VarAt(ty, s, j) \in Nat /\ g <= VarAt(ty, s, j)
                             /\ VarAt(ty, s, j) <= l
        /\ \A j, k \in 0 .. d : j < k => VarAt(ty, s, j) + y <= VarAt(ty, s, k)
    BY <2>1, VarBytes
  <2>3. p \in Nat /\ l \in Nat /\ l <= u
    BY BlockBytes DEF u
  <2> HIDE DEF ty, d, y, g, l, p
  <2>4. ASSUME NEW x \in Int, NEW w \in Nat, p <= x, x + w <= l
        PROVE  Read(m2, x, w) = Read(m, x, w)
    <3>1. Covers(m, x, w)
      BY <2>4, InHeap DEF p, l
    <3>2. x + w <= a
      BY <2>3, <2>4, <1>7
    <3>3. QED
      BY <3>1, <3>2, <1>1, <1>7, ReadElsewhere DEF m2, a
  <2>5. CountIn(m2, ty, s) = d
    <3>1. CASE ty \in ArrayTypes
      <4>1. 0 \in 0 .. d
        BY <2>1
      <4>2. g <= VarAt(ty, s, 0) /\ VarAt(ty, s, 0) <= l /\ VarAt(ty, s, 0) \in Nat
        BY <4>1, <2>2
      <4>3. p + ALIGN <= l
        BY <4>2, <3>1, <2>2, <2>3, <1>5
      <4>4. Read(m2, p, ALIGN) = Read(m, p, ALIGN)
        BY <4>3, <2>3, <2>4, <1>5
      <4>5. QED
        BY <4>4 DEF CountIn, d, p
    <3>2. CASE ty \notin ArrayTypes
      BY <3>2 DEF CountIn, d
    <3>3. QED
      BY <3>1, <3>2
  <2>6. ASSUME NEW j \in 0 .. d - 1 PROVE VarIn(m2, ty, s, j) = VarIn(m, ty, s, j)
    <3>1. j \in 0 .. d /\ j + 1 \in 0 .. d /\ j < j + 1
      BY <2>1
    <3> DEFINE x == VarAt(ty, s, j)
    <3>2. x \in Nat /\ g <= x /\ x + y <= VarAt(ty, s, j + 1) /\ VarAt(ty, s, j + 1) <= l
          /\ VarAt(ty, s, j + 1) \in Nat
      BY <3>1, <2>2
    <3> HIDE DEF x
    <3>3. p <= x /\ x + y <= l
      BY <3>2, <2>2, <2>3
    <3>4. Read(m2, x, y) = Read(m, x, y)
      BY <3>2, <3>3, <2>2, <2>4
    <3>5. QED
      BY <3>4 DEF VarIn, x, y
  <2>7. QED
    BY <2>5, <2>6 DEF ty, d
<1>11. CountIn(m2, type, t) = n
  <2>1. CASE type \in ArrayTypes
    <3>1. n \in 0 .. IntTop - 1 /\ ALIGN <= Len(bs) /\ Part(bs, 0, ALIGN) = BytesOf(n, ALIGN)
      BY <2>1 DEF Initial
    <3>2. Covers(m, a + 0, ALIGN)
      BY <3>1, <1>1, <1>5, <1>7, <1>8 DEF Covers
    <3>3. Read(m2, a + 0, ALIGN) = Part(bs, 0, ALIGN)
      BY <3>1, <3>2, <1>1, <1>5, <1>7, ReadThere DEF m2, a
    <3>4. Read(m2, a, ALIGN) = BytesOf(n, ALIGN)
      <4>1. a + 0 = a
        BY <1>7
      <4>2. QED
        BY <4>1, <3>1, <3>3
    <3>5. Number(BytesOf(n, ALIGN)) = Signed(IntTop, n)
      BY WidthsThere, HalfWord, NumberOfBytes
    <3>6. Signed(IntTop, n) = n
      <4>1. IntTop \in Nat \ {0} /\ n \in -IntTop .. IntTop - 1
        BY <3>1, HalfWord
      <4>2. QED
        BY <4>1, SignedFits
    <3>7. QED
      BY <2>1, <3>4, <3>5, <3>6 DEF CountIn, a
  <2>2. CASE type \notin ArrayTypes
    BY <2>2 DEF Initial, CountIn
  <2>3. QED
    BY <2>1, <2>2
<1>12. ASSUME NEW x \in u .. h - 1,
              type \in ArrayTypes => f <= x
       PROVE  m2[x] = 0
  <2>1. x \in DOMAIN m /\ m[x] = 0 /\ x \in Int
    BY <1>5, <1>7, <1>8
  <2>2. CASE x \in a .. a + Len(bs) - 1
    <3>1. type \in ArrayTypes
      <4>1. Len(bs) # 0
        BY <2>2, <1>7
      <4>2. QED
        BY <4>1 DEF Initial
    <3>2. x - a + 1 \in ALIGN + 1 .. Len(bs)
      <4>1. f <= x
        BY <3>1, <1>12
      <4>2. QED
        <5>1. a + ALIGN = f
          BY <3>1, <1>9
        <5>2. ALIGN \in Nat /\ Len(bs) \in Nat /\ a \in Nat /\ x \in Int
          BY <2>1, <1>5, <1>7
        <5>3. QED
          BY <4>1, <5>1, <5>2, <2>2
    <3>3. bs[x - a + 1] = 0
      BY <3>1, <3>2 DEF Initial
    <3>4. QED
      BY <3>3, <2>1, <2>2 DEF m2, Written, a
  <2>3. CASE x \notin a .. a + Len(bs) - 1
    BY <2>1, <2>3 DEF m2, Written, a
  <2>4. QED
    BY <2>2, <2>3
<1>13. ASSUME NEW j \in 0 .. n - 1 PROVE VarIn(m2, type, t, j) = 0
  <2> DEFINE x == VarAt(type, t, j)
  <2>1. j \in 0 .. n /\ j + 1 \in 0 .. n /\ j < j + 1
    OBVIOUS
  <2>2. x \in Nat /\ f <= x /\ x + z <= e
    <3>1. x + z <= VarAt(type, t, j + 1) /\ VarAt(type, t, j + 1) <= e
          /\ VarAt(type, t, j + 1) \in Nat /\ x \in Nat /\ f <= x
      BY <2>1, <1>9
    <3>2. QED
      BY <3>1, <1>7, <1>9
  <2> HIDE DEF x
  <2>3. ASSUME NEW k \in 1 .. z PROVE m2[x + k - 1] = 0
    <3>1. x + k - 1 \in u .. h - 1 /\ f <= x + k - 1
      BY <2>2, <1>7, <1>9
    <3>2. QED
      BY <3>1, <1>12
  <2>4. Read(m2, x, z) = Zeros(z)
    BY <2>3 DEF Read, Zeros
  <2>5. ValueOf(type, Zeros(z)) = 0
    BY ZeroValue DEF z
  <2>6. QED
    BY <2>4, <2>5 DEF VarIn, x, z
<1>14. AllocatedIn(m, m2, b, t, type, n)
  BY <1>10, <1>11, <1>13 DEF AllocatedIn
<1>15. Fits(m2, b2)
  <2>1. ASSUME NEW r \in DOMAIN b2
        PROVE  CountIn(m2, b2[r].type, r) \in Nat
               /\ VarAt(b2[r].type, r, CountIn(m2, b2[r].type, r)) <= EndByte(b2, r)
    <3>1. CASE r \in DOMAIN b
      <4>1. CountIn(m, b[r].type, r) \in Nat
            /\ VarAt(b[r].type, r, CountIn(m, b[r].type, r)) <= EndByte(b, r)
        BY <3>1 DEF Fits
      <4>2. EndByte(b2, r) = EndByte(b, r)
        BY <3>1, <1>3 DEF EndByte
      <4>3. QED
        BY <3>1, <4>1, <4>2, <1>3, <1>10
    <3>2. CASE r = t
      BY <3>2, <1>4, <1>6, <1>11 DEF e
    <3>3. QED
      BY <3>1, <3>2, <1>3
  <2>2. QED
    BY <2>1 DEF Fits
<1>16. Fresh(m2, t + words)
  <2>1. ASSUME NEW x \in e .. h - 1 PROVE m2[x] = 0
    <3>1. x \in u .. h - 1 /\ x \in Int
      BY <1>1, <1>7
    <3>2. x \in DOMAIN m /\ m[x] = 0 /\ ~ (x \in a .. a + Len(bs) - 1)
      BY <3>1, <1>1, <1>5, <1>7, <1>8
    <3>3. QED
      BY <3>2 DEF m2, Written, a
  <2>2. QED
    BY <2>1, <1>6 DEF Fresh, h
<1>17. QED
  BY <1>14, <1>15, <1>16 DEF m2, b2

-----------------------------------------------------------------------------
(* What the instructions write *)

\* The accessors of Memory are those above.
LEMMA Accessors ==
  /\ \A x, n : Bytes(x, n) = Read(mem, x, n)
  /\ \A r : /\ r \in Arrays <=> r \in DOMAIN blocks /\ blocks[r].type \in ArrayTypes
            /\ r \in Instances <=> r \in DOMAIN blocks /\ blocks[r].type \notin ArrayTypes
  /\ \A r \in Arrays : /\ GetArrayLength(r) = CountIn(mem, blocks[r].type, r)
                       /\ VarSize(blocks[r].type) = ElementSize(blocks[r].type)
                       /\ \A i : /\ Element(r, i) = VarAt(blocks[r].type, r, i)
                                 /\ Pushed(blocks[r].type, ElementBytes(r, i))
                                      = VarIn(mem, blocks[r].type, r, i)
  /\ \A r \in Instances : /\ NumSlots = CountIn(mem, blocks[r].type, r)
                          /\ VarSize(blocks[r].type) = STACKABLE
                          /\ \A i : /\ Slot(r, i) = VarAt(blocks[r].type, r, i)
                                    /\ GetField(r, i) = VarIn(mem, blocks[r].type, r, i)
<1>1. \A x, n : Bytes(x, n) = Read(mem, x, n)
  BY DEF Bytes, Read
<1>2. \A r : /\ r \in Arrays <=> r \in DOMAIN blocks /\ blocks[r].type \in ArrayTypes
             /\ r \in Instances <=> r \in DOMAIN blocks /\ blocks[r].type \notin ArrayTypes
  BY DEF Arrays, Instances
<1>3. ASSUME NEW r \in Arrays
      PROVE  /\ GetArrayLength(r) = CountIn(mem, blocks[r].type, r)
             /\ VarSize(blocks[r].type) = ElementSize(blocks[r].type)
             /\ \A i : /\ Element(r, i) = VarAt(blocks[r].type, r, i)
                       /\ Pushed(blocks[r].type, ElementBytes(r, i))
                            = VarIn(mem, blocks[r].type, r, i)
  <2>1. blocks[r].type \in ArrayTypes
    BY <1>2
  <2>2. GetArrayLength(r) = CountIn(mem, blocks[r].type, r)
    BY <2>1, <1>1 DEF GetArrayLength, CountIn
  <2>3. VarSize(blocks[r].type) = ElementSize(blocks[r].type)
    BY <2>1 DEF VarSize
  <2>4. ASSUME NEW i PROVE Element(r, i) = VarAt(blocks[r].type, r, i)
    BY <2>1, <2>3 DEF Element, VarAt, FirstVar
  <2>5. ASSUME NEW i
        PROVE  Pushed(blocks[r].type, ElementBytes(r, i)) = VarIn(mem, blocks[r].type, r, i)
    <3>1. ElementBytes(r, i) = Read(mem, VarAt(blocks[r].type, r, i), VarSize(blocks[r].type))
      BY <2>3, <2>4, <1>1 DEF ElementBytes
    <3>2. QED
      BY <3>1, <2>1 DEF VarIn, ValueOf
  <2>6. QED
    BY <2>2, <2>3, <2>4, <2>5
<1>4. ASSUME NEW r \in Instances
      PROVE  /\ NumSlots = CountIn(mem, blocks[r].type, r)
             /\ VarSize(blocks[r].type) = STACKABLE
             /\ \A i : /\ Slot(r, i) = VarAt(blocks[r].type, r, i)
                       /\ GetField(r, i) = VarIn(mem, blocks[r].type, r, i)
  <2>1. blocks[r].type \notin ArrayTypes
    BY <1>2
  <2>2. NumSlots = CountIn(mem, blocks[r].type, r) /\ VarSize(blocks[r].type) = STACKABLE
    BY <2>1 DEF CountIn, VarSize
  <2>3. ASSUME NEW i PROVE Slot(r, i) = VarAt(blocks[r].type, r, i)
    BY <2>1, <2>2 DEF Slot, VarAt, FirstVar
  <2>4. ASSUME NEW i PROVE GetField(r, i) = VarIn(mem, blocks[r].type, r, i)
    BY <2>1, <2>2, <2>3, <1>1 DEF GetField, VarIn, ValueOf
  <2>5. QED
    BY <2>2, <2>3, <2>4
<1>5. QED
  BY <1>1, <1>2, <1>3, <1>4

\* The step writes bs to the variables i .. i + n - 1 of r, which it has if there is room.
Stores(r, i, n, bs) ==
  /\ r \in DOMAIN blocks /\ i \in Nat /\ n \in Nat
  /\ bs \in Seq(Byte) /\ Len(bs) = n * VarSize(blocks[r].type)
  /\ Fits(mem, blocks) => i + n <= CountIn(mem, blocks[r].type, r)
  /\ mem' = Written(mem, VarAt(blocks[r].type, r, i), bs)
  /\ UNCHANGED <<blocks, top, staticMemory>>

\* The step writes nothing.
Reads == UNCHANGED <<mem, blocks, top, staticMemory>>

\* A store of the value v.
LEMMA PoppedType ==
  ASSUME NEW type \in ArrayTypes, NEW v \in Int
  PROVE  Popped(type, v) \in Seq(Byte) /\ Len(Popped(type, v)) = ElementSize(type)
<1>1. ElementSize(type) \in Widths
  BY WidthsThere
<1>2. (IF type = "boolean" THEN v % 2 ELSE v) \in Int
  OBVIOUS
<1>3. QED
  BY <1>1, <1>2, BytesOfType DEF Popped

\* An index that GetPointerToArrayPosition accepts is that of an element.
LEMMA InBounds ==
  ASSUME NEW r \in Arrays, NEW i \in Int, ~ OutOfBounds(r, i)
  PROVE  /\ i \in Nat
         /\ Fits(mem, blocks) => i < CountIn(mem, blocks[r].type, r)
<1>1. ~ (i < 0) /\ ~ (i >= CountIn(mem, blocks[r].type, r))
  BY Accessors DEF OutOfBounds
<1>2. ASSUME Fits(mem, blocks) PROVE CountIn(mem, blocks[r].type, r) \in Nat
  BY <1>2, Accessors DEF Fits
<1>3. QED
  BY <1>1, <1>2

\* A store of an element within the bounds is a store to one variable.
LEMMA StoreStores ==
  ASSUME NEW r \in Arrays, NEW i \in Int, NEW v \in Int, Store(r, i, v), r # 0,
         ~ OutOfBounds(r, i)
  PROVE  Stores(r, i, 1, Popped(blocks[r].type, v))
<1> DEFINE type == blocks[r].type
<1>1. mem' = Written(mem, Element(r, i), Popped(type, v))
      /\ UNCHANGED <<blocks, top, staticMemory>>
  BY DEF Store, WithPosition
<1>2. r \in DOMAIN blocks /\ type \in ArrayTypes /\ Element(r, i) = VarAt(type, r, i)
      /\ VarSize(type) = ElementSize(type)
  BY Accessors
<1>3. Popped(type, v) \in Seq(Byte) /\ Len(Popped(type, v)) = 1 * VarSize(type)
  <2>1. Len(Popped(type, v)) = ElementSize(type) /\ Popped(type, v) \in Seq(Byte)
    BY <1>2, PoppedType
  <2>2. ElementSize(type) \in Nat
    BY <1>2, WidthsThere, Powers
  <2>3. QED
    BY <2>1, <2>2, <1>2
<1>4. i \in Nat /\ (Fits(mem, blocks) => i + 1 <= CountIn(mem, type, r))
  <2>1. i \in Nat /\ (Fits(mem, blocks) => i < CountIn(mem, type, r))
    BY InBounds
  <2>2. Fits(mem, blocks) => CountIn(mem, type, r) \in Nat
    BY <1>2 DEF Fits
  <2>3. QED
    BY <2>1, <2>2
<1> HIDE DEF type
<1>5. QED
  BY <1>1, <1>2, <1>3, <1>4 DEF Stores, type

\* The bytes that SetByteArrayRegion copies, none for a negative length.
Copied(len) == [k \in 1 .. len |-> Buffer[k] % Base]
CopiedLength(len) == IF len < 0 THEN 0 ELSE len

\* The bytes copied from the buffer are bytes, as many as len says.
LEMMA CopiedType ==
  ASSUME NEW len \in Lengths
  PROVE  /\ Copied(len) \in Seq(Byte) /\ Len(Copied(len)) = CopiedLength(len)
         /\ CopiedLength(len) \in Nat /\ len \in Int
<1> DEFINE n == CopiedLength(len)
<1>1. len \in Int /\ len <= Len(Buffer) /\ Buffer \in Seq(Int) /\ n \in Nat
  <2>1. IntTop \in Nat
    BY MemoryAssumption
  <2>2. len \in Int
    BY <2>1, OperandsAssumption
  <2>3. QED
    BY <2>2, OperandsAssumption DEF CopiedLength
<1>2. 1 .. len = 1 .. n
  BY <1>1 DEF CopiedLength
<1>3. ASSUME NEW k \in 1 .. n PROVE Buffer[k] % Base \in Byte
  <2>1. k \in 1 .. Len(Buffer)
    BY <1>1, <1>2
  <2>2. Buffer[k] \in Int /\ Base \in Nat \ {0}
    BY <2>1, <1>1, Powers
  <2> DEFINE q == Buffer[k]
  <2> HIDE DEF q
  <2>3. q % Base \in 0 .. Base - 1
    BY <2>2, Division DEF q
  <2>4. QED
    BY <2>3 DEF Byte, q
<1>4. Copied(len) \in [1 .. n -> Byte]
  BY <1>2, <1>3 DEF Copied
<1> DEFINE c == Copied(len)
<1> HIDE DEF n, c
<1>5. c \in Seq(Byte) /\ Len(c) = n
  BY <1>1, <1>4 DEF c
<1>6. QED
  BY <1>1, <1>5 DEF n, c

\* A copy into an array whose first and last index are in bounds stores to its elements.
LEMMA SetByteArrayRegionStores ==
  ASSUME NEW r \in Arrays, blocks[r].type = "byte", NEW start \in Int, NEW len \in Lengths,
         SetByteArrayRegion(r, start, len, Buffer), r # 0,
         ~ OutOfBounds(r, start), ~ OutOfBounds(r, start + len - 1)
  PROVE  Stores(r, start, CopiedLength(len), Copied(len))
<1> DEFINE type == blocks[r].type
           n == CopiedLength(len)
<1>1. mem' = Written(mem, Element(r, start), Copied(len))
      /\ UNCHANGED <<blocks, top, staticMemory>>
  BY DEF SetByteArrayRegion, WithPosition, Copied
<1>2. r \in DOMAIN blocks /\ type \in ArrayTypes /\ Element(r, start) = VarAt(type, r, start)
      /\ VarSize(type) = 1
  <2>1. VarSize(type) = ElementSize(type)
    BY Accessors
  <2>2. QED
    BY <2>1, Accessors DEF ElementSize
<1>3. Copied(len) \in Seq(Byte) /\ Len(Copied(len)) = n * VarSize(type) /\ n \in Nat /\ len \in Int
  <2>1. Copied(len) \in Seq(Byte) /\ Len(Copied(len)) = n /\ n \in Nat /\ len \in Int
    BY CopiedType
  <2> HIDE DEF n
  <2>2. n * 1 = n
    BY <2>1
  <2>3. QED
    BY <2>1, <2>2, <1>2
<1>4. start \in Nat /\ (Fits(mem, blocks) => start + n <= CountIn(mem, type, r))
  <2>1. start \in Nat /\ (Fits(mem, blocks) => start < CountIn(mem, type, r))
    BY InBounds
  <2>2. start + len - 1 \in Int
    BY <1>3
  <2>3. Fits(mem, blocks) => start + len - 1 < CountIn(mem, type, r)
    BY <2>2, InBounds
  <2>4. Fits(mem, blocks) => CountIn(mem, type, r) \in Nat
    BY <1>2 DEF Fits
  <2> DEFINE c == CountIn(mem, type, r)
  <2> HIDE DEF c
  <2>5. /\ start \in Nat /\ len \in Int
        /\ Fits(mem, blocks) => start < c /\ start + len - 1 < c /\ c \in Nat
    BY <2>1, <2>3, <2>4, <1>3 DEF c
  <2>6. Fits(mem, blocks) => start + n <= c
    BY <2>5 DEF CopiedLength
  <2>7. QED
    BY <2>1, <2>6 DEF c
<1> HIDE DEF type, n
<1>5. QED
  BY <1>1, <1>2, <1>3, <1>4 DEF Stores, type, n

\* One sequence of bytes behind another.
LEMMA ConcatBytes ==
  ASSUME NEW s \in Seq(Byte), NEW u \in Seq(Byte)
  PROVE  /\ s \o u \in Seq(Byte) /\ Len(s \o u) = Len(s) + Len(u)
         /\ Part(s \o u, 0, Len(s)) = s /\ Part(s \o u, Len(s), Len(u)) = u
         /\ \A k \in Len(s) + 1 .. Len(s \o u) : (s \o u)[k] = u[k - Len(s)]
<1>1. s \o u \in Seq(Byte) /\ Len(s \o u) = Len(s) + Len(u)
  OBVIOUS
<1>2. \A k \in 1 .. Len(s) : (s \o u)[0 + k] = s[k]
  OBVIOUS
<1>3. \A k \in 1 .. Len(u) : (s \o u)[Len(s) + k] = u[k]
  OBVIOUS
<1>4. s = [k \in 1 .. Len(s) |-> s[k]] /\ u = [k \in 1 .. Len(u) |-> u[k]]
  OBVIOUS
<1>5. Part(s \o u, 0, Len(s)) = s
  BY <1>2, <1>4 DEF Part
<1>6. Part(s \o u, Len(s), Len(u)) = u
  BY <1>3, <1>4 DEF Part
<1>7. \A k \in Len(s) + 1 .. Len(s \o u) : (s \o u)[k] = u[k - Len(s)]
  OBVIOUS
<1>8. QED
  BY <1>1, <1>5, <1>6, <1>7

\* The bytes of a field of one or two words.
FieldBytes(words) ==
  BytesOf(words[1], STACKABLE) \o IF Len(words) = 2 THEN BytesOf(words[2], STACKABLE) ELSE <<>>

\* The words of a field follow one another, a stackable each.
LEMMA FieldBytesType ==
  ASSUME NEW n \in {1, 2}, NEW words \in [1 .. n -> FieldInts]
  PROVE  /\ FieldBytes(words) \in Seq(Byte) /\ Len(FieldBytes(words)) = n * STACKABLE
         /\ \A k \in 1 .. n :
              Part(FieldBytes(words), (k - 1) * STACKABLE, STACKABLE) = BytesOf(words[k], STACKABLE)
<1>1. STACKABLE \in Widths /\ STACKABLE \in Nat
  BY WidthsThere
<1>2. FieldInts \subseteq Int
  BY OperandsAssumption, MemoryAssumption
<1>3. words[1] \in Int /\ (n = 2 => words[2] \in Int) /\ Len(words) = n
  <2>1. 1 \in 1 .. n /\ (n = 2 => 2 \in 1 .. n) /\ n \in Nat
    OBVIOUS
  <2>2. \A k \in 1 .. n : words[k] \in Int
    BY <1>2
  <2>3. Len(words) = n
    BY <2>1
  <2>4. QED
    BY <2>1, <2>2, <2>3
<1> DEFINE s == BytesOf(words[1], STACKABLE)
           u == IF n = 2 THEN BytesOf(words[2], STACKABLE) ELSE <<>>
<1>4. s \in Seq(Byte) /\ Len(s) = STACKABLE
  BY <1>1, <1>3, BytesOfType
<1>5. u \in Seq(Byte) /\ (n = 2 => Len(u) = STACKABLE) /\ (n = 1 => Len(u) = 0)
  BY <1>1, <1>3, BytesOfType
<1>6. FieldBytes(words) = s \o u
  BY <1>3 DEF FieldBytes
<1>7. n = 2 => u = BytesOf(words[2], STACKABLE)
  OBVIOUS
<1>8. s = BytesOf(words[1], STACKABLE)
  OBVIOUS
<1> HIDE DEF s, u
<1>9. /\ s \o u \in Seq(Byte) /\ Len(s \o u) = Len(s) + Len(u)
      /\ Part(s \o u, 0, Len(s)) = s /\ Part(s \o u, Len(s), Len(u)) = u
  BY <1>4, <1>5, ConcatBytes
<1>10. Len(s \o u) = n * STACKABLE
  BY <1>1, <1>4, <1>5, <1>9
<1>11. ASSUME NEW k \in 1 .. n
       PROVE  Part(s \o u, (k - 1) * STACKABLE, STACKABLE) = BytesOf(words[k], STACKABLE)
  <2>1. CASE k = 1
    <3>1. (k - 1) * STACKABLE = 0
      BY <2>1, <1>1
    <3>2. QED
      BY <3>1, <2>1, <1>4, <1>8, <1>9
  <2>2. CASE k = 2
    <3>1. n = 2 /\ (k - 1) * STACKABLE = STACKABLE
      BY <2>2, <1>1
    <3>2. QED
      BY <3>1, <2>2, <1>4, <1>5, <1>7, <1>9
  <2>3. QED
    BY <2>1, <2>2
<1>12. QED
  BY <1>6, <1>9, <1>10, <1>11

\* A store to a field of one or two words is a store to its slots.
LEMMA PutFieldStores ==
  ASSUME NEW r \in Instances, NEW n \in {1, 2}, NEW address \in 0 .. NumSlots - 1,
         address + n <= NumSlots, NEW words \in [1 .. n -> FieldInts],
         f_putfield(r, address, words), r # 0
  PROVE  Stores(r, address, n, FieldBytes(words))
<1> DEFINE type == blocks[r].type
<1>1. mem' = Written(mem, Slot(r, address), FieldBytes(words))
      /\ UNCHANGED <<blocks, top, staticMemory>>
  BY DEF f_putfield, WithPosition, PutField, FieldBytes
<1>2. r \in DOMAIN blocks /\ Slot(r, address) = VarAt(type, r, address)
      /\ VarSize(type) = STACKABLE /\ NumSlots = CountIn(mem, type, r)
  BY Accessors
<1>3. FieldBytes(words) \in Seq(Byte) /\ Len(FieldBytes(words)) = n * VarSize(type)
  BY <1>2, FieldBytesType
<1>4. NumSlots \in Nat
  BY MemoryAssumption
<1>5. address \in Nat /\ n \in Nat /\ address + n <= CountIn(mem, type, r)
  BY <1>2, <1>4
<1> HIDE DEF type
<1>6. QED
  BY <1>1, <1>2, <1>3, <1>5 DEF Stores, type

\* The step allocates a block and writes bs to it.
Allocates(type, words, bs) ==
  /\ type \in ArrayTypes \cup {"object"} /\ words \in Nat \ {0}
  /\ top + words <= HeapSize + 1 /\ bs \in Seq(Byte)
  /\ mem' = Written(mem, GetObjectPayload(top), bs)
  /\ blocks' = WithBlock(blocks, top, type, words)
  /\ top' = top + words
  /\ UNCHANGED staticMemory

\* The size of an allocation is cut to a u2.
WordsFor(bytes) == HEAP_HEADER_SIZE + ToAlignedSize(bytes % SizeLimit)

\* heap_alloc either takes the first free words or changes nothing.
LEMMA heapAllocSteps ==
  ASSUME TInv, NEW type \in ArrayTypes \cup {"object"}, NEW bytes \in Nat,
         NEW initial \in Seq(Byte), NEW insn, heapAlloc(insn, bytes, type, initial)
  PROVE  \/ /\ Allocates(type, WordsFor(bytes), initial)
            /\ Event(insn, top, Result(<<top>>))
         \/ Reads /\ Event(insn, 0, Throw("OutOfMemoryError"))
<1>1. SizeLimit \in Nat \ {0} /\ HEAP_HEADER_SIZE \in Nat \ {0} /\ HeapSize \in Nat
  BY MemoryAssumption
<1>2. top \in 1 .. HeapSize + 1
  BY DEF TInv, Typed
<1> DEFINE size == bytes % SizeLimit
           w == ToAlignedSize(size)
<1>3. size \in Nat
  BY <1>1, Division
<1> HIDE DEF size
<1>4. w \in Nat
  BY <1>3, Aligned
<1> HIDE DEF w
<1>5. CASE Room(size)
  <2>1. top + HEAP_HEADER_SIZE + w <= HeapSize + 1
    BY <1>5 DEF Room, w
  <2> DEFINE words == WordsFor(bytes)
  <2>2. words = HEAP_HEADER_SIZE + w
    BY DEF WordsFor, w, size
  <2>3. words \in Nat \ {0} /\ top + words <= HeapSize + 1
    BY <2>1, <2>2, <1>1, <1>2, <1>4
  <2>4. /\ blocks' = [ref \in DOMAIN blocks \cup {top} |->
                       IF ref = top THEN [type |-> type, words |-> words] ELSE blocks[ref]]
        /\ top' = top + words
        /\ mem' = Written(mem, GetObjectPayload(top), initial)
        /\ Event(insn, top, Result(<<top>>))
        /\ UNCHANGED staticMemory
    BY <1>5, <2>2 DEF heapAlloc, size, w
  <2>5. Allocates(type, words, initial)
    BY <2>3, <2>4 DEF Allocates, WithBlock
  <2>6. QED
    BY <2>4, <2>5
<1>6. CASE ~ Room(size)
  BY <1>6 DEF heapAlloc, size, Reads
<1>7. QED
  BY <1>5, <1>6

\* What NewObjectArray writes: the length, and null into every element.
ArrayInitial(type, count) ==
  BytesOf(count, ALIGN) \o IF type = "object[]" THEN Zeros(count * ALIGN) ELSE <<>>

\* What a new array starts with are bytes: its length, and null references.
LEMMA ArrayInitialType ==
  ASSUME NEW type \in ArrayTypes, NEW count \in Nat
  PROVE  /\ ArrayInitial(type, count) \in Seq(Byte)
         /\ ALIGN <= Len(ArrayInitial(type, count))
         /\ Len(ArrayInitial(type, count)) <= ALIGN + count * ElementSize(type)
         /\ Part(ArrayInitial(type, count), 0, ALIGN) = BytesOf(count, ALIGN)
         /\ \A k \in ALIGN + 1 .. Len(ArrayInitial(type, count)) : ArrayInitial(type, count)[k] = 0
<1> DEFINE s == BytesOf(count, ALIGN)
           z == count * ALIGN
           u == IF type = "object[]" THEN Zeros(z) ELSE <<>>
           w == count * ElementSize(type)
<1>1. ALIGN \in Widths /\ ALIGN \in Nat \ {0} /\ ElementSize(type) \in Nat
  BY WidthsThere, Powers
<1>2. s \in Seq(Byte) /\ Len(s) = ALIGN
  BY <1>1, BytesOfType
<1>3. z \in Nat /\ w \in Nat /\ (type = "object[]" => w = z)
  <2>1. z \in Nat /\ w \in Nat
    BY <1>1, Scaled
  <2>2. type = "object[]" => ElementSize(type) = ALIGN
    BY DEF ElementSize
  <2>3. QED
    BY <2>1, <2>2
<1>4. 0 \in Byte
  BY Powers DEF Byte
<1> HIDE DEF z, w
<1>5. u \in Seq(Byte) /\ Len(u) \in Nat /\ Len(u) <= w /\ \A k \in 1 .. Len(u) : u[k] = 0
  <2>1. CASE type = "object[]"
    <3>1. Zeros(z) \in [1 .. z -> Byte]
      BY <1>4 DEF Zeros
    <3>2. Zeros(z) \in Seq(Byte) /\ Len(Zeros(z)) = z
      BY <3>1, <1>3
    <3>3. \A k \in 1 .. z : Zeros(z)[k] = 0
      BY DEF Zeros
    <3>4. QED
      BY <3>2, <3>3, <2>1, <1>3
  <2>2. CASE type # "object[]"
    BY <2>2, <1>3
  <2>3. QED
    BY <2>1, <2>2
<1>6. ArrayInitial(type, count) = s \o u
  BY DEF ArrayInitial, z
<1>7. s = BytesOf(count, ALIGN)
  OBVIOUS
<1> HIDE DEF s, u
<1>8. /\ s \o u \in Seq(Byte) /\ Len(s \o u) = Len(s) + Len(u)
      /\ Part(s \o u, 0, Len(s)) = s
      /\ \A k \in Len(s) + 1 .. Len(s \o u) : (s \o u)[k] = u[k - Len(s)]
  BY <1>2, <1>5, ConcatBytes
<1>9. \A k \in ALIGN + 1 .. Len(s \o u) : (s \o u)[k] = 0
  <2>1. ASSUME NEW k \in ALIGN + 1 .. Len(s \o u) PROVE (s \o u)[k] = 0
    <3>1. k - ALIGN \in 1 .. Len(u)
      BY <1>1, <1>2, <1>5, <1>8
    <3>2. (s \o u)[k] = u[k - ALIGN]
      BY <1>2, <1>8
    <3>3. QED
      BY <3>1, <3>2, <1>5
  <2>2. QED
    BY <2>1
<1>10. ALIGN <= Len(s \o u) /\ Len(s \o u) <= ALIGN + w
  BY <1>1, <1>2, <1>3, <1>5, <1>8
<1>11. Part(s \o u, 0, ALIGN) = BytesOf(count, ALIGN)
  BY <1>2, <1>7, <1>8
<1>12. QED
  BY <1>6, <1>8, <1>9, <1>10, <1>11 DEF w

\* The bytes an array asks for.
ArrayBytes(type, count) ==
  GetAlignedArraySize((count * ElementSize(type)) % SizeLimit) * ALIGN

NewInsn(type, n) == <<"new", type, n>>

\* A new array is an allocation, or an exception that changes nothing.
LEMMA NewArraySteps ==
  ASSUME TInv, NEW type \in ArrayTypes, NEW count \in Counts, NewArray(type, count)
  PROVE  \/ /\ count < 0 /\ Reads
            /\ Event(NewInsn(type, count), 0, Throw("NegativeArraySizeException"))
         \/ /\ count \in Nat
            /\ Allocates(type, WordsFor(ArrayBytes(type, count)), ArrayInitial(type, count))
            /\ Event(NewInsn(type, count), top, Result(<<top>>))
         \/ count \in Nat /\ Reads /\ Event(NewInsn(type, count), 0, Throw("OutOfMemoryError"))
<1>1. count \in Int /\ SizeLimit \in Nat \ {0} /\ ALIGN \in Nat
  BY OperandsAssumption, MemoryAssumption
<1>2. CASE count < 0
  BY <1>2 DEF NewArray, Reads, NewInsn
<1>3. CASE ~ (count < 0)
  <2>1. count \in Nat
    BY <1>1, <1>3
  <2>2. heapAlloc(NewInsn(type, count), ArrayBytes(type, count), type, ArrayInitial(type, count))
    BY <1>3 DEF NewArray, ArrayBytes, ArrayInitial, Zeros, NewInsn
  <2>3. ArrayBytes(type, count) \in Nat
    <3> DEFINE p == count * ElementSize(type)
    <3>1. p \in Nat
      <4>1. ElementSize(type) \in Nat
        BY WidthsThere, Powers
      <4>2. QED
        BY <4>1, <2>1, Scaled
    <3> HIDE DEF p
    <3> DEFINE q == p % SizeLimit
    <3>2. q \in Nat
      BY <3>1, <1>1, Division
    <3> HIDE DEF q
    <3> DEFINE g == GetAlignedArraySize(q)
    <3>3. g \in Nat
      BY <3>2, Aligned, ArrayHeader DEF GetAlignedArraySize
    <3> HIDE DEF g
    <3>4. g * ALIGN \in Nat
      BY <3>3, <1>1, Scaled
    <3>5. QED
      BY <3>4 DEF ArrayBytes, g, q, p
  <2>4. ArrayInitial(type, count) \in Seq(Byte)
    BY <2>1, ArrayInitialType
  <2>5. QED
    BY <2>1, <2>2, <2>3, <2>4, heapAllocSteps
<1>4. QED
  BY <1>2, <1>3

\* A new instance is an allocation, or an exception that changes nothing.
LEMMA newObjectSteps ==
  ASSUME TInv, newObject
  PROVE  \/ /\ Allocates("object", WordsFor(NumSlots * STACKABLE), <<>>)
            /\ Event(NewInsn("object", NumSlots), top, Result(<<top>>))
         \/ Reads /\ Event(NewInsn("object", NumSlots), 0, Throw("OutOfMemoryError"))
<1>1. NumSlots \in Nat /\ STACKABLE \in Nat
  BY MemoryAssumption
<1>2. NumSlots * STACKABLE \in Nat
  BY <1>1, Scaled
<1>3. heapAlloc(NewInsn("object", NumSlots), NumSlots * STACKABLE, "object", <<>>) /\ <<>> \in Seq(Byte)
  BY DEF newObject, NewInsn
<1>4. QED
  BY <1>2, <1>3, heapAllocSteps

\* Whatever is stored is a number.
LEMMA OperandsType ==
  ASSUME TInv
  PROVE  /\ Ints \subseteq Int /\ Longs \subseteq Int /\ FieldInts \subseteq Int
         /\ Counts \subseteq Int /\ Indexes \subseteq Int /\ Lengths \subseteq Int
         /\ DOMAIN blocks \subseteq Nat \ {0} /\ 0 \notin DOMAIN blocks
         /\ \A type : Operands(type) \subseteq Int
<1>1. /\ Ints \subseteq Int /\ Longs \subseteq Int /\ FieldInts \subseteq Int
      /\ Counts \subseteq Int /\ Indexes \subseteq Int /\ Lengths \subseteq Int
  BY OperandsAssumption, MemoryAssumption
<1>2. DOMAIN blocks \subseteq Nat \ {0}
  BY DEF TInv, Typed
<1>3. ASSUME NEW type PROVE Operands(type) \subseteq Int
  <2>1. DOMAIN blocks \cup {0} \subseteq Int
    BY <1>2
  <2>2. QED
    BY <2>1, <1>1 DEF Operands
<1>4. QED
  BY <1>1, <1>2, <1>3

\* A field of words in a memory that has it.
LEMMA FieldEntry ==
  ASSUME NEW n \in Nat, NEW f \in FieldEntries(n)
  PROVE  f[1] \in 0 .. n - 1 /\ f[2] \in {1, 2} /\ f[1] + f[2] <= n
BY DEF FieldEntries

\* Words stored to static fields leave them numbers.
LEMMA StaticStores ==
  ASSUME NEW n \in {1, 2}, NEW address \in 0 .. NumStatics - 1, address + n <= NumStatics,
         NEW words \in [1 .. n -> FieldInts],
         staticMemory \in [0 .. NumStatics - 1 -> Int]
  PROVE  Written(staticMemory, address, words) \in [0 .. NumStatics - 1 -> Int]
<1>1. NumStatics \in Nat /\ FieldInts \subseteq Int
  BY MemoryAssumption, OperandsAssumption
<1>2. \A k \in 1 .. n : words[k] \in Int
  BY <1>1
<1>3. Len(words) = n
  OBVIOUS
<1>4. ASSUME NEW x \in 0 .. NumStatics - 1, x \in address .. address + Len(words) - 1
      PROVE  words[x - address + 1] \in Int
  <2>1. x - address + 1 \in 1 .. n
    BY <1>1, <1>3, <1>4
  <2>2. QED
    BY <2>1, <1>2
<1>5. QED
  BY <1>4 DEF Written

\* The four things a step does.
LEMMA StepKinds ==
  ASSUME TInv, Next
  PROVE  \/ Reads
         \/ \E r, i, n, bs : Stores(r, i, n, bs)
         \/ \E type \in ArrayTypes, count \in Counts :
              /\ count \in Nat
              /\ Allocates(type, WordsFor(ArrayBytes(type, count)), ArrayInitial(type, count))
         \/ Allocates("object", WordsFor(NumSlots * STACKABLE), <<>>)
         \/ /\ UNCHANGED <<mem, blocks, top>>
            /\ staticMemory' \in [0 .. NumStatics - 1 -> Int]
<1> DEFINE Static == /\ UNCHANGED <<mem, blocks, top>>
                     /\ staticMemory' \in [0 .. NumStatics - 1 -> Int]
           Storing == \E r, i, n, bs : Stores(r, i, n, bs)
<1>1. /\ Indexes \subseteq Int /\ Lengths \subseteq Int /\ FieldInts \subseteq Int
      /\ 0 \notin DOMAIN blocks /\ \A type : Operands(type) \subseteq Int
      /\ NumSlots \in Nat /\ NumStatics \in Nat
  BY OperandsType, MemoryAssumption
<1>2. 0 \notin Arrays /\ 0 \notin Instances
  BY <1>1, Accessors
<1>4. ASSUME newObject
      PROVE  Reads \/ Allocates("object", WordsFor(NumSlots * STACKABLE), <<>>)
  BY <1>4, newObjectSteps
<1>5. ASSUME NEW type \in ArrayTypes, NEW count \in Counts, NewArray(type, count)
      PROVE  \/ Reads
             \/ /\ count \in Nat
                /\ Allocates(type, WordsFor(ArrayBytes(type, count)), ArrayInitial(type, count))
  BY <1>5, NewArraySteps
<1>6. ASSUME NEW r \in Arrays \cup {0}, ArrayAccess(r) PROVE Reads \/ Storing
  <2>1. CASE f_arraylength(r)
    BY <2>1 DEF f_arraylength, WithPosition, Reads
  <2>2. ASSUME NEW i \in Indexes, Load(r, i) PROVE Reads
    BY <2>2 DEF Load, WithPosition, Reads
  <2>3. ASSUME NEW i \in Indexes, NEW v \in IF r = 0 THEN {0} ELSE Operands(blocks[r].type),
               Store(r, i, v)
        PROVE  Reads \/ Storing
    <3>1. CASE r = 0 \/ OutOfBounds(r, i)
      BY <2>3, <3>1 DEF Store, WithPosition, Reads
    <3>2. CASE r # 0 /\ ~ OutOfBounds(r, i)
      <4>1. r \in Arrays /\ i \in Int /\ v \in Int
        BY <3>2, <1>1
      <4>2. Stores(r, i, 1, Popped(blocks[r].type, v))
        BY <2>3, <3>2, <4>1, StoreStores
      <4>3. QED
        BY <4>2
    <3>3. QED
      BY <3>1, <3>2
  <2>4. ASSUME NEW start \in Indexes, NEW len \in Lengths, r # 0 => blocks[r].type = "byte",
               SetByteArrayRegion(r, start, len, Buffer)
        PROVE  Reads \/ Storing
    <3>1. CASE r = 0 \/ OutOfBounds(r, start) \/ OutOfBounds(r, start + len - 1)
      BY <2>4, <3>1 DEF SetByteArrayRegion, WithPosition, Reads
    <3>2. CASE r # 0 /\ ~ OutOfBounds(r, start) /\ ~ OutOfBounds(r, start + len - 1)
      <4>1. r \in Arrays /\ start \in Int /\ blocks[r].type = "byte"
        BY <2>4, <3>2, <1>1
      <4>2. Stores(r, start, CopiedLength(len), Copied(len))
        BY <2>4, <3>2, <4>1, SetByteArrayRegionStores
      <4>3. QED
        BY <4>2
    <3>3. QED
      BY <3>1, <3>2
  <2>5. ASSUME NEW start \in Indexes, NEW len \in Lengths,
               GetByteArrayRegion(r, start, len)
        PROVE  Reads
    BY <2>5 DEF GetByteArrayRegion, WithPosition, Reads
  <2>6. QED
    BY <1>6, <2>1, <2>2, <2>3, <2>4, <2>5 DEF ArrayAccess
<1>7. ASSUME NEW r \in Instances \cup {0}, NEW n \in {1, 2}, NEW address \in 0 .. NumSlots - 1,
             address + n <= NumSlots, NEW words \in [1 .. n -> FieldInts],
             f_putfield(r, address, words)
      PROVE  Reads \/ Storing
  <2>1. CASE r = 0
    BY <1>7, <2>1 DEF f_putfield, WithPosition, Reads
  <2>2. CASE r # 0
    <3>1. Stores(r, address, n, FieldBytes(words))
      BY <1>7, <2>2, PutFieldStores
    <3>2. QED
      BY <3>1
  <2>3. QED
    BY <2>1, <2>2
<1>8. ASSUME NEW r, NEW address, NEW n, f_getfield(r, address, n) PROVE Reads
  BY <1>8 DEF f_getfield, WithPosition, Reads
<1>9. ASSUME NEW n \in {1, 2}, NEW address \in 0 .. NumStatics - 1,
             address + n <= NumStatics, NEW words \in [1 .. n -> FieldInts],
             f_putstatic(address, words)
      PROVE  Static
  <2>1. staticMemory \in [0 .. NumStatics - 1 -> Int]
    BY DEF TInv
  <2>2. staticMemory' = Written(staticMemory, address, words) /\ UNCHANGED <<mem, blocks, top>>
    BY <1>9 DEF f_putstatic
  <2>3. Written(staticMemory, address, words) \in [0 .. NumStatics - 1 -> Int]
    BY <1>9, <2>1, StaticStores
  <2>4. QED
    BY <2>2, <2>3
<1>10. ASSUME NEW address, NEW n, f_getstatic(address, n) PROVE Reads
  BY <1>10 DEF f_getstatic, Reads
<1>11. \A v \in FieldInts : <<v>> \in [1 .. 1 -> FieldInts]
  OBVIOUS
<1>12. ASSUME NEW r \in Instances \cup {0}, FieldAccess(r) PROVE Reads \/ Storing
  <2>1. PICK f \in FieldEntries(NumSlots) :
          \/ f_getfield(r, f[1], f[2])
          \/ \E words \in [1 .. f[2] -> FieldInts] : f_putfield(r, f[1], words)
    BY <1>12 DEF FieldAccess
  <2>2. f[1] \in 0 .. NumSlots - 1 /\ f[2] \in {1, 2} /\ f[1] + f[2] <= NumSlots
    BY <1>1, FieldEntry
  <2>3. QED
    BY <2>1, <2>2, <1>7, <1>8
<1>13. ASSUME NEW r \in Instances \cup {0}, NativeAccess(r) PROVE Reads \/ Storing \/ Static
  <2>1. ASSUME NEW address \in 0 .. NumSlots - 1, GetIntField(r, address) PROVE Reads
    BY <2>1, <1>8 DEF GetIntField
  <2>2. ASSUME NEW address \in 0 .. NumSlots - 1, NEW v \in FieldInts,
               SetIntField(r, address, v)
        PROVE  Reads \/ Storing
    <3>1. f_putfield(r, address, <<v>>) /\ <<v>> \in [1 .. 1 -> FieldInts]
          /\ address + 1 <= NumSlots /\ 1 \in {1, 2}
      BY <2>2, <1>1, <1>11 DEF SetIntField
    <3>2. QED
      BY <3>1, <1>7
  <2>3. ASSUME NEW address, GetStaticObjectField(address) PROVE Reads
    BY <2>3, <1>10 DEF GetStaticObjectField
  <2>4. ASSUME NEW address \in 0 .. NumStatics - 1, NEW v \in FieldInts,
               SetStaticObjectField(address, v)
        PROVE  Static
    <3>1. f_putstatic(address, <<v>>) /\ <<v>> \in [1 .. 1 -> FieldInts]
          /\ address + 1 <= NumStatics /\ 1 \in {1, 2}
      BY <2>4, <1>1, <1>11 DEF SetStaticObjectField
    <3>2. QED
      BY <3>1, <1>9
  <2>5. QED
    BY <1>13, <2>1, <2>2, <2>3, <2>4 DEF NativeAccess
<1>14. ASSUME StaticAccess PROVE Reads \/ Static
  <2>1. PICK f \in FieldEntries(NumStatics) :
          \/ f_getstatic(f[1], f[2])
          \/ \E words \in [1 .. f[2] -> FieldInts] : f_putstatic(f[1], words)
    BY <1>14 DEF StaticAccess
  <2>2. f[1] \in 0 .. NumStatics - 1 /\ f[2] \in {1, 2} /\ f[1] + f[2] <= NumStatics
    BY <1>1, FieldEntry
  <2>3. QED
    BY <2>1, <2>2, <1>9, <1>10
<1>15. ASSUME NextInstruction PROVE Reads
  BY <1>15 DEF NextInstruction, Reads
<1> HIDE DEF Static, Storing
<1>16. QED
  BY <1>4, <1>5, <1>6, <1>12, <1>13, <1>14, <1>15 DEF Next, Static, Storing

-----------------------------------------------------------------------------
(* The invariant *)

\* What resetVM leaves in a static field is a number.
LEMMA ClearedStaticType == \A address : ClearedStatic(address) \in Int
<1> DEFINE b == [k \in 1 .. STACKABLE |-> NumStatics % Base]
<1>1. STACKABLE \in Widths /\ STACKABLE \in Nat /\ Base \in Nat \ {0} /\ NumStatics \in Nat
  BY WidthsThere, Powers, MemoryAssumption
<1>2. NumStatics % Base \in Byte
  BY <1>1, Division DEF Byte
<1>3. b \in [1 .. STACKABLE -> Byte]
  BY <1>2
<1> HIDE DEF b
<1>4. b \in Seq(Byte) /\ Len(b) = STACKABLE
  BY <1>1, <1>3
<1>5. Number(b) \in Int
  BY <1>1, <1>4, NumberType
<1>6. QED
  BY <1>5 DEF ClearedStatic, b

\* The invariant holds at the start.
LEMMA InitIInv ==
  ASSUME Init
  PROVE  IInv
<1>1. ALIGN \in Nat /\ HeapSize \in Nat /\ 0 \in Byte /\ NumStatics \in Nat
  BY MemoryAssumption, Powers DEF Byte
<1>2. /\ mem = [x \in ALIGN .. (HeapSize + 1) * ALIGN - 1 |-> 0]
      /\ blocks = <<>> /\ top = 1
      /\ staticMemory = [address \in 0 .. NumStatics - 1 |-> ClearedStatic(address)]
  BY DEF Init
<1>3. DOMAIN blocks = {} /\ blocks \in [DOMAIN blocks -> Header]
  BY <1>2
<1>4. mem \in [ALIGN .. (HeapSize + 1) * ALIGN - 1 -> Byte]
  BY <1>1, <1>2
<1>5. Typed(mem, blocks, top)
  <2>1. top \in 1 .. HeapSize + 1
    BY <1>1, <1>2
  <2>2. QED
    BY <2>1, <1>3, <1>4 DEF Typed
<1>6. staticMemory \in [0 .. NumStatics - 1 -> Int]
  BY <1>2, ClearedStaticType
<1>7. Fits(mem, blocks)
  BY <1>3 DEF Fits
<1>8. Fresh(mem, top)
  <2>1. top * ALIGN = ALIGN
    BY <1>1, <1>2
  <2>2. QED
    BY <2>1, <1>2 DEF Fresh
<1>9. QED
  BY <1>5, <1>6, <1>7, <1>8 DEF IInv, TInv

\* A store keeps the headers apart and bytes bytes.
LEMMA StoresTyped ==
  ASSUME TInv, NEW r, NEW i, NEW n, NEW bs, Stores(r, i, n, bs)
  PROVE  TInv'
<1>1. /\ r \in DOMAIN blocks /\ i \in Nat /\ bs \in Seq(Byte)
      /\ mem' = Written(mem, VarAt(blocks[r].type, r, i), bs)
      /\ blocks' = blocks /\ top' = top /\ staticMemory' = staticMemory
  BY DEF Stores
<1>2. Typed(mem, blocks, top) /\ staticMemory \in [0 .. NumStatics - 1 -> Int]
  BY DEF TInv
<1>3. VarAt(blocks[r].type, r, i) \in Int
  <2> DEFINE z == VarSize(blocks[r].type)
             f == FirstVar(blocks[r].type, r)
  <2>1. z \in Nat
    <3>1. \A type \in ArrayTypes : ElementSize(type) \in Nat
      BY WidthsThere, Powers
    <3>2. QED
      BY <3>1, WidthsThere DEF VarSize
  <2>2. f \in Nat
    <3>1. GetObjectPayload(r) \in Nat /\ ALIGN \in Nat
          /\ jaGetArrayPayLoad(r) = GetObjectPayload(r) + ALIGN
      BY <1>1, <1>2, BlockBytes, WidthsThere
    <3>2. QED
      BY <3>1 DEF FirstVar
  <2>3. VarAt(blocks[r].type, r, i) = f + i * z
    BY DEF VarAt
  <2> HIDE DEF z, f
  <2>4. i * z \in Nat
    BY <2>1, <1>1, Scaled
  <2>5. QED
    BY <2>2, <2>3, <2>4
<1>4. IsMemory(mem)
  BY <1>2 DEF Typed, IsMemory, HeapBytes
<1>5. IsMemory(mem')
  BY <1>1, <1>3, <1>4, WrittenType
<1>6. Typed(mem', blocks, top)
  BY <1>2, <1>5 DEF Typed, IsMemory, HeapBytes
<1>7. QED
  BY <1>1, <1>2, <1>6 DEF TInv

\* So does an allocation.
LEMMA AllocatesTyped ==
  ASSUME TInv, NEW type, NEW words, NEW bs, Allocates(type, words, bs)
  PROVE  TInv' /\ top \notin DOMAIN blocks
<1>1. Typed(mem, blocks, top) /\ staticMemory \in [0 .. NumStatics - 1 -> Int]
  BY DEF TInv
<1>2. /\ type \in ArrayTypes \cup {"object"} /\ words \in Nat \ {0}
      /\ top + words <= HeapSize + 1 /\ bs \in Seq(Byte)
  BY DEF Allocates
<1>3. /\ mem' = Written(mem, GetObjectPayload(top), bs)
      /\ blocks' = WithBlock(blocks, top, type, words)
      /\ top' = top + words
      /\ staticMemory' = staticMemory
  BY DEF Allocates
<1>4. /\ Typed(Written(mem, GetObjectPayload(top), bs), WithBlock(blocks, top, type, words),
               top + words)
      /\ top \notin DOMAIN blocks
  BY <1>1, <1>2, AllocateTyped
<1>5. QED
  BY <1>1, <1>3, <1>4 DEF TInv

\* Types are kept by every step, whatever the sizes.
LEMMA NextTInv == TInv /\ [Next]_mvars => TInv'
<1>1. ASSUME TInv, Next PROVE TInv'
  <2>1. ASSUME Reads PROVE TInv'
    BY <1>1, <2>1 DEF Reads, TInv
  <2>2. ASSUME UNCHANGED <<mem, blocks, top>>, staticMemory' \in [0 .. NumStatics - 1 -> Int]
        PROVE  TInv'
    BY <1>1, <2>2 DEF TInv
  <2>3. ASSUME NEW r, NEW i, NEW n, NEW bs, Stores(r, i, n, bs) PROVE TInv'
    BY <1>1, <2>3, StoresTyped
  <2>4. ASSUME NEW type, NEW words, NEW bs, Allocates(type, words, bs) PROVE TInv'
    BY <1>1, <2>4, AllocatesTyped
  <2>5. QED
    BY <1>1, <2>1, <2>2, <2>3, <2>4, StepKinds
<1>2. ASSUME TInv, UNCHANGED mvars PROVE TInv'
  BY <1>2 DEF mvars, TInv
<1>3. QED
  BY <1>1, <1>2

\* A store keeps the invariant, and changes the variables it names only.
LEMMA StoresIInv ==
  ASSUME IInv, NEW r, NEW i, NEW n, NEW bs, Stores(r, i, n, bs)
  PROVE  IInv' /\ StoredIn(mem, mem', blocks, r, i, n, bs)
<1>1. /\ r \in DOMAIN blocks /\ i \in Nat /\ n \in Nat
      /\ bs \in Seq(Byte) /\ Len(bs) = n * VarSize(blocks[r].type)
      /\ i + n <= CountIn(mem, blocks[r].type, r)
      /\ mem' = Written(mem, VarAt(blocks[r].type, r, i), bs)
      /\ blocks' = blocks /\ top' = top
  BY DEF Stores, IInv
<1>2. Typed(mem, blocks, top) /\ Fits(mem, blocks) /\ Fresh(mem, top)
  BY DEF IInv, TInv
<1>3. StoredIn(mem, mem', blocks, r, i, n, bs) /\ Fits(mem', blocks) /\ Fresh(mem', top)
  BY <1>1, <1>2, StoreKeeps
<1>4. TInv'
  BY StoresTyped DEF IInv
<1>5. QED
  BY <1>1, <1>3, <1>4 DEF IInv

\* An allocation with room for its variables keeps the invariant.
LEMMA AllocatesIInv ==
  ASSUME IInv, NEW type, NEW words, NEW bs, Allocates(type, words, bs),
         NEW n \in Nat, Initial(type, n, bs),
         VarAt(type, top, n) <= (top + words) * ALIGN,
         GetObjectPayload(top) + Len(bs) <= (top + words) * ALIGN
  PROVE  IInv' /\ AllocatedIn(mem, mem', blocks, top, type, n)
<1>1. /\ type \in ArrayTypes \cup {"object"} /\ words \in Nat \ {0}
      /\ top + words <= HeapSize + 1
  BY DEF Allocates
<1>2. /\ mem' = Written(mem, GetObjectPayload(top), bs)
      /\ blocks' = WithBlock(blocks, top, type, words)
      /\ top' = top + words
  BY DEF Allocates
<1>3. Typed(mem, blocks, top) /\ Fits(mem, blocks) /\ Fresh(mem, top)
  BY DEF IInv, TInv
<1>4. /\ AllocatedIn(mem, mem', blocks, top, type, n)
      /\ Fits(mem', blocks') /\ Fresh(mem', top')
  BY <1>1, <1>2, <1>3, AllocateKeeps
<1>5. TInv'
  BY AllocatesTyped DEF IInv
<1>6. QED
  BY <1>4, <1>5 DEF IInv

\* A remainder of what is below the divisor.
LEMMA NothingCut ==
  ASSUME NEW v \in Nat, NEW d \in Nat \ {0}, v < d
  PROVE  v % d = v
<1>1. v = d * 0 + v /\ v \in 0 .. d - 1
  OBVIOUS
<1>2. QED
  BY <1>1, Divided

\* Where no size is cut, a block has room for what is put in it.
LEMMA RoomForArray ==
  ASSUME SizesFit, NEW t \in Nat, NEW type \in ArrayTypes, NEW count \in Counts, count \in Nat
  PROVE  LET words == WordsFor(ArrayBytes(type, count))
             bs == ArrayInitial(type, count)
         IN /\ Initial(type, count, bs)
            /\ VarAt(type, t, count) <= (t + words) * ALIGN
            /\ GetObjectPayload(t) + Len(bs) <= (t + words) * ALIGN
<1> DEFINE p == count * ElementSize(type)
           g == GetAlignedArraySize(p)
           bytes == g * ALIGN
           w == ToAlignedSize(bytes)
           x == t + HEAP_HEADER_SIZE
           bs == ArrayInitial(type, count)
<1>1. /\ ALIGN \in Nat \ {0} /\ SizeLimit \in Nat \ {0} /\ HEAP_HEADER_SIZE \in Nat
      /\ ElementSize(type) \in Nat
  BY MemoryAssumption, WidthsThere, Powers
<1>2. p \in Nat
  BY <1>1, Scaled
<1>3. bytes < SizeLimit
  BY DEF SizesFit
<1> HIDE DEF p
<1>4. g = 1 + ToAlignedSize(p) /\ ToAlignedSize(p) \in Nat /\ p <= ToAlignedSize(p) * ALIGN
      /\ ToAlignedSize(p) * ALIGN \in Nat
  BY <1>2, Aligned, ArrayHeader DEF GetAlignedArraySize
<1>5. bytes = ALIGN + ToAlignedSize(p) * ALIGN
  <2> DEFINE k == ToAlignedSize(p)
  <2> HIDE DEF k
  <2>1. k \in Nat /\ g = 1 + k
    BY <1>4 DEF k
  <2>2. (1 + k) * ALIGN = 1 * ALIGN + k * ALIGN /\ 1 * ALIGN = ALIGN
    BY <2>1, <1>1, Scaled
  <2>3. bytes = (1 + k) * ALIGN
    BY <2>1
  <2>4. QED
    BY <2>2, <2>3, <1>1, <1>4 DEF k
<1> HIDE DEF g, bytes
<1>6. bytes \in Nat /\ ALIGN + p <= bytes
  BY <1>1, <1>2, <1>4, <1>5
<1>7. p < SizeLimit
  BY <1>1, <1>2, <1>3, <1>6
<1>8. p % SizeLimit = p /\ bytes % SizeLimit = bytes
  BY <1>1, <1>2, <1>3, <1>6, <1>7, NothingCut
<1>9. ArrayBytes(type, count) = bytes
  BY <1>8 DEF ArrayBytes, bytes, g, p
<1>10. WordsFor(ArrayBytes(type, count)) = HEAP_HEADER_SIZE + w
  BY <1>8, <1>9 DEF WordsFor
<1>11. w \in Nat /\ bytes <= w * ALIGN /\ w * ALIGN \in Nat
  BY <1>6, Aligned
<1>12. (t + (HEAP_HEADER_SIZE + w)) * ALIGN = x * ALIGN + w * ALIGN /\ x * ALIGN \in Nat
  <2>1. x \in Nat /\ t + (HEAP_HEADER_SIZE + w) = x + w
    BY <1>1, <1>11
  <2> HIDE DEF x, w
  <2>2. (x + w) * ALIGN = x * ALIGN + w * ALIGN /\ x * ALIGN \in Nat
    BY <2>1, <1>1, <1>11, Scaled
  <2>3. QED
    BY <2>1, <2>2
<1>13. GetObjectPayload(t) = x * ALIGN
  BY DEF GetObjectPayload
<1>14. VarAt(type, t, count) = (x * ALIGN + ALIGN) + p
  <2>1. jaGetArrayPayLoad(t) = x * ALIGN + ALIGN
    <3>1. 1 * ALIGN = ALIGN
      BY <1>1
    <3>2. QED
      BY <3>1, <1>13, ArrayHeader DEF jaGetArrayPayLoad
  <2>2. QED
    BY <2>1 DEF VarAt, FirstVar, VarSize, p
<1>15. /\ bs \in Seq(Byte) /\ ALIGN <= Len(bs) /\ Len(bs) <= ALIGN + p /\ Len(bs) \in Nat
       /\ Part(bs, 0, ALIGN) = BytesOf(count, ALIGN)
       /\ \A k \in ALIGN + 1 .. Len(bs) : bs[k] = 0
  <2>1. /\ bs \in Seq(Byte) /\ ALIGN <= Len(bs) /\ Len(bs) <= ALIGN + p
        /\ Part(bs, 0, ALIGN) = BytesOf(count, ALIGN)
        /\ \A k \in ALIGN + 1 .. Len(bs) : bs[k] = 0
    BY ArrayInitialType DEF p
  <2> HIDE DEF bs
  <2>2. QED
    BY <2>1
<1>16. count \in 0 .. IntTop - 1
  BY OperandsAssumption
<1> HIDE DEF x, w, bs
<1>17. Initial(type, count, bs)
  BY <1>15, <1>16 DEF Initial
<1> DEFINE y == x * ALIGN
           v == w * ALIGN
<1>18. y \in Nat /\ v \in Nat /\ bytes <= v
  BY <1>11, <1>12
<1> HIDE DEF y, v
<1>19. (y + ALIGN) + p <= y + v /\ y + Len(bs) <= y + v
  BY <1>1, <1>2, <1>6, <1>15, <1>18
<1>20. QED
  BY <1>10, <1>12, <1>13, <1>14, <1>17, <1>19 DEF bs, y, v

\* The block of an instance has room for its slots.
LEMMA RoomForInstance ==
  ASSUME SizesFit, NEW t \in Nat
  PROVE  LET words == WordsFor(NumSlots * STACKABLE)
         IN /\ Initial("object", NumSlots, <<>>)
            /\ VarAt("object", t, NumSlots) <= (t + words) * ALIGN
            /\ GetObjectPayload(t) + Len(<<>>) <= (t + words) * ALIGN
<1> DEFINE bytes == NumSlots * STACKABLE
           w == ToAlignedSize(bytes)
           x == t + HEAP_HEADER_SIZE
<1>1. /\ ALIGN \in Nat \ {0} /\ SizeLimit \in Nat \ {0} /\ HEAP_HEADER_SIZE \in Nat
      /\ NumSlots \in Nat /\ STACKABLE \in Nat
  BY MemoryAssumption
<1>2. bytes \in Nat /\ bytes < SizeLimit
  BY <1>1, Scaled DEF SizesFit
<1>3. "object" \notin ArrayTypes
  BY DEF ArrayTypes
<1>4. VarAt("object", t, NumSlots) = x * ALIGN + bytes
  BY <1>3 DEF VarAt, FirstVar, VarSize, GetObjectPayload
<1> HIDE DEF bytes
<1>5. WordsFor(NumSlots * STACKABLE) = HEAP_HEADER_SIZE + w
  BY <1>1, <1>2, NothingCut DEF WordsFor, bytes
<1>6. w \in Nat /\ bytes <= w * ALIGN /\ w * ALIGN \in Nat
  BY <1>2, Aligned
<1>7. (t + (HEAP_HEADER_SIZE + w)) * ALIGN = x * ALIGN + w * ALIGN /\ x * ALIGN \in Nat
  <2>1. x \in Nat /\ t + (HEAP_HEADER_SIZE + w) = x + w
    BY <1>1, <1>6
  <2> HIDE DEF x, w
  <2>2. (x + w) * ALIGN = x * ALIGN + w * ALIGN /\ x * ALIGN \in Nat
    BY <2>1, <1>1, <1>6, Scaled
  <2>3. QED
    BY <2>1, <2>2
<1>8. GetObjectPayload(t) = x * ALIGN
  BY DEF GetObjectPayload
<1>9. Initial("object", NumSlots, <<>>)
  BY <1>3 DEF Initial
<1> DEFINE y == x * ALIGN
           v == w * ALIGN
<1>10. y \in Nat /\ v \in Nat /\ bytes <= v
  BY <1>6, <1>7
<1> HIDE DEF y, v
<1>11. y + bytes <= y + v /\ y + Len(<<>>) <= y + v
  BY <1>2, <1>10
<1>12. QED
  BY <1>4, <1>5, <1>7, <1>8, <1>9, <1>11 DEF y, v

\* Every step keeps the invariant.
LEMMA NextIInv ==
  ASSUME SizesFit, IInv, [Next]_mvars
  PROVE  IInv'
<1>1. TInv /\ top \in Nat
  <2>1. TInv /\ top \in 1 .. HeapSize + 1
    BY DEF IInv, TInv, Typed
  <2>2. QED
    BY <2>1, MemoryAssumption
<1>2. ASSUME UNCHANGED <<mem, blocks, top>>, staticMemory' \in [0 .. NumStatics - 1 -> Int]
      PROVE  IInv'
  BY <1>2 DEF IInv, TInv
<1>3. ASSUME Reads PROVE IInv'
  BY <1>1, <1>2, <1>3 DEF Reads, TInv
<1>4. ASSUME NEW r, NEW i, NEW n, NEW bs, Stores(r, i, n, bs) PROVE IInv'
  BY <1>4, StoresIInv
<1>5. ASSUME NEW type \in ArrayTypes, NEW count \in Counts, count \in Nat,
             Allocates(type, WordsFor(ArrayBytes(type, count)), ArrayInitial(type, count))
      PROVE  IInv'
  BY <1>1, <1>5, RoomForArray, AllocatesIInv
<1>6. ASSUME Allocates("object", WordsFor(NumSlots * STACKABLE), <<>>) PROVE IInv'
  <2>1. NumSlots \in Nat
    BY MemoryAssumption
  <2>2. QED
    BY <2>1, <1>1, <1>6, RoomForInstance, AllocatesIInv
<1>7. ASSUME Next PROVE IInv'
  BY <1>1, <1>2, <1>3, <1>4, <1>5, <1>6, <1>7, StepKinds
<1>8. ASSUME UNCHANGED mvars PROVE IInv'
  BY <1>3, <1>8 DEF mvars, Reads
<1>9. QED
  BY <1>7, <1>8

\* What TypeOK says of the memory.
LEMMA TInvTypeOK == TInv => TypeOK
<1>1. ASSUME TInv PROVE TypeOK
  <2>1. Typed(mem, blocks, top) /\ staticMemory \in [0 .. NumStatics - 1 -> Int]
    BY <1>1 DEF TInv
  <2>2. mem \in [ALIGN .. (HeapSize + 1) * ALIGN - 1 -> Byte] /\ top \in 1 .. HeapSize + 1
    BY <2>1 DEF Typed
  <2>3. \A ref \in DOMAIN blocks : ref >= 1 /\ End(ref) <= top
    <3>1. \A ref \in DOMAIN blocks : ref \in Nat \ {0} /\ ref + blocks[ref].words <= top
      BY <2>1 DEF Typed
    <3>2. QED
      BY <3>1 DEF End
  <2>4. \A r, s \in DOMAIN blocks : r < s => End(r) <= s
    BY <2>1 DEF Typed, End
  <2>5. DOMAIN staticMemory = 0 .. NumStatics - 1
    BY <2>1
  <2>6. QED
    BY <2>2, <2>3, <2>4, <2>5 DEF TypeOK
<1>2. QED
  BY <1>1

\* The room of the invariant is that of ArraysHaveRoom.
LEMMA FitsRoom == Fits(mem, blocks) => ArraysHaveRoom
<1>1. ASSUME Fits(mem, blocks), NEW r \in Arrays
      PROVE  Element(r, GetArrayLength(r)) <= End(r) * ALIGN
  <2>1. r \in DOMAIN blocks /\ GetArrayLength(r) = CountIn(mem, blocks[r].type, r)
        /\ Element(r, GetArrayLength(r)) = VarAt(blocks[r].type, r, GetArrayLength(r))
    BY Accessors
  <2>2. VarAt(blocks[r].type, r, CountIn(mem, blocks[r].type, r)) <= EndByte(blocks, r)
    BY <1>1, <2>1 DEF Fits
  <2>3. EndByte(blocks, r) = End(r) * ALIGN
    BY DEF EndByte, End
  <2>4. QED
    BY <2>1, <2>2, <2>3
<1>2. QED
  BY <1>1 DEF ArraysHaveRoom

\* TypeOK, whatever the sizes: headers stay in the heap, blocks apart, and memory
\* holds bytes (heapAllocObjectByByteSize, the stores of jarray.c and objectaccess.c).
THEOREM TypeCorrect == Spec => []TypeOK
<1>1. Init => TInv
  BY InitIInv DEF IInv
<1>2. QED
  BY <1>1, NextTInv, TInvTypeOK, PTL DEF Spec

\* ArraysHaveRoom: as long as no size reaches 64 KiB, an index below the length of
\* an array is an element within its block (GetPointerToArrayPosition).
THEOREM ArraysFit ==
  ASSUME SizesFit
  PROVE  Spec => []ArraysHaveRoom
<1>1. Init => IInv
  BY InitIInv
<1>2. IInv /\ [Next]_mvars => IInv'
  BY NextIInv
<1>3. IInv => ArraysHaveRoom
  BY FitsRoom DEF IInv
<1>4. QED
  BY <1>1, <1>2, <1>3, PTL DEF Spec

-----------------------------------------------------------------------------
(* What a variable keeps of a value *)

\* A stackable has the bytes of a word at least.
LEMMA StackableHoldsWord == ALIGN <= STACKABLE /\ IntTop <= Half(STACKABLE)
<1>1. /\ ALIGN \in Nat \ {0} /\ STACKABLE \in Nat \ {0} /\ STACKABLE % ALIGN = 0
      /\ STACKABLE \in Widths /\ ALIGN \in Widths
  BY MemoryAssumption, WidthsThere
<1>2. ALIGN <= STACKABLE
  <2>1. ASSUME STACKABLE < ALIGN PROVE FALSE
    BY <2>1, <1>1, NothingCut
  <2>2. QED
    BY <2>1, <1>1
<1>3. Base \in Nat \ {0}
  BY Powers
<1>4. \A k \in 0 .. STACKABLE : Base ^ k \in Nat \ {0}
  BY <1>1, Powers
<1>5. \A k \in 1 .. STACKABLE : Base ^ k = Base * Base ^ (k - 1)
  BY <1>1, Powers
<1>6. \A k \in ALIGN .. STACKABLE : Base ^ ALIGN <= Base ^ k
  <2> DEFINE T == {k \in ALIGN .. STACKABLE : ~ (Base ^ ALIGN <= Base ^ k)}
  <2>1. SUFFICES ASSUME T # {} PROVE FALSE
    OBVIOUS
  <2>2. T \in SUBSET Nat
    BY <1>1
  <2> HIDE DEF T
  <2>3. PICK k \in T : \A j \in T : k <= j
    BY <2>1, <2>2, Least
  <2>4. k \in ALIGN .. STACKABLE /\ ~ (Base ^ ALIGN <= Base ^ k)
    BY DEF T
  <2> DEFINE p == Base ^ ALIGN
             q == Base ^ (k - 1)
             s == Base ^ k
  <2>5. p \in Nat /\ s \in Nat /\ ~ (p <= s)
    BY <2>4, <1>1, <1>4
  <2>6. k # ALIGN
    BY <2>5
  <2>7. k - 1 \in ALIGN .. STACKABLE /\ ~ (k <= k - 1) /\ k \in 1 .. STACKABLE
        /\ k - 1 \in 0 .. STACKABLE
    BY <2>4, <2>6, <1>1
  <2>8. p <= q
    BY <2>3, <2>7 DEF T
  <2>9. q \in Nat /\ s = Base * q
    BY <2>7, <1>4, <1>5
  <2> HIDE DEF p, q, s
  <2>10. q <= Base * q
    BY <2>9, <1>3, SMT
  <2>11. QED
    BY <2>5, <2>8, <2>9, <2>10
<1>7. Base ^ ALIGN <= Base ^ STACKABLE
  <2>1. STACKABLE \in ALIGN .. STACKABLE
    BY <1>1, <1>2
  <2>2. QED
    BY <2>1, <1>6
<1>8. Half(STACKABLE) \in Nat \ {0} /\ Base ^ STACKABLE = 2 * Half(STACKABLE)
      /\ Half(ALIGN) \in Nat \ {0} /\ Base ^ ALIGN = 2 * Half(ALIGN)
  BY <1>1, HalfType
<1> DEFINE g == Half(STACKABLE)
           h == Half(ALIGN)
<1>9. g \in Nat /\ h \in Nat /\ 2 * h <= 2 * g
  BY <1>7, <1>8
<1> HIDE DEF g, h
<1>10. h <= g
  BY <1>9
<1>11. QED
  BY <1>2, <1>10, HalfWord DEF g, h

\* A byte is a number of one byte.
LEMMA HalfByte == Half(1) = ByteTop /\ \A v \in Int : BytesOf(v, 1) = [k \in 1 .. 1 |-> v % Base]
<1>1. ByteTop \in Nat /\ Base ^ 0 = 1
  BY Powers
<1>2. Half(1) = ByteTop
  BY <1>1 DEF Half
<1>3. ASSUME NEW v \in Int PROVE BytesOf(v, 1) = [k \in 1 .. 1 |-> v % Base]
  <2>1. v = 1 * v + 0 /\ 0 \in 0 .. 1 - 1 /\ 1 \in Nat \ {0}
    OBVIOUS
  <2>2. v \div 1 = v
    BY <2>1, Divided
  <2>3. ASSUME NEW k \in 1 .. 1 PROVE (v \div Base ^ (k - 1)) % Base = v % Base
    <3>1. k - 1 = 0
      OBVIOUS
    <3>2. QED
      BY <3>1, <2>2, <1>1
  <2>4. QED
    BY <2>3 DEF BytesOf
<1>4. QED
  BY <1>2, <1>3

\* A word of an int or a reference is read as it was stored.
LEMMA WordIsKept ==
  ASSUME NEW v \in -IntTop .. IntTop - 1
  PROVE  Number(BytesOf(v, ALIGN)) = v /\ Number(BytesOf(v, STACKABLE)) = v
<1>1. ALIGN \in Widths /\ STACKABLE \in Widths /\ IntTop \in Nat \ {0} /\ v \in Int
  BY WidthsThere, HalfWord
<1>2. Number(BytesOf(v, ALIGN)) = v
  <2>1. Number(BytesOf(v, ALIGN)) = Signed(IntTop, v)
    BY <1>1, HalfWord, NumberOfBytes
  <2>2. QED
    BY <2>1, <1>1, SignedFits
<1>3. Number(BytesOf(v, STACKABLE)) = v
  <2> DEFINE g == Half(STACKABLE)
  <2>1. Number(BytesOf(v, STACKABLE)) = Signed(g, v)
    BY <1>1, NumberOfBytes
  <2>2. g \in Nat \ {0} /\ IntTop <= g
    BY <1>1, HalfType, StackableHoldsWord
  <2> HIDE DEF g
  <2>3. v \in -g .. g - 1
    BY <2>2, <1>1
  <2>4. QED
    BY <2>1, <2>2, <2>3, SignedFits
<1>4. QED
  BY <1>2, <1>3

\* A boolean is one bit.
LEMMA BooleanIsKept ==
  ASSUME NEW v \in Int
  PROVE  Pushed("boolean", BytesOf(v % 2, 1)) = v % 2
<1> DEFINE w == v % 2
           h == ByteTop
<1>1. w \in {0, 1} /\ h \in Nat \ {0} /\ 1 \in Widths
  BY Powers, WidthsThere
<1> HIDE DEF w
<1>2. Number(BytesOf(w, 1)) = Signed(h, w)
  BY <1>1, HalfByte, NumberOfBytes
<1>3. w % (2 * h) = w
  <2> DEFINE d == 2 * h
  <2>1. d \in Nat \ {0} /\ w \in Nat /\ w < d
    BY <1>1
  <2> HIDE DEF d
  <2>2. w % d = w
    BY <2>1, NothingCut
  <2>3. QED
    BY <2>2 DEF d
<1>4. Signed(h, w) = IF w >= h THEN w - 2 * h ELSE w
  BY <1>3 DEF Signed
<1>5. Signed(h, w) = 0 <=> w = 0
  BY <1>1, <1>4
<1>6. Pushed("boolean", BytesOf(w, 1)) = IF Number(BytesOf(w, 1)) = 0 THEN 0 ELSE 1
  BY DEF Pushed
<1>7. QED
  BY <1>1, <1>2, <1>5, <1>6 DEF w

\* The lower half of a long.
LEMMA LowerHalf ==
  ASSUME NEW v \in Int
  PROVE  SubSeq(BytesOf(v, 2 * ALIGN), 1, ALIGN) = BytesOf(v, ALIGN)
<1> DEFINE s == BytesOf(v, 2 * ALIGN)
           u == BytesOf(v, ALIGN)
           n == ALIGN
<1>1. ALIGN \in Widths /\ 2 * ALIGN \in Widths /\ n \in Nat \ {0}
  BY WidthsThere
<1>2. s \in Seq(Byte) /\ Len(s) = 2 * n
      /\ \A k \in 1 .. 2 * n : s[k] = (v \div Base ^ (k - 1)) % Base
  BY <1>1, BytesOfType
<1>3. u \in Seq(Byte) /\ Len(u) = n
      /\ \A k \in 1 .. n : u[k] = (v \div Base ^ (k - 1)) % Base
  BY <1>1, BytesOfType
<1>4. \A k \in 1 .. n : s[k] = u[k]
  <2>1. \A k \in 1 .. n : k \in 1 .. 2 * n
    BY <1>1
  <2>2. QED
    BY <2>1, <1>2, <1>3
<1> HIDE DEF s, u, n
<1>5. SubSeq(s, 1, n) = [k \in 1 .. n |-> s[k]]
  <2>1. SubSeq(s, 1, n) \in Seq(Byte) /\ Len(SubSeq(s, 1, n)) = n
    BY <1>1, <1>2
  <2>2. \A k \in 1 .. n : SubSeq(s, 1, n)[k] = s[k]
    BY <1>1, <1>2
  <2> DEFINE w == SubSeq(s, 1, n)
  <2> HIDE DEF w
  <2>3. w = [k \in 1 .. n |-> w[k]]
    BY <2>1 DEF w
  <2>4. QED
    BY <2>2, <2>3 DEF w
<1>6. u = [k \in 1 .. n |-> u[k]]
  BY <1>3
<1>7. SubSeq(s, 1, n) = u
  BY <1>4, <1>5, <1>6
<1>8. QED
  BY <1>7 DEF s, u, n

\* What is read of the bytes stored in an element is what JavaMemory keeps.
LEMMA ElementIsKept ==
  ASSUME ReferencesFit, LongsFit, TInv, NEW type \in ArrayTypes, NEW v \in Operands(type)
  PROVE  ValueOf(type, Popped(type, v)) = Java!Kept(type, v)
<1>1. /\ v \in Int /\ 1 \in Widths /\ ALIGN \in Widths /\ IntTop \in Nat \ {0}
      /\ ByteTop \in Nat \ {0}
  BY OperandsType, WidthsThere, HalfWord, Powers
<1>2. ValueOf(type, Popped(type, v)) = Pushed(type, Popped(type, v))
  BY DEF ValueOf
<1>3. CASE type = "boolean"
  <2>1. Popped(type, v) = BytesOf(v % 2, 1)
    BY <1>3 DEF Popped, ElementSize
  <2>2. Java!Kept(type, v) = v % 2
    BY <1>3 DEF Java!Kept
  <2>3. QED
    BY <2>1, <2>2, <1>1, <1>2, <1>3, BooleanIsKept
<1>4. CASE type \in {"byte", "char"}
  <2>1. Popped(type, v) = BytesOf(v, 1)
    BY <1>4 DEF Popped, ElementSize
  <2>2. Pushed(type, BytesOf(v, 1)) = Number(BytesOf(v, 1))
    BY <1>4 DEF Pushed
  <2>3. Number(BytesOf(v, 1)) = Signed(ByteTop, v)
    BY <1>1, HalfByte, NumberOfBytes
  <2>4. Signed(ByteTop, v) = ((v + ByteTop) % (2 * ByteTop)) - ByteTop
    BY <1>1, SignedIsNarrow
  <2>5. Java!Kept(type, v) = ((v + ByteTop) % (2 * ByteTop)) - ByteTop
    BY <1>4 DEF Java!Kept, Java!Narrow
  <2>6. QED
    BY <1>2, <2>1, <2>2, <2>3, <2>4, <2>5
<1>5. CASE type = "long"
  <2>1. Popped(type, v) = BytesOf(v, 2 * ALIGN)
    BY <1>5 DEF Popped, ElementSize
  <2>2. Pushed(type, BytesOf(v, 2 * ALIGN)) = Number(SubSeq(BytesOf(v, 2 * ALIGN), 1, ALIGN))
    BY <1>5 DEF Pushed
  <2>3. v \in -IntTop .. IntTop - 1
    BY <1>5 DEF Operands, LongsFit
  <2>4. Java!Kept(type, v) = v
    BY <1>5 DEF Java!Kept
  <2>5. QED
    BY <1>1, <1>2, <2>1, <2>2, <2>3, <2>4, LowerHalf, WordIsKept
<1>6. CASE type \in {"int", "object[]"}
  <2>1. Popped(type, v) = BytesOf(v, ALIGN)
    BY <1>6 DEF Popped, ElementSize
  <2>2. Pushed(type, BytesOf(v, ALIGN)) = Number(BytesOf(v, ALIGN))
    BY <1>6 DEF Pushed
  <2>3. Java!Kept(type, v) = v
    BY <1>6 DEF Java!Kept
  <2>4. v \in -IntTop .. IntTop - 1
    <3>1. CASE type = "int"
      BY <3>1, OperandsAssumption DEF Operands
    <3>2. CASE type = "object[]"
      <4>1. v \in DOMAIN blocks \cup {0}
        BY <3>2 DEF Operands
      <4>2. ASSUME NEW r \in DOMAIN blocks PROVE r \in 0 .. HeapSize
        <5>1. Typed(mem, blocks, top) /\ HeapSize \in Nat
          BY MemoryAssumption DEF TInv
        <5>2. /\ r \in Nat /\ blocks[r] \in Header /\ r + blocks[r].words <= top
              /\ top \in 1 .. HeapSize + 1
          BY <5>1 DEF Typed
        <5>3. blocks[r].words \in Nat \ {0}
          BY <5>2 DEF Header
        <5>4. QED
          BY <5>1, <5>2, <5>3
      <4>3. HeapSize \in Nat /\ HeapSize < IntTop
        BY MemoryAssumption DEF ReferencesFit
      <4>4. v \in 0 .. HeapSize
        BY <4>1, <4>2, <4>3
      <4>5. QED
        BY <4>3, <4>4, <1>1
    <3>3. QED
      BY <3>1, <3>2, <1>6
  <2>5. QED
    BY <2>1, <2>2, <2>3, <2>4, <1>2, WordIsKept
<1>7. QED
  BY <1>3, <1>4, <1>5, <1>6 DEF ArrayTypes

-----------------------------------------------------------------------------
(* The objects the bytes stand for *)

\* The objects, written with the definitions of this module.
LEMMA ObjectsAre == objects = ObjectsIn(mem, blocks)
<1>1. ASSUME NEW r \in DOMAIN blocks
      PROVE  [type |-> blocks[r].type,
              vars |-> IF r \in Arrays
                       THEN [i \in 0 .. GetArrayLength(r) - 1 |->
                              Pushed(blocks[r].type, ElementBytes(r, i))]
                       ELSE [a \in 0 .. NumSlots - 1 |-> GetField(r, a)]]
               = ObjectIn(mem, blocks[r].type, r)
  <2>1. CASE r \in Arrays
    <3>1. GetArrayLength(r) = CountIn(mem, blocks[r].type, r)
          /\ \A i : Pushed(blocks[r].type, ElementBytes(r, i)) = VarIn(mem, blocks[r].type, r, i)
      BY <2>1, Accessors
    <3>2. QED
      BY <3>1, <2>1 DEF ObjectIn
  <2>2. CASE r \notin Arrays
    <3>1. r \in Instances
      BY <2>2, Accessors
    <3>2. NumSlots = CountIn(mem, blocks[r].type, r)
          /\ \A i : GetField(r, i) = VarIn(mem, blocks[r].type, r, i)
      BY <3>1, Accessors
    <3>3. QED
      BY <3>2, <2>2 DEF ObjectIn
  <2>3. QED
    BY <2>1, <2>2
<1>2. QED
  BY <1>1 DEF objects, ObjectsIn

\* The same after a step.
LEMMA ObjectsAfter == objects' = ObjectsIn(mem', blocks')
<1>1. (objects = ObjectsIn(mem, blocks))'
  BY ObjectsAre, PTL
<1>2. QED
  BY <1>1

\* The parts of the objects.
LEMMA ObjectParts ==
  /\ DOMAIN objects = DOMAIN blocks
  /\ \A r \in DOMAIN blocks :
       /\ objects[r] = ObjectIn(mem, blocks[r].type, r)
       /\ objects[r].type = blocks[r].type
       /\ DOMAIN objects[r].vars = 0 .. CountIn(mem, blocks[r].type, r) - 1
       /\ \A i \in DOMAIN objects[r].vars : objects[r].vars[i] = VarIn(mem, blocks[r].type, r, i)
  /\ Java!Arrays = Arrays /\ Java!Instances = Instances
<1>1. objects = ObjectsIn(mem, blocks)
  BY ObjectsAre
<1>2. DOMAIN objects = DOMAIN blocks
      /\ \A r \in DOMAIN blocks : objects[r] = ObjectIn(mem, blocks[r].type, r)
  BY <1>1 DEF ObjectsIn
<1>3. ASSUME NEW r \in DOMAIN blocks
      PROVE  /\ objects[r].type = blocks[r].type
             /\ DOMAIN objects[r].vars = 0 .. CountIn(mem, blocks[r].type, r) - 1
             /\ \A i \in DOMAIN objects[r].vars :
                  objects[r].vars[i] = VarIn(mem, blocks[r].type, r, i)
  <2> DEFINE type == blocks[r].type
             v == [i \in 0 .. CountIn(mem, type, r) - 1 |-> VarIn(mem, type, r, i)]
  <2>1. objects[r] = ObjectIn(mem, type, r)
    BY <1>2
  <2>2. ObjectIn(mem, type, r) = [type |-> type, vars |-> v]
    BY DEF ObjectIn
  <2>3. DOMAIN v = 0 .. CountIn(mem, type, r) - 1 /\ \A i \in DOMAIN v : v[i] = VarIn(mem, type, r, i)
    OBVIOUS
  <2> HIDE DEF type, v
  <2>4. objects[r].type = type /\ objects[r].vars = v
    BY <2>1, <2>2
  <2>5. QED
    BY <2>3, <2>4 DEF type
<1>4. Java!Arrays = Arrays
  BY <1>2, <1>3 DEF Java!Arrays, Arrays, Java!ArrayTypes, ArrayTypes
<1>5. Java!Instances = Instances
  BY <1>2, <1>4 DEF Java!Instances, Instances
<1>6. QED
  BY <1>2, <1>3, <1>4, <1>5

\* The objects o with the values in the variables of r.
Overwritten(o, r, values) ==
  [o EXCEPT ![r].vars = [i \in DOMAIN @ |-> IF i \in DOMAIN values
                                            THEN Java!Kept(o[r].type, values[i]) ELSE @[i]]]

\* They are written out, variable by variable.
ObjectsWith(m, b, r, values) ==
  [s \in DOMAIN b |->
      IF s = r
      THEN [type |-> b[r].type,
            vars |-> [i \in 0 .. CountIn(m, b[r].type, r) - 1 |->
              IF i \in DOMAIN values THEN Java!Kept(b[r].type, values[i])
              ELSE VarIn(m, b[r].type, r, i)]]
      ELSE ObjectIn(m, b[s].type, s)]

\* Storing values in the variables of an object, written out.
LEMMA OverwrittenIs ==
  ASSUME NEW m, NEW b, NEW r \in DOMAIN b, NEW values
  PROVE  Overwritten(ObjectsIn(m, b), r, values) = ObjectsWith(m, b, r, values)
<1> DEFINE o == ObjectsIn(m, b)
           type == b[r].type
           n == CountIn(m, type, r)
           v == [i \in 0 .. n - 1 |-> VarIn(m, type, r, i)]
           w == [i \in DOMAIN v |-> IF i \in DOMAIN values THEN Java!Kept(type, values[i]) ELSE v[i]]
<1>1. DOMAIN o = DOMAIN b /\ \A s \in DOMAIN b : o[s] = ObjectIn(m, b[s].type, s)
  BY DEF ObjectsIn
<1>2. o[r] = [type |-> type, vars |-> v]
  BY <1>1 DEF ObjectIn
<1>3. o[r].type = type /\ o[r].vars = v
  BY <1>2
<1>4. o = [s \in DOMAIN b |-> o[s]]
  BY DEF ObjectsIn
<1>5. w = [i \in 0 .. n - 1 |-> IF i \in DOMAIN values THEN Java!Kept(type, values[i])
                                ELSE VarIn(m, type, r, i)]
  OBVIOUS
<1> HIDE DEF o, w, v, n
<1>6. [o[r] EXCEPT !.vars = w] = [type |-> type, vars |-> w]
  BY <1>2
<1>7. [o EXCEPT ![r].vars = w] = [s \in DOMAIN b |-> IF s = r THEN [type |-> type, vars |-> w] ELSE o[s]]
  BY <1>4, <1>6
<1>8. Overwritten(o, r, values) = [o EXCEPT ![r].vars = w]
  BY <1>3 DEF Overwritten, w
<1>9. Overwritten(o, r, values) =
        [s \in DOMAIN b |-> IF s = r THEN [type |-> type, vars |-> w] ELSE ObjectIn(m, b[s].type, s)]
  BY <1>1, <1>7, <1>8
<1>10. QED
  BY <1>5, <1>9 DEF o, n, ObjectsWith

\* A read leaves the objects as they are.
LEMMA ReadsObjects ==
  /\ Reads => objects' = objects /\ staticMemory' = staticMemory
  /\ \A r \in DOMAIN blocks : Overwritten(objects, r, <<>>) = objects
<1>1. ASSUME Reads PROVE objects' = objects /\ staticMemory' = staticMemory
  BY <1>1, ObjectsAre, ObjectsAfter DEF Reads
<1>2. ASSUME NEW r \in DOMAIN blocks PROVE Overwritten(objects, r, <<>>) = objects
  <2>1. Overwritten(ObjectsIn(mem, blocks), r, <<>>) = ObjectsWith(mem, blocks, r, <<>>)
    BY OverwrittenIs
  <2>2. DOMAIN <<>> = {}
    OBVIOUS
  <2>3. [type |-> blocks[r].type,
         vars |-> [i \in 0 .. CountIn(mem, blocks[r].type, r) - 1 |->
                              IF i \in DOMAIN <<>> THEN Java!Kept(blocks[r].type, <<>>[i])
                              ELSE VarIn(mem, blocks[r].type, r, i)]]
          = ObjectIn(mem, blocks[r].type, r)
    BY <2>2 DEF ObjectIn
  <2>4. Overwritten(ObjectsIn(mem, blocks), r, <<>>) = ObjectsIn(mem, blocks)
    BY <2>1, <2>3 DEF ObjectsIn, ObjectsWith
  <2>5. QED
    BY <2>4, ObjectsAre
<1>3. QED
  BY <1>1, <1>2

\* The bytes stored are those of the values.
Keeps(type, i, n, bs, values) ==
  /\ DOMAIN values = i .. i + n - 1
  /\ \A j \in i .. i + n - 1 :
       ValueOf(type, Part(bs, (j - i) * VarSize(type), VarSize(type))) = Java!Kept(type, values[j])

\* A store overwrites variables of one object.
LEMMA StoresObjects ==
  ASSUME IInv, NEW r, NEW i, NEW n, NEW bs, Stores(r, i, n, bs),
         NEW values, Keeps(blocks[r].type, i, n, bs, values)
  PROVE  objects' = Overwritten(objects, r, values) /\ staticMemory' = staticMemory
<1> DEFINE type == blocks[r].type
           c == CountIn(mem, type, r)
           z == VarSize(type)
<1>1. r \in DOMAIN blocks /\ blocks' = blocks /\ staticMemory' = staticMemory
  BY DEF Stores
<1>2. StoredIn(mem, mem', blocks, r, i, n, bs)
  BY StoresIInv
<1>3. ASSUME NEW s \in DOMAIN blocks, s # r
      PROVE  ObjectIn(mem', blocks[s].type, s) = ObjectIn(mem, blocks[s].type, s)
  <2>1. CountIn(mem', blocks[s].type, s) = CountIn(mem, blocks[s].type, s)
    BY <1>2 DEF StoredIn
  <2>2. \A j \in 0 .. CountIn(mem, blocks[s].type, s) - 1 :
          VarIn(mem', blocks[s].type, s, j) = VarIn(mem, blocks[s].type, s, j)
    BY <1>2, <1>3 DEF StoredIn
  <2>3. QED
    BY <2>1, <2>2 DEF ObjectIn
<1>4. CountIn(mem', type, r) = c
  BY <1>1, <1>2 DEF StoredIn
<1>5. ASSUME NEW j \in 0 .. c - 1
      PROVE  VarIn(mem', type, r, j) = IF j \in DOMAIN values THEN Java!Kept(type, values[j])
                                       ELSE VarIn(mem, type, r, j)
  <2>1. VarIn(mem', type, r, j) = IF j \in i .. i + n - 1
                                  THEN ValueOf(type, Part(bs, (j - i) * z, z))
                                  ELSE VarIn(mem, type, r, j)
    BY <1>2 DEF StoredIn
  <2>2. DOMAIN values = i .. i + n - 1
        /\ (j \in i .. i + n - 1 =>
              ValueOf(type, Part(bs, (j - i) * z, z)) = Java!Kept(type, values[j]))
    BY DEF Keeps
  <2> HIDE DEF type, z
  <2>3. QED
    BY <2>1, <2>2
<1> HIDE DEF type, c, z
<1>6. ObjectIn(mem', type, r) =
        [type |-> type, vars |-> [j \in 0 .. c - 1 |->
                                   IF j \in DOMAIN values THEN Java!Kept(type, values[j])
                                   ELSE VarIn(mem, type, r, j)]]
  BY <1>4, <1>5 DEF ObjectIn
<1>7. Overwritten(ObjectsIn(mem, blocks), r, values) =
        [s \in DOMAIN blocks |->
          IF s = r
          THEN [type |-> type, vars |-> [j \in 0 .. c - 1 |->
                                   IF j \in DOMAIN values THEN Java!Kept(type, values[j])
                                   ELSE VarIn(mem, type, r, j)]]
          ELSE ObjectIn(mem, blocks[s].type, s)]
  <2>1. Overwritten(ObjectsIn(mem, blocks), r, values) = ObjectsWith(mem, blocks, r, values)
    BY <1>1, OverwrittenIs
  <2>2. QED
    BY <2>1 DEF ObjectsWith, type, c
<1>8. ObjectsIn(mem', blocks) = [s \in DOMAIN blocks |->
        IF s = r THEN ObjectIn(mem', type, r) ELSE ObjectIn(mem, blocks[s].type, s)]
  BY <1>1, <1>3 DEF ObjectsIn, type
<1>9. ObjectsIn(mem', blocks) = Overwritten(ObjectsIn(mem, blocks), r, values)
  BY <1>6, <1>7, <1>8
<1>10. QED
  BY <1>1, <1>9, ObjectsAre, ObjectsAfter

\* An allocation adds an object whose variables are 0.
LEMMA AllocatesObjects ==
  ASSUME IInv, NEW type, NEW words, NEW bs, Allocates(type, words, bs),
         NEW n, AllocatedIn(mem, mem', blocks, top, type, n)
  PROVE  /\ objects' = [r \in DOMAIN objects \cup {top} |->
                         IF r = top THEN [type |-> type, vars |-> [i \in 0 .. n - 1 |-> 0]]
                         ELSE objects[r]]
         /\ top \notin DOMAIN objects /\ top \in 1 .. HeapSize /\ staticMemory' = staticMemory
<1>1. top \notin DOMAIN blocks
  BY AllocatesTyped DEF IInv
<1>2. blocks' = WithBlock(blocks, top, type, words) /\ staticMemory' = staticMemory
  BY DEF Allocates
<1>3. top \in 1 .. HeapSize
  <2>1. top \in 1 .. HeapSize + 1 /\ HeapSize \in Nat
    BY MemoryAssumption DEF IInv, TInv, Typed
  <2>2. words \in Nat \ {0} /\ top + words <= HeapSize + 1
    BY DEF Allocates
  <2>3. QED
    BY <2>1, <2>2
<1>4. /\ DOMAIN blocks' = DOMAIN blocks \cup {top} /\ blocks'[top].type = type
      /\ \A s \in DOMAIN blocks : blocks'[s] = blocks[s]
  BY <1>1, <1>2 DEF WithBlock
<1>5. ASSUME NEW s \in DOMAIN blocks
      PROVE  ObjectIn(mem', blocks[s].type, s) = ObjectIn(mem, blocks[s].type, s)
  <2>1. CountIn(mem', blocks[s].type, s) = CountIn(mem, blocks[s].type, s)
        /\ \A j \in 0 .. CountIn(mem, blocks[s].type, s) - 1 :
             VarIn(mem', blocks[s].type, s, j) = VarIn(mem, blocks[s].type, s, j)
    BY DEF AllocatedIn
  <2>2. QED
    BY <2>1 DEF ObjectIn
<1>6. ObjectIn(mem', type, top) = [type |-> type, vars |-> [i \in 0 .. n - 1 |-> 0]]
  <2>1. CountIn(mem', type, top) = n /\ \A j \in 0 .. n - 1 : VarIn(mem', type, top, j) = 0
    BY DEF AllocatedIn
  <2>2. QED
    BY <2>1 DEF ObjectIn
<1> DEFINE b == blocks'
           t == top
           m == mem'
<1>7. objects' = ObjectsIn(m, b)
  BY ObjectsAfter
<1>8. DOMAIN objects = DOMAIN blocks
      /\ \A s \in DOMAIN blocks : objects[s] = ObjectIn(mem, blocks[s].type, s)
  BY ObjectParts
<1>9. ASSUME NEW r \in DOMAIN blocks \cup {t}
      PROVE  ObjectIn(m, b[r].type, r) =
               IF r = t THEN [type |-> type, vars |-> [i \in 0 .. n - 1 |-> 0]] ELSE objects[r]
  <2>1. CASE r = t
    BY <2>1, <1>4, <1>6
  <2>2. CASE r \in DOMAIN blocks
    <3>1. b[r] = blocks[r] /\ r # t
      BY <2>2, <1>1, <1>4
    <3>2. ObjectIn(m, blocks[r].type, r) = objects[r]
      BY <2>2, <1>5, <1>8
    <3> HIDE DEF b, t, m
    <3>3. QED
      BY <3>1, <3>2
  <2>3. QED
    BY <2>1, <2>2
<1>10. DOMAIN b = DOMAIN blocks \cup {t}
  BY <1>4
<1> HIDE DEF b, t, m
<1>11. ObjectsIn(m, b) = [r \in DOMAIN blocks \cup {t} |->
          IF r = t THEN [type |-> type, vars |-> [i \in 0 .. n - 1 |-> 0]] ELSE objects[r]]
  BY <1>9, <1>10 DEF ObjectsIn
<1>12. QED
  BY <1>1, <1>2, <1>3, <1>7, <1>8, <1>11 DEF t

-----------------------------------------------------------------------------
(* The accesses of JavaMemory *)

\* The events are the same.
LEMMA EventIs ==
  /\ \A insn, r, o : Event(insn, r, o) => /\ Java!Event(insn, r, o)
                                          /\ event'.insn = insn /\ event'.ref = r
  /\ \A v : Java!Result(v) = Result(v) /\ Java!Throw(v) = Throw(v)
  /\ Java!NoEvent = NoEvent
<1>1. \A v : Java!Result(v) = Result(v) /\ Java!Throw(v) = Throw(v)
  BY DEF Java!Result, Result, Java!Throw, Throw
<1>2. Java!NoEvent = NoEvent
  BY <1>1 DEF Java!NoEvent, NoEvent
<1>3. ASSUME NEW insn, NEW r, NEW o, Event(insn, r, o)
      PROVE  Java!Event(insn, r, o) /\ event'.insn = insn /\ event'.ref = r
  <2>1. event = NoEvent /\ event' = [insn |-> insn, ref |-> r, outcome |-> o]
    BY <1>3 DEF Event
  <2>2. QED
    BY <2>1, <1>2 DEF Java!Event
<1>4. QED
  BY <1>1, <1>2, <1>3

\* An access to null throws.
LEMMA AccessNull ==
  ASSUME NEW insn, NEW within, NEW values, NEW result,
         Reads, Event(insn, 0, Throw("NullPointerException"))
  PROVE  Java!Access(insn, 0, within, values, result)
<1>1. staticMemory' = staticMemory /\ objects' = objects
  BY ReadsObjects
<1>2. Java!Event(insn, 0, Java!Throw("NullPointerException"))
  BY EventIs
<1>3. QED
  BY <1>1, <1>2 DEF Java!Access

\* An access out of bounds throws.
LEMMA AccessOut ==
  ASSUME NEW insn, NEW r, r # 0, NEW within, NEW values, NEW result,
         ~ within,
         Reads, Event(insn, r, Throw("ArrayIndexOutOfBoundsException"))
  PROVE  Java!Access(insn, r, within, values, result)
<1>1. staticMemory' = staticMemory /\ objects' = objects
  BY ReadsObjects
<1>2. Java!Event(insn, r, Java!Throw("ArrayIndexOutOfBoundsException"))
  BY EventIs
<1>3. QED
  BY <1>1, <1>2 DEF Java!Access

\* An access in bounds overwrites the variables in values.
LEMMA AccessDone ==
  ASSUME NEW insn, NEW r, r # 0, NEW within, NEW values, NEW result,
         within, Event(insn, r, Result(result)),
         objects' = Overwritten(objects, r, values), staticMemory' = staticMemory
  PROVE  Java!Access(insn, r, within, values, result)
<1>1. Java!Event(insn, r, Java!Result(result))
  BY EventIs
<1>2. objects' = [objects EXCEPT ![r].vars =
               [i \in DOMAIN @ |-> IF i \in DOMAIN values
                                   THEN Java!Kept(objects[r].type, values[i]) ELSE @[i]]]
  BY DEF Overwritten
<1>3. QED
  BY <1>1, <1>2 DEF Java!Access

\* A read.
LEMMA AccessRead ==
  ASSUME NEW insn, NEW r \in DOMAIN blocks, r # 0, NEW within, NEW result,
         within, Event(insn, r, Result(result)), Reads
  PROVE  Java!Access(insn, r, within, <<>>, result)
<1>1. objects' = Overwritten(objects, r, <<>>) /\ staticMemory' = staticMemory
  BY ReadsObjects
<1>2. QED
  BY <1>1, AccessDone

\* The indexes in bounds are the variables of an array.
IndexesAre(r, ix) ==
  /\ ix \subseteq DOMAIN objects[r].vars <=> ~ \E i \in ix : OutOfBounds(r, i)
  /\ \A i \in DOMAIN objects[r].vars :
       objects[r].vars[i] = Pushed(blocks[r].type, ElementBytes(r, i))
  /\ GetArrayLength(r) \in Nat /\ DOMAIN objects[r].vars = 0 .. GetArrayLength(r) - 1
  /\ r \in DOMAIN blocks /\ r # 0

LEMMA IndexesWithin ==
  ASSUME IInv, NEW r \in Arrays, NEW ix \in SUBSET Int
  PROVE  IndexesAre(r, ix)
<1>1. r \in DOMAIN blocks /\ GetArrayLength(r) = CountIn(mem, blocks[r].type, r)
      /\ \A i : Pushed(blocks[r].type, ElementBytes(r, i)) = VarIn(mem, blocks[r].type, r, i)
  BY Accessors
<1>2. DOMAIN objects[r].vars = 0 .. GetArrayLength(r) - 1
      /\ \A i \in DOMAIN objects[r].vars : objects[r].vars[i] = VarIn(mem, blocks[r].type, r, i)
  BY <1>1, ObjectParts
<1>3. GetArrayLength(r) \in Nat
  BY <1>1 DEF IInv, Fits
<1>4. r # 0
  BY <1>1, OperandsType DEF IInv
<1>5. \A i \in Int : OutOfBounds(r, i) <=> i \notin 0 .. GetArrayLength(r) - 1
  BY <1>3 DEF OutOfBounds
<1>6. QED
  BY <1>1, <1>2, <1>3, <1>4, <1>5 DEF IndexesAre

\* The fields of an instance are its variables.
LEMMA SlotsWithin ==
  ASSUME IInv, NEW r \in Instances
  PROVE  /\ DOMAIN objects[r].vars = 0 .. NumSlots - 1
         /\ \A a \in 0 .. NumSlots - 1 : objects[r].vars[a] = GetField(r, a)
         /\ r \in DOMAIN blocks /\ r # 0 /\ blocks[r].type = "object"
<1>1. r \in DOMAIN blocks /\ NumSlots = CountIn(mem, blocks[r].type, r)
      /\ \A i : GetField(r, i) = VarIn(mem, blocks[r].type, r, i)
      /\ blocks[r].type \notin ArrayTypes
  BY Accessors
<1>2. DOMAIN objects[r].vars = 0 .. NumSlots - 1
      /\ \A i \in DOMAIN objects[r].vars : objects[r].vars[i] = VarIn(mem, blocks[r].type, r, i)
  BY <1>1, ObjectParts
<1>3. r # 0
  BY <1>1, OperandsType DEF IInv
<1>4. blocks[r].type = "object"
  <2>1. blocks[r] \in Header
    BY <1>1 DEF IInv, TInv, Typed
  <2>2. QED
    BY <2>1, <1>1 DEF Header
<1>5. QED
  BY <1>1, <1>2, <1>3, <1>4

-----------------------------------------------------------------------------
(* Each instruction is one of JavaMemory *)

\* A load reads the element of the object.
LEMMA LoadIsRead ==
  ASSUME IInv, NEW r \in Arrays \cup {0}, NEW i \in Indexes, Load(r, i)
  PROVE  Java!ArrayStep(event'.insn, event'.ref)
<1>1. i \in Int /\ {i} \in SUBSET Int
  BY OperandsType DEF IInv
<1> DEFINE insn == <<"load", i>>
<1>2. Java!Read(insn, r, <<i>>)
  <2> DEFINE f == objects[r].vars
             result == [k \in DOMAIN <<i>> |-> f[<<i>>[k]]]
  <2>1. Java!Range(<<i>>) = {i}
    BY DEF Java!Range
  <2>2. SUFFICES Java!Access(insn, r, Java!Has(r, {i}), <<>>, result)
    BY <2>1 DEF Java!Read
  <2>3. CASE r = 0
    <3>1. Reads /\ Event(insn, 0, Throw("NullPointerException"))
      BY <2>3 DEF Load, WithPosition, Reads
    <3>2. QED
      BY <3>1, <2>3, AccessNull
  <2>4. CASE r # 0 /\ OutOfBounds(r, i)
    <3>1. Reads /\ Event(insn, r, Throw("ArrayIndexOutOfBoundsException"))
      BY <2>4 DEF Load, WithPosition, Reads
    <3>2. ~ Java!Has(r, {i})
      <4>1. IndexesAre(r, {i})
        BY <2>4, <1>1, IndexesWithin
      <4>2. QED
        BY <4>1, <2>4 DEF IndexesAre, Java!Has
    <3>3. QED
      BY <3>1, <3>2, <2>4, AccessOut
  <2>5. CASE r # 0 /\ ~ OutOfBounds(r, i)
    <3> DEFINE x == Pushed(blocks[r].type, ElementBytes(r, i))
    <3>1. Reads /\ Event(insn, r, Result(<<x>>))
      BY <2>5 DEF Load, WithPosition, Reads
    <3>2. Java!Has(r, {i}) /\ f[i] = x /\ r \in DOMAIN blocks
      <4>1. IndexesAre(r, {i})
        BY <2>5, <1>1, IndexesWithin
      <4>2. QED
        BY <4>1, <2>5 DEF IndexesAre, Java!Has
    <3> HIDE DEF f, x
    <3>3. result = <<x>>
      BY <3>2
    <3> HIDE DEF result
    <3>4. QED
      BY <3>1, <3>2, <3>3, <2>5, AccessRead
  <2>6. QED
    BY <2>3, <2>4, <2>5
<1>3. event'.insn = insn /\ event'.ref = r
  BY DEF Load, WithPosition, Event
<1>4. r \in Java!Arrays \cup {0}
  BY ObjectParts
<1>5. Java!ArrayStep(insn, r)
  BY <1>2, <1>4, Zenon DEF Java!ArrayStep
<1>6. QED
  BY <1>3, <1>5

\* The length in the block is the number of elements.
LEMMA ArrayLengthIsRead ==
  ASSUME IInv, NEW r \in Arrays \cup {0}, f_arraylength(r)
  PROVE  Java!ArrayStep(event'.insn, event'.ref)
<1> DEFINE insn == <<"arraylength">>
<1>1. Java!Access(insn, r, TRUE, <<>>, <<Java!Cardinality(DOMAIN objects[r].vars)>>)
  <2>1. CASE r = 0
    <3>1. Reads /\ Event(insn, 0, Throw("NullPointerException"))
      BY <2>1 DEF f_arraylength, WithPosition, Reads
    <3>2. QED
      BY <3>1, <2>1, AccessNull
  <2>2. CASE r # 0
    <3> DEFINE n == GetArrayLength(r)
               d == DOMAIN objects[r].vars
    <3>1. Reads /\ Event(insn, r, Result(<<n>>))
      BY <2>2 DEF f_arraylength, WithPosition, Reads
    <3>2. n \in Nat /\ d = 0 .. n - 1 /\ r \in DOMAIN blocks
      <4>1. IndexesAre(r, {})
        BY <2>2, IndexesWithin
      <4>2. QED
        BY <4>1, <2>2 DEF IndexesAre
    <3> HIDE DEF n, d
    <3>3. Java!Cardinality(d) = n
      <4>1. Cardinality(0 .. n - 1) = IF 0 > n - 1 THEN 0 ELSE n - 1 - 0 + 1
        BY <3>2, FS_Interval
      <4>2. Java!Cardinality(0 .. n - 1) = Cardinality(0 .. n - 1)
        BY DEF Java!Cardinality, Cardinality
      <4>3. QED
        BY <4>1, <4>2, <3>2
    <3>4. QED
      BY <3>1, <3>2, <3>3, <2>2, AccessRead DEF d
  <2>3. QED
    BY <2>1, <2>2
<1>2. event'.insn = insn /\ event'.ref = r
  BY DEF f_arraylength, WithPosition, Event
<1>3. r \in Java!Arrays \cup {0}
  BY ObjectParts
<1>4. Java!ArrayStep(insn, r)
  BY <1>1, <1>3 DEF Java!ArrayStep
<1>5. QED
  BY <1>2, <1>4

\* A store writes the element of the object, cut to its type.
LEMMA StoreIsWrite ==
  ASSUME ReferencesFit, LongsFit, IInv, NEW r \in Arrays \cup {0}, NEW i \in Indexes,
         NEW v \in IF r = 0 THEN {0} ELSE Operands(blocks[r].type), Store(r, i, v)
  PROVE  Java!ArrayStep(event'.insn, event'.ref)
<1>1. i \in Int /\ {i} \in SUBSET Int /\ v \in Int
  BY OperandsType DEF IInv
<1> DEFINE values == [x \in {i} |-> v]
           insn == <<"store", i, v>>
<1>2. Java!Access(insn, r, Java!Has(r, {i}), values, <<>>)
  <2>1. CASE r = 0
    <3>1. Reads /\ Event(insn, 0, Throw("NullPointerException"))
      BY <2>1 DEF Store, WithPosition, Reads
    <3>2. QED
      BY <3>1, <2>1, AccessNull
  <2>2. CASE r # 0 /\ OutOfBounds(r, i)
    <3>1. Reads /\ Event(insn, r, Throw("ArrayIndexOutOfBoundsException"))
      BY <2>2 DEF Store, WithPosition, Reads
    <3>2. ~ Java!Has(r, {i})
      <4>1. IndexesAre(r, {i})
        BY <2>2, <1>1, IndexesWithin
      <4>2. QED
        BY <4>1, <2>2 DEF IndexesAre, Java!Has
    <3>3. QED
      BY <3>1, <3>2, <2>2, AccessOut
  <2>3. CASE r # 0 /\ ~ OutOfBounds(r, i)
    <3> DEFINE type == blocks[r].type
               bs == Popped(type, v)
    <3>1. Event(insn, r, Result(<<>>))
      BY <2>3 DEF Store, WithPosition
    <3>2. Java!Has(r, {i}) /\ r \in DOMAIN blocks
      <4>1. IndexesAre(r, {i})
        BY <2>3, <1>1, IndexesWithin
      <4>2. QED
        BY <4>1, <2>3 DEF IndexesAre, Java!Has
    <3>3. Stores(r, i, 1, bs)
      BY <2>3, <1>1, StoreStores
    <3>4. type \in ArrayTypes /\ VarSize(type) = ElementSize(type)
      BY <2>3, Accessors
    <3>5. Part(bs, (i - i) * VarSize(type), VarSize(type)) = bs
      <4> DEFINE z == VarSize(type)
      <4>1. bs \in Seq(Byte) /\ Len(bs) = 1 * z /\ z \in Nat
        <5>1. z \in 1 .. 2 * ALIGN + STACKABLE
          BY <3>4, WidthsThere DEF Widths, ElementSize, ArrayTypes
        <5>2. z \in Nat
          BY <5>1
        <5>3. QED
          BY <3>3, <5>2 DEF Stores
      <4> HIDE DEF bs, z
      <4>2. (i - i) * z = 0 /\ 1 * z = z
        BY <4>1, <1>1
      <4>3. bs = [k \in 1 .. z |-> bs[k]]
        BY <4>1, <4>2
      <4>4. Part(bs, 0, z) = [k \in 1 .. z |-> bs[k]]
        BY <4>1 DEF Part
      <4>5. QED
        BY <4>2, <4>3, <4>4 DEF z
    <3>6. ValueOf(type, bs) = Java!Kept(type, v)
      BY <2>3, <3>4, ElementIsKept DEF IInv
    <3>7. DOMAIN values = i .. i + 1 - 1 /\ \A j \in i .. i + 1 - 1 : j = i /\ values[j] = v
      BY <1>1
    <3> HIDE DEF values, bs
    <3>8. Keeps(type, i, 1, bs, values)
      BY <3>5, <3>6, <3>7 DEF Keeps
    <3>9. objects' = Overwritten(objects, r, values) /\ staticMemory' = staticMemory
      BY <3>3, <3>8, StoresObjects
    <3>10. QED
      BY <3>1, <3>2, <3>9, <2>3, AccessDone
  <2>4. QED
    BY <2>1, <2>2, <2>3
<1>3. event'.insn = insn /\ event'.ref = r
  BY DEF Store, WithPosition, Event
<1>4. r \in Java!Arrays \cup {0}
  BY ObjectParts
<1>5. v \in IF r = 0 THEN {0} ELSE Java!Values(objects[r].type)
  <2>1. CASE r = 0
    BY <2>1
  <2>2. CASE r # 0
    <3>1. r \in DOMAIN blocks
      BY <2>2, Accessors
    <3>2. objects[r].type = blocks[r].type /\ DOMAIN objects = DOMAIN blocks
      BY <3>1, ObjectParts
    <3>3. v \in Operands(blocks[r].type)
      BY <2>2
    <3>4. Java!Values(blocks[r].type) = Operands(blocks[r].type)
      BY <3>2 DEF Java!Values, Operands
    <3>5. QED
      BY <3>2, <3>3, <3>4, <2>2
  <2>3. QED
    BY <2>1, <2>2
<1>6. Java!ArrayStep(insn, r)
  BY <1>2, <1>4, <1>5, Zenon DEF Java!ArrayStep
<1>7. QED
  BY <1>3, <1>6

\* A byte is cut to its eight bits.
LEMMA ByteIsKept ==
  ASSUME NEW v \in Int
  PROVE  ValueOf("byte", BytesOf(v, 1)) = Java!Kept("byte", v)
<1>1. ValueOf("byte", BytesOf(v, 1)) = Number(BytesOf(v, 1))
  BY DEF ValueOf, ArrayTypes, Pushed
<1>2. 1 \in Widths /\ ByteTop \in Nat \ {0}
  BY WidthsThere, Powers
<1>3. Number(BytesOf(v, 1)) = Signed(ByteTop, v)
  BY <1>2, HalfByte, NumberOfBytes
<1>4. Signed(ByteTop, v) = ((v + ByteTop) % (2 * ByteTop)) - ByteTop
  BY <1>2, SignedIsNarrow
<1>5. Java!Kept("byte", v) = ((v + ByteTop) % (2 * ByteTop)) - ByteTop
  BY DEF Java!Kept, Java!Narrow
<1>6. QED
  BY <1>1, <1>3, <1>4, <1>5

\* The bytes of a region are stored one by one.
LEMMA RegionIsKept ==
  ASSUME NEW len \in Lengths, NEW k \in 1 .. len
  PROVE  ValueOf("byte", Part(Copied(len), (k - 1) * 1, 1)) = Java!Kept("byte", Buffer[k])
<1>1. Buffer[k] \in Int
  <2>1. len \in Int /\ Buffer \in Seq(Int) /\ len <= Len(Buffer)
    BY OperandsAssumption, MemoryAssumption
  <2>2. QED
    BY <2>1
<1>2. Part(Copied(len), (k - 1) * 1, 1) = BytesOf(Buffer[k], 1)
  <2> DEFINE v == Buffer[k]
             c == Copied(len)
  <2>1. c[k] = v % Base
    BY DEF Copied
  <2>2. len \in Int
    BY OperandsAssumption, MemoryAssumption
  <2> HIDE DEF v, c
  <2>3. (k - 1) * 1 = k - 1 /\ \A j \in 1 .. 1 : k - 1 + j = k
    BY <2>2
  <2>4. Part(c, k - 1, 1) = [j \in 1 .. 1 |-> v % Base]
    BY <2>1, <2>3 DEF Part
  <2>5. BytesOf(v, 1) = [j \in 1 .. 1 |-> v % Base]
    BY <1>1, HalfByte DEF v
  <2>6. QED
    BY <2>3, <2>4, <2>5 DEF v, c
<1>3. QED
  BY <1>1, <1>2, ByteIsKept

\* The first and the last index of a region that is not empty are those of elements
\* exactly if the region is within the array.
LEMMA RegionWithin ==
  ASSUME RegionsNotEmpty, IInv, NEW r \in Arrays, NEW start \in Indexes, NEW len \in Lengths
  PROVE  Java!WithinArray(r, start, len) <=> ~ \E i \in {start, start + len - 1} : OutOfBounds(r, i)
<1> DEFINE n == GetArrayLength(r)
           d == DOMAIN objects[r].vars
<1>1. start \in Int /\ len \in Int /\ len >= 1
  BY OperandsType DEF IInv, RegionsNotEmpty
<1>2. n \in Nat /\ d = 0 .. n - 1
  BY IndexesWithin DEF IndexesAre
<1>3. \A i : OutOfBounds(r, i) <=> i < 0 \/ i >= n
  BY DEF OutOfBounds
<1> HIDE DEF n
<1>4. Java!Cardinality(d) = n
  <2>1. Cardinality(0 .. n - 1) = IF 0 > n - 1 THEN 0 ELSE n - 1 - 0 + 1
    BY <1>2, FS_Interval
  <2>2. Java!Cardinality(0 .. n - 1) = Cardinality(0 .. n - 1)
    BY DEF Java!Cardinality, Cardinality
  <2>3. QED
    BY <2>1, <2>2, <1>2
<1>5. Java!WithinArray(r, start, len) <=> start >= 0 /\ start + len <= n
  BY <1>4 DEF Java!WithinArray
<1>6. QED
  BY <1>1, <1>2, <1>3, <1>5

\* A copy into a byte array writes its elements one by one.
LEMMA SetRegionIsWrite ==
  ASSUME RegionsNotEmpty, IInv, NEW r \in Arrays \cup {0}, r # 0 => blocks[r].type = "byte",
         NEW start \in Indexes, NEW len \in Lengths, SetByteArrayRegion(r, start, len, Buffer)
  PROVE  Java!ArrayStep(event'.insn, event'.ref)
<1> DEFINE insn == <<"SetByteArrayRegion", start, len>>
           ix == {start, start + len - 1}
           values == [i \in Java!Region(start, len) |-> Buffer[i - start + 1]]
<1>1. start \in Int /\ len \in Int /\ ix \in SUBSET Int
  <2>1. start \in Int /\ len \in Int
    BY OperandsType DEF IInv
  <2>2. QED
    BY <2>1
<1>2. Java!Access(insn, r, Java!WithinArray(r, start, len), values, <<>>)
  <2>1. CASE r = 0
    <3>1. Reads /\ Event(insn, 0, Throw("NullPointerException"))
      BY <2>1 DEF SetByteArrayRegion, WithPosition, Reads
    <3>2. QED
      BY <3>1, <2>1, AccessNull
  <2>2. CASE r # 0 /\ \E i \in ix : OutOfBounds(r, i)
    <3>1. Reads /\ Event(insn, r, Throw("ArrayIndexOutOfBoundsException"))
      BY <2>2 DEF SetByteArrayRegion, WithPosition, Reads
    <3>2. ~ Java!WithinArray(r, start, len)
      BY <2>2, RegionWithin
    <3>3. QED
      BY <3>1, <3>2, <2>2, AccessOut
  <2>3. CASE r # 0 /\ ~ \E i \in ix : OutOfBounds(r, i)
    <3> DEFINE n == CopiedLength(len)
    <3>1. Event(insn, r, Result(<<>>))
      BY <2>3 DEF SetByteArrayRegion, WithPosition
    <3>2. Java!WithinArray(r, start, len) /\ r \in Arrays
      BY <2>3, RegionWithin
    <3>3. ~ OutOfBounds(r, start) /\ ~ OutOfBounds(r, start + len - 1)
      BY <2>3
    <3>4. Stores(r, start, n, Copied(len))
      BY <2>3, <3>2, <3>3, <1>1, SetByteArrayRegionStores
    <3>5. blocks[r].type = "byte" /\ VarSize("byte") = 1
      BY <2>3 DEF VarSize, ElementSize, ArrayTypes
    <3>6. DOMAIN values = start .. start + n - 1
          /\ \A j \in start .. start + n - 1 :
               values[j] = Buffer[j - start + 1] /\ j - start + 1 \in 1 .. len
      <4>1. start .. start + n - 1 = start .. start + len - 1
        BY <1>1 DEF CopiedLength
      <4>2. DOMAIN values = start .. start + len - 1
            /\ \A j \in start .. start + len - 1 : values[j] = Buffer[j - start + 1]
        BY DEF Java!Region
      <4>3. \A j \in start .. start + len - 1 : j - start + 1 \in 1 .. len
        BY <1>1
      <4> HIDE DEF values, n
      <4>4. QED
        BY <4>1, <4>2, <4>3
    <3> HIDE DEF values, n
    <3>7. Keeps(blocks[r].type, start, n, Copied(len), values)
      <4> SUFFICES ASSUME NEW j \in start .. start + n - 1
                   PROVE  ValueOf("byte", Part(Copied(len), (j - start) * 1, 1))
                            = Java!Kept("byte", values[j])
        BY <3>5, <3>6 DEF Keeps
      <4> DEFINE k == j - start + 1
      <4>1. k \in 1 .. len /\ values[j] = Buffer[k] /\ k - 1 = j - start
        <5>1. j \in Int
          BY <1>1, <3>4 DEF Stores
        <5>2. k - 1 = j - start
          BY <5>1, <1>1
        <5>3. QED
          BY <5>2, <3>6
      <4> HIDE DEF k
      <4>2. QED
        BY <4>1, RegionIsKept
    <3>8. objects' = Overwritten(objects, r, values) /\ staticMemory' = staticMemory
      BY <3>4, <3>7, StoresObjects
    <3>9. QED
      BY <3>1, <3>2, <3>8, <2>3, AccessDone
  <2>4. QED
    BY <2>1, <2>2, <2>3
<1>3. event'.insn = insn /\ event'.ref = r
  BY DEF SetByteArrayRegion, WithPosition, Event
<1>4. r \in Java!Arrays \cup {0} /\ (r # 0 => objects[r].type = "byte")
  BY ObjectParts, Accessors
<1>5. Java!ByteRegion(insn, r, start, len)
  BY <1>2 DEF Java!ByteRegion
<1>6. Java!ArrayStep(insn, r)
  BY <1>4, <1>5, Zenon DEF Java!ArrayStep
<1>7. QED
  BY <1>3, <1>6

\* A copy out of a byte array reads them.
LEMMA GetRegionIsRead ==
  ASSUME RegionsNotEmpty, IInv, NEW r \in Arrays \cup {0}, r # 0 => blocks[r].type = "byte",
         NEW start \in Indexes, NEW len \in Lengths, GetByteArrayRegion(r, start, len)
  PROVE  Java!ArrayStep(event'.insn, event'.ref)
<1> DEFINE insn == <<"GetByteArrayRegion", start, len>>
           ix == {start, start + len - 1}
           result == [k \in 1 .. len |-> objects[r].vars[start + k - 1]]
<1>1. start \in Int /\ len \in Int /\ ix \in SUBSET Int
  <2>1. start \in Int /\ len \in Int
    BY OperandsType DEF IInv
  <2>2. QED
    BY <2>1
<1>2. Java!Access(insn, r, Java!WithinArray(r, start, len), <<>>, result)
  <2>1. CASE r = 0
    <3>1. Reads /\ Event(insn, 0, Throw("NullPointerException"))
      BY <2>1 DEF GetByteArrayRegion, WithPosition, Reads
    <3>2. QED
      BY <3>1, <2>1, AccessNull
  <2>2. CASE r # 0 /\ \E i \in ix : OutOfBounds(r, i)
    <3>1. Reads /\ Event(insn, r, Throw("ArrayIndexOutOfBoundsException"))
      BY <2>2 DEF GetByteArrayRegion, WithPosition, Reads
    <3>2. ~ Java!WithinArray(r, start, len)
      BY <2>2, RegionWithin
    <3>3. QED
      BY <3>1, <3>2, <2>2, AccessOut
  <2>3. CASE r # 0 /\ ~ \E i \in ix : OutOfBounds(r, i)
    <3> DEFINE n == GetArrayLength(r)
               numbers == [k \in 1 .. len |-> Number(ElementBytes(r, start + k - 1))]
    <3>1. Reads /\ Event(insn, r, Result(numbers))
      BY <2>3 DEF GetByteArrayRegion, WithPosition, Reads
    <3>2. /\ ix \subseteq DOMAIN objects[r].vars /\ r \in DOMAIN blocks
          /\ n \in Nat /\ DOMAIN objects[r].vars = 0 .. n - 1
          /\ \A i \in DOMAIN objects[r].vars :
               objects[r].vars[i] = Pushed(blocks[r].type, ElementBytes(r, i))
      <4>1. IndexesAre(r, ix)
        BY <2>3, <1>1, IndexesWithin
      <4>2. QED
        BY <4>1, <2>3 DEF IndexesAre
    <3>3. \A k \in 1 .. len : start + k - 1 \in 0 .. n - 1
      <4>1. start \in 0 .. n - 1 /\ start + len - 1 \in 0 .. n - 1
        BY <3>2
      <4> HIDE DEF n
      <4>2. QED
        BY <4>1, <3>2, <1>1
    <3>4. \A i : Pushed(blocks[r].type, ElementBytes(r, i)) = Number(ElementBytes(r, i))
      BY <2>3 DEF Pushed
    <3>5. result = numbers
      BY <3>2, <3>3, <3>4
    <3> HIDE DEF result, numbers
    <3>6. Java!WithinArray(r, start, len)
      BY <2>3, RegionWithin
    <3>7. QED
      BY <3>1, <3>2, <3>5, <3>6, <2>3, AccessRead
  <2>4. QED
    BY <2>1, <2>2, <2>3
<1>3. event'.insn = insn /\ event'.ref = r
  BY DEF GetByteArrayRegion, WithPosition, Event
<1>4. r \in Java!Arrays \cup {0} /\ (r # 0 => objects[r].type = "byte")
  BY ObjectParts, Accessors
<1>5. Java!ByteRegion(insn, r, start, len)
  BY <1>2 DEF Java!ByteRegion
<1>6. Java!ArrayStep(insn, r)
  BY <1>4, <1>5, Zenon DEF Java!ArrayStep
<1>7. QED
  BY <1>3, <1>6

\* The slots of a field of n words at a.
SlotsOf(a, n) == IF n = 1 THEN <<a>> ELSE <<a, a + 1>>

SlotsWith(m, n, a, slots) ==
  /\ slots \in Java!FieldSlots(m) /\ Java!Range(slots) = a .. a + n - 1
  /\ DOMAIN slots = 1 .. n /\ \A k \in 1 .. n : slots[k] = a + k - 1

\* They are slots of JavaMemory.
LEMMA SlotsOfType ==
  ASSUME NEW m \in Nat, NEW n \in {1, 2}, NEW a \in 0 .. m - 1, a + n <= m
  PROVE  SlotsWith(m, n, a, SlotsOf(a, n))
<1>1. CASE n = 1
  <2>1. SlotsOf(a, n) = <<a>>
    BY <1>1 DEF SlotsOf
  <2>2. <<a>> \in Java!FieldSlots(m)
    BY DEF Java!FieldSlots
  <2>3. Java!Range(<<a>>) = {a}
    BY DEF Java!Range
  <2>4. a .. a + 1 - 1 = {a}
    OBVIOUS
  <2>5. DOMAIN <<a>> = 1 .. 1 /\ \A k \in 1 .. 1 : <<a>>[k] = a + k - 1
    OBVIOUS
  <2>6. QED
    BY <2>1, <2>2, <2>3, <2>4, <2>5, <1>1 DEF SlotsWith
<1>2. CASE n = 2
  <2>1. SlotsOf(a, n) = <<a, a + 1>>
    BY <1>2 DEF SlotsOf
  <2>2. <<a, a + 1>> \in Java!FieldSlots(m)
    <3>1. a \in 0 .. m - 2
      BY <1>2
    <3>2. QED
      BY <3>1 DEF Java!FieldSlots
  <2>3. Java!Range(<<a, a + 1>>) = {a, a + 1}
    BY DEF Java!Range
  <2>4. a .. a + 2 - 1 = {a, a + 1}
    OBVIOUS
  <2>5. DOMAIN <<a, a + 1>> = 1 .. 2 /\ \A k \in 1 .. 2 : <<a, a + 1>>[k] = a + k - 1
    OBVIOUS
  <2>6. QED
    BY <2>1, <2>2, <2>3, <2>4, <2>5, <1>2 DEF SlotsWith
<1>3. QED
  BY <1>1, <1>2

\* They are a sequence, as long as the field has words.
LEMMA FieldSlotsAre ==
  ASSUME NEW m, NEW n \in {1, 2}, NEW a \in Int, NEW slots \in Java!FieldSlots(m),
         DOMAIN slots = 1 .. n, \A k \in 1 .. n : slots[k] = a + k - 1
  PROVE  slots[1] = a /\ Len(slots) = n
<1>1. slots[1] = a
  <2>1. 1 \in 1 .. n /\ a + 1 - 1 = a
    OBVIOUS
  <2>2. QED
    BY <2>1
<1>2. \E b : slots = <<b>> \/ \E c : slots = <<b, c>>
  BY DEF Java!FieldSlots
<1>3. Len(slots) \in Nat /\ DOMAIN slots = 1 .. Len(slots)
  BY <1>2
<1>4. QED
  BY <1>1, <1>3

\* getfield and GetIntField read the slots of the field.
LEMMA GetFieldIsRead ==
  ASSUME IInv, NEW r \in Instances \cup {0}, NEW n \in {1, 2}, NEW a \in 0 .. NumSlots - 1,
         a + n <= NumSlots, f_getfield(r, a, n)
  PROVE  Java!FieldStep(event'.insn, event'.ref)
<1> DEFINE slots == SlotsOf(a, n)
           result == [k \in DOMAIN slots |-> objects[r].vars[slots[k]]]
           ix == Java!Range(slots)
           insn == <<"getfield", a, n>>
<1>1. /\ slots \in Java!FieldSlots(NumSlots) /\ ix = a .. a + n - 1
      /\ DOMAIN slots = 1 .. n /\ \A k \in 1 .. n : slots[k] = a + k - 1
  <2>1. NumSlots \in Nat
    BY MemoryAssumption
  <2>2. SlotsWith(NumSlots, n, a, SlotsOf(a, n))
    BY <2>1, SlotsOfType
  <2>3. QED
    BY <2>2 DEF SlotsWith
<1>2. Java!Access(insn, r, Java!Has(r, ix), <<>>, result)
  <2>1. CASE r = 0
    <3>1. Reads /\ Event(insn, 0, Throw("NullPointerException"))
      BY <2>1 DEF f_getfield, WithPosition, Reads
    <3>2. QED
      BY <3>1, <2>1, AccessNull
  <2>2. CASE r # 0
    <3> DEFINE words == [k \in 1 .. n |-> GetField(r, a + k - 1)]
    <3>1. Reads /\ Event(insn, r, Result(words))
      BY <2>2 DEF f_getfield, WithPosition, Reads
    <3>2. /\ DOMAIN objects[r].vars = 0 .. NumSlots - 1
          /\ \A s \in 0 .. NumSlots - 1 : objects[r].vars[s] = GetField(r, s)
          /\ r \in DOMAIN blocks
      BY <2>2, SlotsWithin
    <3>3. Java!Has(r, ix)
      BY <1>1, <3>2, MemoryAssumption DEF Java!Has
    <3>4. \A k \in 1 .. n : slots[k] \in 0 .. NumSlots - 1 /\ slots[k] = a + k - 1
      <4>1. NumSlots \in Nat /\ \A k \in 1 .. n : slots[k] = a + k - 1
        BY <1>1, MemoryAssumption
      <4> HIDE DEF slots
      <4>2. QED
        BY <4>1
    <3>5. result = words
      BY <1>1, <3>2, <3>4
    <3> HIDE DEF result, words, ix, slots
    <3>6. QED
      BY <3>1, <3>2, <3>3, <3>5, <2>2, AccessRead
  <2>3. QED
    BY <2>1, <2>2
<1>3. Java!Read(insn, r, slots)
  BY <1>2 DEF Java!Read
<1>4. event'.insn = insn /\ event'.ref = r
  BY DEF f_getfield, WithPosition, Event
<1>5. r \in Java!Instances \cup {0}
  BY ObjectParts
<1> HIDE DEF slots
<1>6. Java!FieldStep(insn, r)
  <2>1. insn = <<"getfield", slots[1], Len(slots)>>
    BY <1>1, FieldSlotsAre
  <2> HIDE DEF insn
  <2>2. QED
    BY <2>1, <1>1, <1>3, <1>5, Zenon DEF Java!FieldStep
<1>7. QED
  BY <1>4, <1>6

\* The words of a field, as the values of its slots.
FieldValues(slots, words) == Java!SlotValues(slots, words)

\* A slot keeps the word that was stored in it.
LEMMA FieldIsKept ==
  ASSUME NEW m \in Nat, NEW n \in {1, 2}, NEW a \in 0 .. m - 1, a + n <= m,
         NEW words \in [1 .. n -> FieldInts]
  PROVE  LET values == FieldValues(SlotsOf(a, n), words)
         IN /\ DOMAIN values = a .. a + n - 1
            /\ \A k \in 1 .. n : values[a + k - 1] = words[k]
            /\ Keeps("object", a, n, FieldBytes(words), values)
<1> DEFINE slots == SlotsOf(a, n)
           values == FieldValues(slots, words)
<1>1. Java!Range(slots) = a .. a + n - 1 /\ slots[1] = a
  <2>1. 1 \in 1 .. n /\ a + 1 - 1 = a
    OBVIOUS
  <2>2. SlotsWith(m, n, a, SlotsOf(a, n))
    BY SlotsOfType
  <2>3. QED
    BY <2>1, <2>2 DEF SlotsWith
<1>2. values = [s \in a .. a + n - 1 |-> words[s - a + 1]]
  BY <1>1 DEF FieldValues, Java!SlotValues
<1> HIDE DEF values, slots
<1>3. DOMAIN values = a .. a + n - 1
  BY <1>2
<1>4. ASSUME NEW k \in 1 .. n PROVE values[a + k - 1] = words[k]
  <2>1. a + k - 1 \in a .. a + n - 1 /\ (a + k - 1) - a + 1 = k
    OBVIOUS
  <2>2. QED
    BY <2>1, <1>2
<1>5. Keeps("object", a, n, FieldBytes(words), values)
  <2>1. VarSize("object") = STACKABLE /\ "object" \notin ArrayTypes
    BY DEF VarSize, ArrayTypes
  <2> SUFFICES ASSUME NEW j \in a .. a + n - 1
               PROVE  ValueOf("object", Part(FieldBytes(words), (j - a) * STACKABLE, STACKABLE))
                        = Java!Kept("object", values[j])
    BY <1>3, <2>1 DEF Keeps
  <2> DEFINE k == j - a + 1
             v == words[k]
  <2>2. k \in 1 .. n /\ k - 1 = j - a /\ a + k - 1 = j
    OBVIOUS
  <2>3. v \in -IntTop .. IntTop - 1
    BY <2>2, OperandsAssumption
  <2>4. Part(FieldBytes(words), (k - 1) * STACKABLE, STACKABLE) = BytesOf(v, STACKABLE)
    BY <2>2, FieldBytesType
  <2>5. Number(BytesOf(v, STACKABLE)) = v
    BY <2>3, WordIsKept
  <2>6. Java!Kept("object", v) = v
    BY DEF Java!Kept
  <2>7. values[j] = v
    BY <2>2, <1>4
  <2>8. \A bytes : ValueOf("object", bytes) = Number(bytes)
    BY <2>1 DEF ValueOf
  <2> HIDE DEF k, v
  <2>9. QED
    BY <2>2, <2>4, <2>5, <2>6, <2>7, <2>8
<1>6. QED
  BY <1>3, <1>4, <1>5 DEF values, slots

\* putfield and SetIntField write the slots of the field.
LEMMA PutFieldIsWrite ==
  ASSUME IInv, NEW r \in Instances \cup {0}, NEW n \in {1, 2}, NEW a \in 0 .. NumSlots - 1,
         a + n <= NumSlots, NEW words \in [1 .. n -> FieldInts], f_putfield(r, a, words)
  PROVE  Java!FieldStep(event'.insn, event'.ref)
<1> DEFINE slots == SlotsOf(a, n)
           values == FieldValues(slots, words)
           ix == Java!Range(slots)
           insn == <<"putfield", a, words>>
<1>1. /\ slots \in Java!FieldSlots(NumSlots) /\ ix = a .. a + n - 1 /\ NumSlots \in Nat
      /\ DOMAIN slots = 1 .. n /\ \A k \in 1 .. n : slots[k] = a + k - 1
  <2>1. NumSlots \in Nat
    BY MemoryAssumption
  <2>2. SlotsWith(NumSlots, n, a, SlotsOf(a, n))
    BY <2>1, SlotsOfType
  <2>3. QED
    BY <2>1, <2>2 DEF SlotsWith
<1>2. words \in [DOMAIN slots -> FieldInts] /\ slots[1] = a
  BY <1>1, FieldSlotsAre
<1>3. Keeps("object", a, n, FieldBytes(words), values)
  BY <1>1, FieldIsKept
<1> HIDE DEF values
<1>4. Java!Access(insn, r, Java!Has(r, ix), values, <<>>)
  <2>1. CASE r = 0
    <3>1. Reads /\ Event(insn, 0, Throw("NullPointerException"))
      BY <2>1 DEF f_putfield, WithPosition, Reads
    <3>2. QED
      BY <3>1, <2>1, AccessNull
  <2>2. CASE r # 0
    <3>1. Event(insn, r, Result(<<>>))
      BY <2>2 DEF f_putfield, WithPosition
    <3>2. DOMAIN objects[r].vars = 0 .. NumSlots - 1 /\ blocks[r].type = "object"
      BY <2>2, SlotsWithin
    <3>3. Java!Has(r, ix)
      BY <1>1, <3>2 DEF Java!Has
    <3>4. Stores(r, a, n, FieldBytes(words))
      BY <2>2, PutFieldStores
    <3>5. objects' = Overwritten(objects, r, values) /\ staticMemory' = staticMemory
      BY <3>2, <3>4, <1>3, StoresObjects
    <3>6. QED
      BY <3>1, <3>3, <3>5, <2>2, AccessDone
  <2>3. QED
    BY <2>1, <2>2
<1>5. event'.insn = insn /\ event'.ref = r
  BY DEF f_putfield, WithPosition, Event
<1>6. r \in Java!Instances \cup {0}
  BY ObjectParts
<1>7. Java!Access(insn, r, Java!Has(r, Java!Range(slots)), Java!SlotValues(slots, words), <<>>)
  BY <1>4 DEF values, FieldValues
<1> HIDE DEF slots
<1>8. Java!FieldStep(insn, r)
  <2>1. insn = <<"putfield", slots[1], words>>
    BY <1>2
  <2> HIDE DEF insn
  <2>2. QED
    BY <2>1, <1>1, <1>2, <1>6, <1>7, Zenon DEF Java!FieldStep
<1>9. QED
  BY <1>5, <1>8

\* getstatic and GetStaticObjectField read the static fields.
LEMMA GetStaticIsRead ==
  ASSUME NEW n \in {1, 2}, NEW a \in 0 .. NumStatics - 1, a + n <= NumStatics,
         f_getstatic(a, n)
  PROVE  Java!StaticStep
<1> DEFINE slots == SlotsOf(a, n)
<1>1. SlotsWith(NumStatics, n, a, slots)
  BY SlotsOfType, MemoryAssumption
<1> HIDE DEF slots
<1>2. /\ slots \in Java!FieldSlots(NumStatics)
      /\ DOMAIN slots = 1 .. n /\ \A k \in 1 .. n : slots[k] = a + k - 1
  BY <1>1 DEF SlotsWith
<1>3. [k \in 1 .. n |-> staticMemory[a + k - 1]] = [k \in DOMAIN slots |-> staticMemory[slots[k]]]
  BY <1>2
<1>4. Reads /\ Event(<<"getstatic", a, n>>, 0, Result([k \in 1 .. n |-> staticMemory[a + k - 1]]))
  BY DEF f_getstatic, Reads
<1>5. Event(<<"getstatic", a, n>>, 0, Result([k \in DOMAIN slots |-> staticMemory[slots[k]]]))
  BY <1>3, <1>4
<1>6. Java!Event(<<"getstatic", a, n>>, 0, Java!Result([k \in DOMAIN slots |-> staticMemory[slots[k]]]))
  BY <1>5, EventIs
<1>7. objects' = objects /\ staticMemory' = staticMemory
  BY <1>4, ReadsObjects
<1>8. Java!ReadStatic(slots)
  <2>1. slots[1] = a /\ Len(slots) = n
    BY <1>2, FieldSlotsAre
  <2>2. QED
    BY <1>6, <1>7, <2>1 DEF Java!ReadStatic
<1>9. QED
  BY <1>2, <1>8, Zenon DEF Java!StaticStep

\* putstatic and SetStaticObjectField write them.
LEMMA PutStaticIsWrite ==
  ASSUME NEW n \in {1, 2}, NEW a \in 0 .. NumStatics - 1, a + n <= NumStatics,
         NEW words \in [1 .. n -> FieldInts], f_putstatic(a, words)
  PROVE  Java!StaticStep
<1> DEFINE slots == SlotsOf(a, n)
           values == FieldValues(slots, words)
<1>1. /\ slots \in Java!FieldSlots(NumStatics) /\ Java!Range(slots) = a .. a + n - 1
      /\ DOMAIN slots = 1 .. n /\ \A k \in 1 .. n : slots[k] = a + k - 1
  <2>1. NumStatics \in Nat
    BY MemoryAssumption
  <2>2. SlotsWith(NumStatics, n, a, SlotsOf(a, n))
    BY <2>1, SlotsOfType
  <2>3. QED
    BY <2>2 DEF SlotsWith
<1>2. words \in [DOMAIN slots -> FieldInts] /\ slots[1] = a
  BY <1>1, FieldSlotsAre
<1>3. DOMAIN values = a .. a + n - 1 /\ \A k \in 1 .. n : values[a + k - 1] = words[k]
  <2>1. NumStatics \in Nat
    BY MemoryAssumption
  <2>2. QED
    BY <2>1, FieldIsKept
<1>4. /\ staticMemory' = Written(staticMemory, a, words)
      /\ Event(<<"putstatic", a, words>>, 0, Result(<<>>)) /\ UNCHANGED <<mem, blocks, top>>
  BY DEF f_putstatic
<1>5. Len(words) = n
  <2>1. words \in Seq(FieldInts)
    OBVIOUS
  <2>2. DOMAIN words = 1 .. n
    OBVIOUS
  <2>3. QED
    BY <2>1, <2>2
<1> HIDE DEF values, slots
<1>6. staticMemory' = [s \in DOMAIN staticMemory |->
                        IF s \in DOMAIN values THEN values[s] ELSE staticMemory[s]]
  <2>1. \A s \in a .. a + n - 1 : values[s] = words[s - a + 1]
    <3> SUFFICES ASSUME NEW s \in a .. a + n - 1 PROVE values[s] = words[s - a + 1]
      OBVIOUS
    <3>1. s - a + 1 \in 1 .. n /\ a + (s - a + 1) - 1 = s
      OBVIOUS
    <3>2. QED
      BY <3>1, <1>3
  <2>2. staticMemory' = [s \in DOMAIN staticMemory |->
                          IF s \in a .. a + n - 1 THEN words[s - a + 1] ELSE staticMemory[s]]
    BY <1>4, <1>5 DEF Written
  <2>3. QED
    BY <2>1, <2>2, <1>3
<1>7. objects' = objects
  BY <1>4, ObjectsAre, ObjectsAfter
<1>8. Java!Event(<<"putstatic", a, words>>, 0, Java!Result(<<>>))
  BY <1>4, EventIs
<1>9. Java!WriteStatic(slots, words)
  <2>1. DOMAIN values = Java!Range(slots) /\ values = Java!SlotValues(slots, words)
    BY <1>1, <1>3 DEF values, FieldValues
  <2>2. QED
    BY <2>1, <1>2, <1>6, <1>7, <1>8 DEF Java!WriteStatic
<1>10. QED
  BY <1>1, <1>2, <1>9, Zenon DEF Java!StaticStep

\* An allocation that fails changes nothing, one that succeeds adds an object.
LEMMA FailureIsNew ==
  ASSUME Reads, NEW type, NEW n,
         \/ n < 0 /\ Event(NewInsn(type, n), 0, Throw("NegativeArraySizeException"))
         \/ n >= 0 /\ Event(NewInsn(type, n), 0, Throw("OutOfMemoryError"))
  PROVE  Java!New(type, n)
<1>1. objects' = objects /\ staticMemory' = staticMemory
  BY ReadsObjects
<1>2. CASE n < 0 /\ Event(NewInsn(type, n), 0, Throw("NegativeArraySizeException"))
  <2>1. n < 0 /\ Java!Event(NewInsn(type, n), 0, Java!Throw("NegativeArraySizeException"))
       
    BY <1>2, EventIs
  <2>2. QED
    BY <1>1, <2>1, Zenon DEF Java!New, NewInsn
<1>3. CASE n >= 0 /\ Event(NewInsn(type, n), 0, Throw("OutOfMemoryError"))
  <2>1. n >= 0 /\ Java!Event(NewInsn(type, n), 0, Java!Throw("OutOfMemoryError"))
    BY <1>3, EventIs
  <2>2. QED
    BY <1>1, <2>1, Zenon DEF Java!New, NewInsn
<1>4. QED
  BY <1>2, <1>3

\* A successful allocation adds an object with variables of 0.
LEMMA AllocationIsNew ==
  ASSUME IInv, NEW type, NEW words, NEW bs, Allocates(type, words, bs),
         NEW n \in Nat, AllocatedIn(mem, mem', blocks, top, type, n),
         Event(NewInsn(type, n), top, Result(<<top>>))
  PROVE  Java!New(type, n)
<1> DEFINE t == top
<1>1. /\ objects' = [r \in DOMAIN objects \cup {t} |->
                      IF r = t THEN [type |-> type, vars |-> [i \in 0 .. n - 1 |-> 0]]
                      ELSE objects[r]]
      /\ t \notin DOMAIN objects /\ t \in 1 .. HeapSize /\ staticMemory' = staticMemory
  BY AllocatesObjects
<1>2. Java!Event(NewInsn(type, n), t, Java!Result(<<t>>))
  BY EventIs
<1>3. n >= 0
  OBVIOUS
<1> HIDE DEF t
<1>4. QED
  BY <1>1, <1>2, <1>3, Zenon DEF Java!New, NewInsn

\* newarray and anewarray create an object, or throw.
LEMMA NewArrayIsNew ==
  ASSUME SizesFit, IInv, NEW type \in ArrayTypes, NEW count \in Counts, NewArray(type, count)
  PROVE  Java!New(type, count)
<1> DEFINE words == WordsFor(ArrayBytes(type, count))
           bs == ArrayInitial(type, count)
<1>1. TInv /\ top \in Nat /\ count \in Int
  <2>1. TInv /\ HeapSize \in Nat /\ top \in 1 .. HeapSize + 1
    BY MemoryAssumption DEF IInv, TInv, Typed
  <2>2. count \in Int
    BY OperandsType DEF IInv
  <2>3. QED
    BY <2>1, <2>2
<1>2. CASE /\ count < 0 /\ Reads
           /\ Event(NewInsn(type, count), 0, Throw("NegativeArraySizeException"))
  BY <1>2, FailureIsNew
<1>3. CASE count \in Nat /\ Reads /\ Event(NewInsn(type, count), 0, Throw("OutOfMemoryError"))
  <2>1. count >= 0
    BY <1>3
  <2>2. QED
    BY <1>3, <2>1, FailureIsNew
<1>4. CASE /\ count \in Nat /\ Allocates(type, words, bs)
           /\ Event(NewInsn(type, count), top, Result(<<top>>))
  <2>1. /\ Initial(type, count, bs)
        /\ VarAt(type, top, count) <= (top + words) * ALIGN
        /\ GetObjectPayload(top) + Len(bs) <= (top + words) * ALIGN
    BY <1>1, <1>4, RoomForArray
  <2> HIDE DEF words, bs
  <2>2. AllocatedIn(mem, mem', blocks, top, type, count)
    BY <1>4, <2>1, AllocatesIInv
  <2>3. QED
    BY <1>4, <2>2, AllocationIsNew
<1>5. QED
  BY <1>1, <1>2, <1>3, <1>4, NewArraySteps

\* So does new.
LEMMA newObjectIsNew ==
  ASSUME SizesFit, IInv, newObject
  PROVE  Java!New("object", NumSlots)
<1> DEFINE words == WordsFor(NumSlots * STACKABLE)
<1>1. TInv /\ top \in Nat /\ NumSlots \in Nat /\ NumSlots >= 0
  <2>1. TInv /\ HeapSize \in Nat /\ top \in 1 .. HeapSize + 1
    BY MemoryAssumption DEF IInv, TInv, Typed
  <2>2. NumSlots \in Nat
    BY MemoryAssumption
  <2>3. QED
    BY <2>1, <2>2
<1>2. CASE Reads /\ Event(NewInsn("object", NumSlots), 0, Throw("OutOfMemoryError"))
  BY <1>1, <1>2, FailureIsNew
<1>3. CASE Allocates("object", words, <<>>) /\ Event(NewInsn("object", NumSlots), top, Result(<<top>>))
  <2>1. /\ Initial("object", NumSlots, <<>>)
        /\ VarAt("object", top, NumSlots) <= (top + words) * ALIGN
        /\ GetObjectPayload(top) + Len(<<>>) <= (top + words) * ALIGN
    BY <1>1, RoomForInstance
  <2> HIDE DEF words
  <2>2. AllocatedIn(mem, mem', blocks, top, "object", NumSlots)
    BY <1>1, <1>3, <2>1, AllocatesIInv
  <2>3. QED
    BY <1>1, <1>3, <2>2, AllocationIsNew
<1>4. QED
  BY <1>1, <1>2, <1>3, newObjectSteps

\* The accesses to arrays.
LEMMA AccessIsStep ==
  ASSUME ReferencesFit, LongsFit, RegionsNotEmpty, IInv, NEW r \in Arrays \cup {0}, ArrayAccess(r)
  PROVE  Java!ArrayStep(event'.insn, event'.ref)
<1>1. CASE f_arraylength(r)
  BY <1>1, ArrayLengthIsRead
<1>2. CASE \E i \in Indexes : Load(r, i)
  BY <1>2, LoadIsRead
<1>3. CASE \E i \in Indexes : \E v \in IF r = 0 THEN {0} ELSE Operands(blocks[r].type) :
             Store(r, i, v)
  BY <1>3, StoreIsWrite
<1>4. CASE \E start \in Indexes, len \in Lengths :
             /\ r # 0 => blocks[r].type = "byte"
             /\ SetByteArrayRegion(r, start, len, Buffer)
  BY <1>4, SetRegionIsWrite
<1>5. CASE \E start \in Indexes, len \in Lengths :
             /\ r # 0 => blocks[r].type = "byte"
             /\ GetByteArrayRegion(r, start, len)
  BY <1>5, GetRegionIsRead
<1>6. QED
  BY <1>1, <1>2, <1>3, <1>4, <1>5, Zenon DEF ArrayAccess

\* The words given to a native's accessor are those of a field of one slot.
LEMMA OneWord ==
  /\ \A v \in FieldInts : <<v>> \in [1 .. 1 -> FieldInts]
  /\ \A m \in Nat : \A a \in 0 .. m - 1 : a + 1 <= m
<1>1. ASSUME NEW v \in FieldInts PROVE <<v>> \in [1 .. 1 -> FieldInts]
  OBVIOUS
<1>2. \A m \in Nat : \A a \in 0 .. m - 1 : a + 1 <= m
  OBVIOUS
<1>3. QED
  BY <1>1, <1>2

\* The accesses to fields.
LEMMA FieldAccessIsStep ==
  ASSUME IInv, NEW r \in Instances \cup {0}, FieldAccess(r)
  PROVE  Java!FieldStep(event'.insn, event'.ref)
<1>1. PICK f \in FieldEntries(NumSlots) :
         \/ f_getfield(r, f[1], f[2])
         \/ \E words \in [1 .. f[2] -> FieldInts] : f_putfield(r, f[1], words)
  BY DEF FieldAccess
<1> DEFINE a == f[1]
           n == f[2]
<1>2. a \in 0 .. NumSlots - 1 /\ n \in {1, 2} /\ a + n <= NumSlots
  BY FieldEntry, MemoryAssumption
<1>3. f_getfield(r, a, n) \/ \E words \in [1 .. n -> FieldInts] : f_putfield(r, a, words)
  BY <1>1
<1> HIDE DEF a, n
<1>4. CASE f_getfield(r, a, n)
  BY <1>2, <1>4, GetFieldIsRead
<1>5. CASE \E words \in [1 .. n -> FieldInts] : f_putfield(r, a, words)
  <2>1. PICK words \in [1 .. n -> FieldInts] : f_putfield(r, a, words)
    BY <1>5
  <2>2. QED
    BY <1>2, <2>1, PutFieldIsWrite
<1>6. QED
  BY <1>3, <1>4, <1>5

\* The accesses to static fields.
LEMMA StaticAccessIsStep ==
  ASSUME StaticAccess
  PROVE  Java!StaticStep
<1>1. PICK f \in FieldEntries(NumStatics) :
         \/ f_getstatic(f[1], f[2])
         \/ \E words \in [1 .. f[2] -> FieldInts] : f_putstatic(f[1], words)
  BY DEF StaticAccess
<1> DEFINE a == f[1]
           n == f[2]
<1>2. a \in 0 .. NumStatics - 1 /\ n \in {1, 2} /\ a + n <= NumStatics
  BY FieldEntry, MemoryAssumption
<1>3. f_getstatic(a, n) \/ \E words \in [1 .. n -> FieldInts] : f_putstatic(a, words)
  BY <1>1
<1> HIDE DEF a, n
<1>4. CASE f_getstatic(a, n)
  BY <1>2, <1>4, GetStaticIsRead
<1>5. CASE \E words \in [1 .. n -> FieldInts] : f_putstatic(a, words)
  <2>1. PICK words \in [1 .. n -> FieldInts] : f_putstatic(a, words)
    BY <1>5
  <2>2. QED
    BY <1>2, <2>1, PutStaticIsWrite
<1>6. QED
  BY <1>3, <1>4, <1>5

\* The natives' accesses to fields and static fields.
LEMMA NativeAccessIsStep ==
  ASSUME IInv, NEW r \in Instances \cup {0}, NativeAccess(r)
  PROVE  Java!FieldStep(event'.insn, event'.ref) \/ Java!StaticStep
<1>1. NumSlots \in Nat /\ NumStatics \in Nat
  BY MemoryAssumption
<1>2. ASSUME NEW a \in 0 .. NumSlots - 1, GetIntField(r, a)
      PROVE  Java!FieldStep(event'.insn, event'.ref)
  <2>1. f_getfield(r, a, 1) /\ 1 \in {1, 2} /\ a + 1 <= NumSlots
    BY <1>1, <1>2 DEF GetIntField
  <2>2. QED
    BY <2>1, GetFieldIsRead
<1>3. ASSUME NEW a \in 0 .. NumSlots - 1, NEW v \in FieldInts, SetIntField(r, a, v)
      PROVE  Java!FieldStep(event'.insn, event'.ref)
  <2> DEFINE words == <<v>>
  <2>1. f_putfield(r, a, words) /\ 1 \in {1, 2} /\ a + 1 <= NumSlots
    BY <1>1, <1>3 DEF SetIntField
  <2>2. words \in [1 .. 1 -> FieldInts]
    BY OneWord
  <2> HIDE DEF words
  <2>3. QED
    BY <2>1, <2>2, PutFieldIsWrite
<1>4. ASSUME NEW a \in 0 .. NumStatics - 1, GetStaticObjectField(a)
      PROVE  Java!StaticStep
  <2>1. f_getstatic(a, 1) /\ 1 \in {1, 2} /\ a + 1 <= NumStatics
    BY <1>1, <1>4 DEF GetStaticObjectField
  <2>2. QED
    BY <2>1, GetStaticIsRead
<1>5. ASSUME NEW a \in 0 .. NumStatics - 1, NEW v \in FieldInts, SetStaticObjectField(a, v)
      PROVE  Java!StaticStep
  <2> DEFINE words == <<v>>
  <2>1. f_putstatic(a, words) /\ 1 \in {1, 2} /\ a + 1 <= NumStatics
    BY <1>1, <1>5 DEF SetStaticObjectField
  <2>2. words \in [1 .. 1 -> FieldInts]
    BY OneWord
  <2> HIDE DEF words
  <2>3. QED
    BY <2>1, <2>2, PutStaticIsWrite
<1>6. QED
  BY <1>2, <1>3, <1>4, <1>5 DEF NativeAccess

\* Every step is a step of JavaMemory, or changes nothing it sees.
LEMMA StepIsJava ==
  ASSUME SizesFit, ReferencesFit, LongsFit, RegionsNotEmpty, IInv, [Next]_mvars
  PROVE  [Java!JNext]_<<objects, staticMemory, event>>
<1>1. CASE UNCHANGED mvars
  BY <1>1, ObjectsAre, ObjectsAfter DEF mvars
<1>2. CASE newObject
  BY <1>2, newObjectIsNew, Zenon DEF Java!JNext
<1>3. ASSUME NEW type \in ArrayTypes, NEW count \in Counts, NewArray(type, count)
      PROVE  Java!JNext
  <2>1. Java!New(type, count)
    BY <1>3, NewArrayIsNew
  <2>2. Java!ArrayTypes = ArrayTypes
    BY DEF Java!ArrayTypes, ArrayTypes
  <2>3. QED
    BY <2>1, <2>2, Zenon DEF Java!JNext
<1>4. ASSUME NEW r \in Arrays \cup {0}, ArrayAccess(r)
      PROVE  Java!JNext
  BY <1>4, AccessIsStep, Zenon DEF Java!JNext
<1>5. ASSUME NEW r \in Instances \cup {0}, FieldAccess(r)
      PROVE  Java!JNext
  BY <1>5, FieldAccessIsStep, Zenon DEF Java!JNext
<1>6. ASSUME NEW r \in Instances \cup {0}, NativeAccess(r)
      PROVE  Java!JNext
  BY <1>6, NativeAccessIsStep, Zenon DEF Java!JNext
<1>7. CASE StaticAccess
  BY <1>7, StaticAccessIsStep, Zenon DEF Java!JNext
<1>8. CASE NextInstruction
  <2>1. event # NoEvent /\ event' = NoEvent /\ Reads
    BY <1>8 DEF NextInstruction, Reads
  <2>2. Java!NextInstruction
    BY <2>1, ReadsObjects, EventIs DEF Java!NextInstruction
  <2>3. QED
    BY <2>2, Zenon DEF Java!JNext
<1>9. QED
  BY <1>1, <1>2, <1>3, <1>4, <1>5, <1>6, <1>7, <1>8, Zenon DEF Next

\* Bytes implement objects: for any sizes of words, headers and heap, with sizes
\* that a u2 and references that an int can hold, what the instructions and native
\* functions of jarray.c, objectaccess.c and instruction1.c do to the bytes is what
\* JavaMemory does to variables that are separate from one another, if longs are
\* within an int and no byte region is empty.
THEOREM MemoryIsJava ==
  ASSUME SizesFit, ReferencesFit, LongsFit, RegionsNotEmpty
  PROVE  Spec => ImplementsJavaMemory
<1>1. Init => IInv
  BY InitIInv
<1>2. IInv /\ [Next]_mvars => IInv'
  BY NextIInv
<1>3. IInv /\ [Next]_mvars => [Java!JNext]_<<objects, staticMemory, event>>
  BY StepIsJava
<1>4. QED
  BY <1>1, <1>2, <1>3, PTL DEF Spec, ImplementsJavaMemory, Java!jvars
=============================================================================
