---------------------------- MODULE StagesProofs ----------------------------
(***************************************************************************)
(* What is proved of the stages of fuzz_one, for bytes of any width, any   *)
(* entry, dictionary and table of values, and any limits of havoc: that    *)
(* flipping twice restores the buffer, and so do the other ways a stage    *)
(* takes its changes back; that a stage runs what it announced; that the   *)
(* effector map covers every byte whose flip was felt; that a change of a  *)
(* byte that is left out as a product of an earlier stage was one; and     *)
(* that havoc stays within its buffer and ends.                            *)
(***************************************************************************)
EXTENDS Stages, FiniteSetTheorems, FunctionTheorems, SequenceTheorems, TLAPS

-----------------------------------------------------------------------------
(* Numbers.                                                                *)

(* The least-number principle, in the form every induction here takes: a   *)
(* set of counterexamples that is not empty has a least one.               *)
LEMMA LeastNat ==
  ASSUME NEW T, T \subseteq Nat, T # {}
  PROVE  \E m \in T : \A k \in T : m <= k
<1>1. IsWellFoundedOn({p \in Nat \X Nat : p[1] < p[2]}, Nat)
  BY NatLessThanWellFounded DEF OpToRel
<1>2. PICK m \in T : \A k \in T : ~ (<<k, m>> \in {p \in Nat \X Nat : p[1] < p[2]})
  BY <1>1, WFMin
<1>3. ASSUME NEW k \in T PROVE m <= k
  <2>1. m \in Nat /\ k \in Nat /\ <<k, m>> \in Nat \X Nat
    OBVIOUS
  <2>2. ~ (k < m)
    BY <1>2, <2>1
  <2>. QED  BY <2>1, <2>2
<1>. QED  BY <1>3

(* FirstOf is the least of a set of numbers.                               *)
LEMMA FirstOfLeast ==
  ASSUME NEW T, T \subseteq Nat, T # {}
  PROVE  FirstOf(T) \in T /\ \A k \in T : FirstOf(T) <= k
<1>1. \E m \in T : \A k \in T : m <= k
  BY LeastNat
<1>. QED  BY <1>1 DEF FirstOf

(* The provers take a power for a number, and no more: that it is not zero *)
(* and doubles from one exponent to the next is read off the sizes of sets *)
(* of subsets.                                                             *)
LEMMA PowerSet ==
  ASSUME NEW n \in Nat
  PROVE  IsFiniteSet(SUBSET (1 .. n)) /\ Cardinality(SUBSET (1 .. n)) = 2^n
<1>1. IsFiniteSet(1 .. n) /\ Cardinality(1 .. n) = n
  <2>1. 1 \in Int /\ n \in Int /\ n >= 1 - 1
    OBVIOUS
  <2>. QED  BY <2>1, FS_Interval
<1>. QED  BY <1>1, FS_SUBSET, Zenon

LEMMA PowerPositive == ASSUME NEW n \in Nat PROVE 2^n \in Nat \ {0}
<1>. DEFINE S == SUBSET (1 .. n)
<1>1. IsFiniteSet(S) /\ Cardinality(S) = 2^n /\ S # {}
  BY PowerSet
<1>. HIDE DEF S
<1>. QED  BY <1>1, FS_CardinalityType, FS_EmptySet

LEMMA PowerDoubles == ASSUME NEW n \in Nat PROVE 2^(n + 1) = 2 * 2^n
<1>. DEFINE S == SUBSET (1 .. n)
            T == SUBSET (1 .. n + 1)
            U == T \ S
            add == [s \in S |-> s \cup {n + 1}]
<1>1. IsFiniteSet(S) /\ Cardinality(S) = 2^n
  BY PowerSet
<1>2. IsFiniteSet(T) /\ Cardinality(T) = 2^(n + 1)
  <2>1. n + 1 \in Nat
    OBVIOUS
  <2>. QED  BY <2>1, PowerSet
<1>3. add \in Bijection(S, U)
  <2>1. \A s \in S : n + 1 \notin s
    OBVIOUS
  <2>2. add \in [S -> U]
    BY <2>1
  <2>3. \A s, t \in S : add[s] = add[t] => s = t
    BY <2>1
  <2>4. \A u \in U : \E s \in S : add[s] = u
    <3>1. SUFFICES ASSUME NEW u \in U PROVE \E s \in S : add[s] = u
      OBVIOUS
    <3>2. n + 1 \in u
      OBVIOUS
    <3>3. u \ {n + 1} \in S /\ (u \ {n + 1}) \cup {n + 1} = u
      BY <3>2
    <3>. QED  BY <3>3
  <2>. HIDE DEF S, U, add
  <2>5. add \in Injection(S, U) /\ add \in Surjection(S, U)
    BY <2>2, <2>3, <2>4, Fun_IsInj, Fun_IsSurj
  <2>. QED  BY <2>5 DEF Bijection
<1>4. S \cap U = {} /\ S \cup U = T
  OBVIOUS
<1>. HIDE DEF S, T, U, add
<1>5. IsFiniteSet(U) /\ Cardinality(U) = Cardinality(S)
  BY <1>1, <1>3, FS_Bijection DEF ExistsBijection
<1>6. Cardinality(T) = Cardinality(S) + Cardinality(U) - Cardinality(S \cap U)
  BY <1>1, <1>4, <1>5, FS_Union
<1>7. Cardinality(S \cap U) = 0
  BY <1>4, FS_EmptySet
<1>8. Cardinality(S) \in Nat
  BY <1>1, FS_CardinalityType
<1>9. Cardinality(T) = 2 * Cardinality(S)
  BY <1>5, <1>6, <1>7, <1>8
<1>. QED  BY <1>1, <1>2, <1>9, Zenon

-----------------------------------------------------------------------------
(* Products, quotients and remainders, where the provers need to be told.  *)
LEMMA Products ==
  ASSUME NEW a \in Nat, NEW b \in Nat
  PROVE  a * b \in Nat /\ (a > 0 => b <= a * b) /\ (b > 0 => a <= a * b) /\ a * b = b * a
OBVIOUS

LEMMA ProductMono ==
  ASSUME NEW a \in Nat, NEW b \in Nat, NEW c \in Nat, a <= b
  PROVE  a * c <= b * c
OBVIOUS

LEMMA Distributes ==
  ASSUME NEW a \in Int, NEW b \in Int, NEW c \in Int
  PROVE  (a + b) * c = a * c + b * c /\ (a - b) * c = a * c - b * c
OBVIOUS

LEMMA Division ==
  ASSUME NEW a \in Int, NEW m \in Int, m > 0
  PROVE  a \div m \in Int /\ a % m \in 0 .. m - 1 /\ a = m * (a \div m) + (a % m)
<1>1. a = m * (a \div m) + (a % m)
  OBVIOUS
<1>2. a % m \in 0 .. m - 1 /\ a \div m \in Int
  OBVIOUS
<1>. QED  BY <1>1, <1>2

LEMMA DivisionUnique ==
  ASSUME NEW q \in Nat, NEW m \in Nat \ {0}, NEW r \in 0 .. m - 1
  PROVE  (m * q + r) \div m = q /\ (m * q + r) % m = r
OBVIOUS

LEMMA DivideMono ==
  ASSUME NEW a \in Nat, NEW b \in Nat, NEW m \in Nat \ {0}, a <= b
  PROVE  a \div m <= b \div m /\ a \div m \in Nat
OBVIOUS

(* A number below w * n is in one of n parts of w.                         *)
LEMMA DivideBelow ==
  ASSUME NEW a \in Nat, NEW w \in Nat \ {0}, NEW n \in Nat, a < w * n
  PROVE  a \div w < n
<1>1. a = w * (a \div w) + (a % w) /\ a % w >= 0 /\ a \div w \in Int
  BY Division
<1>2. SUFFICES ASSUME a \div w >= n PROVE FALSE
  BY <1>1
<1>3. w * (a \div w) >= w * n
  BY <1>1, <1>2, ProductMono, Products
<1>. QED  BY <1>1, <1>3

(* The next binary digit of a number.                                      *)
LEMMA Digit ==
  ASSUME NEW a \in Nat, NEW m \in Nat \ {0}
  PROVE  /\ (a \div m) % 2 \in {0, 1}
         /\ a % (2 * m) = (a % m) + ((a \div m) % 2) * m
<1>. DEFINE q == a \div m
            r == a % m
            p == q \div 2
            b == q % 2
<1>1. q \in Nat /\ r \in 0 .. m - 1 /\ a = m * q + r
  BY Division, DivideMono
<1>2. p \in Nat /\ b \in {0, 1} /\ q = 2 * p + b
  <2>. HIDE DEF q
  <2>. QED  BY <1>1
<1>. HIDE DEF q, r, p, b
<1>3. m * q = m * (2 * p) + m * b
  BY <1>1, <1>2
<1>4. m * (2 * p) = (2 * m) * p
  BY <1>1, <1>2
<1>5. m * b = b * m
  BY <1>2
<1>6. a = (2 * m) * p + (b * m + r)
  <2>1. m * q \in Int /\ m * (2 * p) \in Int /\ m * b \in Int /\ r \in Int /\ a = m * q + r
    BY <1>1, <1>2
  <2>. QED  BY <2>1, <1>3, <1>4, <1>5
<1>7. b * m + r \in 0 .. 2 * m - 1
  BY <1>1, <1>2
<1>8. a % (2 * m) = b * m + r
  <2>1. 2 * m \in Nat \ {0}
    OBVIOUS
  <2>. DEFINE mm == 2 * m
              rr == b * m + r
  <2>2. (mm * p + rr) % mm = rr
    <3>. HIDE DEF mm, rr
    <3>1. mm \in Nat \ {0} /\ rr \in 0 .. mm - 1
      BY <1>7, <2>1 DEF mm, rr
    <3>. QED  BY <1>2, <3>1, DivisionUnique
  <2>. QED  BY <1>6, <2>2, Zenon
<1>. QED  BY <1>1, <1>2, <1>8 DEF q, r, b

LEMMA PowerDigit ==
  ASSUME NEW a \in Nat, NEW i \in Nat
  PROVE  Bit(a, i) \in {0, 1} /\ a % 2^(i + 1) = (a % 2^i) + Bit(a, i) * 2^i
<1>1. 2^i \in Nat \ {0} /\ 2^(i + 1) = 2 * 2^i
  BY PowerPositive, PowerDoubles
<1>. QED  BY <1>1, Digit DEF Bit

(* The two parts of a number below 2m determine each other.                *)
LEMMA DigitUnique ==
  ASSUME NEW m \in Nat \ {0}, NEW r \in 0 .. m - 1, NEW s \in 0 .. m - 1,
         NEW b \in {0, 1}, NEW c \in {0, 1}, r + b * m = s + c * m
  PROVE  r = s /\ b = c
OBVIOUS

-----------------------------------------------------------------------------
(* Sums: x[0] = 0, x[i] = x[i - 1] + e[i].                                 *)
SumsOf(n, e, x) == x = [i \in 0 .. n |-> IF i = 0 THEN 0 ELSE x[i - 1] + e[i]]

SumsUntil(n, e, x) ==
  /\ x \in [0 .. n -> Nat]
  /\ \A i \in 0 .. n : x[i] = IF i = 0 THEN 0 ELSE x[i - 1] + e[i]

LEMMA SumsExist ==
  ASSUME NEW n \in Nat, NEW e \in [1 .. n -> Nat]
  PROVE  \E x : SumsOf(n, e, x)
<1>. DEFINE Fails == {k \in 0 .. n : ~ \E x : SumsUntil(k, e, x)}
<1>1. Fails = {}
  <2>1. SUFFICES ASSUME Fails # {} PROVE FALSE
    OBVIOUS
  <2>2. PICK k \in Fails : \A j \in Fails : k <= j
    <3>1. Fails \subseteq Nat
      OBVIOUS
    <3>. HIDE DEF Fails
    <3>. QED  BY <2>1, <3>1, LeastNat
  <2>3. CASE k = 0
    <3>1. SumsUntil(k, e, [i \in 0 .. k |-> 0])
      BY <2>3 DEF SumsUntil
    <3>. QED  BY <2>2, <3>1
  <2>4. CASE k # 0
    <3>1. k \in Nat /\ k - 1 \in 0 .. n /\ k \in 1 .. n
      BY <2>2, <2>4
    <3>2. PICK y : SumsUntil(k - 1, e, y)
      BY <2>2, <3>1
    <3>. DEFINE z == [i \in 0 .. k |-> IF i = k THEN y[k - 1] + e[k] ELSE y[i]]
    <3>3. \A i \in 0 .. k : i # k => i \in 0 .. k - 1 /\ (i # 0 => i - 1 \in 0 .. k - 1 /\ i - 1 # k)
      BY <3>1
    <3>4. y[k - 1] + e[k] \in Nat
      BY <3>1, <3>2 DEF SumsUntil
    <3>5. z \in [0 .. k -> Nat]
      BY <3>2, <3>3, <3>4 DEF SumsUntil
    <3>6. \A i \in 0 .. k : z[i] = IF i = 0 THEN 0 ELSE z[i - 1] + e[i]
      <4>1. TAKE i \in 0 .. k
      <4>2. CASE i = k
        <5>1. k - 1 \in 0 .. k /\ k - 1 # k
          BY <3>1
        <5>. QED  BY <4>2, <2>4, <5>1
      <4>3. CASE i # k
        BY <4>3, <3>2, <3>3 DEF SumsUntil
      <4>. QED  BY <4>2, <4>3
    <3>7. SumsUntil(k, e, z)
      BY <3>5, <3>6 DEF SumsUntil
    <3>. QED  BY <2>2, <3>7
  <2>. QED  BY <2>3, <2>4
<1>2. PICK x : SumsUntil(n, e, x)
  <2>1. n \in 0 .. n
    OBVIOUS
  <2>. QED  BY <1>1, <2>1, Zenon
<1>. QED  BY <1>2 DEF SumsOf, SumsUntil

LEMMA SumsValues ==
  ASSUME NEW n \in Nat, NEW e \in [1 .. n -> Nat], NEW x, SumsOf(n, e, x)
  PROVE  /\ x \in [0 .. n -> Nat] /\ x[0] = 0
         /\ \A i \in 1 .. n : i - 1 \in 0 .. n /\ x[i] = x[i - 1] + e[i]
<1>1. DOMAIN x = 0 .. n /\ \A i \in 0 .. n : x[i] = IF i = 0 THEN 0 ELSE x[i - 1] + e[i]
  BY DEF SumsOf
<1>. DEFINE Bad == {i \in 0 .. n : x[i] \notin Nat}
<1>2. Bad = {}
  <2>1. SUFFICES ASSUME Bad # {} PROVE FALSE
    OBVIOUS
  <2>2. PICK i \in Bad : \A j \in Bad : i <= j
    <3>1. Bad \subseteq Nat
      OBVIOUS
    <3>. HIDE DEF Bad
    <3>. QED  BY <2>1, <3>1, LeastNat
  <2>3. i # 0
    BY <1>1, <2>2
  <2>4. i - 1 \in 0 .. n /\ i \in 1 .. n
    BY <2>2, <2>3
  <2>5. x[i - 1] \in Nat
    BY <2>2, <2>4
  <2>6. x[i] = x[i - 1] + e[i]
    BY <1>1, <2>2, <2>3
  <2>. QED  BY <2>2, <2>4, <2>5, <2>6
<1>3. x = [i \in 0 .. n |-> x[i]]
  BY DEF SumsOf
<1>4. x \in [0 .. n -> Nat]
  BY <1>2, <1>3
<1>5. x[0] = 0
  BY <1>1
<1>6. \A i \in 1 .. n : i - 1 \in 0 .. n /\ x[i] = x[i - 1] + e[i]
  BY <1>1
<1>. QED  BY <1>4, <1>5, <1>6

-----------------------------------------------------------------------------
(* Bytes.                                                                  *)
XorDigits(a, b) == [i \in 1 .. W |-> ((Bit(a, i - 1) + Bit(b, i - 1)) % 2) * 2^(i - 1)]

LEMMA BitType == ASSUME NEW a \in Nat, NEW i \in Nat PROVE Bit(a, i) \in {0, 1}
  BY PowerDigit

LEMMA XorDigitsType ==
  ASSUME NEW a \in Nat, NEW b \in Nat PROVE XorDigits(a, b) \in [1 .. W -> Nat]
<1>1. ASSUME NEW i \in 1 .. W
      PROVE  ((Bit(a, i - 1) + Bit(b, i - 1)) % 2) * 2^(i - 1) \in Nat
  <2>1. i - 1 \in Nat
    OBVIOUS
  <2>2. 2^(i - 1) \in Nat \ {0} /\ Bit(a, i - 1) \in {0, 1} /\ Bit(b, i - 1) \in {0, 1}
    BY <2>1, PowerPositive, BitType
  <2>. QED  BY <2>2
<1>. QED  BY <1>1 DEF XorDigits

(* XorByte is the sum of the digits.                                       *)
LEMMA XorByteIs ==
  ASSUME NEW a \in Nat, NEW b \in Nat
  PROVE  XorByte(a, b) = (CHOOSE x : SumsOf(W, XorDigits(a, b), x))[W]
<1>. DEFINE F(x) == [i \in 0 .. W |-> IF i = 0 THEN 0
              ELSE x[i - 1] + ((Bit(a, i - 1) + Bit(b, i - 1)) % 2) * 2^(i - 1)]
            G(x) == [i \in 0 .. W |-> IF i = 0 THEN 0 ELSE x[i - 1] + XorDigits(a, b)[i]]
<1>1. \A x : F(x) = G(x)
  <2>1. \A i \in 0 .. W : i # 0 => i \in 1 .. W
    BY StagesAssumption
  <2>. QED  BY <2>1 DEF XorDigits
<1>2. XorByte(a, b) = (CHOOSE x : x = F(x))[W]
  BY Zenon DEF XorByte
<1>3. \A x : (x = F(x)) <=> SumsOf(W, XorDigits(a, b), x)
  BY <1>1 DEF SumsOf
<1>. HIDE DEF F
<1>4. (CHOOSE x : x = F(x)) = (CHOOSE x : SumsOf(W, XorDigits(a, b), x))
  BY <1>3
<1>. QED  BY <1>2, <1>4

(* The sums of digits stay below the powers.                               *)
LEMMA XorSums ==
  ASSUME NEW a \in Nat, NEW b \in Nat, NEW x, SumsOf(W, XorDigits(a, b), x)
  PROVE  /\ \A i \in 0 .. W : x[i] \in 0 .. 2^i - 1
         /\ \A i \in 0 .. W - 1 : x[i + 1] = x[i] + ((Bit(a, i) + Bit(b, i)) % 2) * 2^i
<1>1. W \in Nat /\ x[0] = 0
      /\ \A i \in 1 .. W : i - 1 \in 0 .. W /\ x[i] = x[i - 1] + XorDigits(a, b)[i]
  <2>1. W \in Nat /\ XorDigits(a, b) \in [1 .. W -> Nat]
    BY StagesAssumption, XorDigitsType
  <2>. QED  BY ZenonT(60), <2>1, SumsValues
<1>2. ASSUME NEW i \in 0 .. W - 1 PROVE x[i + 1] = x[i] + ((Bit(a, i) + Bit(b, i)) % 2) * 2^i
  <2>1. i + 1 \in 1 .. W /\ (i + 1) - 1 = i
    BY <1>1
  <2>. QED  BY <1>1, <2>1 DEF XorDigits
<1>. DEFINE Bad == {i \in 0 .. W : x[i] \notin 0 .. 2^i - 1}
<1>3. Bad = {}
  <2>1. SUFFICES ASSUME Bad # {} PROVE FALSE
    OBVIOUS
  <2>2. PICK i \in Bad : \A j \in Bad : i <= j
    <3>1. Bad \subseteq Nat
      OBVIOUS
    <3>. HIDE DEF Bad
    <3>. QED  BY <2>1, <3>1, LeastNat
  <2>3. i # 0
    <3>1. x[0] \in 0 .. 2^0 - 1
      BY <1>1
    <3>. QED  BY <2>2, <3>1
  <2>. DEFINE j == i - 1
              m == 2^j
  <2>4. j \in 0 .. W - 1 /\ j \in Nat /\ i = j + 1 /\ j \in 0 .. W /\ j < i
    BY <1>1, <2>2, <2>3
  <2>5. x[j] \in 0 .. m - 1
    BY <2>2, <2>4
  <2>6. m \in Nat \ {0} /\ 2^i = 2 * m
    BY <2>4, PowerPositive, PowerDoubles
  <2>. DEFINE d == (Bit(a, j) + Bit(b, j)) % 2
  <2>7. d \in {0, 1}
    BY <2>4, BitType
  <2>8. x[i] = x[j] + d * m
    BY <1>2, <2>4
  <2>9. x[i] \in 0 .. 2 * m - 1
    <3>. HIDE DEF m, d
    <3>1. d * m \in Nat /\ d * m <= m
      BY <2>6, <2>7
    <3>. QED  BY <2>5, <2>6, <2>8, <3>1
  <2>. QED  BY <2>2, <2>6, <2>9
<1>. QED  BY <1>2, <1>3

(* The digits of the sum are those that were added.                        *)
LEMMA XorBits ==
  ASSUME NEW a \in Nat, NEW b \in Nat
  PROVE  /\ XorByte(a, b) \in Byte
         /\ \A i \in 0 .. W - 1 : Bit(XorByte(a, b), i) = (Bit(a, i) + Bit(b, i)) % 2
<1>. DEFINE x == CHOOSE x : SumsOf(W, XorDigits(a, b), x)
            c == XorByte(a, b)
<1>1. SumsOf(W, XorDigits(a, b), x) /\ W \in Nat
  BY StagesAssumption, XorDigitsType, SumsExist
<1>2. c = x[W]
  BY XorByteIs
<1>. HIDE DEF x, c
<1>3. \A i \in 0 .. W : x[i] \in 0 .. 2^i - 1
  BY <1>1, XorSums
<1>4. \A i \in 0 .. W - 1 : x[i + 1] = x[i] + ((Bit(a, i) + Bit(b, i)) % 2) * 2^i
  BY <1>1, XorSums
<1>5. c \in Nat /\ c \in Byte
  BY <1>1, <1>2, <1>3, PowerPositive DEF Byte
<1>6. ASSUME NEW i \in 0 .. W - 1, c % 2^(i + 1) = x[i + 1]
      PROVE  c % 2^i = x[i] /\ Bit(c, i) = (Bit(a, i) + Bit(b, i)) % 2
  <2>. DEFINE m == 2^i
              d == (Bit(a, i) + Bit(b, i)) % 2
              e == Bit(c, i)
              r == c % m
  <2>1. i \in Nat /\ m \in Nat \ {0} /\ d \in {0, 1} /\ e \in {0, 1}
    BY <1>5, PowerPositive, BitType
  <2>2. r \in 0 .. m - 1 /\ x[i] \in 0 .. m - 1
    <3>1. i \in 0 .. W
      BY <1>1
    <3>2. x[i] \in 0 .. m - 1
      BY <1>3, <3>1
    <3>3. r \in 0 .. m - 1
      <4>. HIDE DEF m
      <4>. QED  BY <1>5, <2>1
    <3>. QED  BY <3>2, <3>3
  <2>3. r + e * m = x[i] + d * m
    BY <1>4, <1>5, <1>6, <2>1, PowerDigit
  <2>4. r = x[i] /\ e = d
    <3>. DEFINE s == x[i]
    <3>. HIDE DEF m, d, e, r, s
    <3>1. m \in Nat \ {0} /\ r \in 0 .. m - 1 /\ s \in 0 .. m - 1 /\ e \in {0, 1} /\ d \in {0, 1}
          /\ r + e * m = s + d * m
      BY <2>1, <2>2, <2>3 DEF s
    <3>2. r = s /\ e = d
      BY <3>1, DigitUnique
    <3>. QED  BY <3>2 DEF s
  <2>. QED  BY <2>4
<1>. DEFINE Bad == {j \in 0 .. W : c % 2^(W - j) # x[W - j]}
<1>7. Bad = {}
  <2>1. SUFFICES ASSUME Bad # {} PROVE FALSE
    OBVIOUS
  <2>2. PICK j \in Bad : \A k \in Bad : j <= k
    <3>1. Bad \subseteq Nat
      OBVIOUS
    <3>. HIDE DEF Bad
    <3>. QED  BY <2>1, <3>1, LeastNat
  <2>3. j # 0
    <3>1. c % 2^W = c
      BY <1>1, <1>2, <1>3, PowerPositive
    <3>2. W - 0 = W
      BY <1>1
    <3>. QED  BY <1>2, <2>2, <3>1, <3>2
  <2>4. j - 1 \in 0 .. W /\ j - 1 < j /\ W - (j - 1) = (W - j) + 1 /\ W - j \in 0 .. W - 1
    BY <1>1, <2>2, <2>3
  <2>5. c % 2^((W - j) + 1) = x[(W - j) + 1]
    BY <2>2, <2>4
  <2>6. c % 2^(W - j) = x[W - j]
    BY <1>6, <2>4, <2>5
  <2>. QED  BY <2>2, <2>6
<1>8. ASSUME NEW i \in 0 .. W - 1 PROVE c % 2^(i + 1) = x[i + 1]
  <2>1. W - (i + 1) \in 0 .. W /\ W - (W - (i + 1)) = i + 1
    BY <1>1
  <2>. QED  BY <1>7, <2>1
<1>9. \A i \in 0 .. W - 1 : Bit(c, i) = (Bit(a, i) + Bit(b, i)) % 2
  BY <1>6, <1>8
<1>. QED  BY <1>5, <1>9 DEF c

(* Flipping the same bits of a byte again restores it.                     *)
LEMMA XorTwice ==
  ASSUME NEW a \in Byte, NEW b \in Nat
  PROVE  XorByte(XorByte(a, b), b) = a
<1>. DEFINE c == XorByte(a, b)
            y == CHOOSE y : SumsOf(W, XorDigits(c, b), y)
<1>1. W \in Nat /\ 2^W \in Nat \ {0}
  BY StagesAssumption, PowerPositive
<1>2. a \in Nat /\ a < 2^W
  BY <1>1 DEF Byte
<1>3. c \in Byte /\ \A i \in 0 .. W - 1 : Bit(c, i) = (Bit(a, i) + Bit(b, i)) % 2
  BY <1>2, XorBits
<1>. HIDE DEF c
<1>4. c \in Nat
  BY <1>1, <1>3 DEF Byte
<1>5. SumsOf(W, XorDigits(c, b), y) /\ XorByte(c, b) = y[W]
  BY <1>1, <1>4, XorDigitsType, SumsExist, XorByteIs
<1>. HIDE DEF y
<1>6. \A i \in 0 .. W - 1 : y[i + 1] = y[i] + ((Bit(c, i) + Bit(b, i)) % 2) * 2^i
  BY <1>4, <1>5, XorSums
<1>7. y[0] = 0
  BY <1>1, <1>4, <1>5, XorDigitsType, SumsValues
<1>8. ASSUME NEW i \in 0 .. W - 1 PROVE (Bit(c, i) + Bit(b, i)) % 2 = Bit(a, i)
  <2>1. i \in Nat
    BY <1>1
  <2>. DEFINE p == Bit(a, i)
              q == Bit(b, i)
  <2>2. p \in {0, 1} /\ q \in {0, 1}
    BY <1>2, <2>1, BitType
  <2>3. Bit(c, i) = (p + q) % 2
    BY <1>3
  <2>4. (((p + q) % 2) + q) % 2 = p
    <3>. HIDE DEF p, q
    <3>. QED  BY <2>2
  <2>. QED  BY <2>3, <2>4
<1>. DEFINE Bad == {i \in 0 .. W : y[i] # a % 2^i}
<1>9. Bad = {}
  <2>1. SUFFICES ASSUME Bad # {} PROVE FALSE
    OBVIOUS
  <2>2. PICK i \in Bad : \A j \in Bad : i <= j
    <3>1. Bad \subseteq Nat
      OBVIOUS
    <3>. HIDE DEF Bad
    <3>. QED  BY <2>1, <3>1, LeastNat
  <2>3. i # 0
    <3>1. a % 2^0 = 0
      BY <1>2
    <3>. QED  BY <1>7, <2>2, <3>1
  <2>4. i - 1 \in 0 .. W - 1 /\ i - 1 \in Nat /\ (i - 1) + 1 = i /\ i - 1 \in 0 .. W /\ i - 1 < i
    BY <1>1, <2>2, <2>3
  <2>5. y[i - 1] = a % 2^(i - 1)
    BY <2>2, <2>4
  <2>6. y[i] = y[i - 1] + Bit(a, i - 1) * 2^(i - 1)
    BY <1>6, <1>8, <2>4
  <2>7. a % 2^i = (a % 2^(i - 1)) + Bit(a, i - 1) * 2^(i - 1)
    BY <1>2, <2>4, PowerDigit
  <2>. QED  BY <2>2, <2>5, <2>6, <2>7
<1>10. y[W] = a % 2^W
  BY <1>1, <1>9
<1>11. a % 2^W = a
  BY <1>1, <1>2
<1>. QED  BY <1>5, <1>10, <1>11 DEF c

LEMMA ByteNat == Byte \subseteq Nat /\ 2^W \in Nat \ {0} /\ W \in Nat \ {0}
  BY StagesAssumption, PowerPositive DEF Byte

(* A function on 1 .. n is a sequence.                                     *)
LEMMA IsSeq ==
  ASSUME NEW n \in Nat, NEW S, NEW f \in [1 .. n -> S]
  PROVE  f \in Seq(S) /\ Len(f) = n
BY SeqDef

LEMMA SeqFacts ==
  ASSUME NEW S, NEW s \in Seq(S)
  PROVE  /\ Len(s) \in Nat /\ DOMAIN s = 1 .. Len(s) /\ s \in [1 .. Len(s) -> S]
         /\ \A i \in 1 .. Len(s) : s[i] \in S
         /\ (s # <<>> <=> Len(s) > 0)
<1>1. Len(s) \in Nat /\ DOMAIN s = 1 .. Len(s) /\ s \in [1 .. Len(s) -> S]
  BY LenProperties
<1>2. \A i \in 1 .. Len(s) : s[i] \in S
  BY <1>1
<1>3. s # <<>> <=> Len(s) > 0
  BY <1>1, EmptySeq
<1>. QED  BY <1>1, <1>2, <1>3

LEMMA SwappedType ==
  ASSUME NEW S, NEW t \in Seq(S)
  PROVE  Swapped(t) \in Seq(S) /\ Len(Swapped(t)) = Len(t)
<1>1. Swapped(t) \in [1 .. Len(t) -> S]
  <2>1. DOMAIN t = 1 .. Len(t) /\ Len(t) \in Nat /\ \A i \in 1 .. Len(t) : t[i] \in S
    BY SeqFacts
  <2>2. \A i \in 1 .. Len(t) : Len(t) + 1 - i \in 1 .. Len(t)
    BY <2>1
  <2>. QED  BY <2>1, <2>2 DEF Swapped
<1>. QED  BY <1>1, IsSeq, LenProperties

(* The number of a word.                                                   *)
ValueParts(b) == [i \in 1 .. Len(b) |-> b[i] * 2^(W * (i - 1))]

LEMMA ValueIs ==
  ASSUME NEW b \in Seq(Byte)
  PROVE  /\ Len(b) \in Nat /\ ValueParts(b) \in [1 .. Len(b) -> Nat]
         /\ Value(b) = (CHOOSE v : SumsOf(Len(b), ValueParts(b), v))[Len(b)]
<1>. DEFINE n == Len(b)
            F(v) == [i \in 0 .. n |-> IF i = 0 THEN 0 ELSE v[i - 1] + b[i] * 2^(W * (i - 1))]
            G(v) == [i \in 0 .. n |-> IF i = 0 THEN 0 ELSE v[i - 1] + ValueParts(b)[i]]
<1>1. n \in Nat /\ \A i \in 1 .. n : b[i] \in Nat
  BY SeqFacts, ByteNat
<1>2. ASSUME NEW i \in 1 .. n PROVE b[i] * 2^(W * (i - 1)) \in Nat
  <2>1. W * (i - 1) \in Nat
    <3>1. i - 1 \in Nat /\ W \in Nat
      BY <1>1, ByteNat
    <3>. QED  BY <3>1, Products
  <2>2. 2^(W * (i - 1)) \in Nat /\ b[i] \in Nat
    BY <1>1, <2>1, PowerPositive
  <2>. QED  BY <2>2, Products
<1>3. ValueParts(b) \in [1 .. n -> Nat]
  BY <1>2 DEF ValueParts
<1>4. \A u : F(u) = G(u)
  <2>1. \A i \in 0 .. n : i # 0 => i \in 1 .. n
    BY <1>1
  <2>. QED  BY <2>1 DEF ValueParts
<1>5. Value(b) = (CHOOSE u : u = F(u))[n]
  BY Zenon DEF Value
<1>6. \A u : (u = F(u)) <=> SumsOf(n, ValueParts(b), u)
  BY <1>4 DEF SumsOf
<1>. HIDE DEF F
<1>7. (CHOOSE u : u = F(u)) = (CHOOSE u : SumsOf(n, ValueParts(b), u))
  BY <1>6
<1>. QED  BY <1>1, <1>3, <1>5, <1>7

LEMMA ValueType == ASSUME NEW b \in Seq(Byte) PROVE Value(b) \in Nat
<1>. DEFINE n == Len(b)
            v == CHOOSE v : SumsOf(n, ValueParts(b), v)
<1>1. n \in Nat /\ ValueParts(b) \in [1 .. n -> Nat] /\ Value(b) = v[n]
  BY ValueIs
<1>2. SumsOf(n, ValueParts(b), v)
  BY <1>1, SumsExist
<1>. HIDE DEF v, n
<1>3. v \in [0 .. n -> Nat]
  BY <1>1, <1>2, SumsValues
<1>4. v[n] \in Nat
  BY <1>1, <1>3
<1>. QED  BY <1>1, <1>4

LEMMA WordType ==
  ASSUME NEW v \in Nat, NEW n \in Nat
  PROVE  Word(v, n) \in Seq(Byte) /\ Len(Word(v, n)) = n
<1>1. ASSUME NEW i \in 1 .. n PROVE (v \div 2^(W * (i - 1))) % 2^W \in Byte
  <2>1. W * (i - 1) \in Nat
    <3>1. i - 1 \in Nat /\ W \in Nat
      BY ByteNat
    <3>. QED  BY <3>1, Products
  <2>. DEFINE m == 2^(W * (i - 1))
              k == 2^W
  <2>2. m \in Nat \ {0} /\ k \in Nat \ {0}
    BY <2>1, PowerPositive, ByteNat
  <2>3. (v \div m) % k \in 0 .. k - 1
    <3>. HIDE DEF m, k
    <3>1. v \div m \in Int
      BY <2>2
    <3>. QED  BY <2>2, <3>1
  <2>. QED  BY <2>3 DEF Byte
<1>2. Word(v, n) \in [1 .. n -> Byte]
  BY <1>1 DEF Word
<1>. QED  BY <1>2, IsSeq

(* Adding to a word leaves a word of as many bytes.                        *)
LEMMA AddType ==
  ASSUME NEW b \in Seq(Byte), NEW k \in Int
  PROVE  /\ Add(b, k) \in Seq(Byte) /\ Len(Add(b, k)) = Len(b)
         /\ AddSwapped(b, k) \in Seq(Byte) /\ Len(AddSwapped(b, k)) = Len(b)
<1>1. ASSUME NEW c \in Seq(Byte) PROVE Add(c, k) \in Seq(Byte) /\ Len(Add(c, k)) = Len(c)
  <2>. DEFINE m == 2^(W * Len(c))
              a == Value(c) + k
  <2>1. Len(c) \in Nat /\ Value(c) \in Nat
    BY SeqFacts, ValueType
  <2>2. W * Len(c) \in Nat
    BY <2>1, ByteNat, Products
  <2>3. m \in Nat \ {0} /\ a \in Int
    BY <2>1, <2>2, PowerPositive
  <2>4. a % m \in Nat
    <3>. HIDE DEF m, a
    <3>. QED  BY <2>3
  <2>. QED  BY <2>1, <2>4, WordType DEF Add
<1>2. Swapped(b) \in Seq(Byte) /\ Len(Swapped(b)) = Len(b)
  BY SwappedType
<1>3. Add(Swapped(b), k) \in Seq(Byte) /\ Len(Add(Swapped(b), k)) = Len(b)
  BY <1>1, <1>2
<1>. QED  BY <1>1, <1>3, SwappedType DEF AddSwapped

(* The bits that a flip takes in byte k.                                   *)
MaskParts(i, n, k) ==
  [m \in 1 .. n |-> IF (i + m - 1) \div W = k - 1 THEN 2^(W - 1 - ((i + m - 1) % W)) ELSE 0]
Mask(i, n, k) == (CHOOSE x : SumsOf(n, MaskParts(i, n, k), x))[n]

LEMMA MaskType ==
  ASSUME NEW i \in Nat, NEW n \in Nat, NEW k
  PROVE  MaskParts(i, n, k) \in [1 .. n -> Nat] /\ Mask(i, n, k) \in Nat
<1>1. ASSUME NEW m \in 1 .. n PROVE 2^(W - 1 - ((i + m - 1) % W)) \in Nat
  <2>1. W - 1 - ((i + m - 1) % W) \in Nat
    <3>. DEFINE j == i + m - 1
    <3>1. j \in Nat
      OBVIOUS
    <3>. HIDE DEF j
    <3>. QED  BY <3>1, ByteNat
  <2>. QED  BY <2>1, PowerPositive
<1>2. MaskParts(i, n, k) \in [1 .. n -> Nat]
  BY <1>1 DEF MaskParts
<1>. DEFINE e == MaskParts(i, n, k)
            x == CHOOSE x : SumsOf(n, e, x)
<1>. HIDE DEF e
<1>3. SumsOf(n, e, x)
  BY <1>2, SumsExist DEF e
<1>. HIDE DEF x
<1>4. x \in [0 .. n -> Nat]
  BY <1>2, <1>3, SumsValues DEF e
<1>5. x[n] \in Nat
  BY <1>4
<1>. QED  BY <1>2, <1>5 DEF Mask, x, e

Flipped(buf, i, n) == [k \in DOMAIN buf |-> XorByte(buf[k], Mask(i, n, k))]

LEMMA FlipBitsIs ==
  ASSUME NEW buf, NEW i \in Nat, NEW n \in Nat
  PROVE  FlipBits(buf, i, n) = Flipped(buf, i, n)
<1>. DEFINE F(k, x) == [m \in 0 .. n |-> IF m = 0 THEN 0
                 ELSE x[m - 1] + (IF (i + m - 1) \div W = k - 1
                                  THEN 2^(W - 1 - ((i + m - 1) % W)) ELSE 0)]
            G(k, x) == [m \in 0 .. n |-> IF m = 0 THEN 0 ELSE x[m - 1] + MaskParts(i, n, k)[m]]
<1>1. \A k, x : F(k, x) = G(k, x)
  <2>1. \A m \in 0 .. n : m # 0 => m \in 1 .. n
    OBVIOUS
  <2>. QED  BY <2>1 DEF MaskParts
<1>2. FlipBits(buf, i, n) = [k \in DOMAIN buf |-> XorByte(buf[k], (CHOOSE x : x = F(k, x))[n])]
  BY Zenon DEF FlipBits
<1>3. \A k, x : (x = F(k, x)) <=> SumsOf(n, MaskParts(i, n, k), x)
  BY <1>1 DEF SumsOf
<1>. HIDE DEF F
<1>4. \A k : (CHOOSE x : x = F(k, x)) = (CHOOSE x : SumsOf(n, MaskParts(i, n, k), x))
  BY <1>3
<1>. QED  BY <1>2, <1>4, Zenon DEF Mask, Flipped

(* Flipping keeps the bytes bytes, and flipping again takes it back.       *)
LEMMA FlipBitsTwice ==
  ASSUME NEW buf \in Seq(Byte), NEW i \in Nat, NEW n \in Nat
  PROVE  /\ FlipBits(buf, i, n) \in Seq(Byte)
         /\ FlipBits(FlipBits(buf, i, n), i, n) = buf
<1>. DEFINE c == FlipBits(buf, i, n)
<1>0. \A b : FlipBits(b, i, n) = Flipped(b, i, n)
  BY FlipBitsIs
<1>1. c = [k \in DOMAIN buf |-> XorByte(buf[k], Mask(i, n, k))]
  BY <1>0 DEF Flipped
<1>. HIDE DEF c
<1>2. FlipBits(c, i, n) = [k \in DOMAIN c |-> XorByte(c[k], Mask(i, n, k))]
  BY <1>0 DEF Flipped
<1>3. DOMAIN buf = 1 .. Len(buf) /\ Len(buf) \in Nat /\ \A k \in DOMAIN buf : buf[k] \in Byte
  BY SeqFacts
<1>4. \A k : Mask(i, n, k) \in Nat
  BY MaskType
<1>5. \A k \in DOMAIN buf : XorByte(buf[k], Mask(i, n, k)) \in Byte
  BY <1>3, <1>4, ByteNat, XorBits
<1>6. c \in [1 .. Len(buf) -> Byte] /\ DOMAIN c = DOMAIN buf
  BY <1>1, <1>3, <1>5
<1>7. \A k \in DOMAIN buf : XorByte(c[k], Mask(i, n, k)) = buf[k]
  <2>1. TAKE k \in DOMAIN buf
  <2>2. c[k] = XorByte(buf[k], Mask(i, n, k))
    BY <1>1
  <2>3. buf[k] \in Byte /\ Mask(i, n, k) \in Nat
    BY <1>3, <1>4
  <2>. QED  BY <2>2, <2>3, XorTwice
<1>8. buf = [k \in DOMAIN buf |-> buf[k]]
  BY <1>3, SeqFacts
<1>9. FlipBits(c, i, n) = buf
  BY <1>2, <1>6, <1>7, <1>8
<1>. QED  BY <1>3, <1>6, <1>9, IsSeq DEF c

-----------------------------------------------------------------------------
(***************************************************************************)
(* The inductive invariant.                                                *)
(***************************************************************************)
InStage == pc \in {"pos", "item", "run"}

(* The first n tokens have their lengths in order.                         *)
ByLength(s, n) == \A i, j \in 1 .. n : i < j => Len(s[i]) <= Len(s[j])

(* The dictionaries: what the sorts at the end of each change leave.       *)
AutoToken == [data : Seq(Byte), hit_cnt : Nat]
Dictionary ==
  /\ extras \in Seq(Seq(Byte)) /\ ByLength(extras, Len(extras))
  /\ a_extras \in Seq(AutoToken) /\ Len(a_extras) <= MaxAutoExtras
  /\ \A i, j \in Used : i < j => Len(a_extras[i].data) <= Len(a_extras[j].data)

Types ==
  /\ pc \in {"score", "enter", "next", "pos", "item", "run", "havoc", "hloop", "tweak", "splice",
             "abandon", "done"}
  /\ entry \in Seq(Byte) /\ entry # <<>> /\ in_buf \in Seq(Byte)
  /\ pc # "done" => in_buf # <<>>
  /\ out_buf \in Seq(Byte) \cup {Mangled}
  /\ {dumb_mode, no_arith, use_splicing, doing_det} \subseteq BOOLEAN
  /\ stage \in 0 .. 15 /\ at \in Nat /\ item \in Nat /\ stage_cur \in Nat /\ stage_max \in Nat
  /\ last_len \in Nat /\ subseq_tmouts \in Nat /\ orig \in Seq(Byte)
  /\ temp_len \in Nat /\ cap \in Nat /\ stacked \in Nat /\ splice_cycle \in Nat
  /\ prev_cksum \in Cksums /\ a_collect \in Seq(Byte)
  /\ ret \in {0, 1}

(* Where a stage is, and what it announced as its length: the changes run, *)
(* those of the positions ahead and those left at this one.                *)
Place ==
  /\ pc \in {"score", "enter"} => stage = 0
  /\ InStage => stage > 0 /\ Size >= Width(Now)
  /\ pc = "pos" => /\ at <= Positions(Now)
                   /\ stage_cur + (Positions(Now) - at) * Items(Now) = stage_max
  /\ pc \in {"item", "run"} =>
       /\ at < Positions(Now) /\ item \in 1 .. Items(Now) + 1
       /\ stage_cur + (Positions(Now) - 1 - at) * Items(Now) + (Items(Now) + 1 - item) = stage_max
  /\ pc = "run" => item <= Items(Now)
  /\ StageCounts

(* What out_buf may hold between the changes of a position: other bytes    *)
(* than the entry where the last change was, nowhere else.                 *)
SameOutside(n) ==
  /\ DOMAIN out_buf = DOMAIN in_buf
  /\ \A k \in DOMAIN in_buf : k \notin at + 1 .. at + n => out_buf[k] = in_buf[k]
KeepsChange == Arithmetic \cup {"int16", "int32"}
Whole == Flips \cup Overwrites \cup {"ext_UI"}
Pending == IF Now \in Overwrites THEN last_len ELSE IF Now \in KeepsChange THEN Width(Now) ELSE 0
Changing == IF Now \in Overwrites THEN last_len ELSE Width(Now)

Buffer ==
  /\ pc \in {"score", "enter", "next", "pos", "havoc", "hloop"} => out_buf = in_buf
  /\ InStage => out_buf \in Seq(Byte)
  /\ pc = "item" => SameOutside(Pending)
  /\ pc = "run" => CASE Now \in Flips -> out_buf = FlipBits(in_buf, at, Bits(Now))
                     [] Now = "ext_UI" -> out_buf = in_buf
                     [] OTHER -> SameOutside(Changing)
  /\ pc \in {"item", "run"} =>
       orig = IF Now \in Whole THEN <<>> ELSE At(in_buf, at, Width(Now))

(* The tokens of a stage come in the order of their lengths, so the last   *)
(* one written covers those before it.                                     *)
LastToken ==
  /\ pc \in {"item", "run"} /\ Now \in Overwrites => last_len <= Size - at
  /\ pc = "item" /\ Now \in Overwrites =>
       \A k \in item .. Items(Now) : last_len <= Len(Token(Now, k))
  /\ pc = "run" /\ Now \in Overwrites => last_len = Len(Token(Now, item))

(* The effector map knows of every byte whose flip was felt.               *)
Effects ==
  /\ felt \subseteq Nat /\ (stage < 4 => felt = {})
  /\ \A p \in felt : EffPos(p) \in DOMAIN eff_map /\ eff_map[EffPos(p)]
  /\ InStage /\ Now = "flip8" => DOMAIN eff_map = 0 .. EffLen - 1

Scores ==
  /\ orig_perf \in 1 .. HavocMaxMult * 100
  /\ perf_score \in orig_perf .. 2 * HavocMaxMult * 100
  /\ pc \notin {"hloop", "tweak", "splice", "abandon", "done"} /\ splice_cycle = 0 =>
       perf_score = orig_perf
  /\ pc = "score" => {rating.exec_us, rating.bitmap_size, rating.handicap, rating.depth,
                      rating.weight} \subseteq Nat

Havoc ==
  /\ HavocFits /\ HavocEnds
  /\ pc = "hloop" => temp_len = Size
  /\ pc = "tweak" => stage_cur < stage_max

IInv ==
  /\ Types /\ Dictionary /\ Place /\ Buffer /\ LastToken /\ Effects /\ Scores /\ Havoc
-----------------------------------------------------------------------------
(* Parts of a buffer.                                                      *)
LEMMA PutType ==
  ASSUME NEW buf \in Seq(Byte), NEW b \in Seq(Byte), NEW i \in Nat
  PROVE  /\ Put(buf, i, b) \in Seq(Byte) /\ DOMAIN Put(buf, i, b) = DOMAIN buf
         /\ \A k \in DOMAIN buf :
              Put(buf, i, b)[k] = IF k \in i + 1 .. i + Len(b) THEN b[k - i] ELSE buf[k]
<1>1. /\ DOMAIN buf = 1 .. Len(buf) /\ Len(buf) \in Nat /\ \A k \in 1 .. Len(buf) : buf[k] \in Byte
      /\ Len(b) \in Nat /\ \A k \in 1 .. Len(b) : b[k] \in Byte
  BY SeqFacts
<1>2. ASSUME NEW k \in DOMAIN buf
      PROVE  (IF k \in i + 1 .. i + Len(b) THEN b[k - i] ELSE buf[k]) \in Byte
  BY <1>1
<1>3. Put(buf, i, b) \in [1 .. Len(buf) -> Byte]
  BY <1>1, <1>2 DEF Put
<1>4. Put(buf, i, b) \in Seq(Byte)
  BY <1>1, <1>3, IsSeq
<1>. QED  BY <1>1, <1>4 DEF Put

LEMMA AtType ==
  ASSUME NEW buf \in Seq(Byte), NEW i \in Nat, NEW n \in Nat, i + n <= Len(buf)
  PROVE  /\ At(buf, i, n) \in Seq(Byte) /\ Len(At(buf, i, n)) = n
         /\ \A k \in 1 .. n : At(buf, i, n)[k] = buf[i + k]
<1>1. Len(buf) \in Nat
  BY SeqFacts
<1>2. i + 1 \in 1 .. Len(buf) + 1 /\ i + n \in i .. Len(buf)
  BY <1>1
<1>3. /\ At(buf, i, n) \in Seq(Byte)
      /\ Len(At(buf, i, n)) = IF i + 1 <= i + n THEN (i + n) - (i + 1) + 1 ELSE 0
      /\ \A k \in 1 .. (i + n) - (i + 1) + 1 : At(buf, i, n)[k] = buf[(i + 1) + k - 1]
  BY SMTT(40), <1>1, <1>2, SubSeqProperties DEF At
<1>4. (i + n) - (i + 1) + 1 = n /\ \A k \in 1 .. n : (i + 1) + k - 1 = i + k
  OBVIOUS
<1>. QED  BY <1>3, <1>4

(* Putting back what a place held restores the buffer.                     *)
LEMMA PutBack ==
  ASSUME NEW buf \in Seq(Byte), NEW old \in Seq(Byte), NEW i \in Nat, NEW n \in Nat,
         i + n <= Len(old), DOMAIN buf = DOMAIN old,
         \A k \in DOMAIN old : k \notin i + 1 .. i + n => buf[k] = old[k]
  PROVE  Put(buf, i, At(old, i, n)) = old
<1>. DEFINE b == At(old, i, n)
            c == Put(buf, i, b)
<1>1. b \in Seq(Byte) /\ Len(b) = n /\ \A k \in 1 .. n : b[k] = old[i + k]
  BY AtType
<1>. HIDE DEF b
<1>2. c \in Seq(Byte) /\ DOMAIN c = DOMAIN buf
      /\ \A k \in DOMAIN buf : c[k] = IF k \in i + 1 .. i + Len(b) THEN b[k - i] ELSE buf[k]
  BY <1>1, PutType
<1>. HIDE DEF c
<1>3. /\ DOMAIN old = 1 .. Len(old) /\ Len(old) \in Nat /\ Len(c) \in Nat /\ DOMAIN c = 1 .. Len(c)
      /\ DOMAIN buf = 1 .. Len(old)
  BY <1>2, SeqFacts
<1>4. ASSUME NEW k \in DOMAIN old PROVE c[k] = old[k]
  <2>1. CASE k \in i + 1 .. i + n
    <3>1. k - i \in 1 .. n /\ i + (k - i) = k
      BY <1>3, <2>1
    <3>. QED  BY <1>1, <1>2, <2>1, <3>1
  <2>2. CASE k \notin i + 1 .. i + n
    BY <1>1, <1>2, <2>2
  <2>. QED  BY <2>1, <2>2
<1>5. Len(c) = Len(old)
  BY <1>2, <1>3, LenProperties
<1>6. c = old
  BY <1>2, <1>3, <1>4, <1>5, SeqEqual
<1>. QED  BY <1>6 DEF c, b

-----------------------------------------------------------------------------
(* Stages.                                                                 *)
UndoneAtOnce == {"flip8", "flip16", "flip32", "int8"}
StageNames == Flips \cup UndoneAtOnce \cup KeepsChange \cup Overwrites \cup {"ext_UI"}

LEMMA NowIs ==
  ASSUME stage \in 1 .. 15
  PROVE  /\ Now \in StageNames
         /\ (stage < 4 => Now \in Flips) /\ (stage = 4 <=> Now = "flip8")
         /\ (stage > 4 => Now \notin Flips)
BY DEF Now, DetStages, StageNames, Flips, UndoneAtOnce, KeepsChange, Arithmetic, Overwrites

LEMMA WidthIs ==
  ASSUME NEW s \in StageNames
  PROVE  /\ Width(s) \in {1, 2, 4} /\ (s \in Flips \cup Overwrites \cup {"ext_UI"} => Width(s) = 1)
         /\ (s \in Flips => Bits(s) \in 1 .. 4)
BY DEF Width, Bits, StageNames, Flips, UndoneAtOnce, KeepsChange, Arithmetic, Overwrites

-----------------------------------------------------------------------------
(* The dictionaries.                                                       *)

(* The first n of r are those of s in the order of key.                    *)
Ranked(s, n, key, r) ==
  \E p \in [1 .. n -> 1 .. n] :
    /\ \A i \in 1 .. n : r[i] = s[p[i]]
    /\ \A i, j \in 1 .. n : i < j => key[p[i]] <= key[p[j]]

(* What a sort leaves: the same elements, the first n in the order of key. *)
LEMMA OrdersType ==
  ASSUME NEW T, NEW s \in Seq(T), NEW n \in 0 .. Len(s), NEW key, NEW r \in Orders(s, n, key)
  PROVE  r \in Seq(T) /\ Len(r) = Len(s) /\ Ranked(s, n, key, r)
<1>. DEFINE Moves == {p \in [1 .. n -> 1 .. n] : \A i, j \in 1 .. n : i # j => p[i] # p[j]}
            Moved(p) == [i \in DOMAIN s |-> IF i <= n THEN s[p[i]] ELSE s[i]]
<1>1. PICK p \in Moves : (\A i, j \in 1 .. n : i < j => key[p[i]] <= key[p[j]]) /\ r = Moved(p)
  BY DEF Orders
<1>2. p \in [1 .. n -> 1 .. n]
  OBVIOUS
<1>3. /\ Len(s) \in Nat /\ DOMAIN s = 1 .. Len(s) /\ n \in Nat /\ n <= Len(s)
      /\ \A i \in 1 .. Len(s) : s[i] \in T
  BY SeqFacts
<1>4. ASSUME NEW i \in 1 .. Len(s) PROVE (IF i <= n THEN s[p[i]] ELSE s[i]) \in T
  <2>1. i <= n => i \in 1 .. n /\ p[i] \in 1 .. n
    BY <1>2, <1>3
  <2>. QED  BY <1>3, <2>1
<1>5. r \in [1 .. Len(s) -> T]
  BY <1>1, <1>3, <1>4
<1>6. r \in Seq(T) /\ Len(r) = Len(s)
  BY <1>3, <1>5, IsSeq
<1>7. ASSUME NEW i \in 1 .. n PROVE r[i] = s[p[i]]
  <2>1. i \in DOMAIN s /\ i <= n
    BY <1>3
  <2>. QED  BY <1>1, <2>1
<1>8. Ranked(s, n, key, r)
  BY <1>1, <1>2, <1>7 DEF Ranked
<1>. QED  BY <1>6, <1>8

LEMMA LoadedByLength ==
  ASSUME NEW ts \in Seq(Seq(Byte)), NEW r \in SortedBySize(ts)
  PROVE  r \in Seq(Seq(Byte)) /\ ByLength(r, Len(r))
<1>. DEFINE n == Len(ts)
            key == [i \in DOMAIN ts |-> Len(ts[i])]
<1>1. n \in 0 .. Len(ts) /\ DOMAIN ts = 1 .. n
  BY SeqFacts
<1>2. r \in Orders(ts, n, key)
  BY DEF SortedBySize
<1>3. \A i \in 1 .. n : key[i] = Len(ts[i])
  BY <1>1
<1>. HIDE DEF key, n
<1>4. r \in Seq(Seq(Byte)) /\ Len(r) = n
  BY <1>1, <1>2, OrdersType DEF n
<1>5. PICK p \in [1 .. n -> 1 .. n] :
             /\ \A i \in 1 .. n : r[i] = ts[p[i]]
             /\ \A i, j \in 1 .. n : i < j => key[p[i]] <= key[p[j]]
  <2>1. Ranked(ts, n, key, r)
    BY <1>1, <1>2, OrdersType
  <2>. QED  BY <2>1 DEF Ranked
<1>6. ASSUME NEW i \in 1 .. n, NEW j \in 1 .. n, i < j PROVE Len(r[i]) <= Len(r[j])
  <2>1. p[i] \in 1 .. n /\ p[j] \in 1 .. n /\ key[p[i]] <= key[p[j]]
    BY <1>5, <1>6
  <2>2. r[i] = ts[p[i]] /\ r[j] = ts[p[j]]
    BY <1>5
  <2>. QED  BY <1>3, <2>1, <2>2
<1>. QED  BY <1>4, <1>6 DEF ByLength

LEMMA AutoByLength ==
  ASSUME NEW s \in Seq(AutoToken), NEW r \in ByUseThenSize(s)
  PROVE  /\ r \in Seq(AutoToken) /\ Len(r) = Len(s)
         /\ \A i, j \in 1 .. Least(UseAuto, Len(r)) : i < j => Len(r[i].data) <= Len(r[j].data)
<1>1. PICK t \in Orders(s, Len(s), ByUse(s)) : r \in Orders(t, Least(UseAuto, Len(t)), BySize(t))
  BY DEF ByUseThenSize
<1>2. Len(s) \in 0 .. Len(s)
  BY SeqFacts
<1>3. t \in Seq(AutoToken) /\ Len(t) = Len(s)
  BY <1>1, <1>2, OrdersType
<1>. DEFINE n == Least(UseAuto, Len(t))
            key == BySize(t)
<1>4. n \in 0 .. Len(t) /\ DOMAIN t = 1 .. Len(t)
  BY <1>3, SeqFacts, DictAssumption DEF Least
<1>5. \A i \in 1 .. n : key[i] = Len(t[i].data)
  BY <1>4 DEF BySize
<1>. HIDE DEF n, key
<1>6. r \in Orders(t, n, key)
  BY <1>1 DEF n, key
<1>7. r \in Seq(AutoToken) /\ Len(r) = Len(t)
  BY <1>3, <1>4, <1>6, OrdersType
<1>8. PICK p \in [1 .. n -> 1 .. n] :
             /\ \A i \in 1 .. n : r[i] = t[p[i]]
             /\ \A i, j \in 1 .. n : i < j => key[p[i]] <= key[p[j]]
  <2>1. Ranked(t, n, key, r)
    BY <1>3, <1>4, <1>6, OrdersType
  <2>. QED  BY <2>1 DEF Ranked
<1>9. ASSUME NEW i \in 1 .. n, NEW j \in 1 .. n, i < j PROVE Len(r[i].data) <= Len(r[j].data)
  <2>1. p[i] \in 1 .. n /\ p[j] \in 1 .. n /\ key[p[i]] <= key[p[j]]
    BY <1>8, <1>9
  <2>2. r[i] = t[p[i]] /\ r[j] = t[p[j]]
    BY <1>8
  <2>. QED  BY <1>5, <2>1, <2>2
<1>. QED  BY <1>3, <1>7, <1>9 DEF n

LEMMA HitType == ASSUME NEW x \in AutoToken PROVE [x EXCEPT !.hit_cnt = @ + 1] \in AutoToken
  BY DEF AutoToken

LEMMA WithTokenType ==
  ASSUME a_extras \in Seq(AutoToken), Len(a_extras) <= MaxAutoExtras,
         NEW t \in Seq(Byte), NEW s \in WithToken(t)
  PROVE  s \in Seq(AutoToken) /\ Len(s) <= MaxAutoExtras
<1>1. /\ Len(a_extras) \in Nat /\ DOMAIN a_extras = 1 .. Len(a_extras)
      /\ \A i \in 1 .. Len(a_extras) : a_extras[i] \in AutoToken
  BY SeqFacts
<1>2. NewToken(t) \in AutoToken
  BY DEF NewToken, AutoToken
<1>3. ASSUME NEW i \in 1 .. Len(a_extras), NEW e \in AutoToken
      PROVE  [a_extras EXCEPT ![i] = e] \in Seq(AutoToken)
             /\ Len([a_extras EXCEPT ![i] = e]) = Len(a_extras)
  BY ExceptSeq
<1>4. CASE Known(t) # {}
  <2>. DEFINE i == FirstOf(Known(t))
              e == [a_extras[i] EXCEPT !.hit_cnt = @ + 1]
  <2>1. Known(t) \subseteq Nat /\ Known(t) \subseteq 1 .. Len(a_extras)
    BY <1>1 DEF Known
  <2>2. i \in 1 .. Len(a_extras)
    BY <1>4, <2>1, FirstOfLeast
  <2>. HIDE DEF i
  <2>3. e \in AutoToken
    BY <1>1, <2>2, HitType
  <2>4. s = [a_extras EXCEPT ![i] = e]
    BY <1>4 DEF WithToken, i
  <2>. HIDE DEF e
  <2>. QED  BY <1>3, <2>2, <2>3, <2>4
<1>5. CASE Known(t) = {} /\ Len(a_extras) < MaxAutoExtras
  <2>1. s = Append(a_extras, NewToken(t))
    BY <1>5 DEF WithToken
  <2>2. s \in Seq(AutoToken) /\ Len(s) = Len(a_extras) + 1
    BY <1>2, <2>1, AppendProperties
  <2>. QED  BY <1>1, <1>5, <2>2, DictAssumption
<1>6. CASE Known(t) = {} /\ ~ (Len(a_extras) < MaxAutoExtras)
  <2>1. PICK i \in Evictable : s = [a_extras EXCEPT ![i] = NewToken(t)]
    BY <1>6 DEF WithToken
  <2>2. i \in 1 .. Len(a_extras)
    BY <1>1, <1>6, DictAssumption DEF Evictable
  <2>. QED  BY <1>2, <1>3, <2>1, <2>2
<1>. QED  BY <1>4, <1>5, <1>6

(* A found token leaves the dictionaries as the stages expect them.        *)
LEMMA MaybeAddKeeps ==
  ASSUME Dictionary, NEW t \in Seq(Byte), MaybeAddAuto(t)
  PROVE  Dictionary'
<1>1. CASE Rejected(t)
  BY <1>1 DEF MaybeAddAuto, Dictionary, Used, ByLength
<1>2. CASE ~ Rejected(t)
  <2>1. PICK s \in WithToken(t) : a_extras' \in ByUseThenSize(s)
    BY <1>2 DEF MaybeAddAuto
  <2>2. s \in Seq(AutoToken) /\ Len(s) <= MaxAutoExtras
    BY <2>1, WithTokenType DEF Dictionary
  <2>3. /\ a_extras' \in Seq(AutoToken) /\ Len(a_extras') = Len(s)
        /\ \A i, j \in 1 .. Least(UseAuto, Len(a_extras')) :
             i < j => Len(a_extras'[i].data) <= Len(a_extras'[j].data)
    BY <2>1, <2>2, AutoByLength
  <2>4. extras' = extras
    BY DEF MaybeAddAuto
  <2>. QED  BY <2>2, <2>3, <2>4 DEF Dictionary, Used, ByLength
<1>. QED  BY <1>1, <1>2

LEMMA OfferKeeps ==
  ASSUME Dictionary, NEW str \in Seq(Byte), Offer(str)
  PROVE  Dictionary'
<1>1. CASE Len(str) \in MinAuto .. MaxAuto
  BY <1>1, MaybeAddKeeps DEF Offer
<1>2. CASE ~ (Len(str) \in MinAuto .. MaxAuto)
  BY <1>2 DEF Offer, dictVars, Dictionary, Used, ByLength
<1>. QED  BY <1>1, <1>2

-----------------------------------------------------------------------------
(* The positions and the changes of a stage.                               *)
LEMMA PositionsType ==
  ASSUME in_buf \in Seq(Byte), in_buf # <<>>, NEW s \in StageNames, Size >= Width(s)
  PROVE  /\ Size \in Nat /\ Size > 0 /\ Positions(s) \in Nat
         /\ \A p \in Nat : p < Positions(s) =>
              /\ s \in UndoneAtOnce \cup KeepsChange => p + Width(s) <= Size
              /\ s \in Overwrites => p < Size
              /\ s = "flip1" => p \div W + 1 \in 1 .. Size
<1>1. Size \in Nat /\ Size > 0
  BY SeqFacts DEF Size
<1>2. W \in Nat /\ W >= 4
  BY StagesAssumption
<1>. HIDE DEF Size
<1>3. CASE s \in Flips
  <2>1. Positions(s) = W * Size - Bits(s) + 1
    BY <1>3 DEF Positions, Flips
  <2>2. Bits(s) \in 1 .. 4 /\ (s = "flip1" => Bits(s) = 1)
    BY <1>3, WidthIs DEF Bits
  <2>3. W * Size \in Nat /\ W <= W * Size
    BY <1>1, <1>2, Products
  <2>4. Positions(s) \in Nat
    BY <1>2, <2>1, <2>2, <2>3
  <2>5. ASSUME NEW p \in Nat, p < Positions(s), s = "flip1" PROVE p \div W + 1 \in 1 .. Size
    <3>1. p < W * Size
      BY <2>1, <2>2, <2>3, <2>5
    <3>2. p \div W < Size
      BY <1>1, <1>2, <3>1, DivideBelow
    <3>3. p \div W \in Nat
      BY <1>2, DivideMono
    <3>. QED  BY <1>1, <3>2, <3>3
  <2>6. s \notin UndoneAtOnce \cup KeepsChange /\ s \notin Overwrites
    BY <1>3 DEF Flips, UndoneAtOnce, KeepsChange, Arithmetic, Overwrites
  <2>. QED  BY <1>1, <2>4, <2>5, <2>6
<1>4. CASE s \notin Flips
  <2>1. Width(s) \in {1, 2, 4} /\ (s \in Overwrites => Width(s) = 1)
    BY WidthIs
  <2>2. Positions(s) = IF s = "ext_UI" THEN Size + 1 ELSE Size - Width(s) + 1
    BY <1>4 DEF Positions
  <2>3. "ext_UI" \notin UndoneAtOnce \cup KeepsChange /\ "ext_UI" \notin Overwrites
        /\ "flip1" \in Flips
    BY DEF Flips, UndoneAtOnce, KeepsChange, Arithmetic, Overwrites
  <2>. QED  BY <1>1, <1>4, <2>1, <2>2, <2>3
<1>. QED  BY <1>3, <1>4

LEMMA ItemsType ==
  ASSUME Dictionary, NEW s \in StageNames
  PROVE  Items(s) \in Nat /\ (s \in Flips \cup {"flip8", "flip16", "flip32"} => Items(s) = 1)
<1>1. Len(Interesting8) \in Nat /\ Len(Words) \in Nat /\ Len(DWords) \in Nat /\ ArithMax \in Nat
  <2>1. Interesting8 \in Seq(0 .. 2^W - 1)
    BY StagesAssumption
  <2>2. Words \in Seq([1 .. 2 -> 0 .. 2^W - 1]) /\ DWords \in Seq([1 .. 4 -> 0 .. 2^W - 1])
    BY StagesAssumption
  <2>. QED  BY <2>1, <2>2, SeqFacts, StagesAssumption
<1>2. Len(extras) \in Nat /\ Len(a_extras) \in Nat
  BY SeqFacts DEF Dictionary
<1>3. Least(Len(a_extras), UseAuto) \in Nat
  BY <1>2, DictAssumption DEF Least
<1>. QED
  BY <1>1, <1>2, <1>3 DEF Items, StageNames, Flips, UndoneAtOnce, KeepsChange, Arithmetic, Overwrites

(* The tokens that a stage writes, the shorter before the longer.          *)
LEMMA TokenType ==
  ASSUME Dictionary, NEW s \in Overwrites \cup {"ext_UI"}, NEW k \in 1 .. Items(s)
  PROVE  /\ Token(s, k) \in Seq(Byte) /\ Len(Token(s, k)) \in Nat
         /\ \A j \in 1 .. k : Len(Token(s, j)) <= Len(Token(s, k))
<1>1. /\ Len(extras) \in Nat /\ \A i \in 1 .. Len(extras) : extras[i] \in Seq(Byte)
      /\ Len(a_extras) \in Nat /\ \A i \in 1 .. Len(a_extras) : a_extras[i].data \in Seq(Byte)
  <2>1. extras \in Seq(Seq(Byte)) /\ a_extras \in Seq(AutoToken)
    BY DEF Dictionary
  <2>2. /\ Len(a_extras) \in Nat /\ \A i \in 1 .. Len(a_extras) : a_extras[i] \in AutoToken
    BY <2>1, SeqFacts
  <2>3. /\ Len(extras) \in Nat /\ \A i \in 1 .. Len(extras) : extras[i] \in Seq(Byte)
    BY <2>1, SeqFacts
  <2>. QED  BY <2>2, <2>3 DEF AutoToken
<1>2. CASE s = "ext_AO"
  <2>1. Items(s) = Least(Len(a_extras), UseAuto)
    BY <1>2 DEF Items, Arithmetic
  <2>2. \A i \in 1 .. Items(s) : i \in Used /\ i \in 1 .. Len(a_extras)
    BY <1>1, <2>1, DictAssumption DEF Used, Least
  <2>3. \A i \in 1 .. k : i \in 1 .. Items(s)
    BY <1>1, <2>1, DictAssumption DEF Least
  <2>4. \A i \in 1 .. Items(s) : Token(s, i) = a_extras[i].data
    BY <1>2 DEF Token
  <2>5. Token(s, k) \in Seq(Byte)
    BY <1>1, <2>2, <2>4
  <2>6. Len(Token(s, k)) \in Nat
    BY <2>5, SeqFacts
  <2>7. ASSUME NEW j \in 1 .. k PROVE Len(Token(s, j)) <= Len(Token(s, k))
    <3>1. CASE j = k
      BY <2>6, <3>1
    <3>2. CASE j # k
      <4>1. j < k
        BY <2>1, <1>1, <3>2, DictAssumption DEF Least
      <4>2. j \in Used /\ k \in Used
        BY <2>2, <2>3
      <4>3. Len(a_extras[j].data) <= Len(a_extras[k].data)
        BY <4>1, <4>2 DEF Dictionary
      <4>. QED  BY <2>3, <2>4, <4>3
    <3>. QED  BY <3>1, <3>2
  <2>. QED  BY <2>5, <2>6, <2>7
<1>3. CASE s # "ext_AO"
  <2>1. Items(s) = Len(extras)
    BY <1>3 DEF Items, Arithmetic, Overwrites
  <2>2. \A i \in 1 .. k : i \in 1 .. Len(extras)
    BY <1>1, <2>1
  <2>3. \A i : Token(s, i) = extras[i]
    BY <1>3 DEF Token
  <2>4. Token(s, k) \in Seq(Byte)
    BY <1>1, <2>1, <2>3
  <2>5. Len(Token(s, k)) \in Nat
    BY <2>4, SeqFacts
  <2>6. ASSUME NEW j \in 1 .. k PROVE Len(Token(s, j)) <= Len(Token(s, k))
    <3>1. CASE j = k
      BY <2>5, <3>1
    <3>2. CASE j # k
      <4>1. j < k /\ j \in 1 .. Len(extras) /\ k \in 1 .. Len(extras)
        BY <1>1, <2>1, <2>2, <3>2
      <4>2. Len(extras[j]) <= Len(extras[k])
        BY <4>1 DEF Dictionary, ByLength
      <4>. QED  BY <2>3, <4>2
    <3>. QED  BY <3>1, <3>2
  <2>. QED  BY <2>4, <2>5, <2>6
<1>. QED  BY <1>2, <1>3

(* A change keeps the length of the word.                                  *)
LEMMA ChangedType ==
  ASSUME Dictionary, NEW s \in UndoneAtOnce \cup KeepsChange, NEW w \in Seq(Byte),
         Len(w) = Width(s), NEW k \in 1 .. Items(s)
  PROVE  Changed(s, w, k) \in Seq(Byte) /\ Len(Changed(s, w, k)) = Width(s)
<1>. USE DEF UndoneAtOnce, KeepsChange, Arithmetic, Overwrites
<1>1. CASE s \in Arithmetic
  <2>1. Step(s, k) \in Int
    <3>1. k \in Nat
      <4>1. Items(s) \in Nat
        BY ItemsType DEF StageNames
      <4>. QED  BY <4>1
    <3>. QED  BY <3>1 DEF Step
  <2>2. Changed(s, w, k) = IF BigEndian(s, k) THEN AddSwapped(w, Step(s, k)) ELSE Add(w, Step(s, k))
    BY <1>1 DEF Changed
  <2>. QED  BY <2>1, <2>2, AddType
<1>2. CASE s = "int8"
  <2>1. Interesting8 \in Seq(Byte)
    BY StagesAssumption DEF Byte
  <2>2. Items(s) = Len(Interesting8) /\ Width(s) = 1 /\ Changed(s, w, k) = <<Interesting8[k]>>
    BY <1>2 DEF Items, Width, Changed
  <2>3. Interesting8[k] \in Byte
    BY <2>1, <2>2, SeqFacts
  <2>. QED  BY <2>2, <2>3
<1>3. CASE s \in {"int16", "int32"}
  <2>. DEFINE list == IF s = "int16" THEN Words ELSE DWords
              i == (k + 1) \div 2
              v == list[i]
  <2>1. list \in Seq([1 .. Width(s) -> Byte]) /\ Width(s) \in Nat
    BY <1>3, StagesAssumption DEF Width, Byte
  <2>2. Items(s) = 2 * Len(list)
    BY <1>3 DEF Items
  <2>3. i \in 1 .. Len(list)
    BY <2>1, <2>2, SeqFacts
  <2>4. v \in [1 .. Width(s) -> Byte]
    <3>. HIDE DEF list, i
    <3>. QED  BY <2>1, <2>3, SeqFacts
  <2>5. Changed(s, w, k) = IF k % 2 = 1 THEN v ELSE Swapped(v)
    BY <1>3 DEF Changed
  <2>. HIDE DEF v
  <2>6. v \in Seq(Byte) /\ Len(v) = Width(s)
    BY <2>1, <2>4, IsSeq
  <2>. QED  BY <2>5, <2>6, SwappedType
<1>4. CASE s \in {"flip8", "flip16", "flip32"}
  <2>1. Changed(s, w, k) = [i \in DOMAIN w |-> 2^W - 1 - w[i]]
    BY <1>4 DEF Changed
  <2>2. DOMAIN w = 1 .. Len(w) /\ Len(w) \in Nat /\ \A i \in 1 .. Len(w) : w[i] \in Byte
    BY SeqFacts
  <2>3. \A i \in 1 .. Len(w) : 2^W - 1 - w[i] \in Byte
    BY <2>2, ByteNat DEF Byte
  <2>4. Changed(s, w, k) \in [1 .. Len(w) -> Byte]
    BY <2>1, <2>2, <2>3
  <2>. QED  BY <2>2, <2>4, IsSeq
<1>. QED  BY <1>1, <1>2, <1>3, <1>4

-----------------------------------------------------------------------------
(* The score, and how long havoc is.                                       *)
LEMMA ScoreType ==
  ASSUME NEW r, {r.exec_us, r.bitmap_size, r.handicap, r.depth, r.weight} \subseteq Nat
  PROVE  CalculateScore(r) \in 1 .. HavocMaxMult * 100
<1>. DEFINE sp == SpeedScore(r.exec_us)
            sf == SizeFactor(r.bitmap_size)
            hf == HandicapFactor(r.handicap)
            df == DepthFactor(r.depth)
            wf == WeightFactor(r.weight)
            top == HavocMaxMult * 100
            sized == (sp * sf) \div 4
            deep == sized * hf * df
<1>1. sp \in {10, 25, 50, 75, 100, 150, 200, 300}
  BY StagesAssumption DEF SpeedScore
<1>2. sf \in {1, 2, 3, 4, 6, 8, 12}
  BY StagesAssumption DEF SizeFactor
<1>3. hf \in {1, 2, 4} /\ df \in {1, 2, 3, 4, 5} /\ wf \in {1, 2}
  BY DEF HandicapFactor, DepthFactor, WeightFactor
<1>4. top \in Nat /\ top >= 100
  <2>1. HavocMaxMult \in Nat \ {0}
    BY StagesAssumption
  <2>. QED  BY <2>1
<1>5. CalculateScore(r) = Least(Least(deep, top) * wf, top)
  BY DEF CalculateScore
<1>. HIDE DEF sp, sf, hf, df, wf, top
<1>6. sized \in Nat /\ sized >= 1
  <2>1. sp * sf \in Nat /\ sp * sf >= 10
    BY <1>1, <1>2
  <2>. QED  BY <2>1
<1>. HIDE DEF sized
<1>7. sized * hf \in Nat /\ sized * hf >= 1
  BY <1>3, <1>6
<1>8. deep \in Nat /\ deep >= 1
  BY <1>3, <1>7
<1>. HIDE DEF deep
<1>9. Least(deep, top) \in Nat /\ Least(deep, top) >= 1
  BY <1>4, <1>8 DEF Least
<1>. HIDE DEF Least
<1>10. Least(deep, top) * wf \in Nat /\ Least(deep, top) * wf >= 1
  BY <1>3, <1>9
<1>11. Least(Least(deep, top) * wf, top) \in 1 .. top
  BY <1>4, <1>10 DEF Least
<1>. QED  BY <1>5, <1>11 DEF top

LEMMA CyclesType == Cycles \in Nat
  BY StagesAssumption DEF Cycles

LEMMA QuotientDoubles ==
  ASSUME NEW p \in Nat, NEW o \in Nat \ {0}
  PROVE  p \div o \in Nat /\ (2 * p) \div o \in Nat /\ 2 * (p \div o) <= (2 * p) \div o
<1>. DEFINE d == p \div o
            d2 == (2 * p) \div o
            r == p % o
            r2 == (2 * p) % o
<1>1. p = o * d + r /\ r \in 0 .. o - 1 /\ d \in Nat
  BY Division, DivideMono
<1>2. 2 * p = o * d2 + r2 /\ r2 \in 0 .. o - 1 /\ d2 \in Nat
  BY Division, DivideMono
<1>. HIDE DEF d, d2, r, r2
<1>3. 2 * d <= d2
  <2>1. SUFFICES ASSUME d2 + 1 <= 2 * d PROVE FALSE
    BY <1>1, <1>2
  <2>2. (d2 + 1) * o <= (2 * d) * o
    BY <1>1, <1>2, <2>1, ProductMono
  <2>3. (d2 + 1) * o = o * d2 + o /\ (2 * d) * o = 2 * (o * d)
    BY <1>1, <1>2
  <2>4. 2 * p < (d2 + 1) * o /\ (2 * d) * o <= 2 * p
    BY <1>1, <1>2, <2>3
  <2>5. (d2 + 1) * o \in Int /\ (2 * d) * o \in Int
    BY <1>1, <1>2
  <2>. QED  BY <2>2, <2>4, <2>5
<1>. QED  BY <1>1, <1>2, <1>3 DEF d, d2

(* The bound on the length of havoc.                                       *)
HavocLimit(c, p, o) == AtLeast(((c * p) \div HavocDiv) \div 100, HavocMin * AtLeast(p \div o, 1))

LEMMA HavocLimitDoubles ==
  ASSUME NEW c \in Nat, NEW o \in Nat \ {0}, NEW p \in Nat, p >= o, NEW s \in Nat,
         s <= HavocLimit(c, p, o)
  PROVE  2 * s <= HavocLimit(c, 2 * p, o)
<1>. DEFINE a == ((c * p) \div HavocDiv) \div 100
            a2 == ((c * (2 * p)) \div HavocDiv) \div 100
            b == AtLeast(p \div o, 1)
            b2 == AtLeast((2 * p) \div o, 1)
<1>1. HavocMin \in Nat
  BY StagesAssumption
<1>2. a \in Nat /\ a2 \in Nat /\ 2 * a <= a2
  <2>. DEFINE q == c * p
              h == q \div HavocDiv
              h2 == (2 * q) \div HavocDiv
  <2>1. q \in Nat /\ c * (2 * p) = 2 * q
    BY Products
  <2>. HIDE DEF q
  <2>2. HavocDiv \in Nat \ {0}
    BY StagesAssumption
  <2>3. h \in Nat /\ h2 \in Nat /\ 2 * h <= h2
    BY <2>1, <2>2, QuotientDoubles
  <2>. HIDE DEF h, h2
  <2>4. h \div 100 \in Nat /\ h2 \div 100 \in Nat /\ 2 * (h \div 100) <= h2 \div 100
    BY <2>3
  <2>. QED  BY <2>1, <2>4 DEF h, h2, q
<1>3. b \in Nat /\ b2 \in Nat /\ 2 * b <= b2
  <2>. DEFINE d == p \div o
              d2 == (2 * p) \div o
  <2>1. d \in Nat /\ d2 \in Nat /\ 2 * d <= d2
    BY QuotientDoubles
  <2>2. d >= 1
    <3>1. p = o * d + (p % o) /\ p % o \in 0 .. o - 1
      BY Division
    <3>. HIDE DEF d
    <3>2. SUFFICES ASSUME d = 0 PROVE FALSE
      BY <2>1
    <3>. QED  BY <3>1, <3>2
  <2>. HIDE DEF d, d2
  <2>3. AtLeast(d, 1) = d /\ AtLeast(d2, 1) = d2
    BY <2>1, <2>2 DEF AtLeast
  <2>. QED  BY <2>1, <2>3 DEF d, d2
<1>4. HavocMin * b \in Nat /\ HavocMin * b2 \in Nat /\ 2 * (HavocMin * b) <= HavocMin * b2
  <2>. HIDE DEF b, b2
  <2>1. HavocMin * (2 * b) = 2 * (HavocMin * b)
    BY <1>1, <1>3
  <2>2. (2 * b) * HavocMin <= b2 * HavocMin
    BY <1>1, <1>3, ProductMono
  <2>. QED  BY <1>1, <1>3, <2>1, <2>2, Products
<1>5. s <= AtLeast(a, HavocMin * b)
  BY DEF HavocLimit
<1>. HIDE DEF a, a2, b, b2
<1>6. 2 * s <= AtLeast(a2, HavocMin * b2)
  BY <1>2, <1>4, <1>5 DEF AtLeast
<1>. QED  BY <1>6 DEF HavocLimit, a2, b2

LEMMA HavocLimitAtFirst ==
  ASSUME NEW c \in Nat, NEW o \in Nat \ {0}, NEW p \in Nat
  PROVE  /\ AtLeast(((c * p) \div HavocDiv) \div 100, HavocMin) \in Nat
         /\ AtLeast(((c * p) \div HavocDiv) \div 100, HavocMin) > 0
         /\ AtLeast(((c * p) \div HavocDiv) \div 100, HavocMin) <= HavocLimit(c, p, o)
<1>. DEFINE a == ((c * p) \div HavocDiv) \div 100
            b == AtLeast(p \div o, 1)
<1>1. HavocMin \in Nat /\ HavocMin > 0
  BY StagesAssumption
<1>2. a \in Nat
  <2>1. c * p \in Nat /\ HavocDiv \in Nat \ {0}
    BY Products, StagesAssumption
  <2>2. (c * p) \div HavocDiv \in Nat
    BY <2>1, QuotientDoubles
  <2>. QED  BY <2>2
<1>3. b \in Nat /\ b > 0
  <2>1. p \div o \in Nat
    BY DivideMono
  <2>. QED  BY <2>1 DEF AtLeast
<1>4. HavocMin * b \in Nat /\ HavocMin <= HavocMin * b
  <2>. HIDE DEF b
  <2>. QED  BY <1>1, <1>3, Products
<1>. HIDE DEF a, b
<1>5. /\ AtLeast(a, HavocMin) \in Nat /\ AtLeast(a, HavocMin) > 0
      /\ AtLeast(a, HavocMin) <= AtLeast(a, HavocMin * b)
  BY <1>1, <1>2, <1>4 DEF AtLeast
<1>. QED  BY <1>5 DEF HavocLimit, a, b

(* The lengths of blocks.                                                  *)
LEMMA BlocksAscend ==
  /\ Len(Blocks) \in Nat \ {0} /\ BlockMax \in Nat
  /\ \A c \in 1 .. Len(Blocks) : Blocks[c] \in Nat \ {0} /\ Blocks[c] <= BlockMax
<1>. DEFINE n == Len(Blocks)
            Bad == {d \in Nat : d < n /\ ~ (Blocks[n - d] <= Blocks[n])}
<1>1. n \in Nat \ {0} /\ \A c \in 1 .. n : Blocks[c] \in Nat \ {0}
  <2>1. Blocks \in Seq(Nat \ {0}) /\ Blocks # <<>>
    BY StagesAssumption
  <2>. QED  BY <2>1, SeqFacts
<1>2. \A c \in 1 .. n - 1 : Blocks[c] <= Blocks[c + 1]
  BY StagesAssumption
<1>. HIDE DEF n
<1>3. Bad = {}
  <2>1. SUFFICES ASSUME Bad # {} PROVE FALSE
    OBVIOUS
  <2>2. PICK d \in Bad : \A e \in Bad : d <= e
    <3>1. Bad \subseteq Nat
      OBVIOUS
    <3>. HIDE DEF Bad
    <3>. QED  BY <2>1, <3>1, LeastNat
  <2>3. d # 0 /\ d \in Nat /\ d < n /\ ~ (Blocks[n - d] <= Blocks[n])
    <3>1. Blocks[n] <= Blocks[n] /\ n - 0 = n
      BY <1>1
    <3>. QED  BY <2>2, <3>1
  <2>4. d - 1 \in Nat /\ d - 1 < n /\ d - 1 < d
    BY <1>1, <2>3
  <2>5. Blocks[n - (d - 1)] <= Blocks[n]
    BY <2>2, <2>4
  <2>6. n - d \in 1 .. n - 1 /\ (n - d) + 1 = n - (d - 1) /\ n - (d - 1) \in 1 .. n /\ n - d \in 1 .. n
    BY <1>1, <2>3
  <2>7. Blocks[n - d] <= Blocks[n - (d - 1)]
    BY <1>2, <2>6
  <2>8. Blocks[n - d] \in Nat /\ Blocks[n - (d - 1)] \in Nat /\ Blocks[n] \in Nat
    BY <1>1, <2>6
  <2>. QED  BY <2>3, <2>5, <2>7, <2>8
<1>4. ASSUME NEW c \in 1 .. n PROVE Blocks[c] <= Blocks[n]
  <2>1. n - c \in Nat /\ n - c < n /\ n - (n - c) = c
    BY <1>1
  <2>. QED  BY <1>3, <2>1
<1>. QED  BY <1>1, <1>4 DEF n, BlockMax

LEMMA BlockLen ==
  ASSUME NEW l \in Nat, NEW n \in ChooseBlockLen(l)
  PROVE  n \in Nat /\ n > 0 /\ n <= l /\ n <= BlockMax
<1>1. DOMAIN Blocks = 1 .. Len(Blocks)
  BY StagesAssumption, SeqFacts
<1>2. PICK c \in DOMAIN Blocks :
        LET low == IF c = 1 THEN 1 ELSE Blocks[c - 1]
        IN  n \in (IF low >= l THEN 1 ELSE low) .. Least(Blocks[c], l)
  BY DEF ChooseBlockLen
<1>. DEFINE low == IF c = 1 THEN 1 ELSE Blocks[c - 1]
<1>3. c \in 1 .. Len(Blocks) /\ (c # 1 => c - 1 \in 1 .. Len(Blocks))
  BY <1>1, BlocksAscend
<1>4. low \in Nat \ {0} /\ Blocks[c] \in Nat /\ Blocks[c] <= BlockMax /\ BlockMax \in Nat
  BY <1>3, BlocksAscend
<1>5. n \in (IF low >= l THEN 1 ELSE low) .. Least(Blocks[c], l)
  BY <1>2
<1>. HIDE DEF low
<1>. QED  BY <1>4, <1>5 DEF Least

-----------------------------------------------------------------------------
(***************************************************************************)
(* The steps, one part of the invariant at a time.                         *)
(***************************************************************************)
LEMMA ScoresStep == ASSUME IInv, Next PROVE Scores'
<1>. USE DEF Scores, fixed, havocVars
<1>1. Scores /\ HavocMaxMult \in Nat \ {0} /\ splice_cycle \in Nat
  BY StagesAssumption DEF IInv, Types
<1>2. CASE Score
  <2>1. perf_score' \in 1 .. HavocMaxMult * 100 /\ orig_perf' = perf_score' /\ pc' = "enter"
    BY <1>1, <1>2, ScoreType DEF Score
  <2>. QED  BY <1>1, <2>1
<1>3. CASE HavocStage
  BY <1>1, <1>3 DEF HavocStage
<1>4. CASE HavocRun
  <2>1. pc' = "hloop" /\ orig_perf' = orig_perf
        /\ \/ perf_score' = perf_score
           \/ perf_score <= HavocMaxMult * 100 /\ perf_score' = 2 * perf_score
    BY <1>4 DEF HavocRun
  <2>. QED  BY <1>1, <2>1
<1>5. CASE Splice
  <2>1. pc' \in {"splice", "havoc"} /\ splice_cycle' = splice_cycle + 1 /\ UNCHANGED <<orig_perf, perf_score>>
    BY <1>5 DEF Splice, SpliceWith
  <2>. QED  BY <1>1, <2>1
<1>6. CASE \/ SkipDeterministic \/ EnterDeterministic \/ NextStage \/ DeterministicDone
           \/ SkipPosition \/ EnterPosition \/ LeavePosition \/ EndStage \/ SkipItem \/ Mutate
  BY <1>1, <1>6 DEF SkipDeterministic, EnterDeterministic, NextStage, DeterministicDone,
       SkipPosition, EnterPosition, LeavePosition, EndStage, SkipItem, Mutate
<1>7. CASE RunDone \/ RunAbandoned
  BY <1>1, <1>7 DEF RunDone, RunAbandoned, Abandons
<1>8. CASE HavocStart \/ Tweak \/ HavocAbandoned \/ HavocDone \/ SpliceDone \/ Leave
  BY <1>1, <1>8 DEF HavocStart, Tweak, HavocAbandoned, HavocDone, SpliceDone, Leave, Abandons
<1>. QED  BY <1>2, <1>3, <1>4, <1>5, <1>6, <1>7, <1>8 DEF Next

(* Every eighth flip of the first stage reads a byte of the entry.         *)
LEMMA HereType ==
  ASSUME IInv, RunDone, Now = "flip1"
  PROVE  out_buf'[at \div W + 1] \in Byte
<1>1. /\ stage \in 1 .. 15 /\ in_buf \in Seq(Byte) /\ in_buf # <<>> /\ out_buf \in Seq(Byte)
      /\ at \in Nat /\ at < Positions(Now) /\ Size >= Width(Now)
      /\ out_buf = FlipBits(in_buf, at, Bits(Now))
  BY DEF RunDone, IInv, Types, Place, Buffer, InStage, Flips
<1>2. Now \in StageNames /\ Bits(Now) \in Nat
  BY <1>1, NowIs DEF Bits
<1>3. at \div W + 1 \in 1 .. Size
  BY <1>1, <1>2, PositionsType
<1>4. out_buf' = in_buf
  BY <1>1, <1>2, FlipBitsTwice DEF RunDone, UndoneAfterRun, Flips
<1>. QED  BY <1>1, <1>3, <1>4, SeqFacts DEF Size

LEMMA DictionaryStep == ASSUME IInv, Next PROVE Dictionary'
<1>1. CASE UNCHANGED dictVars
  BY <1>1 DEF IInv, Dictionary, dictVars, Used, ByLength
<1>2. CASE RunDone
  <2>1. CASE Now = "flip1" /\ at % W = W - 1 /\ ~ dumb_mode
    <3>1. PICK cksum \in Cksums : Collect(cksum)
      BY <1>2, <2>1 DEF RunDone
    <3>. DEFINE here == out_buf'[at \div W + 1]
    <3>2. here \in Byte
      BY <1>2, <2>1, HereType
    <3>. HIDE DEF here
    <3>3. a_collect \in Seq(Byte) /\ Append(a_collect, here) \in Seq(Byte) /\ Dictionary
      BY <3>2, AppendProperties DEF IInv, Types
    <3>4. \/ UNCHANGED dictVars
          \/ Offer(a_collect)
          \/ Offer(Append(a_collect, here))
      BY <3>1 DEF Collect, here
    <3>. QED  BY <1>1, <3>3, <3>4, OfferKeeps
  <2>2. CASE ~ (Now = "flip1" /\ at % W = W - 1 /\ ~ dumb_mode)
    BY <1>1, <1>2, <2>2 DEF RunDone
  <2>. QED  BY <2>1, <2>2
<1>3. CASE Score \/ SkipDeterministic \/ EnterDeterministic \/ NextStage \/ DeterministicDone
           \/ SkipPosition \/ EnterPosition \/ LeavePosition \/ EndStage \/ SkipItem \/ Mutate
  BY <1>1, <1>3 DEF Score, SkipDeterministic, EnterDeterministic, NextStage, DeterministicDone,
       SkipPosition, EnterPosition, LeavePosition, EndStage, SkipItem, Mutate
<1>4. CASE RunAbandoned \/ HavocStage \/ HavocStart \/ Tweak \/ HavocRun \/ HavocAbandoned
           \/ HavocDone \/ Splice \/ SpliceDone \/ Leave
  BY <1>1, <1>4 DEF RunAbandoned, HavocStage, HavocStart, Tweak, HavocRun, HavocAbandoned,
       HavocDone, Splice, SpliceDone, Leave
<1>. QED  BY <1>2, <1>3, <1>4 DEF Next

LEMMA HavocStep == ASSUME IInv, Next PROVE Havoc'
<1>. USE DEF havocVars, stageVars, bufVars
<1>1. /\ Havoc /\ in_buf \in Seq(Byte) /\ (pc # "done" => in_buf # <<>>) /\ Size \in Nat
      /\ (pc # "done" => Size >= 1)
      /\ stage_cur \in Nat /\ stage_max \in Nat /\ temp_len \in Nat /\ cap \in Nat
  BY SeqFacts DEF IInv, Types, Size
<1>2. MaxFile \in Nat /\ HavocMaxMult \in Nat
  BY StagesAssumption
<1>3. /\ orig_perf \in Nat \ {0} /\ perf_score \in Nat /\ perf_score >= orig_perf
      /\ orig_perf <= HavocMaxMult * 100 /\ perf_score <= 2 * HavocMaxMult * 100
  BY <1>2 DEF IInv, Scores
<1>4. HavocEnds <=> (pc \in {"hloop", "tweak"} =>
        /\ stage_cur <= stage_max /\ stage_max <= HavocLimit(Cycles, perf_score, orig_perf)
        /\ perf_score <= 2 * HavocMaxMult * 100)
  BY DEF HavocEnds, HavocLimit
<1>5. HavocEnds' <=> (pc' \in {"hloop", "tweak"} =>
        /\ stage_cur' <= stage_max' /\ stage_max' <= HavocLimit(Cycles', perf_score', orig_perf')
        /\ perf_score' <= 2 * HavocMaxMult * 100)
  BY DEF HavocEnds, HavocLimit
<1>6. UNCHANGED <<doing_det, splice_cycle>> => Cycles' = Cycles
  BY DEF Cycles
<1>7. CASE pc' \notin {"hloop", "tweak"}
  BY <1>7 DEF Havoc, HavocFits, HavocEnds
<1>8. CASE HavocStage
  <2>1. /\ pc = "havoc" /\ pc' = "hloop" /\ orig_perf' = orig_perf /\ Cycles' = Cycles
        /\ perf_score' \in {orig_perf, perf_score} /\ stage_cur' = 0
        /\ stage_max' = AtLeast(((Cycles * perf_score') \div HavocDiv) \div 100, HavocMin)
        /\ temp_len' = Size /\ cap' = Size /\ Size' = Size
    BY <1>6, <1>8 DEF HavocStage, Size
  <2>2. /\ stage_max' \in Nat /\ stage_max' > 0
        /\ stage_max' <= HavocLimit(Cycles', perf_score', orig_perf')
    BY ZenonT(60), <1>3, <2>1, CyclesType, HavocLimitAtFirst
  <2>3. HavocEnds'
    <3>1. perf_score' <= 2 * HavocMaxMult * 100
      BY <1>2, <1>3, <2>1
    <3>2. stage_cur' <= stage_max'
      BY <2>1, <2>2
    <3>. QED  BY <1>5, <2>2, <3>1, <3>2
  <2>4. HavocFits'
    BY <1>1, <1>2, <2>1 DEF HavocFits, AtLeast
  <2>. QED  BY <2>1, <2>3, <2>4 DEF Havoc
<1>9. CASE HavocStart
  <2>1. /\ pc = "hloop" /\ pc' = "tweak" /\ Cycles' = Cycles /\ Size' = Size /\ stage_cur < stage_max
        /\ UNCHANGED <<orig_perf, perf_score, stage_cur, stage_max, temp_len, cap>>
    BY <1>6, <1>9 DEF HavocStart, Size
  <2>2. HavocEnds'
    BY <1>1, <1>4, <1>5, <2>1 DEF Havoc
  <2>3. HavocFits'
    BY <1>1, <2>1 DEF Havoc, HavocFits
  <2>. QED  BY <2>1, <2>2, <2>3 DEF Havoc
<1>10. CASE Tweak
  <2>1. /\ pc = "tweak" /\ pc' = "tweak" /\ Cycles' = Cycles /\ Size' = Size
        /\ UNCHANGED <<orig_perf, perf_score, stage_cur, stage_max>>
    BY <1>6, <1>10 DEF Tweak, Size
  <2>2. HavocEnds'
    BY <1>1, <1>4, <1>5, <2>1 DEF Havoc
  <2>3. temp_len \in 1 .. AtLeast(Size, MaxFile) /\ temp_len <= cap
    BY <1>1, <2>1 DEF Havoc, HavocFits
  <2>4. AtLeast(Size, MaxFile) \in Nat /\ MaxFile <= AtLeast(Size, MaxFile)
    BY <1>1, <1>2 DEF AtLeast
  <2>5. temp_len' \in 1 .. AtLeast(Size, MaxFile) /\ temp_len' <= cap'
    <3>1. CASE TweakInPlace
      BY <2>3, <3>1 DEF TweakInPlace
    <3>2. CASE DeleteBytes
      <4>1. PICK n \in ChooseBlockLen(temp_len - 1) : temp_len' = temp_len - n
        BY <3>2 DEF DeleteBytes
      <4>2. temp_len - 1 \in Nat /\ cap' = cap
        BY <2>3, <2>4, <3>2 DEF DeleteBytes
      <4>3. n \in Nat /\ n <= temp_len - 1
        BY <4>2, BlockLen
      <4>. QED  BY <1>1, <2>3, <2>4, <4>1, <4>2, <4>3
    <3>3. CASE CloneBytes
      <4>1. PICK n \in ChooseBlockLen(temp_len) \cup ChooseBlockLen(BlockMax) : temp_len' = temp_len + n
        BY <3>3 DEF CloneBytes
      <4>2. BlockMax \in Nat
        BY BlocksAscend
      <4>3. n \in Nat /\ n <= BlockMax
        BY <1>1, <4>2, BlockLen
      <4>4. temp_len + BlockMax < MaxFile /\ cap' = temp_len'
        BY <3>3 DEF CloneBytes
      <4>. QED  BY <1>1, <1>2, <2>3, <2>4, <4>1, <4>2, <4>3, <4>4
    <3>4. CASE InsertToken
      <4>1. PICK t \in HavocTokens : temp_len + Len(t) < MaxFile /\ temp_len' = temp_len + Len(t)
        BY <3>4 DEF InsertToken
      <4>2. Len(t) \in Nat
        <5>1. CASE \E k \in DOMAIN extras : t = extras[k]
          BY <5>1, SeqFacts DEF IInv, Dictionary
        <5>2. CASE \E k \in DOMAIN a_extras : t = a_extras[k].data
          <6>1. \A k \in DOMAIN a_extras : a_extras[k].data \in Seq(Byte)
            <7>1. \A k \in DOMAIN a_extras : a_extras[k] \in AutoToken
              BY SeqFacts DEF IInv, Dictionary
            <7>. QED  BY <7>1 DEF AutoToken
          <6>. QED  BY <5>2, <6>1, SeqFacts
        <5>. QED  BY <5>1, <5>2 DEF HavocTokens
      <4>3. cap' = temp_len'
        BY <3>4 DEF InsertToken
      <4>. QED  BY <1>1, <1>2, <2>3, <2>4, <4>1, <4>2, <4>3
    <3>. QED  BY <1>10, <3>1, <3>2, <3>3, <3>4 DEF Tweak
  <2>6. HavocFits'
    BY <2>1, <2>5 DEF HavocFits
  <2>. QED  BY <1>1, <2>1, <2>2, <2>6 DEF Havoc
<1>11. CASE HavocRun
  <2>1. /\ pc = "tweak" /\ pc' = "hloop" /\ Cycles' = Cycles /\ Size' = Size /\ orig_perf' = orig_perf
        /\ temp_len' = Size /\ cap' = (IF temp_len < Size THEN Size ELSE cap) /\ stage_cur' = stage_cur + 1
        /\ \/ stage_max' = stage_max /\ perf_score' = perf_score
           \/ /\ stage_max' = 2 * stage_max /\ perf_score' = 2 * perf_score
              /\ perf_score <= HavocMaxMult * 100
    BY <1>6, <1>11 DEF HavocRun, Size
  <2>2. stage_cur < stage_max /\ stage_max <= HavocLimit(Cycles, perf_score, orig_perf)
    BY <1>1, <1>4, <2>1 DEF Havoc
  <2>3. 2 * stage_max <= HavocLimit(Cycles, 2 * perf_score, orig_perf)
    BY <1>1, <1>3, <2>2, CyclesType, HavocLimitDoubles
  <2>4. stage_cur' <= stage_max' /\ perf_score' <= 2 * HavocMaxMult * 100
    BY <1>1, <1>2, <1>3, <2>1, <2>2
  <2>5. stage_max' <= HavocLimit(Cycles', perf_score', orig_perf')
    BY <2>1, <2>2, <2>3
  <2>6. HavocEnds'
    BY <1>5, <2>1, <2>4, <2>5
  <2>7. temp_len <= cap
    BY <1>1, <2>1 DEF Havoc, HavocFits
  <2>8. HavocFits'
    BY <1>1, <1>2, <2>1, <2>7 DEF HavocFits, AtLeast
  <2>. QED  BY <2>1, <2>6, <2>8 DEF Havoc
<1>12. CASE \/ Score \/ SkipDeterministic \/ EnterDeterministic \/ NextStage \/ DeterministicDone
            \/ SkipPosition \/ EnterPosition \/ LeavePosition \/ EndStage \/ SkipItem \/ Mutate
  <2>1. pc' \notin {"hloop", "tweak"}
    BY <1>12 DEF Score, SkipDeterministic, EnterDeterministic, NextStage, DeterministicDone,
       SkipPosition, EnterPosition, LeavePosition, EndStage, SkipItem, Mutate
  <2>. QED  BY <1>7, <2>1
<1>13. CASE RunDone \/ RunAbandoned \/ HavocAbandoned \/ HavocDone \/ Splice \/ SpliceDone \/ Leave
  <2>1. pc' \notin {"hloop", "tweak"}
    BY <1>13 DEF RunDone, RunAbandoned, HavocAbandoned, HavocDone, Splice, SpliceDone, Leave,
       SpliceWith, Abandons
  <2>. QED  BY <1>7, <2>1
<1>. QED  BY <1>8, <1>9, <1>10, <1>11, <1>12, <1>13 DEF Next

(* What the guards and the counters of a stage are made of stays the same  *)
(* while it runs; the tokens that flip1 finds do not matter to it.         *)
LEMMA StageFrame ==
  ASSUME UNCHANGED <<stage, in_buf, extras>>,
         UNCHANGED a_extras \/ (stage \in 1 .. 15 /\ Now = "flip1")
  PROVE  /\ Now' = Now /\ Size' = Size /\ Width(Now)' = Width(Now)
         /\ Positions(Now)' = Positions(Now) /\ Items(Now)' = Items(Now) /\ EffLen' = EffLen
         /\ UNCHANGED a_extras => \A k : Token(Now, k)' = Token(Now, k)
<1>1. Now' = Now /\ Size' = Size
  BY DEF Now, Size
<1>2. Width(Now)' = Width(Now)
  BY <1>1 DEF Width
<1>3. Positions(Now)' = Positions(Now)
  BY <1>1, <1>2 DEF Positions
<1>4. EffLen' = EffLen
  BY <1>1 DEF EffLen
<1>5. Items(Now)' = Items(Now)
  <2>1. CASE UNCHANGED a_extras
    BY <1>1, <2>1 DEF Items
  <2>2. CASE Now = "flip1"
    BY <1>1, <2>2 DEF Items, Arithmetic
  <2>. QED  BY <2>1, <2>2
<1>6. UNCHANGED a_extras => \A k : Token(Now, k)' = Token(Now, k)
  BY <1>1 DEF Token
<1>. QED  BY <1>1, <1>2, <1>3, <1>4, <1>5, <1>6

LEMMA InStageFacts ==
  ASSUME IInv, InStage
  PROVE  /\ stage \in 1 .. 15 /\ Now \in StageNames /\ Dictionary
         /\ in_buf \in Seq(Byte) /\ in_buf # <<>> /\ Size \in Nat /\ Size > 0 /\ Size >= Width(Now)
         /\ Positions(Now) \in Nat /\ Items(Now) \in Nat
         /\ at \in Nat /\ item \in Nat /\ stage_cur \in Nat /\ stage_max \in Nat
<1>1. stage \in 1 .. 15 /\ in_buf \in Seq(Byte) /\ in_buf # <<>> /\ Dictionary /\ Size >= Width(Now)
  BY DEF IInv, Types, Place, InStage
<1>2. Now \in StageNames
  BY <1>1, NowIs
<1>3. Positions(Now) \in Nat /\ Size \in Nat /\ Size > 0
  BY <1>1, <1>2, PositionsType
<1>. QED  BY <1>1, <1>2, <1>3, ItemsType DEF IInv, Types

LEMMA StageCount == Len(DetStages) = 15
  BY DEF DetStages

(* Where the next stage starts.                                            *)
LEMMA NextStageFacts ==
  ASSUME IInv, NextStage
  PROVE  /\ stage' \in 1 .. 15 /\ stage' > stage /\ Now' \in StageNames /\ Size' >= Width(Now)'
         /\ Positions(Now)' \in Nat /\ Items(Now)' \in Nat
         /\ stage_max' = Positions(Now)' * Items(Now)'
         /\ (stage < 4 => stage' <= 4)
         /\ eff_map' = IF stage' = 4 THEN FreshMap ELSE eff_map
<1>1. stage \in 0 .. 15 /\ Remaining \subseteq 1 .. 15 /\ Remaining # {}
  <2>1. stage \in 0 .. 15
    BY DEF IInv, Types
  <2>2. Remaining \subseteq stage + 1 .. 15
    BY StageCount DEF Remaining
  <2>3. Remaining # {}
    BY DEF NextStage
  <2>. QED  BY <2>1, <2>2, <2>3
<1>. DEFINE s == FirstOf(Remaining)
<1>2. s \in Remaining /\ \A k \in Remaining : s <= k
  <2>1. Remaining \subseteq Nat /\ Remaining # {}
    BY <1>1
  <2>. QED  BY <2>1, FirstOfLeast
<1>3. /\ stage' = s /\ stage_max' = Positions(DetStages[s]) * Items(DetStages[s])
      /\ eff_map' = IF DetStages[s] = "flip8" THEN FreshMap ELSE eff_map
      /\ UNCHANGED <<in_buf, no_arith, extras, a_extras>>
  BY DEF NextStage, bufVars, fixed, dictVars
<1>. HIDE DEF s
<1>4. s \in 1 .. 15 /\ s > stage /\ Applies(DetStages[s])
  BY <1>1, <1>2, StageCount DEF Remaining
<1>5. Now' = DetStages[s] /\ Size' = Size
  BY <1>3 DEF Now, Size
<1>6. Positions(Now)' = Positions(DetStages[s]) /\ Items(Now)' = Items(DetStages[s])
      /\ Width(Now)' = Width(DetStages[s])
  BY <1>3, <1>5 DEF Positions, Items, Width
<1>7. Size >= Width(DetStages[s])
  BY <1>4 DEF Applies
<1>8. Now' \in StageNames /\ (s = 4 <=> Now' = "flip8")
  <2>1. stage' \in 1 .. 15
    BY <1>3, <1>4
  <2>2. (stage \in 1 .. 15 => Now \in StageNames /\ (stage = 4 <=> Now = "flip8"))'
    <3>1. stage \in 1 .. 15 => Now \in StageNames /\ (stage = 4 <=> Now = "flip8")
      BY NowIs
    <3>. QED
      BY DEF Now, DetStages, StageNames, Flips, UndoneAtOnce, KeepsChange, Arithmetic, Overwrites
  <2>. QED  BY <1>3, <2>1, <2>2
<1>9. stage < 4 => s <= 4
  <2>1. SUFFICES ASSUME stage < 4 PROVE 4 \in Remaining
    BY <1>2
  <2>2. Size >= 1
    BY SeqFacts DEF IInv, Types, NextStage, Size
  <2>3. Applies("flip8")
    BY <2>2 DEF Applies, Width, Arithmetic
  <2>4. DetStages[4] = "flip8" /\ 4 \in stage + 1 .. Len(DetStages)
    BY <1>1, <2>1, StageCount DEF DetStages
  <2>. QED  BY <2>3, <2>4 DEF Remaining
<1>10. eff_map' = IF stage' = 4 THEN FreshMap ELSE eff_map
  BY <1>3, <1>5, <1>8
<1>11. DetStages[s] \in StageNames
  BY <1>5, <1>8
<1>12. Positions(DetStages[s]) \in Nat
  <2>1. in_buf \in Seq(Byte) /\ in_buf # <<>>
    BY DEF IInv, Types, NextStage
  <2>. QED  BY <1>7, <1>11, <2>1, PositionsType
<1>13. Items(DetStages[s]) \in Nat
  BY <1>11, ItemsType DEF IInv
<1>. QED  BY <1>3, <1>4, <1>5, <1>6, <1>7, <1>8, <1>9, <1>10, <1>12, <1>13

(* The number of changes ahead.                                            *)
LEMMA Ahead ==
  ASSUME NEW p \in Nat, NEW a \in Nat, NEW n \in Nat
  PROVE  /\ (p - a) * n = (p - 1 - a) * n + n
         /\ (p - (a + 1)) * n = (p - 1 - a) * n
         /\ (p - 1 - a) * n \in Int /\ (p - a) * n \in Int /\ (a < p => (p - 1 - a) * n >= 0)
         /\ (p - 0) * n = p * n /\ (p - p) * n = 0
<1>1. p - a = (p - 1 - a) + 1 /\ p - (a + 1) = p - 1 - a /\ p - 1 - a \in Int
  OBVIOUS
<1>2. ((p - 1 - a) + 1) * n = (p - 1 - a) * n + 1 * n
  BY <1>1, Distributes
<1>3. a < p => (p - 1 - a) * n >= 0
  <2>1. SUFFICES ASSUME a < p PROVE (p - 1 - a) * n >= 0
    OBVIOUS
  <2>2. p - 1 - a \in Nat
    BY <2>1
  <2>. QED  BY <2>2, Products
<1>4. (p - 0) * n = p * n /\ (p - p) * n = 0
  OBVIOUS
<1>. QED  BY <1>1, <1>2, <1>3, <1>4

LEMMA PlaceStep == ASSUME IInv, Next PROVE Place' /\ stage_max' \in Nat /\ stage' \in 0 .. 15
<1>. USE DEF stageVars, dictVars, bufVars
<1>. DEFINE P == Positions(Now)
            I == Items(Now)
<1>0. Place /\ stage \in 0 .. 15 /\ stage_max \in Nat
  BY DEF IInv, Types
<1>1. ASSUME pc' \notin {"score", "enter", "next", "pos", "item", "run"} PROVE Place'
  BY <1>1 DEF Place, InStage, StageCounts
<1>2. CASE Score \/ EnterDeterministic
  BY <1>0, <1>2 DEF Score, EnterDeterministic, Place, InStage, StageCounts
<1>3. CASE NextStage
  <2>1. pc' = "pos" /\ at' = 0 /\ stage_cur' = 0 /\ UNCHANGED <<in_buf, extras, a_extras>>
    BY <1>3 DEF NextStage
  <2>2. /\ stage' \in 1 .. 15 /\ Now' \in StageNames /\ Size' >= Width(Now)'
        /\ stage_max' = Positions(Now)' * Items(Now)'
    BY <1>3, NextStageFacts
  <2>3. Positions(Now)' \in Nat /\ Items(Now)' \in Nat
    BY <1>3, NextStageFacts
  <2>4. stage_max' \in Nat /\ (Positions(Now)' - 0) * Items(Now)' = stage_max'
    BY <2>2, <2>3, Products, Ahead
  <2>5. at' <= Positions(Now)' /\ stage_cur' + (Positions(Now)' - at') * Items(Now)' = stage_max'
    BY <2>1, <2>3, <2>4
  <2>. QED  BY <2>1, <2>2, <2>4, <2>5 DEF Place, InStage, StageCounts
<1>4. CASE SkipPosition \/ EnterPosition \/ LeavePosition \/ EndStage
  <2>1. /\ UNCHANGED <<stage, in_buf, extras, a_extras>> /\ (pc = "pos" \/ pc = "item") /\ InStage
        /\ stage' \in 0 .. 15
    BY <1>0, <1>4 DEF SkipPosition, EnterPosition, LeavePosition, EndStage, InStage
  <2>2. P \in Nat /\ I \in Nat /\ at \in Nat /\ stage > 0 /\ Size >= Width(Now) /\ stage_cur \in Nat
    BY <2>1, InStageFacts
  <2>3. Now' = Now /\ Size' = Size /\ Width(Now)' = Width(Now) /\ Positions(Now)' = P /\ Items(Now)' = I
    BY <2>1, StageFrame
  <2>. HIDE DEF P, I
  <2>. DEFINE m == (P - 1 - at) * I
  <2>4. (P - at) * I = m + I /\ (P - (at + 1)) * I = m /\ m \in Int /\ (at < P => m >= 0)
        /\ (P - P) * I = 0
    BY <2>2, Ahead
  <2>5. pc = "pos" => at <= P /\ stage_cur + (P - at) * I = stage_max
    BY <1>0 DEF Place, P, I
  <2>6. pc = "item" => /\ at < P /\ item \in 1 .. I + 1
                       /\ stage_cur + m + (I + 1 - item) = stage_max
    BY <1>0 DEF Place, P, I
  <2>. HIDE DEF m
  <2>7. CASE SkipPosition
    <3>1. pc' = "pos" /\ at < P /\ at' = at + 1 /\ stage_max' = stage_max - I /\ stage_cur' = stage_cur
          /\ pc = "pos"
      BY <2>7 DEF SkipPosition, P, I
    <3>2. stage_max' = stage_cur + m /\ m >= 0
      BY <1>0, <2>2, <2>4, <2>5, <3>1
    <3>3. at' <= Positions(Now)' /\ stage_cur' + (Positions(Now)' - at') * Items(Now)' = stage_max'
      BY <2>2, <2>3, <2>4, <3>1, <3>2
    <3>. QED  BY <2>1, <2>2, <2>3, <2>4, <3>1, <3>2, <3>3 DEF Place, InStage, StageCounts
  <2>8. CASE EnterPosition
    <3>1. pc' = "item" /\ at < P /\ item' = 1 /\ UNCHANGED <<at, stage_max, stage_cur>> /\ pc = "pos"
      BY <2>8 DEF EnterPosition, P
    <3>2. stage_cur + m + (I + 1 - 1) = stage_max
      BY <1>0, <2>2, <2>4, <2>5, <3>1
    <3>3. stage_cur' + (Positions(Now)' - 1 - at') * Items(Now)' + (Items(Now)' + 1 - item') = stage_max'
      BY <2>3, <3>1, <3>2 DEF m
    <3>4. at' < Positions(Now)' /\ item' \in 1 .. Items(Now)' + 1
      BY <2>2, <2>3, <3>1
    <3>. QED  BY <1>0, <2>1, <2>2, <2>3, <3>1, <3>3, <3>4 DEF Place, InStage, StageCounts
  <2>9. CASE LeavePosition
    <3>1. pc' = "pos" /\ item > I /\ at' = at + 1 /\ UNCHANGED <<stage_max, stage_cur>> /\ pc = "item"
      BY <2>9 DEF LeavePosition, I
    <3>2. item = I + 1
      BY <2>2, <2>6, <3>1
    <3>3. stage_cur + m = stage_max
      BY <1>0, <2>2, <2>4, <2>6, <3>1, <3>2
    <3>4. at' <= Positions(Now)' /\ stage_cur' + (Positions(Now)' - at') * Items(Now)' = stage_max'
      BY <2>2, <2>3, <2>4, <2>6, <3>1, <3>3
    <3>. QED  BY <1>0, <2>1, <2>2, <2>3, <3>1, <3>4 DEF Place, InStage, StageCounts
  <2>10. CASE EndStage
    <3>1. pc' = "next" /\ pc = "pos" /\ at = P /\ UNCHANGED <<stage_max, stage_cur>>
      BY <2>10 DEF EndStage, P
    <3>2. stage_cur = stage_max
      BY <1>0, <2>2, <2>4, <2>5, <3>1
    <3>. QED  BY <1>0, <2>1, <3>1, <3>2 DEF Place, InStage, StageCounts
  <2>. QED  BY <1>4, <2>7, <2>8, <2>9, <2>10
<1>5. CASE SkipItem \/ Mutate \/ RunDone
  <2>1. /\ UNCHANGED <<stage, in_buf, at>> /\ (pc = "run" \/ pc = "item") /\ InStage /\ item <= I
        /\ stage' \in 0 .. 15
    BY <1>0, <1>5 DEF SkipItem, Mutate, RunDone, InStage, I, Place
  <2>2. P \in Nat /\ I \in Nat /\ at \in Nat /\ stage > 0 /\ Size >= Width(Now) /\ stage_cur \in Nat
        /\ stage \in 1 .. 15
    BY <2>1, InStageFacts
  <2>3. /\ UNCHANGED extras
        /\ UNCHANGED a_extras \/ Now = "flip1"
    BY <1>5 DEF SkipItem, Mutate, RunDone, Collect, Offer, MaybeAddAuto
  <2>4. Now' = Now /\ Size' = Size /\ Width(Now)' = Width(Now) /\ Positions(Now)' = P /\ Items(Now)' = I
    BY <2>1, <2>2, <2>3, StageFrame
  <2>. DEFINE m == (P - 1 - at) * I
  <2>. HIDE DEF P, I
  <2>5. m \in Int /\ (at < P => m >= 0)
    BY <2>2, Ahead
  <2>6. at < P /\ item \in 1 .. I + 1 /\ stage_cur + m + (I + 1 - item) = stage_max
    BY <1>0, <2>1 DEF Place, P, I
  <2>. HIDE DEF m
  <2>7. /\ item' \in 1 .. I + 1 /\ stage_cur' + m + (I + 1 - item') = stage_max' /\ stage_max' \in Nat
        /\ pc' \in {"item", "run"} /\ (pc' = "run" => item' <= I)
    <3>1. CASE SkipItem
      BY <1>0, <2>1, <2>2, <2>5, <2>6, <3>1 DEF SkipItem
    <3>2. CASE Mutate
      BY <1>0, <2>1, <2>2, <2>5, <2>6, <3>2 DEF Mutate
    <3>3. CASE RunDone
      BY <1>0, <2>1, <2>2, <2>5, <2>6, <3>3 DEF RunDone
    <3>. QED  BY <1>5, <3>1, <3>2, <3>3
  <2>8. at' < Positions(Now)' /\ item' \in 1 .. Items(Now)' + 1
        /\ stage_cur' + (Positions(Now)' - 1 - at') * Items(Now)' + (Items(Now)' + 1 - item') = stage_max'
    BY <2>1, <2>4, <2>6, <2>7 DEF m
  <2>. QED  BY <2>1, <2>2, <2>4, <2>7, <2>8 DEF Place, InStage, StageCounts
<1>6. CASE SkipDeterministic \/ DeterministicDone \/ RunAbandoned
  BY <1>0, <1>1, <1>6 DEF SkipDeterministic, DeterministicDone, RunAbandoned, Abandons
<1>7. CASE HavocStart \/ Tweak \/ HavocAbandoned \/ HavocDone \/ Splice \/ SpliceDone \/ Leave
  BY <1>0, <1>1, <1>7 DEF HavocStart, Tweak, HavocAbandoned, HavocDone, Splice, SpliceWith,
       SpliceDone, Leave, Abandons
<1>8. CASE HavocStage
  <2>1. pc' = "hloop" /\ stage' = stage
        /\ stage_max' = AtLeast(((Cycles * perf_score') \div HavocDiv) \div 100, HavocMin)
        /\ perf_score' \in {orig_perf, perf_score}
    BY <1>8 DEF HavocStage
  <2>2. orig_perf \in Nat \ {0} /\ perf_score \in Nat
    <3>1. HavocMaxMult \in Nat
      BY StagesAssumption
    <3>. QED  BY <3>1 DEF IInv, Scores
  <2>3. stage_max' \in Nat
    BY ZenonT(60), <2>1, <2>2, CyclesType, HavocLimitAtFirst
  <2>. QED  BY <1>0, <1>1, <2>1, <2>3
<1>9. CASE HavocRun
  BY <1>0, <1>1, <1>9 DEF HavocRun
<1>. QED  BY <1>2, <1>3, <1>4, <1>5, <1>6, <1>7, <1>8, <1>9 DEF Next

(* The element of the effector map for a byte of the buffer.               *)
LEMMA EffPosIn ==
  ASSUME Size \in Nat, NEW p \in Nat, p < Size
  PROVE  EffPos(p) \in 0 .. EffLen - 1
<1>1. EffScale \in Nat \ {0}
  BY StagesAssumption
<1>. DEFINE n == Size \div EffScale
            r == Size % EffScale
            q == p \div EffScale
<1>. HIDE DEF Size
<1>2. n \in Nat /\ r \in 0 .. EffScale - 1 /\ Size = EffScale * n + r
  BY <1>1, Division, DivideMono
<1>3. q \in Nat /\ q <= n
  BY <1>1, DivideMono
<1>4. r = 0 => q < n
  <2>. SUFFICES ASSUME r = 0 PROVE q < n
    OBVIOUS
  <2>1. p < EffScale * n
    <3>1. EffScale * n \in Nat
      BY <1>1, <1>2, Products
    <3>. QED  BY <1>2, <3>1
  <2>. QED  BY <1>1, <1>2, <2>1, DivideBelow
<1>5. EffLen = n + (IF r # 0 THEN 1 ELSE 0) /\ EffPos(p) = q
  BY DEF EffLen, EffPos
<1>. HIDE DEF n, r, q
<1>. QED  BY <1>2, <1>3, <1>4, <1>5

LEMMA EffectsStep == ASSUME IInv, Next PROVE Effects'
<1>. USE DEF stageVars, dictVars, bufVars, effVars
<1>1. Effects /\ stage \in 0 .. 15
  BY DEF IInv, Types
<1>2. CASE NextStage
  <2>1. felt' = felt /\ UNCHANGED in_buf
    BY <1>2 DEF NextStage
  <2>2. stage' \in 1 .. 15 /\ stage' > stage /\ (stage < 4 => stage' <= 4)
        /\ eff_map' = IF stage' = 4 THEN FreshMap ELSE eff_map
    BY <1>2, NextStageFacts
  <2>3. stage' = 4 => felt' = {}
    BY <1>1, <2>1, <2>2 DEF Effects
  <2>4. Now' = "flip8" <=> stage' = 4
    BY <2>2 DEF Now, DetStages
  <2>5. DOMAIN FreshMap = 0 .. EffLen' - 1
    BY <2>1 DEF FreshMap, EffLen, Size
  <2>. QED  BY <1>1, <2>1, <2>2, <2>3, <2>4, <2>5 DEF Effects
<1>3. CASE DeterministicDone \/ Leave
  <2>1. felt' = {} /\ pc' \in {"havoc", "done"}
    BY <1>3 DEF DeterministicDone, Leave
  <2>. QED  BY <2>1 DEF Effects, InStage
<1>4. CASE EndStage
  <2>1. pc' = "next" /\ felt' = felt /\ stage' = stage /\ DOMAIN eff_map' = DOMAIN eff_map
        /\ \A e \in DOMAIN eff_map : eff_map[e] => eff_map'[e]
    BY <1>4 DEF EndStage
  <2>. QED  BY <1>1, <2>1 DEF Effects, InStage
<1>5. CASE RunDone /\ Now = "flip8"
  <2>1. PICK cksum \in Cksums : FlagEffect(cksum)
    BY <1>5 DEF RunDone
  <2>2. /\ UNCHANGED <<stage, in_buf, at>> /\ InStage
    BY <1>5 DEF RunDone, InStage
  <2>3. /\ stage = 4 /\ Now \in StageNames /\ Size \in Nat /\ in_buf \in Seq(Byte) /\ in_buf # <<>>
        /\ Size >= Width(Now) /\ at \in Nat /\ at < Positions(Now)
    BY <1>5, <2>2, InStageFacts, NowIs DEF IInv, Place, RunDone
  <2>4. at < Size
    BY <1>5, <2>3 DEF Positions, Width, Flips
  <2>5. EffPos(at) \in DOMAIN eff_map /\ DOMAIN eff_map = 0 .. EffLen - 1
    BY <1>1, <1>5, <2>2, <2>3, <2>4, EffPosIn DEF Effects
  <2>6. EffLen' = EffLen /\ Now' = Now
    BY <2>2 DEF EffLen, Size, Now
  <2>7. \/ felt' = felt /\ eff_map' = eff_map
        \/ felt' \subseteq felt \cup {at} /\ eff_map' = [eff_map EXCEPT ![EffPos(at)] = TRUE]
    BY <2>1 DEF FlagEffect
  <2>8. felt' \subseteq Nat /\ DOMAIN eff_map' = DOMAIN eff_map
        /\ \A p \in felt' : EffPos(p) \in DOMAIN eff_map /\ eff_map'[EffPos(p)]
    BY <1>1, <2>3, <2>5, <2>7 DEF Effects
  <2>. QED  BY <2>2, <2>3, <2>5, <2>6, <2>8 DEF Effects
<1>6. CASE /\ UNCHANGED <<stage, effVars>>
           /\ InStage' => InStage /\ UNCHANGED in_buf
  <2>1. InStage' => EffLen' = EffLen
    BY <1>6 DEF EffLen, Size
  <2>. QED  BY <1>1, <1>6, <2>1 DEF Effects, Now
<1>7. CASE RunDone /\ Now # "flip8"
  BY <1>6, <1>7 DEF RunDone, InStage
<1>8. CASE SkipPosition \/ EnterPosition \/ LeavePosition \/ SkipItem \/ Mutate
  BY <1>6, <1>8 DEF SkipPosition, EnterPosition, LeavePosition, SkipItem, Mutate, InStage
<1>9. CASE Score \/ SkipDeterministic \/ EnterDeterministic \/ RunAbandoned
  BY <1>6, <1>9 DEF Score, SkipDeterministic, EnterDeterministic, RunAbandoned, Abandons, InStage
<1>10. CASE HavocStage \/ HavocStart \/ Tweak \/ HavocRun \/ HavocAbandoned \/ HavocDone
            \/ Splice \/ SpliceDone
  BY <1>6, <1>10 DEF HavocStage, HavocStart, Tweak, HavocRun, HavocAbandoned, HavocDone, Splice,
       SpliceWith, SpliceDone, Abandons, InStage
<1>. QED  BY <1>2, <1>3, <1>4, <1>5, <1>7, <1>8, <1>9, <1>10 DEF Next

LEMMA LastTokenStep == ASSUME IInv, Next PROVE LastToken'
<1>. USE DEF stageVars, dictVars, bufVars
<1>1. ASSUME pc' \notin {"item", "run"} PROVE LastToken'
  BY <1>1 DEF LastToken
<1>2. CASE EnterPosition \/ SkipItem \/ Mutate \/ RunDone
  <2>1. InStage /\ UNCHANGED <<stage, at, in_buf, extras>> /\ (UNCHANGED a_extras \/ Now = "flip1")
        /\ pc \in {"pos", "item", "run"} /\ (pc = "pos" => EnterPosition)
    BY <1>2 DEF EnterPosition, SkipItem, Mutate, RunDone, InStage, Collect, Offer, MaybeAddAuto
  <2>2. /\ Now \in StageNames /\ Size \in Nat /\ in_buf \in Seq(Byte) /\ in_buf # <<>>
        /\ Size >= Width(Now) /\ at \in Nat /\ stage \in 1 .. 15 /\ Dictionary /\ Items(Now) \in Nat
        /\ item \in Nat
    BY <2>1, InStageFacts
  <2>3. Now' = Now /\ Size' = Size /\ Items(Now)' = Items(Now)
        /\ (UNCHANGED a_extras => \A k : Token(Now, k)' = Token(Now, k))
    BY <2>1, <2>2, StageFrame
  <2>4. CASE Now \notin Overwrites
    BY <2>3, <2>4 DEF LastToken
  <2>5. CASE Now \in Overwrites
    <3>1. UNCHANGED a_extras /\ \A k : Token(Now, k)' = Token(Now, k)
      BY <2>1, <2>3, <2>5 DEF Overwrites
    <3>2. \A k \in 1 .. Items(Now) : Len(Token(Now, k)) \in Nat
      BY <2>2, <2>5, TokenType
    <3>3. at < Positions(Now) /\ (pc \in {"item", "run"} => item \in 1 .. Items(Now) + 1)
          /\ (pc = "run" => item <= Items(Now))
      BY <2>1 DEF IInv, Place, EnterPosition
    <3>4. CASE EnterPosition
      <4>1. last_len' = 0 /\ pc' = "item" /\ item' = 1
        BY <3>4 DEF EnterPosition
      <4>2. at < Size
        BY <2>2, <2>5, <3>3, PositionsType
      <4>3. \A k \in item' .. Items(Now) : last_len' <= Len(Token(Now, k))
        BY <3>2, <4>1
      <4>. QED  BY <2>1, <2>2, <2>3, <3>1, <4>1, <4>2, <4>3 DEF LastToken
    <3>5. CASE SkipItem
      <4>1. last_len' = last_len /\ pc = "item" /\ pc' = "item" /\ item' = item + 1
        BY <3>5 DEF SkipItem
      <4>2. /\ last_len <= Size - at
            /\ \A k \in item .. Items(Now) : last_len <= Len(Token(Now, k))
        BY <2>5, <4>1 DEF IInv, LastToken
      <4>3. \A k \in item' .. Items(Now) : last_len' <= Len(Token(Now, k))
        BY <2>2, <4>1, <4>2
      <4>. QED  BY <2>1, <2>3, <3>1, <4>1, <4>2, <4>3 DEF LastToken
    <3>6. CASE Mutate
      <4>1. last_len' = Len(Token(Now, item)) /\ pc' = "run" /\ item' = item /\ ~ Skipped(Now)
        BY <2>5, <3>6 DEF Mutate
      <4>2. Len(Token(Now, item)) <= Size - at
        BY <2>5, <4>1 DEF Skipped, TokenSkipped, Overwrites
      <4>. QED  BY <2>1, <2>3, <3>1, <4>1, <4>2 DEF LastToken
    <3>7. CASE RunDone
      <4>1. last_len' = last_len /\ pc = "run" /\ pc' = "item" /\ item' = item + 1
        BY <3>7 DEF RunDone
      <4>2. last_len <= Size - at /\ last_len = Len(Token(Now, item))
        BY <2>5, <4>1 DEF IInv, LastToken
      <4>3. ASSUME NEW k \in item' .. Items(Now) PROVE last_len' <= Len(Token(Now, k))
        <5>1. k \in 1 .. Items(Now) /\ item \in 1 .. k
          BY <2>2, <3>3, <4>1
        <5>2. Len(Token(Now, item)) <= Len(Token(Now, k))
          BY <2>2, <2>5, <5>1, TokenType
        <5>. QED  BY <4>1, <4>2, <5>2
      <4>. QED  BY <2>1, <2>3, <3>1, <4>1, <4>2, <4>3 DEF LastToken
    <3>. QED  BY <1>2, <3>4, <3>5, <3>6, <3>7
  <2>. QED  BY <2>4, <2>5
<1>3. CASE \/ Score \/ SkipDeterministic \/ EnterDeterministic \/ NextStage \/ DeterministicDone
           \/ SkipPosition \/ LeavePosition \/ EndStage \/ RunAbandoned
  BY <1>1, <1>3 DEF Score, SkipDeterministic, EnterDeterministic, NextStage, DeterministicDone,
       SkipPosition, LeavePosition, EndStage, RunAbandoned, Abandons
<1>4. CASE HavocStage \/ HavocStart \/ Tweak \/ HavocRun \/ HavocAbandoned \/ HavocDone
            \/ Splice \/ SpliceDone \/ Leave
  BY <1>1, <1>4 DEF HavocStage, HavocStart, Tweak, HavocRun, HavocAbandoned, HavocDone, Splice,
       SpliceWith, SpliceDone, Leave, Abandons
<1>. QED  BY <1>2, <1>3, <1>4 DEF Next

LEMMA SameInterval == ASSUME NEW a \in Nat, NEW b \in Nat, 1 .. a = 1 .. b PROVE a = b
<1>1. a > b => a \in 1 .. a /\ a \notin 1 .. b
  OBVIOUS
<1>2. b > a => b \in 1 .. b /\ b \notin 1 .. a
  OBVIOUS
<1>. QED  BY <1>1, <1>2

LEMMA PutBackHere ==
  ASSUME out_buf \in Seq(Byte), in_buf \in Seq(Byte), at \in Nat, NEW n \in Nat,
         at + n <= Len(in_buf), SameOutside(n)
  PROVE  Put(out_buf, at, At(in_buf, at, n)) = in_buf
<1>1. /\ DOMAIN out_buf = DOMAIN in_buf
      /\ \A k \in DOMAIN in_buf : k \notin at + 1 .. at + n => out_buf[k] = in_buf[k]
  BY DEF SameOutside
<1>. QED  BY <1>1, PutBack

(* A buffer that differs nowhere is the entry.                             *)
LEMMA SameEverywhere ==
  ASSUME out_buf \in Seq(Byte), in_buf \in Seq(Byte), SameOutside(0), at \in Nat
  PROVE  out_buf = in_buf
<1>1. /\ DOMAIN out_buf = 1 .. Len(out_buf) /\ DOMAIN in_buf = 1 .. Len(in_buf)
      /\ Len(out_buf) \in Nat /\ Len(in_buf) \in Nat /\ DOMAIN out_buf = DOMAIN in_buf
  BY SeqFacts DEF SameOutside
<1>2. \A k \in DOMAIN in_buf : out_buf[k] = in_buf[k]
  <2>1. TAKE k \in DOMAIN in_buf
  <2>2. k \notin at + 1 .. at + 0
    BY SMTT(40), <1>1
  <2>. QED  BY <2>2 DEF SameOutside
<1>3. Len(out_buf) = Len(in_buf)
  BY <1>1, SameInterval
<1>. QED  BY <1>1, <1>2, <1>3, SeqEqual

(* The classes of the stages.                                              *)
LEMMA Classes ==
  ASSUME NEW s \in StageNames
  PROVE  /\ s \in Flips => s \notin UndoneAtOnce \cup KeepsChange \cup Overwrites /\ s # "ext_UI"
         /\ s \in UndoneAtOnce => s \notin KeepsChange \cup Overwrites /\ s # "ext_UI"
         /\ s \in KeepsChange => s \notin Overwrites /\ s # "ext_UI"
         /\ s \in Overwrites => s # "ext_UI"
         /\ s \in Whole <=> s \in Flips \cup Overwrites \cup {"ext_UI"}
         /\ s \in KeepsChange <=> s \in Arithmetic \cup {"int16", "int32"}
BY DEF StageNames, Flips, UndoneAtOnce, KeepsChange, Arithmetic, Overwrites, Whole

(* What is known at a change of a stage.                                   *)
LEMMA AtChange ==
  ASSUME IInv, pc \in {"item", "run"}
  PROVE  /\ Now \in StageNames /\ Dictionary /\ in_buf \in Seq(Byte) /\ Len(in_buf) = Size /\ Size \in Nat
         /\ out_buf \in Seq(Byte) /\ at \in Nat /\ last_len \in Nat /\ item \in 1 .. Items(Now) + 1
         /\ Items(Now) \in Nat /\ Width(Now) \in Nat
         /\ Now \in UndoneAtOnce \cup KeepsChange =>
              /\ at + Width(Now) <= Size /\ orig = At(in_buf, at, Width(Now))
              /\ orig \in Seq(Byte) /\ Len(orig) = Width(Now)
         /\ Now \in Overwrites => at + last_len <= Size
         /\ Now \in Flips => Bits(Now) \in Nat
<1>1. /\ InStage /\ out_buf \in Seq(Byte) /\ at < Positions(Now) /\ last_len \in Nat
      /\ item \in 1 .. Items(Now) + 1
  BY DEF IInv, Types, Place, Buffer, InStage
<1>2. /\ Now \in StageNames /\ Dictionary /\ in_buf \in Seq(Byte) /\ in_buf # <<>> /\ Size \in Nat
      /\ Size >= Width(Now) /\ at \in Nat /\ Items(Now) \in Nat
  BY <1>1, InStageFacts
<1>3. Width(Now) \in Nat /\ (Now \in Flips => Bits(Now) \in Nat)
  BY <1>2, WidthIs
<1>4. Now \in UndoneAtOnce \cup KeepsChange => at + Width(Now) <= Size /\ orig = At(in_buf, at, Width(Now))
  <2>. SUFFICES ASSUME Now \in UndoneAtOnce \cup KeepsChange
                PROVE  at + Width(Now) <= Size /\ orig = At(in_buf, at, Width(Now))
    OBVIOUS
  <2>1. Now \notin Whole
    BY <1>2, Classes
  <2>2. orig = At(in_buf, at, Width(Now))
    BY <2>1 DEF IInv, Buffer
  <2>. QED  BY <1>1, <1>2, <2>2, PositionsType
<1>5. Now \in UndoneAtOnce \cup KeepsChange => orig \in Seq(Byte) /\ Len(orig) = Width(Now)
  BY <1>2, <1>3, <1>4, AtType DEF Size
<1>6. Now \in Overwrites => at + last_len <= Size
  BY <1>1, <1>2 DEF IInv, LastToken
<1>. QED  BY <1>1, <1>2, <1>3, <1>4, <1>5, <1>6 DEF Size

(* Leaving a position restores the entry.                                  *)
LEMMA LeavesRestored == ASSUME IInv, LeavePosition PROVE out_buf' = in_buf
<1>1. pc = "item" /\ out_buf' = UndoneAtPosition /\ SameOutside(Pending)
  BY DEF LeavePosition, IInv, Buffer
<1>2. CASE Now \in KeepsChange
  <2>1. Pending = Width(Now) /\ out_buf' = Put(out_buf, at, orig)
    BY <1>1, <1>2, AtChange, Classes DEF Pending, UndoneAtPosition
  <2>2. out_buf' = Put(out_buf, at, At(in_buf, at, Width(Now)))
    BY <1>1, <1>2, <2>1, AtChange
  <2>. QED  BY <1>1, <1>2, <2>1, <2>2, AtChange, PutBackHere
<1>3. CASE Now \in Overwrites
  <2>1. Now \notin KeepsChange
    BY <1>1, <1>3, AtChange, Classes
  <2>2. Pending = last_len /\ out_buf' = Put(out_buf, at, At(in_buf, at, last_len))
    BY <1>1, <1>3, <2>1 DEF Pending, UndoneAtPosition, KeepsChange
  <2>. QED  BY <1>1, <1>3, <2>2, AtChange, PutBackHere
<1>4. CASE Now \notin KeepsChange /\ Now \notin Overwrites
  <2>1. Pending = 0 /\ out_buf' = out_buf
    BY <1>1, <1>4 DEF Pending, UndoneAtPosition, KeepsChange
  <2>. QED  BY <1>1, <2>1, AtChange, SameEverywhere
<1>. QED  BY <1>2, <1>3, <1>4

(* A change is made to the entry, and nothing but it.                      *)
LEMMA ChangesEntry ==
  ASSUME IInv, Mutate
  PROVE  /\ out_buf' \in Seq(Byte)
         /\ Now \in Flips => out_buf' = FlipBits(in_buf, at, Bits(Now))
         /\ Now = "ext_UI" => out_buf' = in_buf
         /\ Now \notin Flips \cup {"ext_UI"} =>
              /\ DOMAIN out_buf' = DOMAIN in_buf
              /\ \A k \in DOMAIN in_buf :
                   k \notin at + 1 .. at + (IF Now \in Overwrites THEN last_len' ELSE Width(Now))
                     => out_buf'[k] = in_buf[k]
<1>1. pc = "item" /\ out_buf' = Mutated /\ SameOutside(Pending) /\ item <= Items(Now)
  BY DEF Mutate, IInv, Buffer
<1>2. item \in 1 .. Items(Now)
  BY <1>1, AtChange
<1>3. CASE Now \in Flips \cup {"ext_UI"}
  <2>1. Pending = 0
    BY <1>1, <1>3, AtChange, Classes DEF Pending
  <2>2. out_buf = in_buf
    BY <1>1, <2>1, AtChange, SameEverywhere
  <2>3. out_buf' = IF Now \in Flips THEN FlipBits(in_buf, at, Bits(Now)) ELSE in_buf
    BY <1>1, <1>3, <2>2 DEF Mutated, Flips
  <2>. QED  BY <1>1, <1>3, <2>2, <2>3, AtChange, Classes, FlipBitsTwice
<1>4. CASE Now \notin Flips \cup {"ext_UI"}
  <2>. DEFINE c == Changed(Now, orig, item)
              n == IF Now \in Overwrites THEN last_len' ELSE Width(Now)
  <2>1. out_buf' = Put(out_buf, at, c)
    BY <1>1, <1>4 DEF Mutated
  <2>2. c \in Seq(Byte) /\ Len(c) = n /\ Pending <= n /\ n \in Nat /\ Pending \in Nat
    <3>1. CASE Now \in Overwrites
      <4>1. c = Token(Now, item) /\ last_len' = Len(Token(Now, item)) /\ Pending = last_len
        BY <3>1 DEF Mutate, Changed, Overwrites, Arithmetic, Pending
      <4>2. last_len <= Len(Token(Now, item)) /\ last_len \in Nat
        BY <1>1, <1>2, <3>1, AtChange DEF IInv, LastToken
      <4>3. Token(Now, item) \in Seq(Byte) /\ Len(Token(Now, item)) \in Nat
        BY <1>1, <1>2, <3>1, AtChange, TokenType
      <4>. QED  BY <3>1, <4>1, <4>2, <4>3
    <3>2. CASE Now \notin Overwrites
      <4>1. Now \in UndoneAtOnce \cup KeepsChange
        BY <1>1, <1>4, <3>2, AtChange DEF StageNames
      <4>2. c \in Seq(Byte) /\ Len(c) = Width(Now)
        BY <1>1, <1>2, <4>1, AtChange, ChangedType
      <4>3. Pending \in {0, Width(Now)} /\ Width(Now) \in Nat
        BY <1>1, <3>2, AtChange DEF Pending
      <4>. QED  BY <3>2, <4>2, <4>3
    <3>. QED  BY <3>1, <3>2
  <2>. HIDE DEF c, n
  <2>3. /\ out_buf' \in Seq(Byte) /\ DOMAIN out_buf' = DOMAIN out_buf
        /\ \A k \in DOMAIN out_buf :
             out_buf'[k] = IF k \in at + 1 .. at + Len(c) THEN c[k - at] ELSE out_buf[k]
    <3>1. out_buf \in Seq(Byte) /\ at \in Nat
      BY <1>1, AtChange
    <3>2. /\ Put(out_buf, at, c) \in Seq(Byte) /\ DOMAIN Put(out_buf, at, c) = DOMAIN out_buf
          /\ \A k \in DOMAIN out_buf :
               Put(out_buf, at, c)[k] = IF k \in at + 1 .. at + Len(c) THEN c[k - at] ELSE out_buf[k]
      BY <2>2, <3>1, PutType
    <3>. QED  BY <2>1, <3>2, Zenon
  <2>4. DOMAIN out_buf = DOMAIN in_buf
    BY <1>1 DEF SameOutside
  <2>5. ASSUME NEW k \in DOMAIN in_buf, k \notin at + 1 .. at + n PROVE out_buf'[k] = in_buf[k]
    <3>1. k \in Nat /\ at \in Nat
      BY <1>1, AtChange, SeqFacts
    <3>2. k \notin at + 1 .. at + Pending /\ k \notin at + 1 .. at + Len(c)
      BY <2>2, <2>5, <3>1
    <3>. QED  BY <1>1, <2>3, <2>4, <3>2 DEF SameOutside
  <2>. QED  BY <1>4, <2>3, <2>4, <2>5 DEF n
<1>. QED  BY <1>3, <1>4

(* After a run, what remains of the change is what the position undoes.    *)
LEMMA RunLeaves ==
  ASSUME IInv, RunDone
  PROVE  /\ out_buf' \in Seq(Byte) /\ DOMAIN out_buf' = DOMAIN in_buf
         /\ \A k \in DOMAIN in_buf : k \notin at + 1 .. at + Pending => out_buf'[k] = in_buf[k]
<1>1. pc = "run" /\ out_buf' = UndoneAfterRun
  BY DEF RunDone
<1>2. CASE Now \in Flips
  <2>1. out_buf = FlipBits(in_buf, at, Bits(Now))
    BY <1>1, <1>2 DEF IInv, Buffer, Flips
  <2>2. out_buf' = FlipBits(out_buf, at, Bits(Now))
    BY <1>1, <1>2 DEF UndoneAfterRun, Flips
  <2>3. out_buf' = in_buf
    BY <1>1, <1>2, <2>1, <2>2, AtChange, FlipBitsTwice
  <2>. QED  BY <1>1, <2>3, AtChange
<1>3. CASE Now = "ext_UI"
  <2>1. Now \notin Flips /\ out_buf' = out_buf
    BY <1>1, <1>3 DEF UndoneAfterRun, Flips
  <2>2. out_buf = in_buf
    BY <1>1, <1>3, <2>1 DEF IInv, Buffer
  <2>. QED  BY <1>1, <2>1, <2>2, AtChange
<1>4. CASE Now \notin Flips /\ Now # "ext_UI"
  <2>1. SameOutside(Changing)
    BY <1>1, <1>4 DEF IInv, Buffer
  <2>2. CASE Now \in UndoneAtOnce
    <3>1. out_buf' = Put(out_buf, at, At(in_buf, at, Width(Now)))
      BY <1>1, <1>4, <2>2, AtChange DEF UndoneAfterRun, UndoneAtOnce
    <3>2. Changing = Width(Now)
      BY <1>1, <2>2, AtChange, Classes DEF Changing
    <3>3. out_buf' = in_buf
      BY <1>1, <2>1, <2>2, <3>1, <3>2, AtChange, PutBackHere
    <3>. QED  BY <1>1, <3>3, AtChange
  <2>3. CASE Now \notin UndoneAtOnce
    <3>1. out_buf' = out_buf
      BY <1>1, <1>4, <2>3 DEF UndoneAfterRun, UndoneAtOnce
    <3>2. Now \in KeepsChange \/ Now \in Overwrites
      BY <1>1, <1>4, <2>3, AtChange DEF StageNames
    <3>3. Pending = Changing
      BY <1>1, <3>2, AtChange, Classes DEF Pending, Changing
    <3>. QED  BY <1>1, <2>1, <3>1, <3>3, AtChange DEF SameOutside
  <2>. QED  BY <2>2, <2>3
<1>. QED  BY <1>2, <1>3, <1>4

(* A splice is the head of the entry and a tail of the other one that is   *)
(* not empty.                                                              *)
LEMMA SpliceType ==
  ASSUME IInv, Splice
  PROVE  /\ in_buf' \in Seq(Byte) /\ in_buf' # <<>> /\ pc' \in {"splice", "havoc"}
         /\ (pc' = "havoc" => out_buf' = in_buf') /\ out_buf' \in {out_buf, in_buf'}
<1>1. PICK tid \in DOMAIN Others : SpliceWith(tid)
  BY DEF Splice
<1>2. entry \in Seq(Byte) /\ entry # <<>> /\ pc = "splice"
  BY DEF IInv, Types, Splice
<1>. DEFINE k == SpliceTarget(tid)
            other == Others[k]
<1>3. CASE in_buf' = entry /\ UNCHANGED <<out_buf, pc>>
  BY <1>2, <1>3
<1>4. CASE /\ k # 0
           /\ \E split_at \in SplitPoints(entry, other) :
                in_buf' = SubSeq(entry, 1, split_at) \o SubSeq(other, split_at + 1, Len(other))
           /\ out_buf' = in_buf'
           /\ pc' = "havoc"
  <2>1. PICK split_at \in SplitPoints(entry, other) :
          in_buf' = SubSeq(entry, 1, split_at) \o SubSeq(other, split_at + 1, Len(other))
    BY <1>4
  <2>2. Others \in Seq(Seq(Byte)) /\ DOMAIN Others = 1 .. Len(Others) /\ Len(Others) \in Nat
    <3>1. Others \in Seq(Seq(Byte))
      BY StagesAssumption DEF Byte
    <3>. QED  BY <3>1, SeqFacts
  <2>3. k \in 1 .. Len(Others)
    <3>. DEFINE long == {j \in tid .. Len(Others) : Len(Others[j]) >= 2}
    <3>1. long # {} /\ k = FirstOf(long)
      BY <1>4 DEF SpliceTarget
    <3>2. long \subseteq 1 .. Len(Others)
      BY <2>2
    <3>. HIDE DEF long, k
    <3>3. long \subseteq Nat
      BY <2>2, <3>2
    <3>4. FirstOf(long) \in long
      BY <3>1, <3>3, FirstOfLeast
    <3>. QED  BY <3>1, <3>2, <3>4
  <2>. HIDE DEF k
  <2>4. other \in Seq(Byte)
    BY <2>2, <2>3, SeqFacts
  <2>. HIDE DEF other
  <2>5. Len(other) \in Nat /\ Len(entry) \in Nat
        /\ (\A i \in 1 .. Len(other) : other[i] \in Byte) /\ (\A i \in 1 .. Len(entry) : entry[i] \in Byte)
    BY <1>2, <2>4, SeqFacts
  <2>6. Least(Len(entry), Len(other)) \in Nat /\ Least(Len(entry), Len(other)) <= Len(entry)
        /\ Least(Len(entry), Len(other)) <= Len(other)
    BY <2>5 DEF Least
  <2>7. split_at \in Nat /\ split_at <= Len(entry) /\ split_at < Len(other)
    BY <2>5, <2>6 DEF SplitPoints, Diffs
  <2>8. SubSeq(entry, 1, split_at) \in Seq(Byte)
    <3>1. 1 \in Int /\ split_at \in Int /\ \A i \in 1 .. split_at : entry[i] \in Byte
      BY <2>5, <2>7
    <3>. QED  BY <3>1, SubSeqProperties
  <2>9. /\ SubSeq(other, split_at + 1, Len(other)) \in Seq(Byte)
        /\ Len(SubSeq(other, split_at + 1, Len(other))) > 0
    <3>1. split_at + 1 \in Int /\ Len(other) \in Int /\ split_at + 1 <= Len(other)
          /\ \A i \in split_at + 1 .. Len(other) : other[i] \in Byte
      BY <2>5, <2>7
    <3>. QED  BY <3>1, SubSeqProperties
  <2>10. in_buf' \in Seq(Byte) /\ Len(in_buf') > 0
    <3>. DEFINE h == SubSeq(entry, 1, split_at)
                t == SubSeq(other, split_at + 1, Len(other))
    <3>. HIDE DEF h, t
    <3>1. h \in Seq(Byte) /\ t \in Seq(Byte) /\ Len(t) > 0 /\ Len(h) \in Nat /\ Len(t) \in Nat
      BY <2>8, <2>9, SeqFacts DEF h, t
    <3>2. h \o t \in Seq(Byte) /\ Len(h \o t) = Len(h) + Len(t)
      BY <3>1, ConcatProperties
    <3>. QED  BY <2>1, <3>1, <3>2 DEF h, t
  <2>11. in_buf' # <<>>
    BY <2>10, SeqFacts
  <2>. QED  BY <1>4, <2>10, <2>11
<1>. QED  BY <1>1, <1>3, <1>4 DEF SpliceWith

LEMMA BufferStep == ASSUME IInv, Next PROVE Buffer' /\ out_buf' \in Seq(Byte) \cup {Mangled}
<1>. USE DEF stageVars, bufVars
<1>1. /\ Buffer /\ out_buf \in Seq(Byte) \cup {Mangled} /\ in_buf \in Seq(Byte)
      /\ entry \in Seq(Byte)
  BY DEF IInv, Types
<1>. DEFINE Same0 == {"score", "enter", "next", "pos", "havoc", "hloop"}
<1>2. ASSUME pc' \notin Same0 \cup {"item", "run"} PROVE Buffer'
  BY <1>2 DEF Buffer, InStage
<1>3. ASSUME out_buf' = in_buf', in_buf' \in Seq(Byte), pc' \notin {"item", "run"} PROVE Buffer'
  BY <1>3 DEF Buffer
<1>4. CASE \/ Score \/ SkipDeterministic \/ EnterDeterministic \/ NextStage \/ DeterministicDone
           \/ SkipPosition \/ EndStage \/ HavocStage
  <2>1. /\ pc \in Same0 /\ pc' \in Same0 /\ UNCHANGED <<in_buf, out_buf>>
    BY <1>4 DEF Score, SkipDeterministic, EnterDeterministic, NextStage, DeterministicDone,
         SkipPosition, EndStage, HavocStage
  <2>2. out_buf = in_buf
    BY <1>1, <2>1 DEF Buffer
  <2>. QED  BY <1>1, <1>3, <2>1, <2>2
<1>5. CASE LeavePosition
  <2>1. pc' = "pos" /\ in_buf' = in_buf
    BY <1>5 DEF LeavePosition
  <2>. QED  BY <1>1, <1>3, <1>5, <2>1, LeavesRestored
<1>6. CASE EnterPosition
  <2>1. /\ pc = "pos" /\ pc' = "item" /\ UNCHANGED <<in_buf, out_buf, stage>> /\ out_buf = in_buf
        /\ orig' = IF Now \in Whole THEN <<>> ELSE At(in_buf, at, Width(Now))
        /\ at' = at
    BY <1>1, <1>6 DEF EnterPosition, Buffer, Whole
  <2>2. Now' = Now /\ Width(Now)' = Width(Now)
    BY <2>1 DEF Now, Width
  <2>3. SameOutside(Pending)'
    BY <2>1 DEF SameOutside
  <2>. QED  BY <1>1, <2>1, <2>2, <2>3 DEF Buffer
<1>7. CASE SkipItem
  <2>1. /\ pc = "item" /\ pc' = "item" /\ UNCHANGED <<in_buf, out_buf, stage, at, last_len, orig>>
    BY <1>7 DEF SkipItem
  <2>2. Now' = Now /\ Width(Now)' = Width(Now)
    BY <2>1 DEF Now, Width
  <2>3. SameOutside(Pending)'
    BY <1>1, <2>1, <2>2 DEF Buffer, SameOutside, Pending
  <2>. QED  BY <1>1, <2>1, <2>2, <2>3 DEF Buffer, InStage
<1>8. CASE Mutate
  <2>1. /\ pc = "item" /\ pc' = "run" /\ UNCHANGED <<in_buf, stage, at, orig>>
    BY <1>8 DEF Mutate
  <2>2. Now' = Now /\ Width(Now)' = Width(Now) /\ Bits(Now)' = Bits(Now)
    BY <2>1 DEF Now, Width, Bits
  <2>3. /\ out_buf' \in Seq(Byte)
        /\ Now \in Flips => out_buf' = FlipBits(in_buf, at, Bits(Now))
        /\ Now = "ext_UI" => out_buf' = in_buf
        /\ Now \notin Flips \cup {"ext_UI"} =>
             /\ DOMAIN out_buf' = DOMAIN in_buf
             /\ \A k \in DOMAIN in_buf :
                  k \notin at + 1 .. at + (IF Now \in Overwrites THEN last_len' ELSE Width(Now))
                    => out_buf'[k] = in_buf[k]
    BY <1>8, ChangesEntry
  <2>4. Now \notin Flips \cup {"ext_UI"} => SameOutside(Changing)'
    BY <2>1, <2>2, <2>3 DEF SameOutside, Changing
  <2>5. FlipBits(in_buf, at, Bits(Now))' = FlipBits(in_buf, at, Bits(Now))
    BY <2>1, <2>2
  <2>6. "ext_UI" \notin Flips
    BY DEF Flips
  <2>7. (CASE Now \in Flips -> out_buf = FlipBits(in_buf, at, Bits(Now))
           [] Now = "ext_UI" -> out_buf = in_buf
           [] OTHER -> SameOutside(Changing))'
    BY <2>1, <2>2, <2>3, <2>4, <2>5, <2>6
  <2>8. orig' = IF Now' \in Whole THEN <<>> ELSE At(in_buf', at', Width(Now)')
    BY <1>1, <2>1, <2>2 DEF Buffer
  <2>. QED  BY <2>1, <2>3, <2>7, <2>8 DEF Buffer
<1>9. CASE RunDone
  <2>1. /\ pc = "run" /\ pc' = "item" /\ UNCHANGED <<in_buf, stage, at, orig, last_len>>
    BY <1>9 DEF RunDone
  <2>2. Now' = Now /\ Width(Now)' = Width(Now)
    BY <2>1 DEF Now, Width
  <2>3. /\ out_buf' \in Seq(Byte) /\ DOMAIN out_buf' = DOMAIN in_buf
        /\ \A k \in DOMAIN in_buf : k \notin at + 1 .. at + Pending => out_buf'[k] = in_buf[k]
    BY <1>9, RunLeaves
  <2>4. SameOutside(Pending)'
    BY <2>1, <2>2, <2>3 DEF SameOutside, Pending
  <2>5. orig' = IF Now' \in Whole THEN <<>> ELSE At(in_buf', at', Width(Now)')
    BY <1>1, <2>1, <2>2 DEF Buffer
  <2>. QED  BY <2>1, <2>3, <2>4, <2>5 DEF Buffer
<1>10. CASE RunAbandoned \/ Tweak \/ HavocAbandoned \/ HavocDone \/ SpliceDone
  <2>1. pc' \notin Same0 \cup {"item", "run"} /\ out_buf' = out_buf
    BY <1>10 DEF RunAbandoned, Tweak, HavocAbandoned, HavocDone, SpliceDone, Abandons
  <2>. QED  BY <1>1, <1>2, <2>1
<1>11. CASE HavocStart
  BY <1>1, <1>2, <1>11 DEF HavocStart
<1>12. CASE HavocRun
  <2>1. pc' = "hloop" /\ out_buf' = in_buf /\ in_buf' = in_buf
    BY <1>12 DEF HavocRun
  <2>. QED  BY <1>1, <1>3, <2>1
<1>13. CASE Splice
  <2>1. /\ in_buf' \in Seq(Byte) /\ pc' \in {"splice", "havoc"}
        /\ (pc' = "havoc" => out_buf' = in_buf') /\ out_buf' \in {out_buf, in_buf'}
    BY <1>13, SpliceType
  <2>. QED  BY <1>1, <1>2, <1>3, <2>1
<1>14. CASE Leave
  <2>1. pc' = "done" /\ out_buf' = <<>>
    BY <1>14 DEF Leave
  <2>2. <<>> \in Seq(Byte)
    BY EmptySeq
  <2>. QED  BY <1>2, <2>1, <2>2
<1>. QED  BY <1>4, <1>5, <1>6, <1>7, <1>8, <1>9, <1>10, <1>11, <1>12, <1>13, <1>14 DEF Next

(* What the steps leave in the variables that nothing else is said of.     *)
LEMMA PlainTypesStep ==
  ASSUME IInv, Next
  PROVE  /\ pc' \in {"score", "enter", "next", "pos", "item", "run", "havoc", "hloop", "tweak",
                     "splice", "abandon", "done"}
         /\ entry' = entry
         /\ {dumb_mode', no_arith', use_splicing', doing_det'} \subseteq BOOLEAN
         /\ at' \in Nat /\ item' \in Nat /\ stage_cur' \in Nat /\ subseq_tmouts' \in Nat
         /\ stacked' \in Nat /\ splice_cycle' \in Nat /\ ret' \in {0, 1}
<1>. USE DEF stageVars, havocVars, fixed
<1>1. /\ entry \in Seq(Byte) /\ {dumb_mode, no_arith, use_splicing, doing_det} \subseteq BOOLEAN
      /\ at \in Nat /\ item \in Nat /\ stage_cur \in Nat /\ subseq_tmouts \in Nat
      /\ stacked \in Nat /\ splice_cycle \in Nat /\ ret \in {0, 1}
      /\ pc \in {"score", "enter", "next", "pos", "item", "run", "havoc", "hloop", "tweak",
                 "splice", "abandon", "done"}
  BY DEF IInv, Types
<1>2. CASE SkipDeterministic \/ EnterDeterministic \/ DeterministicDone
  BY <1>1, <1>2 DEF SkipDeterministic, EnterDeterministic, DeterministicDone
<1>3. CASE Score
  BY <1>1, <1>3 DEF Score
<1>4. CASE NextStage
  <2>1. /\ at' = 0 /\ item' = 1 /\ stage_cur' = 0 /\ pc' = "pos"
        /\ UNCHANGED <<havocVars, fixed, subseq_tmouts, ret>>
    BY <1>4 DEF NextStage
  <2>. QED  BY <1>1, <2>1
<1>5. CASE SkipPosition \/ EnterPosition \/ LeavePosition \/ EndStage \/ SkipItem \/ Mutate
  BY <1>1, <1>5 DEF SkipPosition, EnterPosition, LeavePosition, EndStage, SkipItem, Mutate
<1>6. CASE RunDone \/ RunAbandoned
  BY SMTT(40), <1>1, <1>6 DEF RunDone, RunAbandoned, Abandons, Goes
<1>7. CASE HavocStage \/ HavocDone \/ SpliceDone \/ Leave
  BY <1>1, <1>7 DEF HavocStage, HavocDone, SpliceDone, Leave
<1>8. CASE HavocStart
  <2>1. Stacked \subseteq Nat
    BY StagesAssumption
  <2>. QED  BY <1>1, <1>8, <2>1 DEF HavocStart
<1>9. CASE Tweak
  <2>1. /\ stacked' \in Nat
    BY <1>1, <1>9 DEF Tweak
  <2>2. UNCHANGED <<pc, stageVars, doing_det, splice_cycle, fixed, subseq_tmouts, ret>>
    BY <1>9 DEF Tweak
  <2>. QED  BY <1>1, <2>1, <2>2
<1>10. CASE HavocRun \/ HavocAbandoned
  BY <1>1, <1>10 DEF HavocRun, HavocAbandoned, Abandons, Goes
<1>11. CASE Splice
  BY <1>1, <1>11 DEF Splice, SpliceWith
<1>. QED
  BY <1>2, <1>3, <1>4, <1>5, <1>6, <1>7, <1>8, <1>9, <1>10, <1>11 DEF Next

LEMMA BuffersTypeStep ==
  ASSUME IInv, Next
  PROVE  /\ in_buf' \in Seq(Byte) /\ (pc' # "done" => in_buf' # <<>>)
         /\ orig' \in Seq(Byte) /\ last_len' \in Nat
<1>. USE DEF bufVars
<1>1. /\ in_buf \in Seq(Byte) /\ (pc # "done" => in_buf # <<>>) /\ orig \in Seq(Byte) /\ last_len \in Nat
  BY DEF IInv, Types
<1>2. <<>> \in Seq(Byte)
  BY EmptySeq
<1>3. CASE EnterPosition
  <2>1. /\ InStage /\ out_buf = in_buf /\ at < Positions(Now) /\ UNCHANGED in_buf /\ pc = "pos"
        /\ last_len' = 0
        /\ orig' = IF Now \in Whole THEN <<>> ELSE At(in_buf, at, Width(Now))
    BY <1>3 DEF EnterPosition, InStage, IInv, Buffer, Whole
  <2>2. /\ Now \in StageNames /\ Size >= Width(Now) /\ in_buf # <<>> /\ at \in Nat
    BY <2>1, InStageFacts
  <2>3. Width(Now) \in Nat
    BY <2>2, WidthIs
  <2>4. Now \notin Whole => orig' \in Seq(Byte)
    <3>1. SUFFICES ASSUME Now \notin Whole PROVE orig' \in Seq(Byte)
      OBVIOUS
    <3>2. Now \in UndoneAtOnce \cup KeepsChange
      BY <2>2, <3>1 DEF StageNames, Whole
    <3>3. at + Width(Now) <= Size
      BY <1>1, <2>1, <2>2, <3>2, PositionsType
    <3>. QED  BY <1>1, <2>1, <2>2, <2>3, <3>1, <3>3, AtType DEF Size
  <2>. QED  BY <1>1, <1>2, <2>1, <2>2, <2>4
<1>4. CASE Mutate
  <2>1. Now \in Overwrites => Len(Token(Now, item)) \in Nat
    <3>1. pc \in {"item", "run"} /\ item <= Items(Now)
      BY <1>4 DEF Mutate
    <3>2. item \in 1 .. Items(Now) /\ Dictionary /\ Now \in StageNames
      BY <3>1, AtChange
    <3>. QED  BY <3>2, TokenType
  <2>. QED  BY <1>1, <1>4, <2>1 DEF Mutate
<1>5. CASE Splice
  BY <1>1, <1>5, SpliceType DEF Splice
<1>6. CASE Leave
  BY <1>1, <1>2, <1>6 DEF Leave
<1>7. CASE Score \/ SkipDeterministic \/ EnterDeterministic \/ NextStage \/ DeterministicDone
           \/ SkipPosition \/ LeavePosition \/ EndStage \/ SkipItem
  BY <1>1, <1>7 DEF Score, SkipDeterministic, EnterDeterministic, NextStage, DeterministicDone,
       SkipPosition, LeavePosition, EndStage, SkipItem
<1>8. CASE RunDone \/ RunAbandoned
  BY <1>1, <1>8 DEF RunDone, RunAbandoned, Abandons
<1>9. CASE HavocStage \/ HavocStart \/ Tweak \/ HavocRun \/ HavocAbandoned \/ HavocDone \/ SpliceDone
  BY <1>1, <1>9 DEF HavocStage, HavocStart, Tweak, HavocRun, HavocAbandoned, HavocDone, SpliceDone
<1>. QED  BY <1>3, <1>4, <1>5, <1>6, <1>7, <1>8, <1>9 DEF Next

LEMMA CollectTypeStep ==
  ASSUME IInv, Next
  PROVE  prev_cksum' \in Cksums /\ a_collect' \in Seq(Byte)
<1>. USE DEF autoVars
<1>1. prev_cksum \in Cksums /\ a_collect \in Seq(Byte)
  BY DEF IInv, Types
<1>2. <<>> \in Seq(Byte) /\ Same \in Cksums
  BY EmptySeq, StagesAssumption
<1>3. CASE RunDone
  <2>1. CASE Now = "flip1" /\ at % W = W - 1 /\ ~ dumb_mode
    <3>1. PICK cksum \in Cksums : Collect(cksum)
      BY <1>3, <2>1 DEF RunDone
    <3>. DEFINE here == out_buf'[at \div W + 1]
    <3>2. here \in Byte
      BY <1>3, <2>1, HereType
    <3>. HIDE DEF here
    <3>3. \E kept \in {<<>>, a_collect, Append(a_collect, here)} :
            a_collect' \in {kept, Append(kept, here)}
      BY <3>1 DEF Collect, here
    <3>4. \A kept \in Seq(Byte) : Append(kept, here) \in Seq(Byte)
      BY <3>2, AppendProperties
    <3>5. prev_cksum' = cksum
      BY <3>1 DEF Collect
    <3>. QED  BY <1>1, <1>2, <3>3, <3>4, <3>5
  <2>. QED  BY <1>1, <1>3, <2>1 DEF RunDone
<1>4. CASE NextStage \/ DeterministicDone \/ Leave
  BY <1>2, <1>4 DEF NextStage, DeterministicDone, Leave
<1>5. CASE Score \/ SkipDeterministic \/ EnterDeterministic
           \/ SkipPosition \/ EnterPosition \/ LeavePosition \/ EndStage \/ SkipItem \/ Mutate
  BY <1>1, <1>5 DEF Score, SkipDeterministic, EnterDeterministic, SkipPosition, EnterPosition, LeavePosition, EndStage, SkipItem, Mutate
<1>6. CASE RunAbandoned \/ HavocStage \/ HavocStart \/ Tweak \/ HavocRun \/ HavocAbandoned
           \/ HavocDone \/ Splice \/ SpliceDone
  BY <1>1, <1>6 DEF RunAbandoned, HavocStage, HavocStart, Tweak, HavocRun, HavocAbandoned,
       HavocDone, Splice, SpliceDone
<1>. QED  BY <1>3, <1>4, <1>5, <1>6 DEF Next

LEMMA LengthsTypeStep == ASSUME IInv, Next PROVE temp_len' \in Nat /\ cap' \in Nat
<1>. USE DEF havocVars
<1>1. temp_len \in Nat /\ cap \in Nat /\ Size \in Nat
  BY SeqFacts DEF IInv, Types, Size
<1>2. CASE HavocStage \/ HavocRun
  BY <1>1, <1>2 DEF HavocStage, HavocRun
<1>3. CASE Tweak
  <2>1. pc' = "tweak"
    BY <1>3 DEF Tweak
  <2>2. HavocFits' /\ Size' = Size
    BY <1>3, HavocStep DEF Havoc, Tweak, bufVars, Size
  <2>3. temp_len' \in 1 .. AtLeast(Size, MaxFile)
    BY <2>1, <2>2 DEF HavocFits, AtLeast
  <2>4. temp_len' \in Nat
    BY <2>3
  <2>5. cap' \in {cap, temp_len'}
    BY <1>3 DEF Tweak, TweakInPlace, DeleteBytes, CloneBytes, InsertToken
  <2>. QED  BY <1>1, <2>4, <2>5
<1>4. CASE Score \/ SkipDeterministic \/ EnterDeterministic \/ NextStage \/ DeterministicDone
           \/ SkipPosition \/ EnterPosition \/ LeavePosition \/ EndStage \/ SkipItem \/ Mutate
  BY <1>1, <1>4 DEF Score, SkipDeterministic, EnterDeterministic, NextStage, DeterministicDone,
       SkipPosition, EnterPosition, LeavePosition, EndStage, SkipItem, Mutate
<1>5. CASE RunDone \/ RunAbandoned \/ HavocStart \/ HavocAbandoned \/ HavocDone
           \/ Splice \/ SpliceDone \/ Leave
  BY <1>1, <1>5 DEF RunDone, RunAbandoned, HavocStart, HavocAbandoned, HavocDone, Splice,
       SpliceDone, Leave
<1>. QED  BY <1>2, <1>3, <1>4, <1>5 DEF Next

LEMMA TypesStep == ASSUME IInv, Next PROVE Types'
<1>1. stage' \in 0 .. 15 /\ stage_max' \in Nat
  BY PlaceStep
<1>2. out_buf' \in Seq(Byte) \cup {Mangled}
  BY BufferStep
<1>3. Byte' = Byte
  BY DEF Byte
<1>4. entry \in Seq(Byte) /\ entry # <<>>
  BY DEF IInv, Types
<1>. QED
  BY <1>1, <1>2, <1>3, <1>4, PlainTypesStep, BuffersTypeStep, CollectTypeStep, LengthsTypeStep
  DEF Types

LEMMA InvNext == IInv /\ Next => IInv'
BY TypesStep, DictionaryStep, PlaceStep, BufferStep, LastTokenStep, EffectsStep, ScoresStep, HavocStep
DEF IInv

(* Standing still.                                                         *)
LEMMA InvStays == ASSUME IInv, UNCHANGED vars PROVE IInv'
<1>. USE DEF vars, bufVars, stageVars, effVars, autoVars, havocVars, fixed, dictVars
<1>1. Types' /\ Dictionary'
  BY DEF IInv, Types, Dictionary, ByLength, Used
<1>2. Now' = Now /\ Size' = Size /\ Width(Now)' = Width(Now) /\ Positions(Now)' = Positions(Now)
      /\ EffLen' = EffLen
  BY DEF Now, Size, Width, Positions, EffLen
<1>3. Items(Now)' = Items(Now)
  BY <1>2 DEF Items
<1>4. \A k : Token(Now, k)' = Token(Now, k)
  BY <1>2 DEF Token
<1>5. Place'
  BY <1>2, <1>3 DEF IInv, Place, InStage, StageCounts
<1>6. LastToken'
  BY <1>2, <1>3, <1>4 DEF IInv, LastToken
<1>7. Effects'
  BY <1>2 DEF IInv, Effects, InStage
<1>8. Buffer'
  <2>1. SameOutside(Pending)' <=> SameOutside(Pending)
    BY <1>2 DEF SameOutside, Pending
  <2>2. SameOutside(Changing)' <=> SameOutside(Changing)
    BY <1>2 DEF SameOutside, Changing
  <2>3. FlipBits(in_buf, at, Bits(Now))' = FlipBits(in_buf, at, Bits(Now))
    BY <1>2 DEF Bits
  <2>4. (CASE Now \in Flips -> out_buf = FlipBits(in_buf, at, Bits(Now))
           [] Now = "ext_UI" -> out_buf = in_buf
           [] OTHER -> SameOutside(Changing))'
        <=> (CASE Now \in Flips -> out_buf = FlipBits(in_buf, at, Bits(Now))
               [] Now = "ext_UI" -> out_buf = in_buf
               [] OTHER -> SameOutside(Changing))
    <3>1. "ext_UI" \notin Flips
      BY DEF Flips
    <3>. QED  BY <1>2, <2>2, <2>3, <3>1
  <2>. QED  BY <1>2, <2>1, <2>4 DEF IInv, Buffer, InStage
<1>9. Scores' /\ Havoc'
  <2>1. Cycles' = Cycles
    BY DEF Cycles
  <2>. QED  BY <1>2, <2>1 DEF IInv, Scores, Havoc, HavocFits, HavocEnds
<1>. QED  BY <1>1, <1>5, <1>6, <1>7, <1>8, <1>9 DEF IInv

LEMMA InitOK == Init => IInv
<1>. SUFFICES ASSUME Init PROVE IInv
  OBVIOUS
<1>1. PICK e \in Entries : entry = e.data /\ rating = e.rating
  BY DEF Init
<1>2. /\ entry \in Seq(Byte) /\ entry # <<>>
      /\ {rating.exec_us, rating.bitmap_size, rating.handicap, rating.depth, rating.weight} \subseteq Nat
  BY <1>1, StagesAssumption DEF Byte
<1>3. PICK m \in Modes : dumb_mode = m[1] /\ no_arith = m[2] /\ use_splicing = m[3]
  BY DEF Init
<1>4. {dumb_mode, no_arith, use_splicing} \subseteq BOOLEAN
  BY <1>3, StagesAssumption
<1>5. <<>> \in Seq(Byte) /\ <<>> \in Seq(AutoToken) /\ <<>> \in Seq(Seq(Byte)) /\ Len(<<>>) = 0
  BY EmptySeq
<1>6. Dictionary
  <2>1. extras \in Seq(Seq(Byte)) /\ ByLength(extras, Len(extras))
    <3>1. CASE extras = <<>>
      BY <1>5, <3>1 DEF ByLength
    <3>2. CASE \E d \in Dictionaries : extras \in SortedBySize(Tokens(d.lines, d.level))
      <4>1. PICK d \in Dictionaries : extras \in SortedBySize(Tokens(d.lines, d.level))
        BY <3>2
      <4>2. Tokens(d.lines, d.level) \in Seq(Seq(Byte))
        BY <4>1, StagesAssumption DEF Byte
      <4>. QED  BY <4>1, <4>2, LoadedByLength
    <3>. QED  BY <3>1, <3>2 DEF Init
  <2>2. a_extras = <<>> /\ Len(a_extras) = 0
    BY <1>5 DEF Init
  <2>3. Len(a_extras) <= MaxAutoExtras
    BY <2>2, DictAssumption
  <2>4. Used = {}
    BY <2>2, DictAssumption DEF Used, Least
  <2>. QED  BY <1>5, <2>1, <2>2, <2>3, <2>4 DEF Dictionary
<1>7. Types
  <2>1. Same \in Cksums
    BY StagesAssumption
  <2>2. in_buf = entry /\ out_buf = entry /\ orig = <<>> /\ a_collect = <<>> /\ prev_cksum = Same
    BY DEF Init
  <2>3. /\ pc = "score" /\ ret = 1 /\ stage = 0 /\ at = 0 /\ item = 1
        /\ stage_cur = 0 /\ stage_max = 0 /\ last_len = 0 /\ subseq_tmouts = 0
        /\ temp_len = 0 /\ cap = 0 /\ stacked = 0 /\ splice_cycle = 0
    BY DEF Init
  <2>4. in_buf \in Seq(Byte) /\ in_buf # <<>> /\ out_buf \in Seq(Byte) /\ orig \in Seq(Byte)
        /\ a_collect \in Seq(Byte) /\ prev_cksum \in Cksums
    BY <1>2, <1>5, <2>1, <2>2
  <2>5. doing_det \in BOOLEAN
    BY DEF Init
  <2>. QED  BY <1>2, <1>4, <2>3, <2>4, <2>5 DEF Types
<1>8. Place /\ Buffer /\ LastToken /\ Effects
  BY DEF Init, Place, StageCounts, Buffer, LastToken, Effects, InStage
<1>9. Scores /\ Havoc
  <2>1. HavocMaxMult \in Nat \ {0}
    BY StagesAssumption
  <2>. QED  BY <1>2, <2>1 DEF Init, Scores, Havoc, HavocFits, HavocEnds
<1>. QED  BY <1>6, <1>7, <1>8, <1>9 DEF IInv

LEMMA InvStep == IInv /\ [Next]_vars => IInv'
BY InvNext, InvStays

LEMMA InvHolds == Spec => []IInv
BY InitOK, InvStep, PTL DEF Spec

-----------------------------------------------------------------------------
(* Every variable keeps its type: the lengths and counters of the stages   *)
(* and of havoc never fall below zero (afl-fuzz.c has them unsigned), the  *)
(* buffers and tokens hold bytes, and the dictionary of found tokens never *)
(* outgrows MAX_AUTO_EXTRAS.                                               *)
THEOREM TypeCorrect == Spec => []TypeOK
<1>1. IInv => TypeOK
  <2>. SUFFICES ASSUME IInv PROVE TypeOK
    OBVIOUS
  <2>1. /\ Types /\ Dictionary /\ felt \subseteq Nat /\ Scores
    BY DEF IInv, Effects
  <2>2. orig_perf \in Nat /\ perf_score \in Nat
    BY <2>1, StagesAssumption DEF Scores
  <2>3. \A k \in DOMAIN extras : TokenOK(extras[k])
    BY <2>1, SeqFacts DEF Dictionary, TokenOK
  <2>4. \A k \in DOMAIN a_extras : TokenOK(a_extras[k].data) /\ a_extras[k].hit_cnt \in Nat
    <3>1. \A k \in DOMAIN a_extras : a_extras[k] \in AutoToken
      BY <2>1, SeqFacts DEF Dictionary
    <3>. QED  BY <3>1 DEF AutoToken, TokenOK
  <2>5. Len(a_extras) <= MaxAutoExtras
    BY <2>1 DEF Dictionary
  <2>. QED  BY <2>1, <2>2, <2>3, <2>4, <2>5, StageCount DEF Types, TypeOK
<1>. QED  BY <1>1, InvHolds, PTL

(* The deterministic stages leave nothing behind: whatever they changed,   *)
(* undid, skipped or lost to a timeout, out_buf is in_buf again at every   *)
(* new position (the undoing of fuzz_one after each run and position), and *)
(* what a stage announced as its length is in the end what it has run.     *)
THEOREM DeterministicSoundHolds == Spec => []DeterministicSound
<1>1. IInv => DeterministicSound
  BY DEF IInv, Buffer, Place, DeterministicSound, Restored
<1>. QED  BY <1>1, InvHolds, PTL

(* Under havoc out_buf never outgrows its allocation or MAX_FILE and never *)
(* becomes empty, and a stage that finds something in each of its runs     *)
(* still ends: stage_max doubles with perf_score only, up to its limit.    *)
THEOREM HavocBoundedHolds == Spec => []HavocBounded
<1>1. IInv => HavocBounded
  BY DEF IInv, Havoc, HavocBounded
<1>. QED  BY <1>1, InvHolds, PTL

(* The bytes whose flip was felt are in elements of the map that are set.  *)
LEMMA FeltIsFlagged ==
  ASSUME IInv, NEW a \in Nat, NEW b \in Nat, NEW p \in felt, p \in a .. b
  PROVE  \E e \in EffPos(a) .. EffPos(b) : eff_map[e]
<1>1. EffScale \in Nat \ {0} /\ p \in Nat /\ a <= p /\ p <= b
  BY StagesAssumption DEF IInv, Effects
<1>2. EffPos(a) \in Nat /\ EffPos(p) \in Nat /\ EffPos(b) \in Nat
      /\ EffPos(a) <= EffPos(p) /\ EffPos(p) <= EffPos(b)
  BY <1>1, DivideMono DEF EffPos
<1>3. eff_map[EffPos(p)]
  BY DEF IInv, Effects
<1>. QED  BY <1>2, <1>3

(* No later stage leaves out a byte whose flip has changed the trace: a    *)
(* position it skips holds none of them, and neither do the bytes under a  *)
(* token that is skipped for lack of effect.                               *)
THEOREM EffectKeptHolds == Spec => EffectKept
<1>1. ASSUME IInv, SkipPosition PROVE felt \cap (at .. at + Width(Now) - 1) = {}
  <2>1. pc = "pos" /\ ~ Effective(Now, at)
    BY <1>1 DEF SkipPosition
  <2>2. Width(Now) \in Nat /\ at \in Nat
    BY <1>1, <2>1, InStageFacts, WidthIs DEF InStage
  <2>3. ASSUME NEW p \in felt, p \in at .. at + Width(Now) - 1 PROVE FALSE
    <3>1. p \in Nat /\ eff_map[EffPos(p)]
      BY <1>1 DEF IInv, Effects
    <3>2. p - at \in 0 .. Width(Now) - 1 /\ at + (p - at) = p
      BY <2>2, <2>3, <3>1
    <3>. QED  BY <2>1, <3>1, <3>2 DEF Effective
  <2>. QED  BY <2>3
<1>2. ASSUME IInv, SkipItem, Now \in Overwrites
      PROVE  LET n == Len(Token(Now, item)) IN
             \/ n > Size - at \/ At(out_buf, at, n) = Token(Now, item)
             \/ Now = "ext_UO" /\ Len(extras) > MaxDetExtras
             \/ felt \cap (at .. at + n - 1) = {}
  <2>. DEFINE n == Len(Token(Now, item))
  <2>1. pc = "item" /\ item <= Items(Now)
        /\ (Skipped(Now) \/ (Now = "ext_UO" /\ Len(extras) > MaxDetExtras))
    BY <1>2 DEF SkipItem
  <2>2. Now \in StageNames /\ Dictionary /\ Size \in Nat /\ at \in Nat /\ item \in 1 .. Items(Now)
    BY <1>2, <2>1, AtChange
  <2>3. n \in Nat
    BY <1>2, <2>2, TokenType
  <2>4. SUFFICES ASSUME ~ (n > Size - at), At(out_buf, at, n) # Token(Now, item), Skipped(Now),
                        NEW p \in felt, p \in at .. at + n - 1
                 PROVE  FALSE
    BY <2>1
  <2>5. n <= Size - at
    BY <2>2, <2>3, <2>4
  <2>6. \A e \in EffSpan(at, n) : ~ eff_map[e]
    BY <1>2, <2>4, <2>5 DEF Skipped, TokenSkipped, Overwrites
  <2>7. at + n - 1 \in Nat
    BY <2>2, <2>3, <2>4
  <2>8. \E e \in EffPos(at) .. EffPos(at + n - 1) : eff_map[e]
    BY <1>2, <2>2, <2>4, <2>7, FeltIsFlagged
  <2>. QED  BY <2>6, <2>8 DEF EffSpan
<1>. DEFINE Kept ==
       /\ SkipPosition => felt \cap (at .. at + Width(Now) - 1) = {}
       /\ SkipItem /\ Now \in Overwrites =>
            LET n == Len(Token(Now, item)) IN
            \/ n > Size - at \/ At(out_buf, at, n) = Token(Now, item)
            \/ Now = "ext_UO" /\ Len(extras) > MaxDetExtras
            \/ felt \cap (at .. at + n - 1) = {}
<1>3. IInv => Kept
  BY <1>1, <1>2
<1>4. IInv /\ [Next]_vars => [Kept]_vars
  BY <1>3
<1>5. EffectKept <=> [][Kept]_vars
  BY DEF EffectKept
<1>. HIDE DEF Kept
<1>. QED  BY <1>4, <1>5, InvHolds, PTL DEF Spec

-----------------------------------------------------------------------------
(* What the later stages leave out of single bytes.                        *)

(* A byte is known by its bits.                                            *)
LEMMA BitsDetermine ==
  ASSUME NEW a \in Byte, NEW b \in Byte, \A i \in 0 .. W - 1 : Bit(a, i) = Bit(b, i)
  PROVE  a = b
<1>1. W \in Nat /\ 2^W \in Nat \ {0} /\ a \in Nat /\ b \in Nat /\ a < 2^W /\ b < 2^W
  BY ByteNat DEF Byte
<1>. DEFINE Bad == {i \in 0 .. W : a % 2^i # b % 2^i}
<1>2. Bad = {}
  <2>1. SUFFICES ASSUME Bad # {} PROVE FALSE
    OBVIOUS
  <2>2. PICK i \in Bad : \A j \in Bad : i <= j
    <3>1. Bad \subseteq Nat
      OBVIOUS
    <3>. HIDE DEF Bad
    <3>. QED  BY <2>1, <3>1, LeastNat
  <2>3. i # 0
    <3>1. a % 2^0 = 0 /\ b % 2^0 = 0
      BY <1>1
    <3>. QED  BY <2>2, <3>1
  <2>4. i - 1 \in 0 .. W - 1 /\ i - 1 \in Nat /\ (i - 1) + 1 = i /\ i - 1 \in 0 .. W /\ i - 1 < i
    BY <1>1, <2>2, <2>3
  <2>5. a % 2^(i - 1) = b % 2^(i - 1) /\ Bit(a, i - 1) = Bit(b, i - 1)
    BY <2>2, <2>4
  <2>6. /\ a % 2^i = (a % 2^(i - 1)) + Bit(a, i - 1) * 2^(i - 1)
        /\ b % 2^i = (b % 2^(i - 1)) + Bit(b, i - 1) * 2^(i - 1)
    BY <1>1, <2>4, PowerDigit
  <2>. QED  BY <2>2, <2>5, <2>6
<1>3. a % 2^W = b % 2^W
  <2>1. W \in 0 .. W
    BY <1>1
  <2>2. ~ (a % 2^W # b % 2^W)
    BY <1>2, <2>1, Zenon
  <2>. QED  BY <2>2
<1>4. a % 2^W = a /\ b % 2^W = b
  BY <1>1
<1>. QED  BY <1>3, <1>4

(* The difference of two bytes, taken from one, gives the other.           *)
LEMMA XorBack ==
  ASSUME NEW a \in Byte, NEW b \in Byte
  PROVE  /\ XorByte(a, b) \in Byte /\ XorByte(a, XorByte(a, b)) = b
         /\ XorByte(a, 0) = a
<1>. DEFINE x == XorByte(a, b)
            y == XorByte(a, x)
            z == XorByte(a, 0)
<1>1. a \in Nat /\ b \in Nat /\ 0 \in Nat /\ W \in Nat
  BY ByteNat
<1>2. x \in Byte /\ \A i \in 0 .. W - 1 : Bit(x, i) = (Bit(a, i) + Bit(b, i)) % 2
  BY <1>1, XorBits
<1>. HIDE DEF x
<1>3. y \in Byte /\ \A i \in 0 .. W - 1 : Bit(y, i) = (Bit(a, i) + Bit(x, i)) % 2
  BY <1>1, <1>2, ByteNat, XorBits
<1>4. z \in Byte /\ \A i \in 0 .. W - 1 : Bit(z, i) = (Bit(a, i) + Bit(0, i)) % 2
  BY <1>1, XorBits
<1>. HIDE DEF y, z
<1>5. ASSUME NEW i \in 0 .. W - 1 PROVE Bit(y, i) = Bit(b, i) /\ Bit(z, i) = Bit(a, i)
  <2>. DEFINE p == Bit(a, i)
              q == Bit(b, i)
  <2>1. i \in Nat
    BY <1>1
  <2>2. p \in {0, 1} /\ q \in {0, 1}
    BY <1>1, <2>1, BitType
  <2>3. Bit(0, i) = 0
    <3>. DEFINE m == 2^i
    <3>1. m \in Nat \ {0}
      BY <2>1, PowerPositive
    <3>2. (0 \div m) % 2 = 0
      <4>. HIDE DEF m
      <4>. QED  BY <3>1
    <3>. QED  BY <3>2 DEF Bit
  <2>4. Bit(y, i) = (p + ((p + q) % 2)) % 2 /\ Bit(z, i) = (p + 0) % 2
    BY <1>2, <1>3, <1>4, <2>3
  <2>5. (p + ((p + q) % 2)) % 2 = q /\ (p + 0) % 2 = p
    <3>. HIDE DEF p, q
    <3>. QED  BY <2>2
  <2>. QED  BY <2>4, <2>5
<1>6. y = b
  BY <1>3, <1>5, BitsDetermine
<1>7. z = a
  BY <1>4, <1>5, BitsDetermine
<1>. QED  BY <1>2, <1>6, <1>7 DEF x, y, z

(* Two bytes whose difference is all ones add up to the greatest byte.     *)
LEMMA XorOnes ==
  ASSUME NEW a \in Byte, NEW b \in Byte, XorByte(a, b) = 2^W - 1
  PROVE  b = 2^W - 1 - a
<1>1. a \in Nat /\ b \in Nat /\ a < 2^W /\ b < 2^W /\ W \in Nat /\ 2^W \in Nat \ {0}
  BY ByteNat DEF Byte
<1>. DEFINE c == XorByte(a, b)
<1>2. c \in Byte /\ \A i \in 0 .. W - 1 : Bit(c, i) = (Bit(a, i) + Bit(b, i)) % 2
  BY <1>1, XorBits
<1>3. c \in Nat /\ c = 2^W - 1
  BY <1>2, ByteNat
<1>. HIDE DEF c
<1>4. ASSUME NEW i \in 0 .. W - 1, c % 2^(i + 1) = 2^(i + 1) - 1
      PROVE  c % 2^i = 2^i - 1 /\ Bit(c, i) = 1
  <2>. DEFINE m == 2^i
              e == Bit(c, i)
              r == c % m
  <2>1. i \in Nat /\ m \in Nat \ {0} /\ e \in {0, 1} /\ 2^(i + 1) = 2 * m
    BY <1>3, PowerPositive, PowerDoubles, BitType
  <2>2. c % 2^(i + 1) = r + e * m
    BY <1>3, <2>1, PowerDigit
  <2>3. r \in 0 .. m - 1
    <3>. HIDE DEF m
    <3>. QED  BY <1>3, <2>1
  <2>4. r + e * m = 2 * m - 1
    BY <1>4, <2>1, <2>2
  <2>5. r = m - 1 /\ e = 1
    <3>. HIDE DEF m, e, r
    <3>. QED  BY <2>1, <2>3, <2>4
  <2>. QED  BY <2>5
<1>. DEFINE Bad == {j \in 0 .. W : c % 2^(W - j) # 2^(W - j) - 1}
<1>5. Bad = {}
  <2>1. SUFFICES ASSUME Bad # {} PROVE FALSE
    OBVIOUS
  <2>2. PICK j \in Bad : \A k \in Bad : j <= k
    <3>1. Bad \subseteq Nat
      OBVIOUS
    <3>. HIDE DEF Bad
    <3>. QED  BY <2>1, <3>1, LeastNat
  <2>3. j # 0
    <3>1. c % 2^W = c /\ W - 0 = W
      BY <1>1, <1>3
    <3>. QED  BY <1>3, <2>2, <3>1
  <2>4. j - 1 \in 0 .. W /\ j - 1 < j /\ W - (j - 1) = (W - j) + 1 /\ W - j \in 0 .. W - 1
    BY <1>1, <2>2, <2>3
  <2>5. c % 2^((W - j) + 1) = 2^((W - j) + 1) - 1
    BY <2>2, <2>4
  <2>. QED  BY <1>4, <2>2, <2>4, <2>5
<1>6. ASSUME NEW i \in 0 .. W - 1 PROVE Bit(a, i) + Bit(b, i) = 1
  <2>1. W - (i + 1) \in 0 .. W /\ W - (W - (i + 1)) = i + 1 /\ i \in Nat
    BY <1>1
  <2>2. c % 2^(i + 1) = 2^(i + 1) - 1
    BY <1>5, <2>1
  <2>. DEFINE p == Bit(a, i)
              q == Bit(b, i)
  <2>3. p \in {0, 1} /\ q \in {0, 1}
    BY <1>1, <2>1, BitType
  <2>4. (p + q) % 2 = 1
    BY <1>2, <1>4, <2>2
  <2>5. p + q = 1
    <3>. HIDE DEF p, q
    <3>. QED  BY <2>3, <2>4
  <2>. QED  BY <2>5
<1>. DEFINE Wrong == {i \in 0 .. W : (a % 2^i) + (b % 2^i) # 2^i - 1}
<1>7. Wrong = {}
  <2>1. SUFFICES ASSUME Wrong # {} PROVE FALSE
    OBVIOUS
  <2>2. PICK i \in Wrong : \A j \in Wrong : i <= j
    <3>1. Wrong \subseteq Nat
      OBVIOUS
    <3>. HIDE DEF Wrong
    <3>. QED  BY <2>1, <3>1, LeastNat
  <2>3. i # 0
    <3>1. 2^0 = 1
      OBVIOUS
    <3>2. a % 1 = 0 /\ b % 1 = 0
      BY <1>1
    <3>3. (a % 2^0) + (b % 2^0) = 2^0 - 1
      BY <3>1, <3>2
    <3>. QED  BY <2>2, <3>3, Zenon
  <2>4. i - 1 \in 0 .. W - 1 /\ i - 1 \in Nat /\ (i - 1) + 1 = i /\ i - 1 \in 0 .. W /\ i - 1 < i
    BY <1>1, <2>2, <2>3
  <2>. DEFINE m == 2^(i - 1)
              p == Bit(a, i - 1)
              q == Bit(b, i - 1)
              r == a % m
              s == b % m
  <2>5. r + s = m - 1
    BY <2>2, <2>4
  <2>6. a % 2^i = r + p * m /\ b % 2^i = s + q * m
    BY <1>1, <2>4, PowerDigit
  <2>7. p + q = 1 /\ p \in {0, 1} /\ q \in {0, 1}
    BY <1>1, <1>6, <2>4, BitType
  <2>8. m \in Nat \ {0} /\ 2^i = 2 * m
    BY <2>4, PowerPositive, PowerDoubles
  <2>9. r \in Int /\ s \in Int
    <3>. HIDE DEF m
    <3>. QED  BY <1>1, <2>8
  <2>10. (a % 2^i) + (b % 2^i) = 2 * m - 1
    <3>. HIDE DEF m, p, q, r, s
    <3>1. (r + p * m) + (s + q * m) = 2 * m - 1
      BY <2>5, <2>7, <2>8, <2>9
    <3>. QED  BY <2>6, <3>1
  <2>. QED  BY <2>2, <2>8, <2>10
<1>8. a % 2^W = a /\ b % 2^W = b
  BY <1>1
<1>9. (a % 2^W) + (b % 2^W) = 2^W - 1
  BY <1>1, <1>7
<1>. QED  BY <1>1, <1>8, <1>9

LEMMA PowerMono == ASSUME NEW m \in Nat, NEW n \in Nat, m <= n PROVE 2^m <= 2^n
<1>. DEFINE Bad == {d \in Nat : ~ (2^m <= 2^(m + d))}
<1>1. Bad = {}
  <2>1. SUFFICES ASSUME Bad # {} PROVE FALSE
    OBVIOUS
  <2>2. PICK d \in Bad : \A e \in Bad : d <= e
    <3>1. Bad \subseteq Nat
      OBVIOUS
    <3>. HIDE DEF Bad
    <3>. QED  BY <2>1, <3>1, LeastNat
  <2>3. d # 0
    <3>1. m + 0 = m /\ 2^m \in Nat
      BY PowerPositive
    <3>. QED  BY <2>2, <3>1
  <2>4. d - 1 \in Nat /\ d - 1 < d /\ m + d = (m + (d - 1)) + 1 /\ m + (d - 1) \in Nat
    BY <2>2, <2>3
  <2>5. 2^m <= 2^(m + (d - 1))
    BY <2>2, <2>4
  <2>6. 2^(m + d) = 2 * 2^(m + (d - 1)) /\ 2^(m + (d - 1)) \in Nat /\ 2^m \in Nat
    BY <2>4, PowerDoubles, PowerPositive
  <2>7. 2^m <= 2^(m + d)
    BY <2>5, <2>6
  <2>. QED  BY <2>2, <2>7
<1>2. n - m \in Nat /\ m + (n - m) = n
  OBVIOUS
<1>. QED  BY <1>1, <1>2

(* A flip of one, two or four bits that stays within a byte.               *)
LEMMA FlipInByte ==
  ASSUME NEW buf \in Seq(Byte), NEW i \in Nat, i + 1 <= Len(buf),
         NEW n, NEW v, <<n, v>> \in {<<1, 1>>, <<2, 3>>, <<4, 15>>},
         NEW sh \in Nat, sh + n <= W
  PROVE  /\ FlipBits(buf, W * i + (W - sh - n), n) = Put(buf, i, <<XorByte(buf[i + 1], v * 2^sh)>>)
         /\ W * i + (W - sh - n) \in 0 .. W * Len(buf) - n
<1>. DEFINE p == W * i + (W - sh - n)
<1>1. n \in {1, 2, 4} /\ W \in Nat \ {0} /\ Len(buf) \in Nat
      /\ (n = 1 => v = 1) /\ (n = 2 => v = 3) /\ (n = 4 => v = 15)
  BY ByteNat, SeqFacts
<1>2. W * i \in Nat /\ p \in Nat /\ p <= W * i + W - n
  <2>1. W * i \in Nat
    BY <1>1, Products
  <2>2. W - sh - n \in Nat /\ W - sh - n <= W - n
    BY <1>1
  <2>. QED  BY <1>1, <2>1, <2>2
<1>3. p <= W * Len(buf) - n
  <2>1. W * (i + 1) <= W * Len(buf)
    BY <1>1, ProductMono, Products
  <2>2. W * (i + 1) = W * i + W
    BY <1>1
  <2>. QED  BY <1>1, <1>2, <2>1, <2>2
<1>4. ASSUME NEW m \in 1 .. n, NEW k \in DOMAIN buf
      PROVE  MaskParts(p, n, k)[m] = IF k = i + 1 THEN 2^(sh + n - m) ELSE 0
  <2>. DEFINE r == W - sh - n + m - 1
  <2>1. r \in 0 .. W - 1 /\ W - 1 - r = sh + n - m
    BY <1>1
  <2>2. p + m - 1 = W * i + r
    BY <1>1, <1>2
  <2>3. (W * i + r) \div W = i /\ (W * i + r) % W = r
    <3>. HIDE DEF r
    <3>. QED  BY <1>1, <2>1, DivisionUnique
  <2>. HIDE DEF r
  <2>4. (i = k - 1) <=> (k = i + 1)
    BY SeqFacts
  <2>5. MaskParts(p, n, k)[m] = IF (p + m - 1) \div W = k - 1 THEN 2^(W - 1 - ((p + m - 1) % W)) ELSE 0
    BY DEF MaskParts
  <2>. QED  BY <2>1, <2>2, <2>3, <2>4, <2>5
<1>5. ASSUME NEW k \in DOMAIN buf
      PROVE  Mask(p, n, k) = IF k = i + 1 THEN v * 2^sh ELSE 0
  <2>. DEFINE e == MaskParts(p, n, k)
              x == CHOOSE x : SumsOf(n, e, x)
  <2>1. n \in Nat /\ e \in [1 .. n -> Nat]
    BY SMTT(40), <1>1, <1>2, MaskType
  <2>2. Mask(p, n, k) = x[n]
    BY DEF Mask
  <2>3. \A m \in 1 .. n : e[m] = IF k = i + 1 THEN 2^(sh + n - m) ELSE 0
    BY <1>4
  <2>. HIDE DEF e, p
  <2>4. SumsOf(n, e, x)
    BY <2>1, SumsExist
  <2>. HIDE DEF x
  <2>5. x[0] = 0 /\ \A m \in 1 .. n : x[m] = x[m - 1] + e[m]
    BY <2>1, <2>4, SumsValues
  <2>6. 2^sh \in Nat /\ 2^(sh + 1) = 2 * 2^sh /\ 2^(sh + 2) = 4 * 2^sh /\ 2^(sh + 3) = 8 * 2^sh
    <3>1. 2^sh \in Nat /\ 2^(sh + 1) \in Nat /\ 2^(sh + 1) = 2 * 2^sh
      BY PowerPositive, PowerDoubles
    <3>2. sh + 1 \in Nat /\ (sh + 1) + 1 = sh + 2 /\ sh + 2 \in Nat /\ (sh + 2) + 1 = sh + 3
      OBVIOUS
    <3>3. 2^(sh + 2) = 2 * 2^(sh + 1) /\ 2^(sh + 3) = 2 * 2^(sh + 2)
      BY <3>2, PowerDoubles
    <3>. QED  BY <3>1, <3>3
  <2>7. CASE n = 1
    <3>1. x[1] = e[1] /\ e[1] = IF k = i + 1 THEN 2^sh ELSE 0
      <4>1. x[1] = x[0] + e[1] /\ e[1] = IF k = i + 1 THEN 2^(sh + 1 - 1) ELSE 0
        BY <2>3, <2>5, <2>7
      <4>2. sh + 1 - 1 = sh
        OBVIOUS
      <4>. QED  BY <2>5, <2>6, <4>1, <4>2
    <3>. QED  BY <1>1, <2>2, <2>6, <2>7, <3>1
  <2>8. CASE n = 2
    <3>1. x[1] = x[0] + e[1] /\ x[2] = x[1] + e[2]
      BY <2>5, <2>8
    <3>2. /\ e[1] = IF k = i + 1 THEN 2^(sh + 2 - 1) ELSE 0
          /\ e[2] = IF k = i + 1 THEN 2^(sh + 2 - 2) ELSE 0
      BY <2>3, <2>8
    <3>3. sh + 2 - 1 = sh + 1 /\ sh + 2 - 2 = sh
      OBVIOUS
    <3>. QED  BY <1>1, <2>2, <2>5, <2>6, <2>8, <3>1, <3>2, <3>3
  <2>9. CASE n = 4
    <3>1. x[1] = x[0] + e[1] /\ x[2] = x[1] + e[2] /\ x[3] = x[2] + e[3] /\ x[4] = x[3] + e[4]
      BY <2>5, <2>9
    <3>2. /\ e[1] = IF k = i + 1 THEN 2^(sh + 4 - 1) ELSE 0
          /\ e[2] = IF k = i + 1 THEN 2^(sh + 4 - 2) ELSE 0
          /\ e[3] = IF k = i + 1 THEN 2^(sh + 4 - 3) ELSE 0
          /\ e[4] = IF k = i + 1 THEN 2^(sh + 4 - 4) ELSE 0
      BY <2>3, <2>9
    <3>3. sh + 4 - 1 = sh + 3 /\ sh + 4 - 2 = sh + 2 /\ sh + 4 - 3 = sh + 1 /\ sh + 4 - 4 = sh
      OBVIOUS
    <3>. QED  BY <1>1, <2>2, <2>5, <2>6, <2>9, <3>1, <3>2, <3>3
  <2>. QED  BY <1>1, <2>7, <2>8, <2>9
<1>6. FlipBits(buf, p, n) = [k \in DOMAIN buf |-> XorByte(buf[k], Mask(p, n, k))]
  <2>. HIDE DEF p
  <2>1. n \in Nat
    BY <1>1
  <2>. QED  BY <1>2, <2>1, FlipBitsIs DEF Flipped
<1>. HIDE DEF p
<1>7. \A k \in DOMAIN buf :
        XorByte(buf[k], Mask(p, n, k)) =
        IF k \in i + 1 .. i + 1 THEN <<XorByte(buf[i + 1], v * 2^sh)>>[k - i] ELSE buf[k]
  <2>1. TAKE k \in DOMAIN buf
  <2>2. k \in Nat /\ buf[k] \in Byte
    BY SeqFacts
  <2>3. CASE k = i + 1
    <3>1. k - i = 1 /\ k \in i + 1 .. i + 1
      BY <2>3
    <3>. QED  BY <1>5, <2>3, <3>1
  <2>4. CASE k # i + 1
    <3>1. k \notin i + 1 .. i + 1
      BY <2>2, <2>4
    <3>. QED  BY <1>5, <2>2, <2>4, <3>1, XorBack, PowerPositive DEF Byte
  <2>. QED  BY <2>3, <2>4
<1>8. Len(<<XorByte(buf[i + 1], v * 2^sh)>>) = 1
  OBVIOUS
<1>9. FlipBits(buf, p, n) = Put(buf, i, <<XorByte(buf[i + 1], v * 2^sh)>>)
  BY <1>6, <1>7, <1>8 DEF Put
<1>. QED  BY <1>2, <1>3, <1>9 DEF p

(* The number of a single byte.                                            *)
LEMMA ValueOne ==
  ASSUME NEW b \in Seq(Byte), Len(b) = 1
  PROVE  Value(b) = b[1]
<1>. DEFINE v == CHOOSE v : SumsOf(1, ValueParts(b), v)
<1>1. b[1] \in Nat
  <2>1. b[1] \in Byte
    BY SeqFacts
  <2>. QED  BY <2>1, ByteNat
<1>2. W * (1 - 1) = 0 /\ 2^0 = 1
  BY ByteNat
<1>3. ValueParts(b)[1] = b[1]
  <2>1. ValueParts(b) = [i \in 1 .. 1 |-> b[i] * 2^(W * (i - 1))]
    BY DEF ValueParts
  <2>2. b[1] * 2^(W * (1 - 1)) = b[1]
    <3>1. 2^(W * (1 - 1)) = 1
      BY <1>2, Zenon
    <3>2. b[1] * 1 = b[1]
      BY <1>1
    <3>. QED  BY <3>1, <3>2, Zenon
  <2>. QED  BY <1>1, <2>1, <2>2
<1>4. ValueParts(b) \in [1 .. 1 -> Nat] /\ Value(b) = v[1]
  <2>1. ValueParts(b) \in [1 .. Len(b) -> Nat]
    BY ValueIs
  <2>2. Value(b) = (CHOOSE u : SumsOf(Len(b), ValueParts(b), u))[Len(b)]
    BY ValueIs
  <2>. QED  BY <2>1, <2>2
<1>5. SumsOf(1, ValueParts(b), v)
  BY <1>4, SumsExist
<1>. HIDE DEF v
<1>6. v[0] = 0 /\ \A i \in 1 .. 1 : v[i] = v[i - 1] + ValueParts(b)[i]
  <2>1. 1 \in Nat
    OBVIOUS
  <2>. QED  BY <1>4, <1>5, <2>1, SumsValues
<1>7. v[1] = v[0] + ValueParts(b)[1]
  <2>1. 1 \in 1 .. 1 /\ 1 - 1 = 0
    OBVIOUS
  <2>. QED  BY <1>6, <2>1
<1>. QED  BY <1>1, <1>3, <1>4, <1>6, <1>7

(* The patterns of could_be_bitflip that fit in a byte.                    *)
LEMMA PatternsOfAByte ==
  ASSUME NEW x \in Byte, NEW sh \in 0 .. W - 1,
         \/ x \in {1 * 2^sh, 3 * 2^sh, 15 * 2^sh}
         \/ sh % W = 0 /\ x \in {(2^W - 1) * 2^sh, (2^(2 * W) - 1) * 2^sh, (2^(4 * W) - 1) * 2^sh}
  PROVE  \/ x = 2^W - 1
         \/ \E c \in {<<1, 1>>, <<2, 3>>, <<4, 15>>} : x = c[2] * 2^sh /\ sh + c[1] <= W
<1>1. W \in Nat /\ W >= 4 /\ 2^W \in Nat \ {0} /\ sh \in Nat /\ x \in Nat /\ x < 2^W
  <2>1. W \in Nat /\ W >= 4
    BY StagesAssumption
  <2> DEFINE values == 2^W
  <2>2. values \in Nat \ {0} /\ x \in 0 .. values - 1
    BY ByteNat DEF Byte
  <2>. HIDE DEF values
  <2>3. x \in Nat /\ x < values /\ sh \in Nat
    BY <2>1, <2>2
  <2>. QED  BY <2>1, <2>2, <2>3 DEF values
<1>2. 2^sh \in Nat \ {0} /\ 2^(sh + 1) = 2 * 2^sh /\ 2^(sh + 2) = 4 * 2^sh /\ 2^(sh + 3) = 8 * 2^sh
  <2>1. 2^sh \in Nat \ {0} /\ 2^(sh + 1) = 2 * 2^sh
    BY <1>1, PowerPositive, PowerDoubles
  <2>2. sh + 1 \in Nat /\ (sh + 1) + 1 = sh + 2 /\ sh + 2 \in Nat /\ (sh + 2) + 1 = sh + 3
    BY <1>1
  <2>3. 2^(sh + 2) = 2 * 2^(sh + 1) /\ 2^(sh + 3) = 2 * 2^(sh + 2)
    BY <2>2, PowerDoubles
  <2>. QED  BY <2>1, <2>3
<1>3. CASE x = 1 * 2^sh
  BY <1>1, <1>3
<1>4. CASE x = 3 * 2^sh
  <2>1. SUFFICES ASSUME sh + 2 > W PROVE FALSE
    BY <1>1, <1>4
  <2>2. W = sh + 1
    BY <1>1, <2>1
  <2>. QED  BY <1>1, <1>2, <1>4, <2>2
<1>5. CASE x = 15 * 2^sh
  <2>1. SUFFICES ASSUME sh + 4 > W PROVE FALSE
    BY <1>1, <1>5
  <2>2. W = sh + 1 \/ W = sh + 2 \/ W = sh + 3
    BY <1>1, <2>1
  <2>. QED  BY <1>1, <1>2, <1>5, <2>2
<1>6. CASE sh % W = 0 /\ x \in {(2^W - 1) * 2^sh, (2^(2 * W) - 1) * 2^sh, (2^(4 * W) - 1) * 2^sh}
  <2>1. sh = 0 /\ 2^0 = 1
    BY <1>1, <1>6
  <2>2. 2 * W \in Nat /\ 4 * W \in Nat /\ W + 1 \in Nat /\ W + 1 <= 2 * W /\ W + 1 <= 4 * W
    BY <1>1
  <2>3. 2^(W + 1) <= 2^(2 * W) /\ 2^(W + 1) <= 2^(4 * W)
    BY <2>2, PowerMono
  <2>4. 2^(W + 1) = 2 * 2^W /\ 2^(2 * W) \in Nat /\ 2^(4 * W) \in Nat
    BY <1>1, <2>2, PowerDoubles, PowerPositive
  <2>5. x \in {2^W - 1, 2^(2 * W) - 1, 2^(4 * W) - 1}
    <3>1. 2^sh = 1
      BY <2>1, Zenon
    <3>2. \A y \in Int : y * 1 = y
      OBVIOUS
    <3>3. x \in {(2^W - 1) * 1, (2^(2 * W) - 1) * 1, (2^(4 * W) - 1) * 1}
      BY <1>6, <3>1, Zenon
    <3>4. 2^W - 1 \in Int /\ 2^(2 * W) - 1 \in Int /\ 2^(4 * W) - 1 \in Int
      BY <1>1, <2>4
    <3>. QED  BY <3>2, <3>3, <3>4
  <2>6. 2^(2 * W) - 1 >= 2^W /\ 2^(4 * W) - 1 >= 2^W
    BY <1>1, <2>3, <2>4
  <2>. QED  BY <1>1, <2>4, <2>5, <2>6
<1>. QED  BY <1>3, <1>4, <1>5, <1>6

(* A buffer with one byte put back is the buffer.                          *)
LEMMA PutSame ==
  ASSUME NEW buf \in Seq(Byte), NEW i \in Nat, i + 1 <= Len(buf)
  PROVE  /\ Put(buf, i, At(buf, i, 1)) = buf
         /\ At(buf, i, 1) \in Seq(Byte) /\ Len(At(buf, i, 1)) = 1 /\ At(buf, i, 1)[1] = buf[i + 1]
<1>1. At(buf, i, 1) \in Seq(Byte) /\ Len(At(buf, i, 1)) = 1 /\ \A k \in 1 .. 1 : At(buf, i, 1)[k] = buf[i + k]
  <2>1. 1 \in Nat
    OBVIOUS
  <2>. QED  BY <2>1, AtType, Zenon
<1>2. Put(buf, i, At(buf, i, 1)) = buf
  BY PutBack
<1>. QED  BY <1>1, <1>2

LEMMA SingleByte ==
  ASSUME NEW b \in Seq(Byte), Len(b) = 1
  PROVE  b = <<b[1]>> /\ b[1] \in Byte /\ DOMAIN b = {1} /\ Swapped(b) = b /\ At(b, 0, 1) = b
<1>1. DOMAIN b = 1 .. 1 /\ b[1] \in Byte
  BY SeqFacts
<1>2. 1 .. 1 = {1}
  OBVIOUS
<1>3. b = <<b[1]>>
  <2>1. <<b[1]>> \in Seq(Byte) /\ Len(<<b[1]>>) = 1 /\ <<b[1]>>[1] = b[1]
    BY <1>1
  <2>. QED  BY <1>2, <2>1, SeqEqual
<1>4. Swapped(b) = b
  <2>1. Swapped(b) \in Seq(Byte) /\ Len(Swapped(b)) = 1
    BY SwappedType
  <2>2. Swapped(b)[1] = b[1]
    <3>1. 1 + 1 - 1 = 1
      OBVIOUS
    <3>2. Swapped(b) = [i \in {1} |-> b[1 + 1 - i]]
      BY <1>1, <1>2 DEF Swapped
    <3>. QED  BY <3>1, <3>2
  <2>. QED  BY <1>2, <2>1, <2>2, SeqEqual
<1>5. At(b, 0, 1) = b
  <2>1. At(b, 0, 1) \in Seq(Byte) /\ Len(At(b, 0, 1)) = 1 /\ At(b, 0, 1)[1] = b[0 + 1]
    <3>1. 0 \in Nat /\ 0 + 1 <= Len(b)
      OBVIOUS
    <3>. QED  BY <3>1, PutSame
  <2>2. 0 + 1 = 1
    OBVIOUS
  <2>. QED  BY <1>2, <2>1, <2>2, SeqEqual
<1>. QED  BY <1>1, <1>2, <1>3, <1>4, <1>5

(* The stages that flip are there for any entry.                           *)
LEMMA FlipsApply ==
  ASSUME stage \in 5 .. 15, Size >= 1
  PROVE  {"flip1", "flip2", "flip4", "flip8"} \subseteq Earlier
<1>1. \A s \in {"flip1", "flip2", "flip4", "flip8"} : Applies(s)
  BY DEF Applies, Width, Arithmetic
<1>2. {1, 2, 3, 4} \subseteq 1 .. stage - 1
  OBVIOUS
<1>3. DetStages[1] = "flip1" /\ DetStages[2] = "flip2" /\ DetStages[3] = "flip4" /\ DetStages[4] = "flip8"
  BY DEF DetStages
<1>. QED  BY <1>1, <1>2, <1>3 DEF Earlier

(* What a stage other than a flip of bits runs.                            *)
LEMMA TriedChange ==
  ASSUME NEW s, s \notin Flips, NEW i \in 0 .. Positions(s) - 1, NEW k \in 1 .. Items(s),
         ConsultsMap(s) => Effective(s, i), ~ Redundant(s, At(in_buf, i, Width(s)), k)
  PROVE  Put(in_buf, i, Changed(s, At(in_buf, i, Width(s)), k)) \in Tried(s)
<1>. DEFINE Cases == {d \in (0 .. Positions(s) - 1) \X (1 .. Items(s)) :
               /\ ConsultsMap(s) => Effective(s, d[1])
               /\ ~ Redundant(s, At(in_buf, d[1], Width(s)), d[2])}
            Of(d) == Put(in_buf, d[1], Changed(s, At(in_buf, d[1], Width(s)), d[2]))
            e == <<i, k>>
<1>1. e \in (0 .. Positions(s) - 1) \X (1 .. Items(s)) /\ e[1] = i /\ e[2] = k
  OBVIOUS
<1>. HIDE DEF e
<1>2. e \in Cases
  BY <1>1, Zenon
<1>3. Of(e) = Put(in_buf, i, Changed(s, At(in_buf, i, Width(s)), k))
  BY <1>1, Zenon
<1>4. Tried(s) = {Of(d) : d \in Cases}
  BY Zenon DEF Tried
<1>. HIDE DEF Cases, Of
<1>. QED  BY <1>2, <1>3, <1>4, Zenon

(* A byte that could be a bitflip was one.                                 *)
LEMMA BitflipWasRun ==
  ASSUME in_buf \in Seq(Byte), NEW i \in Nat, i + 1 <= Size, stage \in 5 .. 15,
         NEW c \in Seq(Byte), Len(c) = 1, CouldBeBitflip(At(in_buf, i, 1), c)
  PROVE  Put(in_buf, i, c) \in {in_buf} \cup UNION {Tried(s) : s \in Earlier}
<1>. DEFINE w == At(in_buf, i, 1)
            a == in_buf[i + 1]
            b == c[1]
            x == XorByte(a, b)
            old == in_buf
<1>1. /\ old \in Seq(Byte) /\ i + 1 <= Len(old) /\ Len(old) \in Nat /\ Put(old, i, w) = old
      /\ w \in Seq(Byte) /\ Len(w) = 1 /\ w[1] = a
  BY PutSame, SeqFacts DEF Size
<1>2. a \in Byte /\ b \in Byte /\ c = <<b>> /\ w = <<a>> /\ DOMAIN w = {1}
  <2>1. w[1] \in Byte /\ w = <<w[1]>> /\ DOMAIN w = {1}
    BY <1>1, SingleByte
  <2>. QED  BY <1>1, <2>1, SingleByte
<1>3. x \in Byte /\ XorByte(a, x) = b /\ XorByte(a, 0) = a
  BY <1>2, XorBack
<1>. HIDE DEF w, x
<1>4. Value(Xor(w, c)) = x
  <2>1. Xor(w, c) = [k \in {1} |-> XorByte(w[k], c[k])]
    BY <1>2 DEF Xor
  <2>2. 1 .. 1 = {1}
    OBVIOUS
  <2>3. Xor(w, c) \in [1 .. 1 -> Byte] /\ Xor(w, c)[1] = x
    BY <1>1, <1>3, <2>1, <2>2 DEF x
  <2>4. Xor(w, c) \in Seq(Byte) /\ Len(Xor(w, c)) = 1
    <3>1. 1 \in Nat
      OBVIOUS
    <3>. QED  BY <2>3, <3>1, IsSeq
  <2>. QED  BY <2>3, <2>4, ValueOne
<1>5. SUFFICES ASSUME Put(old, i, c) # old
               PROVE  \E s \in Earlier : Put(old, i, c) \in Tried(s)
  OBVIOUS
<1>6. {"flip1", "flip2", "flip4", "flip8"} \subseteq Earlier
  <2>1. Size >= 1
    BY <1>1 DEF Size
  <2>. QED  BY <2>1, FlipsApply
<1>7. x # 0
  BY <1>1, <1>2, <1>3, <1>5
<1>8. PICK sh \in 0 .. W - 1 :
         \/ x \in {1 * 2^sh, 3 * 2^sh, 15 * 2^sh}
         \/ sh % W = 0 /\ x \in {(2^W - 1) * 2^sh, (2^(2 * W) - 1) * 2^sh, (2^(4 * W) - 1) * 2^sh}
  <2>1. W * Len(w) - 1 = W - 1
    BY <1>1, ByteNat
  <2>2. CouldBeBitflip(w, c)
    BY DEF w
  <2>. QED  BY <1>4, <1>7, <2>1, <2>2 DEF CouldBeBitflip
<1>9. \/ x = 2^W - 1
      \/ \E q \in {<<1, 1>>, <<2, 3>>, <<4, 15>>} : x = q[2] * 2^sh /\ sh + q[1] <= W
  BY <1>3, <1>8, PatternsOfAByte
<1>10. CASE x = 2^W - 1
  <2>1. b = 2^W - 1 - a
    BY <1>2, <1>10, XorOnes DEF x
  <2>2. Changed("flip8", w, 1) = [k \in {1} |-> 2^W - 1 - w[k]]
    BY <1>2 DEF Changed, Arithmetic, Overwrites
  <2>3. Changed("flip8", w, 1) = c
    <3>1. c = [k \in {1} |-> 2^W - 1 - w[k]]
      <4>1. DOMAIN c = {1} /\ c = [k \in DOMAIN c |-> c[k]]
        BY SingleByte, SeqFacts
      <4>. QED  BY <1>1, <2>1, <4>1
    <3>. QED  BY <2>2, <3>1
  <2>4. Width("flip8") = 1 /\ Items("flip8") = 1 /\ Positions("flip8") = Size - 1 + 1
        /\ "flip8" \notin Flips /\ ~ ConsultsMap("flip8") /\ ~ Redundant("flip8", w, 1)
    BY DEF Width, Items, Positions, Flips, ConsultsMap, Redundant, Arithmetic, Integers8To32, Overwrites
  <2>5. <<i, 1>> \in (0 .. Positions("flip8") - 1) \X (1 .. Items("flip8"))
    BY <1>1, <2>4 DEF Size
  <2>6. Put(old, i, c) \in Tried("flip8")
    <3>1. i \in 0 .. Positions("flip8") - 1 /\ 1 \in 1 .. Items("flip8")
      BY <2>5
    <3>2. Put(old, i, Changed("flip8", At(old, i, Width("flip8")), 1)) \in Tried("flip8")
      BY <2>4, <3>1, TriedChange DEF w
    <3>. QED  BY <2>3, <2>4, <3>2 DEF w
  <2>. QED  BY <1>6, <2>6
<1>11. ASSUME NEW q \in {<<1, 1>>, <<2, 3>>, <<4, 15>>}, x = q[2] * 2^sh, sh + q[1] <= W
       PROVE  \E s \in Earlier : Put(old, i, c) \in Tried(s)
  <2>. DEFINE n == q[1]
              v == q[2]
              p == W * i + (W - sh - n)
  <2>1. <<n, v>> \in {<<1, 1>>, <<2, 3>>, <<4, 15>>} /\ sh \in Nat /\ n \in {1, 2, 4}
    BY <1>8
  <2>2. FlipBits(old, p, n) = Put(old, i, <<XorByte(a, v * 2^sh)>>) /\ p \in 0 .. W * Len(old) - n
    <3>. HIDE DEF n, v
    <3>. QED  BY <1>1, <1>11, <2>1, FlipInByte DEF n, v
  <2>3. FlipBits(old, p, n) = Put(old, i, c)
    BY <1>2, <1>3, <1>11, <2>2
  <2>4. PICK s \in Flips : Bits(s) = n /\ s \in Earlier
    <3>1. Bits("flip1") = 1 /\ Bits("flip2") = 2 /\ Bits("flip4") = 4
      BY DEF Bits
    <3>. QED  BY <1>6, <2>1, <3>1 DEF Flips
  <2>. HIDE DEF n, p
  <2>5. p \in 0 .. Positions(s) - 1
    <3>1. Positions(s) = W * Size - n + 1
      <4>1. Positions(s) = W * Size - Bits(s) + 1
        BY <2>4 DEF Positions, Flips
      <4>. QED  BY <2>4, <4>1, Zenon
    <3>2. W * Len(old) \in Nat
      BY <1>1, ByteNat, Products
    <3>. QED  BY <2>1, <2>2, <3>1, <3>2 DEF Size
  <2>6. Put(old, i, c) \in Tried(s)
    BY <2>3, <2>4, <2>5 DEF Tried
  <2>. QED  BY <2>4, <2>6
<1>. QED  BY <1>9, <1>10, <1>11

(* Differences of bytes, modulo their number.                              *)
LEMMA Around ==
  ASSUME NEW m \in Nat \ {0}, NEW a \in 0 .. m - 1
  PROVE  a % m = a /\ (a + m) % m = a /\ (a - m) % m = a
<1>1. a % m = a /\ a + m = m * 1 + a /\ (m * 1 + a) % m = a
  <2>1. 1 \in Nat /\ a + m = m * 1 + a
    OBVIOUS
  <2>. QED  BY <2>1, DivisionUnique
<1>2. (a - m) % m = a
  <2>. DEFINE d == a - m
              q == d \div m
              r == d % m
  <2>1. d \in Int /\ m \in Int /\ m > 0 /\ d < 0 /\ d >= -m
    OBVIOUS
  <2>2. q \in Int /\ r \in 0 .. m - 1 /\ d = m * q + r
    <3>. HIDE DEF d
    <3>. QED  BY <2>1, Division
  <2>. HIDE DEF q, r
  <2>3. q = -1
    <3>1. q >= 0 => m * q >= 0
      BY <2>1, <2>2
    <3>2. q <= -2 => m * q <= -2 * m
      <4>1. SUFFICES ASSUME q <= -2 PROVE m * q <= -2 * m
        OBVIOUS
      <4>2. (-2 - q) \in Nat
        BY <2>2, <4>1
      <4>3. m * (-2 - q) >= 0
        BY <4>2, Products
      <4>4. m * (-2 - q) = -2 * m - m * q
        BY <2>2
      <4>. QED  BY <2>2, <4>3, <4>4
    <3>. QED  BY <2>1, <2>2, <3>1, <3>2
  <2>4. r = a
    BY <2>1, <2>2, <2>3
  <2>. QED  BY <2>4 DEF r
<1>. QED  BY <1>1, <1>2, Zenon

(* The sum of a byte and a number.                                         *)
LEMMA AddOne ==
  ASSUME NEW w \in Seq(Byte), Len(w) = 1, NEW d \in Int
  PROVE  Add(w, d) = <<(w[1] + d) % 2^W>>
<1>. DEFINE m == 2^W
            v == (w[1] + d) % m
<1>1. m \in Nat \ {0} /\ W \in Nat /\ w[1] \in Nat
  BY SingleByte, ByteNat
<1>2. v \in 0 .. m - 1
  <2>. HIDE DEF m
  <2>. QED  BY <1>1
<1>3. W * 1 = W /\ W * (1 - 1) = 0 /\ 2^0 = 1
  BY <1>1
<1>4. Add(w, d) = Word(v, 1)
  <2>1. Value(w) = w[1]
    BY ValueOne
  <2>2. 2^(W * Len(w)) = m
    BY <1>3, Zenon
  <2>3. Len(w) = 1
    OBVIOUS
  <2>. QED  BY <2>1, <2>2, <2>3, Zenon DEF Add
<1>. HIDE DEF v
<1>5. Word(v, 1)[1] = v
  <2>1. Word(v, 1) = [i \in 1 .. 1 |-> (v \div 2^(W * (i - 1))) % m]
    BY Zenon DEF Word
  <2>2. Word(v, 1)[1] = (v \div 2^(W * (1 - 1))) % m
    <3>1. 1 \in 1 .. 1
      OBVIOUS
    <3>. QED  BY <2>1, <3>1
  <2>3. 2^(W * (1 - 1)) = 1
    BY <1>3, Zenon
  <2>4. v \div 1 = v
    BY <1>2
  <2>5. v % m = v
    <3>. HIDE DEF m
    <3>. QED  BY <1>1, <1>2, Around
  <2>. QED  BY <2>2, <2>3, <2>4, <2>5, Zenon
<1>6. Word(v, 1) \in Seq(Byte) /\ Len(Word(v, 1)) = 1
  <2>1. 1 \in Nat /\ v \in Nat
    BY <1>2
  <2>. QED  BY <2>1, WordType, Zenon
<1>. QED  BY <1>4, <1>5, <1>6, SingleByte, Zenon DEF v

(* The changes of the arithmetic stage reach every byte that is near.      *)
LEMMA NearByte ==
  ASSUME NEW w \in Seq(Byte), NEW c \in Seq(Byte), Len(w) = 1, Len(c) = 1, Near(w, c), w # c
  PROVE  \E k \in 1 .. Items("arith8") : Changed("arith8", w, k) = c
<1>. DEFINE m == 2^W
            a == w[1]
            b == c[1]
            up == (b - a) % m
            down == (a - b) % m
<1>1. m \in Nat \ {0} /\ a \in 0 .. m - 1 /\ b \in 0 .. m - 1 /\ w = <<a>> /\ c = <<b>> /\ a # b
  BY SingleByte, ByteNat DEF Byte
<1>2. up <= ArithMax \/ down <= ArithMax
  <2>1. Value(w) = a /\ Value(c) = b
    BY ValueOne
  <2>2. W * 1 = W /\ Len(w) = 1
    BY ByteNat
  <2>3. 2^(W * Len(w)) = m
    BY <2>2, Zenon
  <2>. QED  BY <2>1, <2>3, Zenon DEF Near
<1>3. ArithMax \in Nat /\ Items("arith8") = 2 * ArithMax
  BY StagesAssumption DEF Items
<1>4. ASSUME NEW k \in 1 .. 2 * ArithMax PROVE Changed("arith8", w, k) = <<(a + Step("arith8", k)) % m>>
  <2>1. Step("arith8", k) \in Int
    BY <1>3 DEF Step
  <2>2. Changed("arith8", w, k) = Add(w, Step("arith8", k))
    <3>1. "arith8" \in Arithmetic /\ ~ BigEndian("arith8", k)
      BY DEF Arithmetic, BigEndian
    <3>2. Changed("arith8", w, k) =
            IF BigEndian("arith8", k) THEN AddSwapped(w, Step("arith8", k)) ELSE Add(w, Step("arith8", k))
      BY <3>1 DEF Changed, Arithmetic, Overwrites
    <3>. QED  BY <3>1, <3>2, Zenon
  <2>. QED  BY <2>1, <2>2, AddOne
<1>. HIDE DEF m, a, b
<1>5. up = (IF b >= a THEN b - a ELSE b - a + m) /\ down = (IF a >= b THEN a - b ELSE a - b + m)
  <2>1. \A y \in 1 - m .. m - 1 : y % m = IF y >= 0 THEN y ELSE y + m
    <3>1. TAKE y \in 1 - m .. m - 1
    <3>2. CASE y >= 0
      <4>1. y \in 0 .. m - 1
        BY <1>1, <3>2
      <4>. QED  BY <1>1, <3>2, <4>1, Around
    <3>3. CASE ~ (y >= 0)
      <4>1. y + m \in 0 .. m - 1 /\ (y + m) - m = y
        BY <1>1, <3>3
      <4>2. ((y + m) - m) % m = y + m
        BY <1>1, <4>1, Around
      <4>. QED  BY <3>3, <4>1, <4>2
    <3>. QED  BY <3>2, <3>3
  <2>2. b - a \in 1 - m .. m - 1 /\ a - b \in 1 - m .. m - 1
    BY <1>1
  <2>3. (b - a >= 0 <=> b >= a) /\ (a - b >= 0 <=> a >= b)
    BY <1>1
  <2>4. up = (IF b - a >= 0 THEN b - a ELSE (b - a) + m) /\ down = (IF a - b >= 0 THEN a - b ELSE (a - b) + m)
    BY <2>1, <2>2, Zenon
  <2>. QED  BY <2>3, <2>4
<1>6. CASE up <= ArithMax
  <2>1. up \in 1 .. ArithMax
    BY <1>1, <1>3, <1>5, <1>6
  <2>2. (a + up) % m = b
    <3>1. a + up = b \/ a + up = b + m
      BY <1>1, <1>5
    <3>. QED  BY <1>1, <3>1, Around
  <2>. HIDE DEF up
  <2>. DEFINE k == 2 * up - 1
  <2>3. k \in 1 .. 2 * ArithMax /\ k % 2 = 1 /\ (k - 1) \div 2 + 1 = up
    BY <1>3, <2>1
  <2>4. Step("arith8", k) = up
    <3>. HIDE DEF k
    <3>. QED  BY <2>3 DEF Step
  <2>. HIDE DEF k
  <2>. QED  BY <1>1, <1>3, <1>4, <2>2, <2>3, <2>4
<1>7. CASE down <= ArithMax
  <2>1. down \in 1 .. ArithMax
    BY <1>1, <1>3, <1>5, <1>7
  <2>2. (a + (0 - down)) % m = b
    <3>1. a + (0 - down) = b \/ a + (0 - down) = b - m
      BY <1>1, <1>5
    <3>. QED  BY <1>1, <3>1, Around
  <2>. HIDE DEF down
  <2>. DEFINE k == 2 * down
  <2>3. k \in 1 .. 2 * ArithMax /\ k % 2 # 1 /\ (k - 1) \div 2 + 1 = down
    BY <1>3, <2>1
  <2>4. Step("arith8", k) = 0 - down
    <3>. HIDE DEF k
    <3>. QED  BY <2>3 DEF Step
  <2>. HIDE DEF k
  <2>. QED  BY <1>1, <1>3, <1>4, <2>2, <2>3, <2>4
<1>. QED  BY <1>2, <1>6, <1>7

(* A byte that could be a sum was one.                                     *)
LEMMA ArithWasRun ==
  ASSUME in_buf \in Seq(Byte), NEW i \in Nat, i + 1 <= Size, stage \in 8 .. 15, ~ no_arith,
         Effective("arith8", i),
         NEW c \in Seq(Byte), Len(c) = 1, CouldBeArith(At(in_buf, i, 1), c)
  PROVE  Put(in_buf, i, c) \in {in_buf} \cup UNION {Tried(s) : s \in Earlier}
<1>. DEFINE w == At(in_buf, i, 1)
            Run == {in_buf} \cup UNION {Tried(s) : s \in Earlier}
<1>1. w \in Seq(Byte) /\ Len(w) = 1 /\ Put(in_buf, i, w) = in_buf /\ Size \in Nat
  BY PutSame, SeqFacts DEF Size
<1>2. CASE w = c
  BY <1>1, <1>2
<1>3. CASE CouldBeBitflip(w, c)
  <2>1. stage \in 5 .. 15
    OBVIOUS
  <2>. QED  BY <1>3, <2>1, BitflipWasRun
<1>4. CASE w # c /\ ~ CouldBeBitflip(w, c)
  <2>. HIDE DEF w
  <2>1. Near(w, c)
    <3>1. PICK n \in {1, 2} : Len(w) >= n /\ OnlyDiffNear(w, c, n)
      <4>1. CouldBeArith(w, c)
        BY DEF w
      <4>2. Len(w) # 4
        BY <1>1
      <4>. QED  BY <1>4, <4>1, <4>2, Zenon DEF CouldBeArith
    <3>2. n = 1
      BY <1>1, <3>1
    <3>3. PICK j \in DiffAt(w, c, 1) : NearEitherEnd(At(w, j * 1, 1), At(c, j * 1, 1))
      BY <3>1, <3>2 DEF OnlyDiffNear
    <3>4. j = 0 /\ j * 1 = 0
      BY <1>1, <3>3 DEF DiffAt
    <3>5. At(w, 0, 1) = w /\ At(c, 0, 1) = c /\ Swapped(w) = w /\ Swapped(c) = c
      BY <1>1, SingleByte
    <3>6. NearEitherEnd(w, c)
      BY <3>3, <3>4, <3>5, Zenon
    <3>. QED  BY <3>5, <3>6 DEF NearEitherEnd
  <2>2. PICK k \in 1 .. Items("arith8") : Changed("arith8", w, k) = c
    BY <1>1, <1>4, <2>1, NearByte
  <2>3. Width("arith8") = 1 /\ "arith8" \notin Flips /\ Positions("arith8") = Size - 1 + 1
    BY DEF Width, Flips, Positions
  <2>4. ~ Redundant("arith8", w, k)
    BY <1>4, <2>2 DEF Redundant
  <2>5. i \in 0 .. Positions("arith8") - 1
    BY <1>1, <2>3
  <2>6. Put(in_buf, i, Changed("arith8", At(in_buf, i, Width("arith8")), k)) \in Tried("arith8")
    BY <2>3, <2>4, <2>5, TriedChange DEF w
  <2>7. Put(in_buf, i, c) \in Tried("arith8")
    BY <2>2, <2>3, <2>6 DEF w
  <2>8. "arith8" \in Earlier
    <3>1. DetStages[7] = "arith8" /\ 7 \in 1 .. stage - 1
      BY DEF DetStages
    <3>2. Size >= 1
      BY <1>1
    <3>3. Applies("arith8")
      BY <2>3, <3>2 DEF Applies
    <3>. QED  BY <3>1, <3>3 DEF Earlier
  <2>. QED  BY <2>7, <2>8
<1>. QED  BY <1>2, <1>3, <1>4

(* A stage that asks the effector map is at a position that has an effect. *)
Reached == pc \in {"item", "run"} /\ ConsultsMap(Now) => Effective(Now, at)

LEMMA ReachedInit == Init => Reached
  BY DEF Init, Reached

LEMMA ReachedStep == Reached /\ [Next]_vars => Reached'
<1>. SUFFICES ASSUME Reached, [Next]_vars PROVE Reached'
  OBVIOUS
<1>1. ASSUME UNCHANGED <<pc, stage, at, eff_map>> PROVE Reached'
  BY <1>1 DEF Reached, Now, ConsultsMap, Effective, EffPos, Width
<1>2. ASSUME UNCHANGED <<stage, at, eff_map>>, pc \in {"item", "run"} PROVE Reached'
  BY <1>2 DEF Reached, Now, ConsultsMap, Effective, EffPos, Width
<1>3. CASE EnterPosition
  <2>1. UNCHANGED <<stage, at, eff_map>> /\ (ConsultsMap(Now) => Effective(Now, at))
    BY <1>3 DEF EnterPosition, effVars
  <2>. QED  BY <2>1 DEF Reached, Now, ConsultsMap, Effective, EffPos, Width
<1>4. CASE SkipItem
  BY <1>1, <1>4 DEF SkipItem, effVars
<1>5. CASE Mutate
  <2>1. pc = "item" /\ UNCHANGED <<stage, at, eff_map>>
    BY <1>5 DEF Mutate, stageVars, effVars
  <2>. QED  BY <1>2, <2>1
<1>6. CASE RunDone
  <2>1. pc = "run" /\ UNCHANGED <<stage, at>> /\ (Now # "flip8" => UNCHANGED eff_map)
    BY <1>6 DEF RunDone, effVars
  <2>2. CASE Now = "flip8"
    <3>1. ~ ConsultsMap(Now)'
      BY <2>1, <2>2 DEF ConsultsMap, Now, Arithmetic, Integers8To32
    <3>. QED  BY <3>1 DEF Reached
  <2>3. CASE Now # "flip8"
    BY <1>2, <2>1, <2>3
  <2>. QED  BY <2>2, <2>3
<1>7. CASE UNCHANGED vars
  BY <1>1, <1>7 DEF vars, stageVars, effVars
<1>8. ASSUME pc' \notin {"item", "run"} PROVE Reached'
  BY <1>8 DEF Reached
<1>9. CASE Score \/ SkipDeterministic \/ EnterDeterministic \/ NextStage \/ DeterministicDone
           \/ LeavePosition \/ EndStage \/ RunAbandoned
  BY <1>8, <1>9 DEF Score, SkipDeterministic, EnterDeterministic, NextStage, DeterministicDone,
                    LeavePosition, EndStage, RunAbandoned, Abandons
<1>10. CASE SkipPosition
  BY <1>8, <1>10 DEF SkipPosition
<1>11. CASE HavocStage \/ HavocStart \/ Tweak \/ HavocRun \/ HavocAbandoned \/ HavocDone
            \/ SpliceDone \/ Leave
  BY <1>8, <1>11 DEF HavocStage, HavocStart, Tweak, HavocRun, HavocAbandoned, HavocDone,
                     SpliceDone, Leave, Abandons
<1>12. CASE Splice
  BY <1>8, <1>12 DEF Splice, SpliceWith
<1>. QED  BY <1>3, <1>4, <1>5, <1>6, <1>7, <1>9, <1>10, <1>11, <1>12 DEF Next

LEMMA ReachedHolds == Spec => []Reached
BY ReachedInit, ReachedStep, PTL DEF Spec

(* What arithmetic and the interesting bytes leave out as a product of an  *)
(* earlier stage: could_be_bitflip and could_be_arith are right about what *)
(* the flips and the arithmetic of that byte have run.                     *)
THEOREM ByteSkipsWereRunHolds == Spec => ByteSkipsWereRun
<1>. DEFINE Run == {in_buf} \cup UNION {Tried(s) : s \in Earlier}
            ByteSkip == SkipItem /\ (Now = "arith8" \/ (Now = "int8" /\ ~no_arith))
            Skips == ByteSkip => Put(out_buf, at, Changed(Now, orig, item)) \in Run
<1>1. ASSUME IInv, Reached, ByteSkip
      PROVE  Put(out_buf, at, Changed(Now, orig, item)) \in Run
  <2>. DEFINE c == Changed(Now, orig, item)
  <2>1. /\ pc = "item" /\ item <= Items(Now) /\ Redundant(Now, orig, item) /\ Now \in {"arith8", "int8"}
        /\ SameOutside(Pending)
    <3>1. pc = "item" /\ item <= Items(Now) /\ Skipped(Now) /\ Now \in {"arith8", "int8"}
      BY <1>1 DEF SkipItem
    <3>. QED  BY <1>1, <3>1 DEF Skipped, Overwrites, IInv, Buffer
  <2>2. Now \in UndoneAtOnce \cup KeepsChange /\ Width(Now) = 1 /\ Pending \in {0, 1} /\ ConsultsMap(Now)
    BY <2>1 DEF UndoneAtOnce, KeepsChange, Arithmetic, Width, Pending, Overwrites, ConsultsMap, Integers8To32
  <2>3. /\ in_buf \in Seq(Byte) /\ out_buf \in Seq(Byte) /\ Len(in_buf) = Size /\ at \in Nat
        /\ at + 1 <= Size /\ orig = At(in_buf, at, 1) /\ orig \in Seq(Byte) /\ Len(orig) = 1
        /\ item \in 1 .. Items(Now) /\ Dictionary /\ Size \in Nat
    BY <1>1, <2>1, <2>2, AtChange
  <2>4. c \in Seq(Byte) /\ Len(c) = 1
    BY <2>2, <2>3, ChangedType
  <2>. HIDE DEF c
  <2>5. Put(out_buf, at, c) = Put(in_buf, at, c)
    <3>1. DOMAIN out_buf = DOMAIN in_buf
      BY <2>1 DEF SameOutside
    <3>2. ASSUME NEW k \in DOMAIN in_buf, k \notin at + 1 .. at + 1 PROVE out_buf[k] = in_buf[k]
      <4>1. k \notin at + 1 .. at + Pending
        BY <2>2, <2>3, <3>2
      <4>. QED  BY <2>1, <4>1 DEF SameOutside
    <3>. QED  BY <2>4, <3>1, <3>2 DEF Put
  <2>6. stage \in 1 .. 15
    BY <1>1, <2>1, InStageFacts DEF InStage
  <2>7. (Now = "arith8" => stage = 7) /\ (Now = "int8" => stage = 10)
    BY <2>6 DEF Now, DetStages
  <2>8. CouldBeBitflip(orig, c) => Put(in_buf, at, c) \in Run
    <3>1. stage \in 5 .. 15
      BY <2>1, <2>7
    <3>. QED  BY <2>3, <2>4, <3>1, BitflipWasRun
  <2>9. CASE Now = "arith8"
    <3>1. CouldBeBitflip(orig, c)
      BY <2>1, <2>9 DEF Redundant, c
    <3>. QED  BY <2>5, <2>8, <3>1 DEF c
  <2>10. CASE Now = "int8" /\ ~ no_arith
    <3>1. CouldBeBitflip(orig, c) \/ CouldBeArith(orig, c)
      BY <2>1, <2>10 DEF Redundant, c, Arithmetic
    <3>2. ASSUME CouldBeArith(orig, c) PROVE Put(in_buf, at, c) \in Run
      <4>1. Effective(Now, at)
        BY <1>1, <2>1, <2>2 DEF Reached
      <4>2. Effective("arith8", at)
        <5>1. Width("arith8") = Width(Now)
          BY <2>2 DEF Width
        <5>. QED  BY <4>1, <5>1 DEF Effective
      <4>3. stage \in 8 .. 15
        BY <2>7, <2>10
      <4>. QED  BY <2>3, <2>4, <2>10, <3>2, <4>2, <4>3, ArithWasRun
    <3>. QED  BY <2>5, <2>8, <3>1, <3>2 DEF c
  <2>. QED  BY <1>1, <2>9, <2>10
<1>2. IInv /\ Reached => Skips
  BY <1>1
<1>3. IInv /\ Reached /\ [Next]_vars => [Skips]_vars
  BY <1>2
<1>4. ByteSkipsWereRun <=> [][Skips]_vars
  BY DEF ByteSkipsWereRun
<1>. HIDE DEF Skips
<1>. QED  BY <1>3, <1>4, InvHolds, ReachedHolds, PTL DEF Spec

(* A position is passed over only where no flip was felt, and a change of  *)
(* a byte only when an earlier stage has run it.                           *)
THEOREM SkipsLoseNothingHolds == Spec => SkipsLoseNothing
BY EffectKeptHolds, ByteSkipsWereRunHolds DEF SkipsLoseNothing
=============================================================================
