------------------------ MODULE StakingEarning_proofs ------------------------
(***************************************************************************)
(* Theorems about StakingEarning, for every set of validators, every       *)
(* amount that joins, leaves or is rebalanced, and every reward.           *)
(***************************************************************************)
EXTENDS StakingEarning, LendResourcePool_proofs

(* Quotients: what h units of which l are worth x are worth. *)

LEMMA QuotSum ==
    ASSUME NEW a \in Nat, NEW b \in Nat, NEW n \in Nat \ {0}
    PROVE  /\ a \div n + b \div n <= (a + b) \div n
           /\ (a + b) \div n <= a \div n + b \div n + 1
<1> DEFINE p == a \div n
           q == b \div n
           s == a + b
<1>1. p \in Nat /\ q \in Nat /\ n * p <= a /\ a < n * p + n /\ n * q <= b /\ b < n * q + n
  BY DivBounds, DivNat
<1>2. s \in Int /\ s = a + b
  OBVIOUS
<1> HIDE DEF p, q, s
<1>3. (p + q) * n = n * p + n * q /\ (p + q + 1 + 1) * n = n * p + n * q + n + n
  BY <1>1
<1>4. p + q <= s \div n
  <2>1. (p + q) * n <= s /\ p + q \in Int
    BY <1>1, <1>2, <1>3
  <2> QED
    BY <1>2, <2>1, DivLower
<1>5. s \div n <= p + q + 1
  <2>1. s < (p + q + 1 + 1) * n /\ p + q + 1 \in Int
    BY <1>1, <1>2, <1>3
  <2> QED
    BY <1>2, <2>1, DivUpper
<1> QED
  BY <1>4, <1>5 DEF p, q, s

\* A common factor of both sides of an inequality.
LEMMA FactorLe ==
    ASSUME NEW n \in Nat \ {0}, NEW a \in Int, NEW b \in Int, n * a <= n * b
    PROVE  a <= b
BY SMT

LEMMA ProductLe ==
    ASSUME NEW h \in Nat, NEW a \in Int, NEW b \in Int, a <= b
    PROVE  h * a <= h * b
BY SMT

\* At a price a/n that is at most b/m, h units are worth at most as much.
LEMMA QuotLe ==
    ASSUME NEW a \in Nat, NEW n \in Nat \ {0}, NEW b \in Nat, NEW m \in Nat \ {0},
           a * m <= b * n, NEW h \in Nat
    PROVE  (h * a) \div n <= (h * b) \div m
<1> DEFINE x == h * a
           y == h * b
           q == x \div n
<1>1. x \in Nat /\ y \in Nat
  OBVIOUS
<1>2. q \in Nat /\ n * q <= x
  <2> HIDE DEF x
  <2> QED
    BY <1>1, DivBounds, DivNat
<1>3. h * (a * m) <= h * (b * n)
  <2>1. a * m \in Int /\ b * n \in Int
    OBVIOUS
  <2> QED
    BY <2>1, ProductLe
<1>4. x * m = h * (a * m) /\ n * y = h * (b * n)
  OBVIOUS
<1> HIDE DEF q, x, y
<1>5. m * (n * q) <= m * x
  <2>1. n * q \in Int /\ x \in Int
    BY <1>1, <1>2
  <2> QED
    BY <1>2, <2>1, ProductLe
<1>6. n * (q * m) <= n * y
  <2>1. m * (n * q) = n * (q * m)
    BY <1>2
  <2>2. m * x = x * m
    BY <1>1
  <2>3. /\ m * (n * q) \in Int /\ m * x \in Int /\ h * (a * m) \in Int /\ h * (b * n) \in Int
    BY <1>1, <1>2
  <2> QED
    BY <1>3, <1>4, <1>5, <2>1, <2>2, <2>3
<1>7. q * m <= y
  <2>1. q * m \in Int /\ y \in Int
    BY <1>1, <1>2
  <2> QED
    BY <1>6, <2>1, FactorLe
<1>8. q <= y \div m
  BY <1>1, <1>2, <1>7, DivLower
<1> QED
  BY <1>8 DEF q, x, y

(* The price x/l of the units of a validator. *)

\* A stake does not lower it, and raises it by less than an x/l of a unit.
LEMMA StakePrice ==
    ASSUME NEW x \in Nat \ {0}, NEW l \in Nat, NEW amount \in Nat
    PROVE  LET new == (amount * l) \div x
           IN  /\ new \in Nat
               /\ x * new <= amount * l /\ amount * l < x * new + x
               /\ x * (l + new) <= (x + amount) * l
               /\ (x + amount) * l < x * (l + new) + x
<1> DEFINE a == amount * l
           new == a \div x
<1>1. a \in Nat
  OBVIOUS
<1>2. (x + amount) * l = x * l + a
  OBVIOUS
<1> HIDE DEF a
<1>3. new \in Nat /\ x * new <= a /\ a < x * new + x
  BY <1>1, DivBounds, DivNat
<1> HIDE DEF new
<1>4. x * (l + new) = x * l + x * new
  BY <1>3
<1>5. x * l \in Nat /\ x * new \in Nat
  BY <1>3
<1> QED
  BY <1>1, <1>2, <1>3, <1>4, <1>5 DEF new, a

\* An unstake neither, beyond the atto it truncates.
LEMMA UnstakePrice ==
    ASSUME NEW x \in Nat, NEW l \in Nat \ {0}, NEW t \in Nat, t <= l
    PROVE  LET out == (t * x) \div l
           IN  /\ out \in Nat /\ out <= x
               /\ x * (l - t) <= (x - out) * l
               /\ (x - out) * l < x * (l - t) + l
<1> DEFINE a == t * x
           out == a \div l
<1>1. a \in Nat
  OBVIOUS
<1>2. a <= l * x
  <2>1. x * t <= x * l
    BY ProductLe
  <2> QED
    BY <2>1
<1>3. x * (l - t) = l * x - a
  OBVIOUS
<1> HIDE DEF a
<1>4. out \in Nat /\ l * out <= a /\ a < l * out + l
  BY <1>1, DivBounds, DivNat
<1> HIDE DEF out
<1>5. (x - out) * l = l * x - l * out
  BY <1>4
<1>6. l * out <= l * x
  <2>1. l * out \in Int /\ l * x \in Int
    BY <1>4
  <2> QED
    BY <1>1, <1>2, <1>4, <2>1
<1>7. out <= x
  <2>1. out \in Int /\ x \in Int
    BY <1>4
  <2> QED
    BY <1>6, <2>1, FactorLe
<1>8. l * out \in Nat /\ l * x \in Nat
  BY <1>4
<1> QED
  BY <1>1, <1>3, <1>4, <1>5, <1>7, <1>8 DEF a, out

\* What units are worth at a price that is by at most an x/l of a unit higher.
LEMMA WorthAfterStake ==
    ASSUME NEW x \in Nat, NEW l \in Nat \ {0}, NEW y \in Nat, NEW m \in Nat \ {0},
           y * l < x * m + x, NEW h \in Nat, h <= m
    PROVE  (h * y) \div m <= (h * x) \div l + x \div l + 1
<1> DEFINE a == h * x
           q == a \div l
           p == x \div l
           b == h * y
           r == q + p + 1
<1>1. a \in Nat /\ b \in Nat
  OBVIOUS
<1>2. b * l <= a * m + a
  <2>1. h * (y * l) <= h * (x * m + x)
    BY ProductLe
  <2>2. h * (y * l) = b * l /\ h * (x * m + x) = a * m + a
    OBVIOUS
  <2> QED
    BY <2>1, <2>2
<1>3. a <= x * m
  <2>1. x * h <= x * m
    BY ProductLe
  <2> QED
    BY <2>1
<1> HIDE DEF a, b
<1>4. /\ q \in Nat /\ p \in Nat
      /\ a < l * q + l
      /\ x < l * p + l
  BY <1>1, DivBounds, DivNat
<1> HIDE DEF q, p
<1>5. m * a + m * x < (r + 1) * m * l
  <2>1. l * q \in Int /\ l * p \in Int
    BY <1>4
  <2>2. a + x + 1 <= (l * q + l) + (l * p + l)
    BY <1>1, <1>4, <2>1
  <2>3. (l * q + l) + (l * p + l) = l * (r + 1)
    BY <1>4
  <2>4. a + x + 1 \in Int /\ l * (r + 1) \in Int
    BY <1>1, <1>4
  <2>5. m * (a + x + 1) <= m * (l * (r + 1))
    BY <2>2, <2>3, <2>4, ProductLe
  <2>6. m * (a + x + 1) = m * a + m * x + m /\ m * (l * (r + 1)) = (r + 1) * m * l
    BY <1>1, <1>4
  <2>7. m * a \in Int /\ m * x \in Int /\ (r + 1) * m * l \in Int
    BY <1>1, <1>4
  <2> HIDE DEF r
  <2> QED
    BY <2>5, <2>6, <2>7
<1>6. b * l < (r + 1) * m * l
  <2>1. a * m = m * a /\ x * m = m * x
    BY <1>1
  <2>2. m * a \in Int /\ m * x \in Int /\ (r + 1) * m * l \in Int /\ b * l \in Int
    BY <1>1, <1>4
  <2> HIDE DEF r
  <2> QED
    BY <1>1, <1>2, <1>3, <1>5, <2>1, <2>2
<1>7. b < (r + 1) * m
  <2> DEFINE c == (r + 1) * m
  <2>1. c \in Int
    BY <1>4
  <2>2. (r + 1) * m * l = l * c /\ b * l = l * b
    BY <1>1, <1>4
  <2> HIDE DEF c, r
  <2>3. ASSUME c <= b PROVE FALSE
    <3>1. l * c <= l * b
      BY <1>1, <2>1, <2>3, ProductLe
    <3>2. l * c \in Int /\ l * b \in Int
      BY <1>1, <2>1
    <3> QED
      BY <1>6, <2>2, <3>1, <3>2
  <2> QED
    BY <1>1, <2>1, <2>3 DEF c
<1>8. r \in Int
  BY <1>4
<1> HIDE DEF r
<1>9. b \div m <= r
  BY <1>1, <1>7, <1>8, DivUpper
<1> QED
  BY <1>9 DEF r, b, a, q, p

(* A redemption from one validator: t of the h units held, worth q, go for  *)
(* the part of it that is due.  What is left is worth q - part, but for the *)
(* truncations.                                                             *)

LEMMA TakenBounds ==
    ASSUME NEW h \in Nat \ {0}, NEW q \in Nat, h <= q, NEW part \in Nat, part < q
    PROVE  LET t == DDiv(part, DDiv(q, h))
           IN  /\ t \in Nat
               /\ t * q <= h * (part + part \div ONE + 1)
               /\ h * part <= t * q + q
<1> DEFINE index == DDiv(q, h)
           t == DDiv(part, index)
           e == part \div ONE + 1
           i == h * index
           o == q * ONE
<1>1. ONE \in Nat \ {0} /\ o \in Nat
  BY DecimalAssumption
<1>2. index \in Nat /\ i <= o /\ o < i + h
  BY DDivNat
<1>3. ONE <= index
  <2>1. h * ONE <= q * ONE
    <3>1. ONE * h <= ONE * q
      BY <1>1, ProductLe
    <3> QED
      BY <1>1, <3>1
  <2>2. index = o \div h /\ ONE * h <= o
    BY <1>1, <2>1, DDivNat
  <2> HIDE DEF o
  <2> QED
    BY <1>1, <2>2, DivLower
<1> HIDE DEF index
<1>4. /\ t \in Nat
      /\ index * t <= part * ONE
      /\ part * ONE < index * t + index
  BY <1>1, <1>2, <1>3, DDivNat
<1>5. t <= part
  BY <1>2, <1>3, DDivShrinks
<1>6. e \in Nat /\ part <= ONE * e
  <2> DEFINE d == part \div ONE
  <2>1. d \in Nat /\ part < ONE * d + ONE
    BY <1>1, DivBounds, DivNat
  <2>2. e = d + 1
    OBVIOUS
  <2> HIDE DEF d, e
  <2>3. ONE * e = ONE * d + ONE /\ ONE * d \in Nat
    BY <1>1, <2>1, <2>2
  <2> QED
    BY <1>1, <2>1, <2>2, <2>3
<1> HIDE DEF t, e
<1>7. t * q <= h * (part + e)
  <2>1. ONE * (t * q) = t * o
    BY <1>1, <1>4
  <2>2. t * o <= t * (i + h)
    <3>1. i \in Int
      BY <1>2
    <3> HIDE DEF i, o
    <3> QED
      BY <1>1, <1>2, <1>4, <3>1, ProductLe
  <2>3. t * (i + h) = h * (index * t) + h * t
    BY <1>2, <1>4
  <2>4. h * (index * t) <= h * (part * ONE)
    <3>1. index * t \in Int /\ part * ONE \in Int
      BY <1>1, <1>2, <1>4
    <3> QED
      BY <1>4, <3>1, ProductLe
  <2>5. h * t <= h * (ONE * e)
    <3>1. t \in Int /\ ONE * e \in Int /\ t <= ONE * e
      BY <1>1, <1>4, <1>5, <1>6
    <3> QED
      BY <3>1, ProductLe
  <2>6. h * (part * ONE) + h * (ONE * e) = ONE * (h * (part + e))
    BY <1>1, <1>6
  <2>7. /\ h * (index * t) \in Int /\ h * t \in Int /\ h * (part * ONE) \in Int
        /\ h * (ONE * e) \in Int /\ t * o \in Int
    BY <1>1, <1>2, <1>4, <1>6
  <2>8. ONE * (t * q) <= ONE * (h * (part + e))
    <3> HIDE DEF i, o
    <3> QED
      BY <2>1, <2>2, <2>3, <2>4, <2>5, <2>6, <2>7
  <2>9. t * q \in Int /\ h * (part + e) \in Int
    BY <1>4, <1>6
  <2> QED
    BY <1>1, <2>8, <2>9, FactorLe
<1>8. h * part <= t * q + q
  <2>1. h * (part * ONE) <= h * (index * t + index)
    <3>1. part * ONE \in Int /\ index * t + index \in Int /\ part * ONE <= index * t + index
      BY <1>1, <1>2, <1>4
    <3> QED
      BY <3>1, ProductLe
  <2>2. h * (index * t + index) = (t + 1) * i
    BY <1>2, <1>4
  <2>3. (t + 1) * i <= (t + 1) * o
    <3>1. i \in Int /\ t + 1 \in Nat
      BY <1>2, <1>4
    <3> HIDE DEF i, o
    <3> QED
      BY <1>1, <1>2, <3>1, ProductLe
  <2>4. (t + 1) * o = ONE * (t * q + q) /\ h * (part * ONE) = ONE * (h * part)
    BY <1>1, <1>4
  <2>5. /\ h * (part * ONE) \in Int /\ h * (index * t + index) \in Int /\ (t + 1) * i \in Int
        /\ (t + 1) * o \in Int
    BY <1>1, <1>2, <1>4
  <2>6. ONE * (h * part) <= ONE * (t * q + q)
    <3> HIDE DEF i, o
    <3> QED
      BY <2>1, <2>2, <2>3, <2>4, <2>5
  <2>7. h * part \in Int /\ t * q + q \in Int
    BY <1>4
  <2> QED
    BY <1>1, <2>6, <2>7, FactorLe
<1>9. part + e = part + part \div ONE + 1
  <2>1. part \div ONE \in Nat
    BY <1>1, DivNat
  <2> QED
    BY <2>1 DEF e
<1>10. t * q <= h * (part + part \div ONE + 1)
  BY <1>7, <1>9
<1> QED
  BY <1>4, <1>8, <1>10 DEF t, index

LEMMA LeftBounds ==
    ASSUME NEW x \in Nat, NEW l \in Nat \ {0}, NEW h \in Nat \ {0}, h <= l,
           NEW part \in Nat, NEW e \in Nat, NEW t \in Nat, t <= h,
           t * ((h * x) \div l) <= h * (part + e),
           h * part <= t * ((h * x) \div l) + (h * x) \div l,
           NEW y \in Nat, x * (l - t) <= y * l, y * l < x * (l - t) + l
    PROVE  LET q == (h * x) \div l
               left == IF l - t = 0 THEN 0 ELSE ((h - t) * y) \div (l - t)
           IN  /\ q - part - e - 1 <= left
               /\ left <= q - part + x \div l + 2
<1> DEFINE a == h * x
           q == a \div l
           m == l - t
           k == h - t
           c == t * x
           b == k * y
           p == x \div l
           left == IF m = 0 THEN 0 ELSE b \div m
<1>1. a \in Nat /\ c \in Nat /\ m \in Nat /\ k \in Nat /\ k <= m /\ b \in Nat
  BY DivNat
<1>2. k * x = a - c
  OBVIOUS
<1>3. x * m <= y * l /\ y * l < x * m + l
  OBVIOUS
<1>4. t * q <= h * (part + e) /\ h * part <= t * q + q
  OBVIOUS
<1>5. h * c = t * a
  OBVIOUS
<1>6. m = 0 => k = 0
  OBVIOUS
<1> HIDE DEF a, c, m, k
<1>7. q \in Nat /\ l * q <= a /\ a < l * q + l
  BY <1>1, DivBounds, DivNat
<1>8. p \in Nat /\ l * p <= x /\ x < l * p + l
  BY DivBounds, DivNat
<1> HIDE DEF q, p
\* The units taken are worth at most the part, and the two truncations.
<1>9. c <= l * (part + e + 1)
  <2>1. t * a <= t * (l * q + l)
    <3>1. l * q + l \in Int /\ a \in Int /\ a <= l * q + l
      BY <1>1, <1>7
    <3> QED
      BY <3>1, ProductLe
  <2>2. t * (l * q + l) = l * (t * q) + l * t
    BY <1>7
  <2>3. l * (t * q) <= l * (h * (part + e))
    <3>1. t * q \in Int /\ h * (part + e) \in Int
      BY <1>7
    <3> QED
      BY <1>4, <3>1, ProductLe
  <2>4. l * t <= l * h
    BY ProductLe
  <2>5. l * (h * (part + e)) + l * h = h * (l * (part + e + 1))
    OBVIOUS
  <2>6. /\ t * a \in Int /\ l * (t * q) \in Int /\ l * (h * (part + e)) \in Int
        /\ l * t \in Int /\ l * h \in Int
    BY <1>1, <1>7
  <2>7. h * c <= h * (l * (part + e + 1))
    BY <1>5, <2>1, <2>2, <2>3, <2>4, <2>5, <2>6
  <2>8. l * (part + e + 1) \in Int
    OBVIOUS
  <2> QED
    BY <1>1, <2>7, <2>8, FactorLe
\* And at least the part, less the price of the unit the index truncates.
<1>10. l * part <= c + x
  <2>1. l * (h * part) <= l * (t * q + q)
    <3>1. h * part \in Int /\ t * q + q \in Int
      BY <1>7
    <3> QED
      BY <1>4, <3>1, ProductLe
  <2>2. l * (t * q + q) = (t + 1) * (l * q)
    BY <1>7
  <2>3. (t + 1) * (l * q) <= (t + 1) * a
    <3>1. l * q \in Int /\ a \in Int /\ t + 1 \in Nat
      BY <1>1, <1>7
    <3> QED
      BY <1>7, <3>1, ProductLe
  <2>4. (t + 1) * a = h * c + a
    BY <1>1, <1>5
  <2>5. a = h * x
    BY DEF a
  <2>6. l * (h * part) = h * (l * part) /\ h * c + h * x = h * (c + x)
    BY <1>1
  <2>7. h * (l * part) <= h * (c + x)
    <3>1. /\ l * (h * part) \in Int /\ l * (t * q + q) \in Int /\ (t + 1) * (l * q) \in Int
          /\ (t + 1) * a \in Int /\ h * c \in Int /\ h * x \in Int
      BY <1>1, <1>7
    <3> QED
      BY <2>1, <2>2, <2>3, <2>4, <2>5, <2>6, <3>1
  <2>8. l * part \in Int /\ c + x \in Int
    BY <1>1
  <2> QED
    BY <2>7, <2>8, FactorLe
<1>11. q - part - e - 1 <= left
  <2> DEFINE w == (k * x) \div l
  <2>1. w <= left
    <3>1. CASE m = 0
      <4>1. k * x = 0
        BY <1>6, <3>1
      <4>2. w = 0
        BY <4>1, SMT
      <4> QED
        BY <3>1, <4>2
    <3>2. CASE m # 0
      <4>1. (k * x) \div l <= (k * y) \div m
        BY <1>1, <1>3, <3>2, QuotLe
      <4> QED
        BY <3>2, <4>1
    <3> QED
      BY <3>1, <3>2
  <2> DEFINE low == q - part - e - 1
  <2>2. low * l <= k * x
    <3>1. low * l = l * q - l * (part + e + 1)
      BY <1>7
    <3>2. l * q \in Int /\ l * (part + e + 1) \in Int
      BY <1>7
    <3> HIDE DEF low
    <3> QED
      BY <1>1, <1>2, <1>7, <1>9, <3>1, <3>2
  <2>3. low <= w
    <3>1. low \in Int /\ k * x \in Int
      BY <1>1, <1>7
    <3> HIDE DEF low
    <3> QED
      BY <2>2, <3>1, DivLower
  <2>4. w \in Int /\ left \in Int /\ low \in Int
    <3>1. k * x \in Int
      BY <1>1
    <3>2. m # 0 => b \div m \in Int
      BY <1>1, DivNat
    <3> QED
      BY <1>7, <3>1, <3>2, DivBounds
  <2> HIDE DEF w, left, low
  <2>5. low <= left
    BY <2>1, <2>3, <2>4
  <2> QED
    BY <2>5 DEF low
<1>12. left <= q - part + p + 2
  <2>1. CASE m = 0
    <3>1. k * x = 0
      BY <1>6, <2>1
    <3>2. l * part <= a + x
      BY <1>1, <1>2, <1>10, <3>1
    <3>3. l * part < l * (q + p + 2)
      <4>1. l * (q + p + 2) = (l * q + l) + (l * p + l) /\ l * q \in Int /\ l * p \in Int
        BY <1>7, <1>8
      <4>2. l * part \in Int
        OBVIOUS
      <4> QED
        BY <1>1, <1>7, <1>8, <3>2, <4>1, <4>2
    <3>4. part <= q + p + 2
      <4>1. part \in Int /\ q + p + 2 \in Int
        BY <1>7, <1>8
      <4>2. l * part <= l * (q + p + 2)
        <5>1. l * part \in Int /\ l * (q + p + 2) \in Int
          BY <1>7, <1>8
        <5> QED
          BY <3>3, <5>1
      <4> QED
        BY <4>1, <4>2, FactorLe
    <3> QED
      BY <1>7, <1>8, <2>1, <3>4
  <2>2. CASE m # 0
    <3> DEFINE r == q - part + p + 2
    <3>1. r \in Int
      BY <1>7, <1>8
    <3>2. l * b <= m * (k * x + l)
      <4>1. k * (y * l) <= k * (x * m + l)
        <5>1. y * l \in Int /\ x * m + l \in Int /\ y * l <= x * m + l
          BY <1>1, <1>3
        <5> QED
          BY <1>1, <5>1, ProductLe
      <4>2. k * (y * l) = l * b
        BY <1>1
      <4>3. k * (x * m + l) = m * (k * x) + l * k
        BY <1>1
      <4>4. l * k <= l * m
        BY <1>1, ProductLe
      <4>5. m * (k * x + l) = m * (k * x) + l * m
        BY <1>1
      <4>6. /\ k * (y * l) \in Int /\ m * (k * x) \in Int /\ l * k \in Int /\ l * m \in Int
            /\ l * b \in Int
        BY <1>1
      <4> QED
        BY <4>1, <4>2, <4>3, <4>4, <4>5, <4>6
    <3>3. k * x + l < l * (r + 1)
      <4>1. l * (r + 1) = (l * q + l) - l * part + (l * p + l) + l
        BY <1>7, <1>8
      <4>2. l * q \in Int /\ l * part \in Int /\ l * p \in Int /\ k * x \in Int
        BY <1>1, <1>7, <1>8
      <4> HIDE DEF r
      <4> QED
        BY <1>1, <1>2, <1>7, <1>8, <1>10, <4>1, <4>2
    <3> HIDE DEF r
    <3>4. l * b < l * (m * (r + 1))
      <4>1. k * x + l + 1 \in Int /\ l * (r + 1) \in Int
        BY <1>1, <3>1
      <4>2. k * x + l + 1 <= l * (r + 1)
        <5>1. k * x \in Int
          BY <1>1
        <5> QED
          BY <3>3, <4>1, <5>1
      <4>3. m * (k * x + l + 1) <= m * (l * (r + 1))
        BY <1>1, <4>1, <4>2, ProductLe
      <4>4. m * (k * x + l + 1) = m * (k * x + l) + m
        BY <1>1
      <4>5. m * (l * (r + 1)) = l * (m * (r + 1))
        BY <1>1, <3>1
      <4>6. /\ l * b \in Int /\ m * (k * x + l) \in Int /\ l * (m * (r + 1)) \in Int
        BY <1>1, <3>1
      <4> QED
        BY <1>1, <2>2, <3>2, <4>3, <4>4, <4>5, <4>6
    <3>5. b < (r + 1) * m
      <4> DEFINE d == m * (r + 1)
      <4>1. d \in Int /\ d = (r + 1) * m
        BY <1>1, <3>1
      <4> HIDE DEF d, b
      <4>2. ASSUME d <= b PROVE FALSE
        <5>1. l * d <= l * b
          BY <1>1, <4>1, <4>2, ProductLe
        <5>2. l * d \in Int /\ l * b \in Int
          BY <1>1, <4>1
        <5> QED
          BY <3>4, <5>1, <5>2 DEF d
      <4> QED
        BY <1>1, <4>1, <4>2
    <3>6. b \div m <= r
      <4> HIDE DEF b
      <4> QED
        BY <1>1, <2>2, <3>1, <3>5, DivUpper
    <3> QED
      BY <2>2, <3>6 DEF r
  <2> QED
    BY <2>1, <2>2
<1> QED
  BY <1>11, <1>12 DEF q, a, m, k, p

----------------------------------------------------------------------------
(* Validators *)

Stakes == [lsu : Nat, xrd : Nat]

\* A stake unit is worth at least the XRD it was minted for.
Sane(val) == val \in Stakes /\ val.lsu <= val.xrd /\ (val.lsu = 0 => val.xrd = 0)

Staked(val, amount) == [lsu |-> val.lsu + LsuForStake(val, amount), xrd |-> val.xrd + amount]
Unstaked(val, lsu) == [lsu |-> val.lsu - lsu, xrd |-> val.xrd - ValueOfLsu(val, lsu)]

LEMMA ValueIs ==
    ASSUME NEW val \in Stakes, NEW h \in Nat
    PROVE  /\ ValueOfLsu(val, h) = IF val.lsu = 0 THEN 0 ELSE (h * val.xrd) \div val.lsu
           /\ ValueOfLsu(val, h) \in Nat
<1> DEFINE x == val.xrd
           l == val.lsu
           a == h * x
<1>1. x \in Nat /\ l \in Nat /\ a \in Nat
  BY DEF Stakes
<1>2. ValueOfLsu(val, h) = IF l = 0 THEN 0 ELSE TruncDiv(a, l)
  BY DEF ValueOfLsu
<1> HIDE DEF a, x, l
<1>3. l # 0 => TruncDiv(a, l) = a \div l /\ a \div l \in Nat
  BY <1>1, TruncDivNat, DivNat
<1> QED
  BY <1>2, <1>3 DEF a, x, l

LEMMA LsuPriceIs ==
    ASSUME NEW val \in Stakes
    PROVE  LsuPrice(val) \in Nat
<1>1. val.xrd \in Nat /\ val.lsu \in Nat
  BY DEF Stakes
<1> QED
  BY <1>1, DivNat DEF LsuPrice

\* A stake: no unit loses by it, and the units bought are worth what was paid,
\* but for the price of a unit.
LEMMA StakedIs ==
    ASSUME NEW val, Sane(val), NEW amount \in Nat
    PROVE  LET new == LsuForStake(val, amount)
               after == Staked(val, amount)
           IN  /\ new \in Nat
               /\ Sane(after)
               /\ after.lsu = val.lsu + new /\ after.xrd = val.xrd + amount
               /\ \A h \in Nat : h <= val.lsu =>
                     /\ ValueOfLsu(val, h) + ValueOfLsu(after, new)
                          <= ValueOfLsu(after, h + new)
                     /\ ValueOfLsu(after, h + new)
                          <= ValueOfLsu(val, h) + ValueOfLsu(after, new) + LsuPrice(val) + 2
               /\ amount - LsuPrice(val) - 1 <= ValueOfLsu(after, new)
<1> DEFINE x == val.xrd
           l == val.lsu
           new == LsuForStake(val, amount)
           after == Staked(val, amount)
           y == x + amount
           m == l + new
<1>1. /\ x \in Nat /\ l \in Nat /\ l <= x /\ (l = 0 => x = 0)
      /\ val \in Stakes
  BY DEF Sane, Stakes
<1>2. after = [lsu |-> m, xrd |-> y]
  BY DEF Staked
<1>3. CASE x = 0
  <2>1. new = amount /\ l = 0
    BY <1>1, <1>3 DEF LsuForStake
  <2>2. m = amount /\ y = amount
    BY <1>1, <1>3, <2>1
  <2>3. Sane(after) /\ after \in Stakes /\ after.lsu = amount /\ after.xrd = amount
    BY <1>2, <2>2 DEF Sane, Stakes
  <2>4. ValueOfLsu(val, 0) = 0 /\ LsuPrice(val) = 0
    BY <2>1 DEF ValueOfLsu, LsuPrice
  <2>5. ValueOfLsu(after, amount) = amount
    <3>1. ValueOfLsu(after, amount) = IF amount = 0 THEN 0 ELSE (amount * amount) \div amount
      BY <2>3, ValueIs
    <3>2. amount # 0 => (amount * amount) \div amount = amount
      <4> DEFINE q == (amount * amount) \div amount
      <4>1. amount # 0 => amount <= q /\ q <= amount /\ q \in Int
        <5>1. \/ amount * amount < (amount + 1) * amount
              \/ amount = 0
          OBVIOUS
        <5>2. amount * amount \in Int /\ amount * amount <= amount * amount
          OBVIOUS
        <5> QED
          BY <5>1, <5>2, DivLower, DivUpper, DivBounds
      <4> HIDE DEF q
      <4> QED
        BY <4>1
    <3> QED
      BY <3>1, <3>2
  <2>6. ASSUME NEW h \in Nat, h <= l
        PROVE  ValueOfLsu(val, h) = 0 /\ ValueOfLsu(after, h + new) = amount
    <3>1. h = 0 /\ h + new = amount
      BY <2>1, <2>6
    <3> QED
      BY <2>4, <2>5, <3>1
  <2>7. amount - LsuPrice(val) - 1 <= amount /\ ValueOfLsu(after, new) = amount
    BY <2>1, <2>4, <2>5
  <2>8. new \in Nat /\ after.lsu = val.lsu + new /\ after.xrd = val.xrd + amount
    BY <1>3, <2>1, <2>3
  <2> HIDE DEF after, new
  <2>9. /\ new \in Nat
        /\ Sane(after)
        /\ after.lsu = val.lsu + new /\ after.xrd = val.xrd + amount
        /\ \A h \in Nat : h <= val.lsu =>
              /\ ValueOfLsu(val, h) + ValueOfLsu(after, new)
                   <= ValueOfLsu(after, h + new)
              /\ ValueOfLsu(after, h + new)
                   <= ValueOfLsu(val, h) + ValueOfLsu(after, new) + LsuPrice(val) + 2
        /\ amount - LsuPrice(val) - 1 <= ValueOfLsu(after, new)
    <3>1. amount <= 0 + amount + 0 + 2 /\ 0 + amount <= amount
      OBVIOUS
    <3> QED
      BY <2>3, <2>4, <2>6, <2>7, <2>8, <3>1
  <2> QED
    BY <2>9 DEF new, after
<1>4. CASE x # 0
  <2> DEFINE a == amount * l
             p == x \div l
             v == (new * y) \div m
  <2>1. l # 0
    BY <1>1, <1>4
  <2>2. new = a \div x
    <3>1. a \in Nat
      BY <1>1
    <3> HIDE DEF a
    <3> QED
      BY <1>1, <1>4, <3>1, TruncDivNat DEF LsuForStake, a
  <2>3. /\ new \in Nat
        /\ x * new <= a /\ a < x * new + x
        /\ x * m <= y * l /\ y * l < x * m + x
    BY <1>1, <1>4, <2>2, StakePrice
  <2>4. a \in Nat /\ y \in Nat /\ m \in Nat \ {0}
    <3>1. a \in Nat
      BY <1>1
    <3> HIDE DEF new, x, l
    <3> QED
      BY <1>1, <2>1, <2>3, <3>1
  <2> HIDE DEF new
  <2>5. m <= y
    <3>1. l * m <= l * y
      <4>1. l * m <= x * m
        <5>1. m * l <= m * x
          BY <1>1, <2>4, ProductLe
        <5> QED
          BY <1>1, <2>4, <5>1
      <4>2. l * m \in Int /\ x * m \in Int /\ y * l \in Int /\ y * l = l * y
        BY <1>1, <2>4
      <4> QED
        BY <2>3, <4>1, <4>2
    <3> QED
      BY <1>1, <2>1, <2>4, <3>1, FactorLe
  <2>6. Sane(after) /\ after \in Stakes /\ after.lsu = m /\ after.xrd = y
    BY <1>2, <2>4, <2>5 DEF Sane, Stakes
  <2>7. ValueOfLsu(after, new) = v /\ v \in Nat
    BY <2>3, <2>4, <2>6, ValueIs
  <2>8. LsuPrice(val) = p /\ p \in Nat
    BY <1>1, <2>1, DivNat DEF LsuPrice
  <2>9. ASSUME NEW h \in Nat, h <= l
        PROVE  /\ ValueOfLsu(val, h) + v <= ValueOfLsu(after, h + new)
               /\ ValueOfLsu(after, h + new) <= ValueOfLsu(val, h) + v + p + 2
    <3> DEFINE old == (h * x) \div l
               kept == (h * y) \div m
               all == ((h + new) * y) \div m
    <3>1. ValueOfLsu(val, h) = old /\ old \in Nat
      BY <1>1, <2>1, ValueIs
    <3>2. ValueOfLsu(after, h + new) = all /\ all \in Nat
      <4>1. h + new \in Nat
        BY <2>3
      <4> QED
        BY <2>4, <2>6, <4>1, ValueIs
    <3>3. old <= kept
      BY <1>1, <2>1, <2>3, <2>4, QuotLe
    <3>4. kept <= old + p + 1
      <4>1. h <= m
        BY <1>1, <2>3, <2>9
      <4> QED
        BY <1>1, <2>1, <2>3, <2>4, <4>1, WorthAfterStake
    <3>5. kept \in Nat
      <4>1. h * y \in Nat
        BY <2>4
      <4> QED
        BY <2>4, <4>1, DivNat
    <3>6. kept + v <= all /\ all <= kept + v + 1
      <4> DEFINE b == h * y
                 c == new * y
      <4>1. b \in Nat /\ c \in Nat /\ (h + new) * y = b + c
        BY <2>3, <2>4
      <4> HIDE DEF b, c
      <4>2. b \div m + c \div m <= (b + c) \div m /\ (b + c) \div m <= b \div m + c \div m + 1
        BY <2>4, <4>1, QuotSum
      <4> QED
        BY <4>1, <4>2 DEF b, c
    <3> HIDE DEF old, kept, all, v, p
    <3> QED
      BY <2>7, <2>8, <3>1, <3>2, <3>3, <3>4, <3>5, <3>6
  <2>10. amount - p - 1 <= v
    <3> DEFINE c == new * x
               w == c \div l
               low == amount - p - 1
    <3>1. w <= v
      BY <1>1, <2>1, <2>3, <2>4, QuotLe
    <3>2. low * l <= c
      <4>1. x < l * p + l /\ p \in Nat
        <5> HIDE DEF x, l
        <5> QED
          BY <1>1, <2>1, DivBounds, DivNat
      <4> HIDE DEF p
      <4>2. low * l = a - (l * p + l)
        BY <1>1, <4>1
      <4>3. c = x * new /\ l * p \in Int /\ x * new \in Int
        BY <1>1, <2>3, <4>1
      <4> HIDE DEF low, c, a
      <4> QED
        BY <1>1, <2>3, <2>4, <4>1, <4>2, <4>3
    <3>3. c \in Int /\ low \in Int
      BY <1>1, <2>3, <2>8
    <3> HIDE DEF c, low
    <3>4. low <= w /\ w \in Int
      BY <1>1, <2>1, <3>2, <3>3, DivLower, DivBounds
    <3> HIDE DEF w, v
    <3>5. low <= v
      BY <2>7, <3>1, <3>3, <3>4
    <3> QED
      BY <3>5 DEF low
  <2>11. after.lsu = val.lsu + new /\ after.xrd = val.xrd + amount
    BY <2>6
  <2>12. \A h \in Nat : h <= val.lsu =>
            /\ ValueOfLsu(val, h) + ValueOfLsu(after, new) <= ValueOfLsu(after, h + new)
            /\ ValueOfLsu(after, h + new)
                 <= ValueOfLsu(val, h) + ValueOfLsu(after, new) + LsuPrice(val) + 2
    <3> HIDE DEF after, v, p
    <3> QED
      BY <2>7, <2>8, <2>9
  <2> HIDE DEF after, v, p
  <2>13. /\ new \in Nat
         /\ Sane(after)
         /\ after.lsu = val.lsu + new /\ after.xrd = val.xrd + amount
         /\ \A h \in Nat : h <= val.lsu =>
               /\ ValueOfLsu(val, h) + ValueOfLsu(after, new)
                    <= ValueOfLsu(after, h + new)
               /\ ValueOfLsu(after, h + new)
                    <= ValueOfLsu(val, h) + ValueOfLsu(after, new) + LsuPrice(val) + 2
         /\ amount - LsuPrice(val) - 1 <= ValueOfLsu(after, new)
    BY <2>3, <2>6, <2>7, <2>8, <2>10, <2>11, <2>12
  <2> QED
    BY <2>13 DEF new, after
<1> QED
  BY <1>3, <1>4

\* An unstake: no unit that stays loses by it.
LEMMA UnstakedIs ==
    ASSUME NEW val, Sane(val), NEW t \in Nat, t <= val.lsu
    PROVE  LET after == Unstaked(val, t)
           IN  /\ Sane(after)
               /\ after.lsu = val.lsu - t /\ after.xrd = val.xrd - ValueOfLsu(val, t)
               /\ \A h \in Nat : t <= h /\ h <= val.lsu =>
                     ValueOfLsu(val, h) <= ValueOfLsu(after, h - t) + ValueOfLsu(val, t) + 1
               /\ LsuPrice(after) <= LsuPrice(val) + 1
               /\ val.lsu # 0 =>
                     /\ val.xrd * (val.lsu - t) <= after.xrd * val.lsu
                     /\ after.xrd * val.lsu < val.xrd * (val.lsu - t) + val.lsu
<1> DEFINE x == val.xrd
           l == val.lsu
           out == ValueOfLsu(val, t)
           after == Unstaked(val, t)
           y == x - out
           m == l - t
<1>1. /\ x \in Nat /\ l \in Nat /\ l <= x /\ (l = 0 => x = 0)
      /\ val \in Stakes
  BY DEF Sane, Stakes
<1>2. after = [lsu |-> m, xrd |-> y]
  BY DEF Unstaked
<1>3. m \in Nat
  BY <1>1
<1>4. CASE l = 0
  <2>1. t = 0 /\ out = 0 /\ x = 0
    BY <1>1, <1>4 DEF ValueOfLsu
  <2>2. m = 0 /\ y = 0
    BY <1>1, <1>4, <2>1
  <2>3. Sane(after) /\ after.lsu = 0 /\ after.xrd = 0
    BY <1>2, <2>2 DEF Sane, Stakes
  <2>4. \A h \in Nat : ValueOfLsu(val, h) = 0 /\ ValueOfLsu(after, h) = 0
    BY <1>4, <2>3 DEF ValueOfLsu
  <2>5. LsuPrice(after) = 0 /\ LsuPrice(val) = 0
    BY <1>4, <2>3 DEF LsuPrice
  <2>6. ASSUME NEW h \in Nat, t <= h, h <= l
        PROVE  ValueOfLsu(val, h) <= ValueOfLsu(after, h - t) + out + 1
    <3>1. h = 0 /\ h - t = 0
      BY <1>4, <2>1, <2>6
    <3> QED
      BY <2>1, <2>4, <3>1
  <2> HIDE DEF after, out
  <2>7. /\ Sane(after)
        /\ after.lsu = val.lsu - t /\ after.xrd = val.xrd - out
        /\ \A h \in Nat : t <= h /\ h <= val.lsu =>
              ValueOfLsu(val, h) <= ValueOfLsu(after, h - t) + out + 1
        /\ LsuPrice(after) <= LsuPrice(val) + 1
    BY <2>2, <2>3, <2>5, <2>6
  <2> QED
    BY <1>4, <2>7 DEF after, out
<1>5. CASE l # 0
  <2>1. out = (t * x) \div l
    BY <1>1, <1>5, ValueIs
  <2>2. /\ out \in Nat /\ out <= x
        /\ x * m <= y * l /\ y * l < x * m + l
    BY <1>1, <1>5, <2>1, UnstakePrice
  <2>3. y \in Nat
    BY <1>1, <2>2
  <2>4. m <= y /\ (m = 0 => y = 0)
    <3>1. l * m <= l * y
      <4>1. m * l <= m * x
        BY <1>1, <1>3, ProductLe
      <4>2. /\ m * l = l * m /\ m * x = x * m /\ y * l = l * y
            /\ l * m \in Int /\ x * m \in Int /\ l * y \in Int
        BY <1>1, <1>3, <2>3
      <4> QED
        BY <2>2, <4>1, <4>2
    <3>2. m <= y
      BY <1>1, <1>3, <1>5, <2>3, <3>1, FactorLe
    <3>3. ASSUME m = 0 PROVE y = 0
      <4>1. x * m = 0
        BY <1>1, <3>3
      <4>2. y * l < l
        BY <1>1, <2>2, <4>1
      <4>3. ASSUME 1 <= y PROVE FALSE
        <5>1. l * 1 <= l * y
          BY <1>1, <2>3, <4>3, ProductLe
        <5>2. l * 1 = l /\ l * y = y * l /\ y * l \in Int
          BY <1>1, <2>3
        <5> HIDE DEF y
        <5> QED
          BY <1>1, <4>2, <5>1, <5>2
      <4> HIDE DEF y
      <4> QED
        BY <2>3, <4>3
    <3> QED
      BY <3>2, <3>3
  <2>5. Sane(after) /\ after.lsu = m /\ after.xrd = y /\ after \in Stakes
    BY <1>2, <1>3, <2>3, <2>4 DEF Sane, Stakes
  <2>6. ASSUME NEW h \in Nat, t <= h, h <= l
        PROVE  ValueOfLsu(val, h) <= ValueOfLsu(after, h - t) + out + 1
    <3> DEFINE k == h - t
               w == (k * x) \div l
               left == ValueOfLsu(after, k)
    <3>1. k \in Nat
      BY <2>6
    <3>2. left \in Nat /\ left = IF m = 0 THEN 0 ELSE (k * y) \div m
      BY <2>5, <3>1, ValueIs
    <3>3. w <= left
      <4>1. CASE m = 0
        <5>1. k = 0
          BY <1>1, <2>6, <4>1
        <5>2. k * x = 0
          BY <1>1, <5>1
        <5> HIDE DEF k
        <5>3. w = 0
          BY <1>1, <1>5, <5>2, SMT
        <5> QED
          BY <3>2, <4>1, <5>3
      <4>2. CASE m # 0
        <5> HIDE DEF k
        <5>1. (k * x) \div l <= (k * y) \div m
          BY <1>1, <1>3, <1>5, <2>2, <2>3, <3>1, <4>2, QuotLe
        <5> QED
          BY <3>2, <4>2, <5>1
      <4> QED
        BY <4>1, <4>2
    <3>4. ValueOfLsu(val, h) = (h * x) \div l
      BY <1>1, <1>5, ValueIs
    <3>5. (h * x) \div l <= w + out + 1
      <4> DEFINE b == k * x
                 c == t * x
      <4>1. h * x = b + c /\ b \in Nat /\ c \in Nat
        BY <1>1, <3>1
      <4> HIDE DEF b, c
      <4>2. (b + c) \div l <= b \div l + c \div l + 1
        BY <1>1, <1>5, <4>1, QuotSum
      <4> QED
        BY <2>1, <4>1, <4>2 DEF b, c
    <3>6. w \in Int /\ (h * x) \div l \in Int
      <4>1. k * x \in Nat /\ h * x \in Nat
        BY <1>1, <3>1
      <4> QED
        BY <1>1, <1>5, <4>1, DivNat
    <3> HIDE DEF w, left, out
    <3>7. ValueOfLsu(val, h) <= left + out + 1
      BY <2>2, <3>2, <3>3, <3>4, <3>5, <3>6
    <3> QED
      BY <3>7 DEF left
  <2>7. LsuPrice(after) <= LsuPrice(val) + 1
    <3> DEFINE p == x \div l
    <3>1. LsuPrice(val) = p /\ p \in Nat /\ x < l * p + l
      <4>1. LsuPrice(val) = p
        BY <1>5 DEF LsuPrice
      <4> HIDE DEF x, l
      <4> QED
        BY <1>1, <1>5, <4>1, DivBounds, DivNat
    <3>2. CASE m = 0
      <4>1. LsuPrice(after) = 0
        BY <2>5, <3>2 DEF LsuPrice
      <4> QED
        BY <3>1, <4>1
    <3>3. CASE m # 0
      <4>1. LsuPrice(after) = y \div m
        BY <2>5, <3>3 DEF LsuPrice
      <4> HIDE DEF p, x, l, y, m
      <4>2. y < (p + 2) * m
        <5>1. l * y < l * ((p + 2) * m)
          <6>1. m * (x + 1) <= m * (l * p + l)
            <7>1. x + 1 \in Int /\ l * p + l \in Int /\ x + 1 <= l * p + l
              <8>1. l * p \in Int
                BY <1>1, <3>1
              <8> QED
                BY <1>1, <3>1, <8>1
            <7> QED
              BY <1>3, <7>1, ProductLe
          <6>2. m * (x + 1) = x * m + m /\ m * (l * p + l) = l * (p * m) + l * m
            BY <1>1, <1>3, <3>1
          <6>3. l * 1 <= l * m
            BY <1>1, <1>3, <3>3, ProductLe
          <6>4. l * ((p + 2) * m) = l * (p * m) + l * m + l * m
            BY <1>1, <1>3, <3>1
          <6>5. /\ x * m \in Int /\ l * (p * m) \in Int /\ l * m \in Int /\ l * 1 = l
                /\ y * l = l * y /\ y * l \in Int
            BY <1>1, <1>3, <2>3, <3>1
          <6> QED
            BY <1>1, <1>3, <2>2, <6>1, <6>2, <6>3, <6>4, <6>5
        <5> DEFINE d == (p + 2) * m
        <5>2. d \in Int
          BY <1>3, <3>1
        <5> HIDE DEF d
        <5>3. ASSUME d <= y PROVE FALSE
          <6>1. l * d <= l * y
            BY <1>1, <2>3, <5>2, <5>3, ProductLe
          <6>2. l * d \in Int /\ l * y \in Int
            BY <1>1, <2>3, <5>2
          <6> QED
            BY <5>1, <6>1, <6>2 DEF d
        <5> QED
          BY <2>3, <5>2, <5>3 DEF d
      <4>3. y \div m <= p + 1
        <5>1. p + 1 \in Int /\ y < (p + 1 + 1) * m /\ y \in Int /\ m \in Nat \ {0}
          <6>1. p + 2 = p + 1 + 1
            BY <3>1
          <6> QED
            BY <1>3, <2>3, <3>1, <3>3, <4>2, <6>1
        <5> QED
          BY <5>1, DivUpper
      <4> QED
        BY <3>1, <4>1, <4>3
    <3> QED
      BY <3>2, <3>3
  <2>8. /\ Sane(after)
        /\ after.lsu = val.lsu - t /\ after.xrd = val.xrd - out
        /\ \A h \in Nat : t <= h /\ h <= val.lsu =>
              ValueOfLsu(val, h) <= ValueOfLsu(after, h - t) + out + 1
        /\ LsuPrice(after) <= LsuPrice(val) + 1
        /\ val.xrd * (val.lsu - t) <= after.xrd * val.lsu
        /\ after.xrd * val.lsu < val.xrd * (val.lsu - t) + val.lsu
    <3> HIDE DEF after, out
    <3> QED
      BY <2>2, <2>5, <2>6, <2>7
  <2> HIDE DEF after, out
  <2> QED
    BY <2>8 DEF after, out
<1> QED
  BY <1>4, <1>5

\* What a redemption leaves of the worth q of the units held.
LEMMA RedeemedIs ==
    ASSUME NEW val, Sane(val), NEW h \in Nat \ {0}, h <= val.lsu,
           NEW part \in Nat, part <= ValueOfLsu(val, h),
           LsuTaken(part, ValueOfLsu(val, h), h) <= h
    PROVE  LET q == ValueOfLsu(val, h)
               t == LsuTaken(part, q, h)
               left == ValueOfLsu(Unstaked(val, t), h - t)
           IN  /\ t \in Nat
               /\ q - part - part \div ONE - 2 <= left
               /\ left <= q - part + LsuPrice(val) + 2
<1> DEFINE x == val.xrd
           l == val.lsu
           q == ValueOfLsu(val, h)
           t == LsuTaken(part, q, h)
           after == Unstaked(val, t)
           left == ValueOfLsu(after, h - t)
           e == part \div ONE + 1
<1>1. /\ x \in Nat /\ l \in Nat \ {0} /\ l <= x /\ h <= x
      /\ val \in Stakes
  BY DEF Sane, Stakes
<1>2. q = (h * x) \div l /\ q \in Nat
  BY <1>1, ValueIs
<1>3. h <= q
  <2>1. h * l <= h * x /\ h * x \in Int
    BY <1>1, ProductLe
  <2> QED
    BY <1>1, <1>2, <2>1, DivLower
<1>4. e \in Nat
  BY DivNat, DecimalAssumption
<1>5. LsuPrice(val) = x \div l /\ LsuPrice(val) \in Nat
  BY <1>1, LsuPriceIs DEF LsuPrice
<1>6. part <= q /\ t <= h
  OBVIOUS
<1>7. CASE part = q
  <2>1. t = h
    BY <1>7 DEF LsuTaken
  <2>2. h - t = 0 /\ t \in Nat
    BY <2>1
  <2>3. Sane(after)
    BY <1>1, <2>1, UnstakedIs
  <2>4. left = 0
    <3>1. after.lsu \in Nat /\ after.xrd \in Nat
      BY <2>3 DEF Sane, Stakes
    <3>2. after \in Stakes
      BY <2>3 DEF Sane
    <3>3. left = IF after.lsu = 0 THEN 0 ELSE (0 * after.xrd) \div after.lsu
      BY <2>2, <3>2, ValueIs
    <3>4. 0 * after.xrd = 0 /\ (after.lsu # 0 => 0 \div after.lsu = 0)
      BY <3>1, SMT
    <3> QED
      BY <3>3, <3>4
  <2>5. /\ t \in Nat
        /\ q - part - part \div ONE - 2 <= left
        /\ left <= q - part + LsuPrice(val) + 2
    <3>1. part \div ONE \in Nat
      BY DivNat, DecimalAssumption
    <3> HIDE DEF q, t, left
    <3> QED
      BY <1>2, <1>5, <1>7, <2>2, <2>4, <3>1
  <2> QED
    BY <2>5
<1>8. CASE part # q
  <2>1. part < q
    BY <1>2, <1>6, <1>8
  <2>2. t = DDiv(part, DDiv(q, h))
    BY <1>8 DEF LsuTaken
  <2>3. /\ t \in Nat
        /\ t * q <= h * (part + part \div ONE + 1)
        /\ h * part <= t * q + q
    <3> HIDE DEF q, t
    <3> QED
      BY <1>2, <1>3, <2>1, <2>2, TakenBounds
  <2>4. part + part \div ONE + 1 = part + e
    <3>1. part \div ONE \in Nat
      BY DivNat, DecimalAssumption
    <3> QED
      BY <3>1
  <2>5. t <= l
    BY <1>1, <1>6, <2>3
  <2> DEFINE y == after.xrd
             m == l - t
  <2>6. /\ Sane(after) /\ after.lsu = m
        /\ x * m <= y * l /\ y * l < x * m + l
    <3> HIDE DEF t
    <3> QED
      BY <1>1, <2>3, <2>5, UnstakedIs
  <2>7. y \in Nat /\ after \in Stakes
    BY <2>6 DEF Sane, Stakes
  <2>8. left = IF m = 0 THEN 0 ELSE ((h - t) * y) \div m
    <3>1. h - t \in Nat
      BY <1>6, <2>3
    <3> HIDE DEF t, y, after
    <3> QED
      BY <2>6, <2>7, <3>1, ValueIs DEF y
  <2>9. /\ q - part - e - 1 <= left
        /\ left <= q - part + x \div l + 2
    <3>1. /\ t * ((h * x) \div l) <= h * (part + e)
          /\ h * part <= t * ((h * x) \div l) + (h * x) \div l
      BY <1>2, <2>3, <2>4
    <3> HIDE DEF t, y, after, left, q, e, x, l
    <3>2. LET r == (h * x) \div l
              z == IF l - t = 0 THEN 0 ELSE ((h - t) * y) \div (l - t)
          IN  /\ r - part - e - 1 <= z
              /\ z <= r - part + x \div l + 2
      BY <1>1, <1>4, <1>6, <2>3, <2>6, <2>7, <3>1, LeftBounds DEF l
    <3> QED
      BY <1>2, <2>8, <3>2
  <2>10. q - part - part \div ONE - 2 = q - part - e - 1
    <3>1. part \div ONE \in Nat
      BY DivNat, DecimalAssumption
    <3> HIDE DEF q
    <3> QED
      BY <1>2, <3>1
  <2>11. /\ t \in Nat
         /\ q - part - part \div ONE - 2 <= left
         /\ left <= q - part + LsuPrice(val) + 2
    <3> HIDE DEF t, left, q
    <3> QED
      BY <1>5, <2>3, <2>9, <2>10
  <2> QED
    BY <2>11
<1> QED
  BY <1>7, <1>8

\* What a rebalance takes: units worth at most value of a, and the dust.
LEMMA TakenIs ==
    ASSUME NEW val, Sane(val), NEW h \in Nat, h <= val.lsu, NEW t \in Nat, t <= h,
           NEW a \in Nat, NEW dust \in Nat, t <= a + dust
    PROVE  ValueOfLsu(val, h)
             <= ValueOfLsu(Unstaked(val, t), h - t) + ValueOfLsu(val, a)
                  + dust * (LsuPrice(val) + 1) + 2
<1> DEFINE x == val.xrd
           l == val.lsu
           p == LsuPrice(val)
           q == ValueOfLsu(val, h)
           out == ValueOfLsu(val, t)
           paid == ValueOfLsu(val, a)
           left == ValueOfLsu(Unstaked(val, t), h - t)
<1>1. /\ x \in Nat /\ l \in Nat /\ val \in Stakes
  BY DEF Sane, Stakes
<1>2. /\ q \in Nat /\ out \in Nat /\ paid \in Nat /\ p \in Nat
  BY <1>1, ValueIs, LsuPriceIs
<1>3. Sane(Unstaked(val, t)) /\ q <= left + out + 1
  BY <1>1, UnstakedIs
<1>4. left \in Nat
  <2>1. Unstaked(val, t) \in Stakes /\ h - t \in Nat
    BY <1>3 DEF Sane
  <2> QED
    BY <2>1, ValueIs
<1>5. out <= paid + dust * (p + 1) + 1
  <2>1. CASE l = 0
    <3>1. out = 0
      BY <2>1 DEF ValueOfLsu
    <3>2. dust * (p + 1) \in Nat
      BY <1>2
    <3> QED
      BY <1>2, <3>1, <3>2
  <2>2. CASE l # 0
    <3> DEFINE b == a * x
               d == dust * x
               c == t * x
    <3>1. out = c \div l /\ paid = b \div l /\ p = x \div l
      BY <1>1, <2>2, ValueIs DEF LsuPrice
    <3>2. b \in Nat /\ d \in Nat /\ c \in Nat /\ c <= b + d
      <4>1. x * t <= x * (a + dust)
        BY <1>1, ProductLe
      <4> QED
        BY <1>1, <4>1
    <3>3. d < (dust * (p + 1) + 1) * l
      <4>1. x < l * p + l
        <5> HIDE DEF p, x, l
        <5> QED
          BY <1>1, <2>2, <3>1, DivBounds
      <4>2. dust * x <= dust * (l * p + l)
        <5>1. l * p + l \in Int
          BY <1>1, <1>2
        <5> QED
          BY <1>1, <4>1, <5>1, ProductLe
      <4>3. (dust * (p + 1) + 1) * l = dust * (l * p + l) + l
        BY <1>1, <1>2
      <4>4. dust * x \in Int /\ dust * (l * p + l) \in Int
        BY <1>1, <1>2
      <4> QED
        BY <1>1, <2>2, <4>2, <4>3, <4>4
    <3> HIDE DEF b, c, d
    <3>4. d \div l <= dust * (p + 1)
      <4> DEFINE g == dust * (p + 1)
      <4>1. g \in Int /\ d < (g + 1) * l /\ d \in Int /\ l \in Nat \ {0}
        BY <1>1, <1>2, <2>2, <3>2, <3>3
      <4> HIDE DEF g
      <4>2. d \div l <= g
        BY <4>1, DivUpper
      <4> QED
        BY <4>2 DEF g
    <3>5. (b + d) \div l <= b \div l + d \div l + 1 /\ c \div l <= (b + d) \div l
      <4>1. b + d \in Int /\ c \in Int
        BY <3>2
      <4> QED
        BY <1>1, <2>2, <3>2, <4>1, QuotSum, DivMonotone
    <3>6. /\ b \div l \in Int /\ c \div l \in Int /\ d \div l \in Int /\ (b + d) \div l \in Int
          /\ dust * (p + 1) \in Int
      BY <1>1, <1>2, <2>2, <3>2, DivBounds
    <3> HIDE DEF out, paid, p
    <3> QED
      BY <3>1, <3>4, <3>5, <3>6
  <2> QED
    BY <2>1, <2>2
<1>6. dust * (p + 1) \in Int
  BY <1>2
<1> HIDE DEF q, out, paid, left, p
<1>7. q <= left + paid + dust * (p + 1) + 2
  BY <1>2, <1>3, <1>4, <1>5, <1>6
<1> QED
  BY <1>7 DEF q, left, paid, p

----------------------------------------------------------------------------
(* The staking pool *)

Held(s, v) == IF v \in DOMAIN s.lsu_map THEN s.lsu_map[v] ELSE 0
WorthOf(s, v) == ValueOfLsu(s.validators[v], Held(s, v))
Worths(s) == [v \in Validator |-> WorthOf(s, v)]

\* The pool and the users hold all the units of the validators.
StakingSound(s, wallet) ==
    /\ s = [lsu_map |-> s.lsu_map, dse_supply |-> s.dse_supply, validators |-> s.validators]
    /\ s.dse_supply \in Nat
    /\ s.validators \in [Validator -> Stakes]
    /\ \A v \in Validator : Sane(s.validators[v])
    /\ DOMAIN s.lsu_map \subseteq Validator
    /\ \A v \in DOMAIN s.lsu_map : s.lsu_map[v] \in Nat
    /\ wallet \in [Validator -> Nat]
    /\ \A v \in Validator : s.validators[v].lsu = Held(s, v) + wallet[v]

\* r differs from s at most in what concerns the validator v.
OnlyAt(s, r, v) ==
    /\ r.validators \in [Validator -> Stakes]
    /\ \A w \in Validator \ {v} : r.validators[w] = s.validators[w] /\ Held(r, w) = Held(s, w)

LEMMA HeldIs ==
    ASSUME NEW s, NEW wallet, StakingSound(s, wallet), NEW v \in Validator
    PROVE  /\ Held(s, v) \in Nat /\ Held(s, v) <= s.validators[v].lsu
           /\ s.validators[v] \in Stakes /\ Sane(s.validators[v])
           /\ WorthOf(s, v) \in Nat
<1>1. Held(s, v) \in Nat
  BY DEF StakingSound, Held
<1>2. s.validators[v] \in Stakes /\ Sane(s.validators[v])
  BY DEF StakingSound
<1>3. wallet[v] \in Nat /\ s.validators[v].lsu = Held(s, v) + wallet[v]
  BY DEF StakingSound
<1>4. WorthOf(s, v) \in Nat
  BY <1>1, <1>2, ValueIs DEF WorthOf
<1> QED
  BY <1>1, <1>2, <1>3, <1>4

LEMMA ValueOfNone ==
    ASSUME NEW val \in Stakes
    PROVE  ValueOfLsu(val, 0) = 0
<1>1. ValueOfLsu(val, 0) = IF val.lsu = 0 THEN 0 ELSE (0 * val.xrd) \div val.lsu
  BY ValueIs
<1>2. val.lsu \in Nat /\ val.xrd \in Nat
  BY DEF Stakes
<1>3. 0 * val.xrd = 0 /\ (val.lsu # 0 => 0 \div val.lsu = 0)
  BY <1>2, SMT
<1> QED
  BY <1>1, <1>3

\* What the pool is worth, as a sum over all validators.
LEMMA StakedSum ==
    ASSUME NEW s, NEW wallet, StakingSound(s, wallet)
    PROVE  /\ SumCurrentStaked(s) = SumFunctionOnSet(Worths(s), Validator)
           /\ SumCurrentStaked(s) \in Nat
<1> DEFINE D == DOMAIN s.lsu_map
           f == [v \in D |-> ValueOfLsu(s.validators[v], s.lsu_map[v])]
           g == Worths(s)
<1>1. D \subseteq Validator /\ IsFiniteSet(Validator)
  BY StakingEarningAssumption DEF StakingSound
<1>2. IsFiniteSet(D) /\ IsFiniteSet(Validator \ D)
  BY <1>1, FS_Subset
<1>3. \A v \in Validator : g[v] = WorthOf(s, v) /\ WorthOf(s, v) \in Nat
  BY HeldIs DEF Worths
<1>4. \A v \in D : f[v] = g[v] /\ f[v] \in Int
  BY <1>1, <1>3 DEF WorthOf, Held
<1>5. SumFunctionOnSet(f, D) = SumFunctionOnSet(g, D)
  <2> HIDE DEF f, g, D
  <2> QED
    BY <1>2, <1>4, SumAgree
<1>6. \A v \in Validator \ D : g[v] = 0
  BY <1>3, HeldIs, ValueOfNone DEF WorthOf, Held
<1>7. SumFunctionOnSet(g, Validator \ D) = 0
  <2> HIDE DEF g, D
  <2> QED
    BY <1>2, <1>6, SumZero
<1>8. SumFunctionOnSet(g, D \cup (Validator \ D))
        = SumFunctionOnSet(g, D) + SumFunctionOnSet(g, Validator \ D)
  <2>1. \A v \in D \cup (Validator \ D) : g[v] \in Int
    BY <1>1, <1>3
  <2>2. D \cap (Validator \ D) = {}
    OBVIOUS
  <2> HIDE DEF g, D
  <2> QED
    BY <1>2, <2>1, <2>2, SumUnion
<1>9. SumFunctionOnSet(g, D) \in Int
  <2> HIDE DEF g, D
  <2> QED
    BY <1>1, <1>2, <1>3, SumInt
<1>10. SumFunctionOnSet(g, Validator) \in Nat
  <2> HIDE DEF g
  <2> QED
    BY <1>1, <1>3, SumNat
<1>11. SumCurrentStaked(s) = SumFunctionOnSet(f, D)
  BY Zenon DEF SumCurrentStaked, SumFunction
<1>12. D \cup (Validator \ D) = Validator
  BY <1>1
<1> HIDE DEF f, g, D
<1>13. SumFunctionOnSet(g, Validator)
         = SumFunctionOnSet(g, D) + SumFunctionOnSet(g, Validator \ D)
  BY <1>8, <1>12, Zenon
<1>14. SumCurrentStaked(s) = SumFunctionOnSet(g, Validator)
  BY <1>5, <1>7, <1>9, <1>11, <1>13
<1> QED
  BY <1>10, <1>14 DEF g

LEMMA StakedMoves ==
    ASSUME NEW s, NEW r, NEW wallet, NEW rest, StakingSound(s, wallet), StakingSound(r, rest),
           NEW v \in Validator, OnlyAt(s, r, v)
    PROVE  SumCurrentStaked(r) = SumCurrentStaked(s) - WorthOf(s, v) + WorthOf(r, v)
<1> DEFINE f == Worths(s)
           g == Worths(r)
<1>1. /\ \A w \in Validator : f[w] = WorthOf(s, w) /\ f[w] \in Int
      /\ \A w \in Validator : g[w] = WorthOf(r, w) /\ g[w] \in Int
  BY HeldIs DEF Worths
<1>2. \A w \in Validator \ {v} : f[w] = g[w]
  BY <1>1 DEF OnlyAt, WorthOf
<1> HIDE DEF f, g
<1>3. SumFunctionOnSet(g, Validator) = SumFunctionOnSet(f, Validator) - f[v] + g[v]
  BY <1>1, <1>2, SumChanged, StakingEarningAssumption
<1> QED
  BY <1>1, <1>3, StakedSum DEF f, g

\* A stake whose units go to the pool.
Bought(s, v, amount) ==
    PutLsu(Stake(s, v, amount), v, LsuForStake(s.validators[v], amount))

LEMMA BoughtIs ==
    ASSUME NEW s, NEW wallet, StakingSound(s, wallet), NEW v \in Validator, NEW amount \in Nat
    PROVE  LET r == Bought(s, v, amount)
           IN  /\ StakingSound(r, wallet) /\ OnlyAt(s, r, v)
               /\ r.dse_supply = s.dse_supply
               /\ r.validators[v] = Staked(s.validators[v], amount)
               /\ Held(r, v) = Held(s, v) + LsuForStake(s.validators[v], amount)
<1> DEFINE val == s.validators[v]
           new == LsuForStake(val, amount)
           after == Staked(val, amount)
           r == Bought(s, v, amount)
           map == s.lsu_map
<1>1. /\ s.validators \in [Validator -> Stakes]
      /\ val \in Stakes /\ Sane(val) /\ Held(s, v) \in Nat
      /\ DOMAIN map \subseteq Validator
      /\ \A w \in DOMAIN map : map[w] \in Nat
  BY HeldIs DEF StakingSound
<1>2. new \in Nat /\ Sane(after) /\ after.lsu = val.lsu + new /\ after \in Stakes
  BY <1>1, StakedIs DEF Sane
<1>3. r = [lsu_map |-> [w \in DOMAIN map \cup {v} |->
                          (IF w \in DOMAIN map THEN map[w] ELSE 0) + (IF w = v THEN new ELSE 0)],
           dse_supply |-> s.dse_supply,
           validators |-> [s.validators EXCEPT ![v] = after]]
  <2>1. Stake(s, v, amount) = [s EXCEPT !.validators = [s.validators EXCEPT ![v] = after]]
    BY <1>1 DEF Stake, Staked
  <2>2. s = [lsu_map |-> s.lsu_map, dse_supply |-> s.dse_supply, validators |-> s.validators]
    BY DEF StakingSound
  <2>3. Stake(s, v, amount) = [lsu_map |-> map, dse_supply |-> s.dse_supply,
                               validators |-> [s.validators EXCEPT ![v] = after]]
    <3> HIDE DEF after
    <3> QED
      BY <2>1, <2>2
  <2> QED
    BY <2>3 DEF Bought, PutLsu
<1> HIDE DEF r, new, after
<1>4. /\ r = [lsu_map |-> r.lsu_map, dse_supply |-> r.dse_supply, validators |-> r.validators]
      /\ r.dse_supply = s.dse_supply
      /\ r.validators \in [Validator -> Stakes] /\ r.validators[v] = after
      /\ \A w \in Validator \ {v} : r.validators[w] = s.validators[w]
  BY <1>1, <1>2, <1>3
<1>5. /\ DOMAIN r.lsu_map = DOMAIN map \cup {v}
      /\ \A w \in DOMAIN map \cup {v} :
            r.lsu_map[w] = (IF w \in DOMAIN map THEN map[w] ELSE 0) + (IF w = v THEN new ELSE 0)
  BY <1>3
<1>6. Held(r, v) = Held(s, v) + new
  BY <1>5 DEF Held
<1>7. \A w \in Validator \ {v} : Held(r, w) = Held(s, w)
  BY <1>1, <1>5 DEF Held
<1>8. \A w \in DOMAIN r.lsu_map : r.lsu_map[w] \in Nat
  BY <1>1, <1>2, <1>5
<1>9. \A w \in Validator : Sane(r.validators[w])
  BY <1>2, <1>4 DEF StakingSound
<1>10. ASSUME NEW w \in Validator PROVE r.validators[w].lsu = Held(r, w) + wallet[w]
  <2>1. s.validators[w].lsu = Held(s, w) + wallet[w] /\ wallet[w] \in Nat
    BY DEF StakingSound
  <2>2. CASE w = v
    <3>1. r.validators[v].lsu = val.lsu + new
      BY <1>2, <1>4
    <3>2. val.lsu = Held(s, v) + wallet[v] /\ wallet[v] \in Nat
      BY <2>1, <2>2
    <3> HIDE DEF val
    <3> QED
      BY <1>1, <1>2, <1>6, <2>2, <3>1, <3>2
  <2>3. CASE w # v
    BY <1>4, <1>7, <2>1, <2>3
  <2> QED
    BY <2>2, <2>3
<1>11. StakingSound(r, wallet)
  BY <1>1, <1>4, <1>5, <1>8, <1>9, <1>10 DEF StakingSound
<1> QED
  BY <1>4, <1>6, <1>7, <1>11 DEF OnlyAt, r, new, after

\* The price of a dseXRD, truncated.
LEMMA PerUnitIs ==
    ASSUME NEW s, NEW wallet, StakingSound(s, wallet)
    PROVE  LET p == ValuePerUnit(s)
               total == ONE * SumCurrentStaked(s)
           IN  /\ p \in Nat /\ total \in Nat
               /\ s.dse_supply * p <= total \/ s.dse_supply = 0
               /\ s.dse_supply # 0 => total < s.dse_supply * p + s.dse_supply
<1> DEFINE p == ValuePerUnit(s)
           staked == SumCurrentStaked(s)
           d == s.dse_supply
<1>1. staked \in Nat /\ d \in Nat /\ ONE \in Nat
  BY StakedSum, DecimalAssumption DEF StakingSound
<1>2. p = IF d = 0 THEN ONE ELSE DDiv(staked, d)
  BY DEF ValuePerUnit
<1> HIDE DEF p, staked, d
<1>3. d # 0 => /\ DDiv(staked, d) \in Nat /\ d * DDiv(staked, d) <= staked * ONE
               /\ staked * ONE < d * DDiv(staked, d) + d
  BY <1>1, DDivNat
<1>4. staked * ONE = ONE * staked /\ ONE * staked \in Nat
  BY <1>1
<1>5. /\ p \in Nat /\ ONE * staked \in Nat
      /\ d * p <= ONE * staked \/ d = 0
      /\ d # 0 => ONE * staked < d * p + d
  BY <1>1, <1>2, <1>3, <1>4
<1> QED
  BY <1>5 DEF p, staked, d

Prices(s) == [v \in Validator |-> LsuPrice(s.validators[v]) + 2]

\* The dust RedeemDust of the pool s.
DustOf(s) ==
    SumFunctionOnSet(Prices(s), Validator)
      + SumCurrentStaked(s) \div ONE + ValuePerUnit(s) \div ONE + 1

LEMMA PricesAre ==
    ASSUME NEW s, NEW wallet, StakingSound(s, wallet)
    PROVE  /\ \A v \in Validator : Prices(s)[v] = LsuPrice(s.validators[v]) + 2
                                   /\ Prices(s)[v] \in Nat
           /\ SumFunctionOnSet(Prices(s), Validator) \in Nat
           /\ \A T \in SUBSET Validator :
                 SumFunctionOnSet(Prices(s), T) <= SumFunctionOnSet(Prices(s), Validator)
<1>1. \A v \in Validator : Prices(s)[v] = LsuPrice(s.validators[v]) + 2 /\ Prices(s)[v] \in Nat
  <2> SUFFICES ASSUME NEW v \in Validator
               PROVE  Prices(s)[v] = LsuPrice(s.validators[v]) + 2 /\ Prices(s)[v] \in Nat
    OBVIOUS
  <2>1. LsuPrice(s.validators[v]) \in Nat
    BY HeldIs, LsuPriceIs
  <2> QED
    BY <2>1 DEF Prices
<1>2. IsFiniteSet(Validator)
  BY StakingEarningAssumption
<1> QED
  BY <1>1, <1>2, SumNat, SumSubset

\* A contribution: the others lose nothing by it, and gain at most the dust.
LEMMA ContributeIs ==
    ASSUME NEW s, NEW wallet, StakingSound(s, wallet), NEW v \in Validator, NEW amount \in Nat,
           CanContribute(s, v, amount)
    PROVE  LET r == Contribute(s, v, amount)
               value == r.dse_supply * ValuePerUnit(s)
               total == ONE * SumCurrentStaked(r)
           IN  /\ StakingSound(r, wallet)
               /\ r.dse_supply >= s.dse_supply
               /\ SumCurrentStaked(s) <= SumCurrentStaked(r)
               /\ value <= total
               /\ s.dse_supply > 0 =>
                     total <= value + s.dse_supply
                                + ONE * (LsuPrice(s.validators[v]) + 2 + ValuePerUnit(s) \div ONE + 1)
<1> DEFINE val == s.validators[v]
           new == LsuForStake(val, amount)
           after == Staked(val, amount)
           b == Bought(s, v, amount)
           r == Contribute(s, v, amount)
           p == ValuePerUnit(s)
           paid == ValueOfLsu(after, new)
           dse == DDiv(paid, p)
           d == s.dse_supply
           staked == SumCurrentStaked(s)
           h == Held(s, v)
<1>1. /\ StakingSound(b, wallet) /\ OnlyAt(s, b, v) /\ b.dse_supply = d
      /\ b.validators[v] = after /\ Held(b, v) = h + new
  BY BoughtIs
<1>2. /\ val \in Stakes /\ Sane(val) /\ h \in Nat /\ h <= val.lsu
  BY HeldIs
<1>3. /\ new \in Nat /\ after \in Stakes
      /\ ValueOfLsu(val, h) + paid <= ValueOfLsu(after, h + new)
      /\ ValueOfLsu(after, h + new) <= ValueOfLsu(val, h) + paid + LsuPrice(val) + 2
  BY <1>2, StakedIs DEF Sane
<1>4. paid \in Nat /\ p \in Nat \ {0} /\ d \in Nat /\ staked \in Nat /\ LsuPrice(val) \in Nat
  BY <1>2, <1>3, ValueIs, PerUnitIs, StakedSum, LsuPriceIs DEF CanContribute, StakingSound
<1>5. dse \in Nat /\ p * dse <= paid * ONE /\ paid * ONE < p * dse + p
  BY <1>4, DDivNat
<1>6. r = [b EXCEPT !.dse_supply = @ + dse]
  <2>1. Stake(s, v, amount).validators[v] = after
    <3>1. s.validators \in [Validator -> Stakes]
          /\ s = [lsu_map |-> s.lsu_map, dse_supply |-> s.dse_supply, validators |-> s.validators]
      BY DEF StakingSound
    <3>2. Stake(s, v, amount) = [s EXCEPT !.validators = [s.validators EXCEPT ![v] = after]]
      BY <3>1 DEF Stake, Staked
    <3> HIDE DEF after
    <3> QED
      BY <3>1, <3>2
  <2> QED
    BY <2>1 DEF Contribute, Bought
<1> HIDE DEF b, r, dse, paid, new, after
<1>7. /\ r.lsu_map = b.lsu_map /\ r.validators = b.validators /\ r.dse_supply = d + dse
      /\ r = [lsu_map |-> r.lsu_map, dse_supply |-> r.dse_supply, validators |-> r.validators]
  BY <1>1, <1>6 DEF StakingSound
<1>8. /\ SumCurrentStaked(r) = SumCurrentStaked(b)
      /\ \A w : Held(r, w) = Held(b, w)
  BY <1>7 DEF SumCurrentStaked, Held
<1>9. StakingSound(r, wallet)
  BY <1>1, <1>4, <1>5, <1>7, <1>8 DEF StakingSound
<1> DEFINE gain == WorthOf(b, v) - WorthOf(s, v)
           price == LsuPrice(val)
<1>10. SumCurrentStaked(r) = staked + gain
  <2>1. SumCurrentStaked(b) = SumCurrentStaked(s) - WorthOf(s, v) + WorthOf(b, v)
    BY <1>1, StakedMoves
  <2>2. WorthOf(s, v) \in Nat /\ WorthOf(b, v) \in Nat
    BY <1>1, HeldIs
  <2> QED
    BY <1>4, <1>8, <2>1, <2>2
<1>11. gain \in Int /\ paid <= gain /\ gain <= paid + price + 2
  <2>1. WorthOf(s, v) = ValueOfLsu(val, h) /\ WorthOf(b, v) = ValueOfLsu(after, h + new)
    BY <1>1 DEF WorthOf
  <2>2. WorthOf(s, v) \in Nat /\ WorthOf(b, v) \in Nat
    BY <1>1, HeldIs
  <2> QED
    BY <1>3, <1>4, <2>1, <2>2
<1>12. /\ d * p <= ONE * staked \/ d = 0
       /\ d # 0 => ONE * staked < d * p + d
       /\ p < ONE * (p \div ONE) + ONE /\ p \div ONE \in Nat
  <2>1. (d * p <= ONE * staked \/ d = 0) /\ (d # 0 => ONE * staked < d * p + d)
    BY PerUnitIs, Zenon
  <2> HIDE DEF p
  <2>2. p < ONE * (p \div ONE) + ONE /\ p \div ONE \in Nat
    BY <1>4, DivBounds, DivNat, DecimalAssumption
  <2> QED
    BY <2>1, <2>2
<1>13. price \in Nat /\ ONE \in Nat
  BY <1>4, DecimalAssumption
<1> HIDE DEF gain, p, d, staked, price
<1>14. (d + dse) * p <= ONE * (staked + gain)
  <2>1. ONE * paid <= ONE * gain
    BY <1>4, <1>11, <1>13, ProductLe
  <2>2. (d + dse) * p = d * p + p * dse /\ ONE * (staked + gain) = ONE * staked + ONE * gain
    BY <1>4, <1>5, <1>11, <1>13
  <2>3. /\ paid * ONE = ONE * paid /\ d * p \in Int /\ p * dse \in Int /\ ONE * staked \in Nat
        /\ ONE * gain \in Int /\ ONE * paid \in Int
    BY <1>4, <1>5, <1>11, <1>13
  <2>4. d = 0 => d * p = 0
    BY <1>4
  <2> QED
    BY <1>5, <1>12, <2>1, <2>2, <2>3, <2>4
<1>15. ASSUME d > 0
       PROVE  ONE * (staked + gain) <= (d + dse) * p + d + ONE * (price + 2 + p \div ONE + 1)
  <2> DEFINE k == p \div ONE
  <2>1. ONE * gain <= ONE * (paid + price + 2)
    BY <1>4, <1>11, <1>13, ProductLe
  <2>2. /\ (d + dse) * p = d * p + p * dse
        /\ ONE * (staked + gain) = ONE * staked + ONE * gain
    BY <1>4, <1>5, <1>11, <1>13
  <2>3. k \in Nat /\ p < ONE * k + ONE /\ ONE * staked < d * p + d
    BY <1>12, <1>4, <2>1, <1>15
  <2> HIDE DEF k
  <2>4. /\ ONE * (paid + price + 2) = ONE * paid + ONE * (price + 2)
        /\ ONE * (price + 2 + k + 1) = ONE * (price + 2) + ONE * k + ONE
    BY <1>4, <1>13, <2>3
  <2>5. /\ paid * ONE = ONE * paid /\ d * p \in Int /\ p * dse \in Int /\ ONE * staked \in Nat
        /\ ONE * gain \in Int /\ ONE * paid \in Int /\ ONE * (price + 2) \in Int /\ ONE * k \in Int
    BY <1>4, <1>5, <1>11, <1>13, <2>3
  <2>6. ONE * (staked + gain) <= (d + dse) * p + d + ONE * (price + 2 + k + 1)
    BY <1>4, <1>5, <1>13, <2>1, <2>2, <2>3, <2>4, <2>5
  <2> QED
    BY <2>6 DEF k
<1>16. staked <= staked + gain /\ d <= d + dse
  BY <1>4, <1>5, <1>11
<1> QED
  BY <1>7, <1>9, <1>10, <1>14, <1>15, <1>16 DEF r, p, d, staked, price

----------------------------------------------------------------------------
(* Folds over lists of one or two: Lists has no longer ones.                *)

One == {1}
Two == {1, 2}

LEMMA Domains ==
    /\ SUBSET One = {{}, One} /\ SUBSET Two = {{}, One, {2}, Two}
    /\ Max(One) = 1 /\ Max({2}) = 2 /\ Max(Two) = 2
    /\ One \ {1} = {} /\ {2} \ {2} = {} /\ Two \ {2} = One
    /\ One # {} /\ {2} # {} /\ Two # {} /\ One # {2} /\ Two # One /\ Two # {2}
<1>1. ASSUME NEW n \in Nat PROVE Max({n}) = n
  BY DEF Max
<1>2. Max({1, 2}) = 2
  <2>1. 2 \in {1, 2} /\ \A y \in {1, 2} : 2 >= y
    OBVIOUS
  <2>2. \A x \in {1, 2} : (\A y \in {1, 2} : x >= y) => x = 2
    OBVIOUS
  <2> QED
    BY <2>1, <2>2 DEF Max
<1>3. SUBSET {1} = {{}, {1}}
  OBVIOUS
<1>4. SUBSET {1, 2} = {{}, {1}, {2}, {1, 2}}
  OBVIOUS
<1>5. {1} \ {1} = {} /\ {2} \ {2} = {}
  OBVIOUS
<1>6. {1, 2} \ {2} = {1}
  OBVIOUS
<1>7. {1} # {} /\ {2} # {} /\ {1, 2} # {}
  OBVIOUS
<1>8. {1} # {2}
  OBVIOUS
<1>9. {1, 2} # {1} /\ {1, 2} # {2}
  OBVIOUS
<1>10. Max({1}) = 1 /\ Max({2}) = 2
  BY <1>1
<1> QED
  BY <1>2, <1>3, <1>4, <1>5, <1>6, <1>7, <1>8, <1>9, <1>10, Zenon DEF One, Two

\* The recursive function of a fold of RedeemFrom.
Redemption(g, base, vs, D) ==
    g = [u \in SUBSET D |-> IF u = {} THEN base ELSE RedeemFrom(g[u \ {Max(u)}], vs[Max(u)])]

LEMMA RedemptionIsFold ==
    ASSUME NEW base, NEW vs
    PROVE  FoldLeft(RedeemFrom, base, vs)
             = (CHOOSE g : Redemption(g, base, vs, DOMAIN vs))[DOMAIN vs]
BY Zenon DEF FoldLeft, MapThenFoldSet, Redemption

LEMMA RedemptionStep ==
    ASSUME NEW g, NEW base, NEW vs, NEW D, Redemption(g, base, vs, D), NEW u \in SUBSET D
    PROVE  /\ u = {} => g[u] = base
           /\ u # {} => g[u] = RedeemFrom(g[u \ {Max(u)}], vs[Max(u)])
BY DEF Redemption

LEMMA RedeemOne ==
    ASSUME NEW base, NEW v
    PROVE  FoldLeft(RedeemFrom, base, <<v>>) = RedeemFrom(base, v)
<1> DEFINE vs == <<v>>
           h == [u \in SUBSET One |-> IF u = {} THEN base ELSE RedeemFrom(base, v)]
           g == CHOOSE f : Redemption(f, base, vs, One)
<1>1. DOMAIN vs = One /\ vs[1] = v
  BY DEF One
<1> HIDE DEF vs
<1>2. h[{}] = base
  BY Domains
<1>3. Redemption(h, base, vs, One)
  <2>1. ASSUME NEW u \in SUBSET One, u # {}
        PROVE  h[u \ {Max(u)}] = base /\ vs[Max(u)] = v
    <3>1. u = One
      BY <2>1, Domains
    <3>2. Max(u) = 1 /\ u \ {Max(u)} = {}
      BY <3>1, Domains
    <3> HIDE DEF h
    <3> QED
      BY <1>1, <1>2, <3>2
  <2> QED
    BY <2>1 DEF Redemption
<1>4. Redemption(g, base, vs, One)
  BY <1>3
<1> HIDE DEF g, h
<1>5. g[{}] = base
  <2>1. {} \in SUBSET One
    OBVIOUS
  <2> QED
    BY <1>4, <2>1, RedemptionStep
<1>6. g[One] = RedeemFrom(g[One \ {Max(One)}], vs[Max(One)])
  <2>1. One \in SUBSET One /\ One # {}
    BY Domains
  <2> QED
    BY <1>4, <2>1, RedemptionStep
<1>7. FoldLeft(RedeemFrom, base, vs) = g[One]
  BY <1>1, RedemptionIsFold DEF g
<1> QED
  BY <1>1, <1>5, <1>6, <1>7, Domains DEF vs

TwoTurns(base, v, w) ==
    FoldLeft(RedeemFrom, base, <<v, w>>) = RedeemFrom(RedeemFrom(base, v), w)

LEMMA RedeemTwo == ASSUME NEW base, NEW v, NEW w PROVE TwoTurns(base, v, w)
<1> DEFINE vs == <<v, w>>
           one == RedeemFrom(base, v)
           two == RedeemFrom(base, w)
           both == RedeemFrom(one, w)
           h == [u \in SUBSET Two |-> IF u = {} THEN base ELSE IF u = One THEN one
                                      ELSE IF u = {2} THEN two ELSE both]
           g == CHOOSE f : Redemption(f, base, vs, Two)
<1>1. DOMAIN vs = Two /\ vs[1] = v /\ vs[2] = w
  BY DEF Two
<1> HIDE DEF vs
<1>2. h[{}] = base /\ h[One] = one /\ h[{2}] = two /\ h[Two] = both
  <2> HIDE DEF one, two, both
  <2> QED
    BY Domains
<1>3. Redemption(h, base, vs, Two)
  <2>1. ASSUME NEW u \in SUBSET Two
        PROVE  h[u] = IF u = {} THEN base ELSE RedeemFrom(h[u \ {Max(u)}], vs[Max(u)])
    <3> HIDE DEF h
    <3>1. CASE u = {}
      BY <1>2, <3>1
    <3>2. CASE u = One
      <4>1. Max(u) = 1 /\ u \ {Max(u)} = {} /\ u # {}
        BY <3>2, Domains
      <4> QED
        BY <1>1, <1>2, <3>2, <4>1
    <3>3. CASE u = {2}
      <4>1. Max(u) = 2 /\ u \ {Max(u)} = {} /\ u # {}
        BY <3>3, Domains
      <4> QED
        BY <1>1, <1>2, <3>3, <4>1
    <3>4. CASE u = Two
      <4>1. Max(u) = 2 /\ u \ {Max(u)} = One /\ u # {}
        BY <3>4, Domains
      <4> QED
        BY <1>1, <1>2, <3>4, <4>1
    <3> QED
      BY <3>1, <3>2, <3>3, <3>4, Domains
  <2>2. h = [u \in SUBSET Two |-> h[u]]
    OBVIOUS
  <2> HIDE DEF h
  <2> QED
    BY <2>1, <2>2 DEF Redemption
<1>4. Redemption(g, base, vs, Two)
  BY <1>3
<1> HIDE DEF g, h
<1>5. /\ {} \in SUBSET Two /\ One \in SUBSET Two /\ Two \in SUBSET Two
      /\ One # {} /\ Two # {}
  BY DEF One, Two
<1>6. g[{}] = base
  BY <1>4, <1>5, RedemptionStep
<1>7. g[One] = RedeemFrom(g[One \ {Max(One)}], vs[Max(One)])
  BY <1>4, <1>5, RedemptionStep
<1>8. g[Two] = RedeemFrom(g[Two \ {Max(Two)}], vs[Max(Two)])
  BY <1>4, <1>5, RedemptionStep
<1>9. FoldLeft(RedeemFrom, base, vs) = g[Two]
  BY <1>1, RedemptionIsFold DEF g
<1>10. g[One] = one
  <2>1. One \ {Max(One)} = {} /\ vs[Max(One)] = v
    BY <1>1, Domains
  <2> QED
    BY <1>6, <1>7, <2>1
<1>11. Two \ {Max(Two)} = One /\ vs[Max(Two)] = w
  BY <1>1, Domains
<1> QED
  BY <1>8, <1>9, <1>10, <1>11 DEF vs, TwoTurns

----------------------------------------------------------------------------
(* redeem *)

Claim == [validator : Validator, amount : Nat]

\* The loop of redeem, before one of the validators listed.
Loop(r, wallet) ==
    /\ r.ok = TRUE /\ r.left \in Nat /\ StakingSound(r.s, wallet)

\* One turn that goes through: a part of what is left is taken from v.
LEMMA TurnIs ==
    ASSUME NEW r, NEW wallet, Loop(r, wallet), ~ Stopped(r), NEW v \in Validator,
           RedeemFrom(r, v).ok
    PROVE  LET q == RedeemFrom(r, v)
               part == r.left - q.left
               before == SumCurrentStaked(r.s)
               after == SumCurrentStaked(q.s)
           IN  /\ Loop(q, wallet) /\ q.left <= r.left
               /\ OnlyAt(r.s, q.s, v) /\ q.s.dse_supply = r.s.dse_supply
               /\ \E c \in Claim : q.claims = Append(r.claims, c)
               /\ before - part - part \div ONE - 2 <= after
               /\ after <= before - part + LsuPrice(r.s.validators[v]) + 2
<1> DEFINE s == r.s
           map == s.lsu_map
           val == s.validators[v]
           h == Held(s, v)
           worth == ValueOfLsu(val, h)
           part == IF r.left <= worth THEN r.left ELSE worth
           t == LsuTaken(part, worth, h)
           c == [validator |-> v, amount |-> ValueOfLsu(val, t)]
           z == [Unstake(s, v, t) EXCEPT !.lsu_map[v] = h - t]
           q == RedeemFrom(r, v)
<1>1. q = IF h = 0 \/ t > h THEN [r EXCEPT !.ok = FALSE]
          ELSE [s |-> z, left |-> r.left - part, claims |-> Append(r.claims, c), ok |-> TRUE]
  BY DEF RedeemFrom, Held
<1>2. /\ StakingSound(s, wallet) /\ r.left \in Nat
      /\ h \in Nat /\ h <= val.lsu /\ val \in Stakes /\ Sane(val)
      /\ worth = WorthOf(s, v) /\ worth \in Nat
  BY HeldIs DEF Loop, WorthOf
<1>3. part \in Nat /\ part <= r.left /\ part <= worth
  <2> HIDE DEF worth
  <2> QED
    BY <1>2
<1>4. ~ (h = 0 \/ t > h)
  <2> HIDE DEF h, t, z, part
  <2>1. [r EXCEPT !.ok = FALSE].ok # TRUE
    OBVIOUS
  <2> QED
    BY <1>1, <2>1
<1>5. h \in Nat \ {0} /\ (h # 0 => v \in DOMAIN map)
  BY <1>2, <1>4 DEF Held
<1>6. t \in Nat /\ t <= h
  <2>1. part = worth => t = h
    BY DEF LsuTaken
  <2>2. part # worth => t \in Nat
    <3> HIDE DEF worth, h, part
    <3>1. h <= worth
      <4>1. worth = IF val.lsu = 0 THEN 0 ELSE (h * val.xrd) \div val.lsu
        BY <1>2, ValueIs DEF worth
      <4>2. val.lsu \in Nat /\ val.xrd \in Nat /\ val.lsu <= val.xrd /\ val.lsu # 0
        BY <1>2, <1>5 DEF Sane, Stakes
      <4> DEFINE x == val.xrd
                 l == val.lsu
      <4>3. h * l <= h * x /\ h * x \in Int
        BY <1>2, <4>2, ProductLe
      <4> HIDE DEF x, l
      <4>4. h <= (h * x) \div l
        BY <1>2, <4>2, <4>3, DivLower DEF x, l
      <4> QED
        BY <4>1, <4>2, <4>4 DEF x, l
    <3>2. part # worth => part < worth
      BY <1>2, <1>3
    <3>3. part # worth => DDiv(part, DDiv(worth, h)) \in Nat
      BY <1>2, <1>3, <1>5, <3>1, <3>2, TakenBounds
    <3> QED
      BY <3>3 DEF LsuTaken
  <2>3. t \in Nat
    <3> HIDE DEF t, worth, h, part
    <3> QED
      BY <1>2, <2>1, <2>2
  <2> HIDE DEF t, h
  <2> QED
    BY <1>2, <1>4, <2>3
<1> DEFINE after == Unstaked(val, t)
<1>7. /\ Sane(after) /\ after \in Stakes /\ after.lsu = val.lsu - t
  <2> HIDE DEF t, h
  <2>1. t <= val.lsu
    <3>1. val.lsu \in Nat
      BY <1>2 DEF Stakes
    <3> QED
      BY <1>2, <1>6, <3>1
  <2> QED
    BY <1>2, <1>6, <2>1, UnstakedIs DEF Sane
<1>8. LET left == ValueOfLsu(after, h - t)
      IN  /\ worth - part - part \div ONE - 2 <= left
          /\ left <= worth - part + LsuPrice(val) + 2
  <2> HIDE DEF h, part
  <2> QED
    BY <1>2, <1>3, <1>5, <1>6, RedeemedIs
<1>9. z = [lsu_map |-> [map EXCEPT ![v] = h - t], dse_supply |-> s.dse_supply,
           validators |-> [s.validators EXCEPT ![v] = after]]
  <2> HIDE DEF t, h
  <2>1. /\ s.validators \in [Validator -> Stakes]
        /\ s = [lsu_map |-> s.lsu_map, dse_supply |-> s.dse_supply, validators |-> s.validators]
    BY <1>2 DEF StakingSound
  <2>2. Unstake(s, v, t) = [s EXCEPT !.validators = [s.validators EXCEPT ![v] = after]]
    BY <2>1 DEF Unstake, Unstaked
  <2> HIDE DEF after
  <2>3. Unstake(s, v, t) = [lsu_map |-> map, dse_supply |-> s.dse_supply,
                            validators |-> [s.validators EXCEPT ![v] = after]]
    BY <2>1, <2>2
  <2> QED
    BY <2>3
<1>10. q = [s |-> z, left |-> r.left - part, claims |-> Append(r.claims, c), ok |-> TRUE]
  <2> HIDE DEF h, t, z, part
  <2> QED
    BY <1>1, <1>4
<1>11. c \in Claim
  <2> HIDE DEF t
  <2>1. ValueOfLsu(val, t) \in Nat
    BY <1>2, <1>6, ValueIs
  <2> QED
    BY <2>1 DEF Claim
<1> DEFINE left == ValueOfLsu(after, h - t)
<1> HIDE DEF z, after, t, part, worth, q, h, c
<1>12. /\ z = [lsu_map |-> z.lsu_map, dse_supply |-> z.dse_supply, validators |-> z.validators]
       /\ z.dse_supply = s.dse_supply
       /\ z.validators = [s.validators EXCEPT ![v] = after]
       /\ z.lsu_map = [map EXCEPT ![v] = h - t]
  BY <1>9
<1>13. /\ z.validators \in [Validator -> Stakes] /\ z.validators[v] = after
       /\ \A w \in Validator \ {v} : z.validators[w] = s.validators[w]
  <2>1. s.validators \in [Validator -> Stakes]
    BY <1>2 DEF StakingSound
  <2> QED
    BY <1>7, <1>12, <2>1
<1>14. /\ DOMAIN z.lsu_map = DOMAIN map /\ z.lsu_map[v] = h - t
       /\ \A w \in DOMAIN map \ {v} : z.lsu_map[w] = map[w]
  BY <1>5, <1>12
<1>15. Held(z, v) = h - t /\ \A w \in Validator \ {v} : Held(z, w) = Held(s, w)
  BY <1>5, <1>14 DEF Held
<1>16. OnlyAt(s, z, v)
  BY <1>13, <1>15 DEF OnlyAt
<1>17. StakingSound(z, wallet)
  <2>1. h - t \in Nat
    BY <1>2, <1>6
  <2>2. \A w \in DOMAIN z.lsu_map : z.lsu_map[w] \in Nat
    BY <1>2, <1>14, <2>1 DEF StakingSound
  <2>3. \A w \in Validator : Sane(z.validators[w])
    BY <1>2, <1>7, <1>13 DEF StakingSound
  <2>4. ASSUME NEW w \in Validator PROVE z.validators[w].lsu = Held(z, w) + wallet[w]
    <3>1. s.validators[w].lsu = Held(s, w) + wallet[w] /\ wallet[w] \in Nat
      BY <1>2 DEF StakingSound
    <3>2. CASE w = v
      <4>1. z.validators[v].lsu = val.lsu - t /\ val.lsu = h + wallet[v]
        BY <1>7, <1>13, <3>1, <3>2 DEF h
      <4> QED
        BY <1>2, <1>6, <1>15, <3>1, <3>2, <4>1
    <3>3. CASE w # v
      BY <1>13, <1>15, <3>1, <3>3
    <3> QED
      BY <3>2, <3>3
  <2>5. s.dse_supply \in Nat /\ DOMAIN map \subseteq Validator /\ wallet \in [Validator -> Nat]
    BY <1>2 DEF StakingSound
  <2> QED
    BY <1>12, <1>13, <1>14, <2>2, <2>3, <2>4, <2>5 DEF StakingSound
<1>18. SumCurrentStaked(z) = SumCurrentStaked(s) - worth + left
  <2>1. WorthOf(z, v) = left
    BY <1>13, <1>15 DEF WorthOf
  <2> QED
    BY <1>2, <1>16, <1>17, <2>1, StakedMoves
<1>19. left \in Int /\ SumCurrentStaked(s) \in Int /\ LsuPrice(val) \in Int /\ part \div ONE \in Int
  <2>1. h - t \in Nat
    BY <1>2, <1>6
  <2> QED
    BY <1>2, <1>3, <1>7, <2>1, ValueIs, StakedSum, LsuPriceIs, DivBounds, DecimalAssumption
<1>20. r.left - q.left = part /\ q.left \in Nat /\ q.left <= r.left /\ q.s = z /\ q.ok = TRUE
  BY <1>2, <1>3, <1>10
<1> DEFINE b == SumCurrentStaked(s)
           price == LsuPrice(val)
           e == part \div ONE
<1> HIDE DEF left, b, price, e
<1>21. /\ b - part - e - 2 <= SumCurrentStaked(z)
       /\ SumCurrentStaked(z) <= b - part + price + 2
  BY <1>2, <1>3, <1>8, <1>18, <1>19 DEF left, b, price, e
<1>22. Loop(q, wallet)
  BY <1>17, <1>20 DEF Loop
<1>23. q.claims = Append(r.claims, c)
  BY <1>10
<1> QED
  BY <1>11, <1>12, <1>16, <1>20, <1>21, <1>22, <1>23 DEF q, b, price, e

Start(s, amount) ==
    [s |-> s, left |-> DMul(amount, ValuePerUnit(s)), claims |-> << >>, ok |-> TRUE]

ClaimList(c) == c \in Seq(Claim) /\ Len(c) \in {1, 2}

\* What the loop leaves of the pool when it took all of the amount.
LoopDone(r, s, left, wallet) ==
    LET staked == SumCurrentStaked(s)
        dust == SumFunctionOnSet(Prices(s), Validator)
    IN  /\ StakingSound(r.s, wallet) /\ r.s.dse_supply = s.dse_supply /\ ClaimList(r.claims)
        /\ staked - left - left \div ONE - dust <= SumCurrentStaked(r.s)
        /\ SumCurrentStaked(r.s) <= staked - left + dust

LEMMA AppendTwo ==
    ASSUME NEW S, NEW x \in S, NEW y \in S
    PROVE  Append(<<x>>, y) = <<x, y>>
<1> DEFINE a == Append(<<x>>, y)
           b == <<x, y>>
<1>1. <<x>> \in Seq(S) /\ Len(<<x>>) = 1 /\ <<x>>[1] = x
  OBVIOUS
<1>2. a \in Seq(S) /\ Len(a) = 2 /\ a[1] = x /\ a[2] = y
  BY <1>1
<1>3. DOMAIN b = 1 .. 2 /\ b[1] = x /\ b[2] = y /\ b = [i \in 1 .. 2 |-> b[i]]
  OBVIOUS
<1> HIDE DEF a
<1>4. DOMAIN a = 1 .. 2 /\ a = [i \in 1 .. 2 |-> a[i]]
  BY <1>2
<1> HIDE DEF b
<1>5. \A i \in 1 .. 2 : a[i] = b[i]
  BY <1>2, <1>3
<1>6. a = b
  BY <1>3, <1>4, <1>5
<1> QED
  BY <1>6 DEF a, b

LEMMA StartIs ==
    ASSUME NEW s, NEW wallet, StakingSound(s, wallet), NEW amount \in Nat
    PROVE  Loop(Start(s, amount), wallet) /\ ~ Stopped(Start(s, amount))
<1>1. ValuePerUnit(s) \in Nat
  BY PerUnitIs
<1>2. DMul(amount, ValuePerUnit(s)) \in Nat
  BY <1>1, DMulNat
<1> QED
  BY <1>2 DEF Loop, Start, Stopped

LEMMA LoopOfOne ==
    ASSUME NEW s, NEW wallet, StakingSound(s, wallet), NEW amount \in Nat,
           NEW v \in Validator,
           RedeemFrom(Start(s, amount), v).ok, RedeemFrom(Start(s, amount), v).left = 0
    PROVE  LoopDone(RedeemFrom(Start(s, amount), v), s, Start(s, amount).left, wallet)
<1> DEFINE r == Start(s, amount)
           q == RedeemFrom(r, v)
           price == LsuPrice(s.validators[v])
           dust == SumFunctionOnSet(Prices(s), Validator)
           b == SumCurrentStaked(s)
           a == SumCurrentStaked(q.s)
           left == r.left
           e == left \div ONE
<1>1. r.s = s /\ r.claims = << >>
  BY DEF Start
<1>2. Loop(r, wallet) /\ ~ Stopped(r)
  BY StartIs
<1> HIDE DEF r
<1>3. /\ Loop(q, wallet) /\ q.s.dse_supply = s.dse_supply
      /\ \E c \in Claim : q.claims = Append(r.claims, c)
      /\ b - (left - q.left) - (left - q.left) \div ONE - 2 <= a
      /\ a <= b - (left - q.left) + price + 2
  <2>1. RedeemFrom(r, v).ok
    BY DEF r
  <2> QED
    BY <1>1, <1>2, <2>1, TurnIs
<1>4. left - q.left = left /\ left \in Nat
  BY <1>2 DEF Loop, r
<1>5. ClaimList(q.claims)
  <2>1. PICK c \in Claim : q.claims = Append(<< >>, c)
    BY <1>1, <1>3
  <2>2. q.claims = <<c>>
    BY <2>1
  <2> QED
    BY <2>2 DEF ClaimList
<1>6. price \in Nat /\ dust \in Nat /\ price + 2 <= dust
  <2>1. \A x \in Validator : Prices(s)[x] = LsuPrice(s.validators[x]) + 2 /\ Prices(s)[x] \in Nat
    BY PricesAre
  <2>2. Prices(s)[v] <= dust
    BY <2>1, SumMember, StakingEarningAssumption
  <2>3. price \in Nat
    BY HeldIs, LsuPriceIs
  <2>4. dust \in Nat
    BY PricesAre
  <2> QED
    BY <2>1, <2>2, <2>3, <2>4
<1>7. StakingSound(q.s, wallet)
  BY <1>3 DEF Loop
<1>8. a \in Nat /\ b \in Nat /\ e \in Nat
  BY <1>4, <1>7, StakedSum, DivNat, DecimalAssumption
<1>9. b - left - e - 2 <= a /\ a <= b - left + price + 2
  BY <1>3, <1>4
<1> HIDE DEF a, b, e, dust, price, left, q
<1>10. b - left - e - dust <= a /\ a <= b - left + dust
  BY <1>4, <1>6, <1>8, <1>9
<1> QED
  BY <1>3, <1>5, <1>7, <1>10 DEF LoopDone, a, b, e, dust, left, q, r

LEMMA LoopOfTwo ==
    ASSUME NEW s, NEW wallet, StakingSound(s, wallet), NEW amount \in Nat,
           NEW v \in Validator, NEW w \in Validator, v # w,
           RedeemFrom(RedeemFrom(Start(s, amount), v), w).ok,
           RedeemFrom(RedeemFrom(Start(s, amount), v), w).left = 0
    PROVE  LoopDone(RedeemFrom(RedeemFrom(Start(s, amount), v), w), s,
                    Start(s, amount).left, wallet)
<1> DEFINE r == Start(s, amount)
           q == RedeemFrom(r, v)
           z == RedeemFrom(q, w)
<1>1. CASE Stopped(q)
  <2>1. z = q
    BY <1>1 DEF RedeemFrom
  <2> HIDE DEF z
  <2>2. q.ok /\ q.left = 0
    BY <2>1 DEF z
  <2>3. LoopDone(q, s, r.left, wallet)
    BY <2>2, LoopOfOne
  <2> QED
    BY <2>1, <2>3, SMTT(40) DEF z
<1>2. CASE ~ Stopped(q)
  <2> DEFINE pv == LsuPrice(s.validators[v])
             pw == LsuPrice(s.validators[w])
             dust == SumFunctionOnSet(Prices(s), Validator)
             a == SumCurrentStaked(s)
             b == SumCurrentStaked(q.s)
             c == SumCurrentStaked(z.s)
             left == r.left
             first == r.left - q.left
             last == q.left
  <2>1. r.s = s /\ r.claims = << >>
    BY DEF Start
  <2>2. Loop(r, wallet) /\ ~ Stopped(r)
    BY StartIs
  <2> HIDE DEF r
  <2>3. q.ok
    BY <1>2 DEF Stopped
  <2>4. /\ Loop(q, wallet) /\ q.left <= r.left /\ OnlyAt(s, q.s, v)
        /\ q.s.dse_supply = s.dse_supply
        /\ \E n \in Claim : q.claims = Append(r.claims, n)
        /\ a - first - first \div ONE - 2 <= b
        /\ b <= a - first + pv + 2
    BY <2>1, <2>2, <2>3, TurnIs
  <2> HIDE DEF q
  <2>5. /\ Loop(z, wallet) /\ z.s.dse_supply = q.s.dse_supply
        /\ \E n \in Claim : z.claims = Append(q.claims, n)
        /\ b - (q.left - z.left) - (q.left - z.left) \div ONE - 2 <= c
        /\ c <= b - (q.left - z.left) + LsuPrice(q.s.validators[w]) + 2
    BY <1>2, <2>4, TurnIs DEF r, q
  <2>6. /\ left \in Nat /\ last \in Nat /\ first \in Nat /\ first + last = left
        /\ q.left - z.left = last
    BY <2>2, <2>4 DEF Loop, r, q
  <2>7. q.s.validators[w] = s.validators[w]
    BY <2>4 DEF OnlyAt
  <2>8. ClaimList(z.claims)
    <3>1. PICK n \in Claim : q.claims = Append(<< >>, n)
      BY <2>1, <2>4
    <3>2. PICK m \in Claim : z.claims = Append(q.claims, m)
      BY <2>5
    <3>3. q.claims = <<n>>
      BY <3>1
    <3>4. z.claims = <<n, m>>
      BY <3>2, <3>3, AppendTwo, Zenon
    <3>5. <<n, m>> \in Seq(Claim) /\ Len(<<n, m>>) = 2
      OBVIOUS
    <3> QED
      BY <3>4, <3>5 DEF ClaimList
  <2>9. pv \in Nat /\ pw \in Nat /\ dust \in Nat /\ pv + 2 + pw + 2 <= dust
    <3> DEFINE f == Prices(s)
    <3>1. /\ \A x \in Validator : f[x] = LsuPrice(s.validators[x]) + 2 /\ f[x] \in Nat
          /\ dust \in Nat
          /\ SumFunctionOnSet(f, {v, w}) <= dust
      BY PricesAre
    <3>2. pv \in Nat /\ pw \in Nat
      BY HeldIs, LsuPriceIs
    <3> HIDE DEF f
    <3>3. SumFunctionOnSet(f, {w}) = f[w] /\ SumFunctionOnSet(f, {v, w}) = f[v] + f[w]
      <4>1. IsFiniteSet({w}) /\ IsFiniteSet({v, w}) /\ {w} \ {w} = {} /\ {v, w} \ {v} = {w}
        BY FS_AddElement, FS_EmptySet, FS_Singleton, SMTT(40)
      <4>2. SumFunctionOnSet(f, {w}) = f[w] + SumFunctionOnSet(f, {w} \ {w})
        BY <3>1, <4>1, SumSplit
      <4>3. SumFunctionOnSet(f, {v, w}) = f[v] + SumFunctionOnSet(f, {v, w} \ {v})
        BY <3>1, <4>1, SumSplit
      <4>4. f[w] + 0 = f[w]
        BY <3>1
      <4> QED
        BY <4>1, <4>2, <4>3, <4>4, SumEmpty
    <3>4. f[v] = pv + 2 /\ f[w] = pw + 2
      BY <3>1
    <3> HIDE DEF dust, pv, pw
    <3> QED
      BY <3>1, <3>2, <3>3, <3>4
  <2>10. StakingSound(z.s, wallet) /\ StakingSound(q.s, wallet)
    BY <2>4, <2>5 DEF Loop
  <2>11. a \in Nat /\ b \in Nat /\ c \in Nat
    BY <2>10, StakedSum
  <2> DEFINE e == left \div ONE
             ef == first \div ONE
             el == last \div ONE
  <2>12. ef \in Nat /\ el \in Nat /\ e \in Nat /\ ef + el <= e
    <3>1. first \div ONE + last \div ONE <= (first + last) \div ONE
      <4> HIDE DEF first, last
      <4> QED
        BY <2>6, QuotSum, DecimalAssumption
    <3> HIDE DEF first, last, left
    <3> QED
      BY <2>6, <3>1, DivNat, DecimalAssumption
  <2>13. /\ a - first - ef - 2 <= b /\ b <= a - first + pv + 2
         /\ b - last - el - 2 <= c /\ c <= b - last + pw + 2
    BY <2>4, <2>5, <2>6, <2>7
  <2> HIDE DEF z, a, b, c, e, ef, el, first, last, left, pv, pw, dust
  <2>14. a - left - e - dust <= c /\ c <= a - left + dust
    BY <2>6, <2>9, <2>11, <2>12, <2>13
  <2> QED
    BY <2>4, <2>5, <2>8, <2>10, <2>14 DEF LoopDone, a, c, e, dust, left, z, q, r
<1> QED
  BY <1>1, <1>2

\* The redemption of a list of validators that goes through.
LEMMA LoopEnds ==
    ASSUME NEW s, NEW wallet, StakingSound(s, wallet), NEW vs \in Lists(Validator),
           NEW amount \in Nat, CanRedeem(s, vs, amount)
    PROVE  LoopDone(Redeemed(s, vs, amount), s, Start(s, amount).left, wallet)
<1> DEFINE r == Start(s, amount)
           q == Redeemed(s, vs, amount)
<1>1. q = FoldLeft(RedeemFrom, r, vs) /\ q.ok /\ q.left = 0
  BY DEF Redeemed, Start, CanRedeem
<1> HIDE DEF q
<1>2. CASE \E v \in Validator : vs = <<v>>
  <2>1. PICK v \in Validator : vs = <<v>>
    BY <1>2
  <2> HIDE DEF r
  <2>2. q = RedeemFrom(r, v)
    BY <1>1, <2>1, RedeemOne
  <2> QED
    BY <1>1, <2>2, LoopOfOne DEF q, r
<1>3. CASE \E p \in {p \in Validator \X Validator : p[1] # p[2]} : vs = <<p[1], p[2]>>
  <2>1. PICK p \in {p \in Validator \X Validator : p[1] # p[2]} : vs = <<p[1], p[2]>>
    BY <1>3
  <2>2. PICK x \in Validator, y \in Validator : x # y /\ vs = <<x, y>>
    BY <2>1
  <2> HIDE DEF r
  <2>3. q = RedeemFrom(RedeemFrom(r, x), y)
    <3>1. TwoTurns(r, x, y)
      BY RedeemTwo
    <3> QED
      BY <1>1, <2>2, <3>1 DEF TwoTurns
  <2> QED
    BY <1>1, <2>2, <2>3, LoopOfTwo DEF q, r
<1> QED
  BY <1>2, <1>3 DEF Lists

LEMMA RedeemIs ==
    ASSUME NEW s, NEW wallet, StakingSound(s, wallet), NEW vs \in Lists(Validator),
           NEW amount \in 1 .. s.dse_supply, CanRedeem(s, vs, amount)
    PROVE  LET r == Redeem(s, vs, amount)
               value == r.dse_supply * ValuePerUnit(s)
               total == ONE * SumCurrentStaked(r)
           IN  /\ StakingSound(r, wallet) /\ ClaimList(RedeemClaims(s, vs, amount))
               /\ r.dse_supply = s.dse_supply - amount
               /\ value <= total + ONE * DustOf(s)
               /\ total <= value + s.dse_supply + ONE * DustOf(s)
<1> DEFINE q == Redeemed(s, vs, amount)
           r == Redeem(s, vs, amount)
           left == Start(s, amount).left
           d == s.dse_supply
           p == ValuePerUnit(s)
           staked == SumCurrentStaked(s)
           after == SumCurrentStaked(q.s)
           dust == SumFunctionOnSet(Prices(s), Validator)
           e == left \div ONE
<1>1. d \in Nat /\ amount \in Nat \ {0} /\ amount <= d
  BY DEF StakingSound
<1>2. LoopDone(q, s, left, wallet)
  BY <1>1, LoopEnds
<1>3. r = [q.s EXCEPT !.dse_supply = @ - amount] /\ RedeemClaims(s, vs, amount) = q.claims
  BY DEF Redeem, RedeemClaims
<1>4. left = DMul(amount, p)
  BY DEF Start
<1> HIDE DEF q, r, left
<1>5. /\ StakingSound(q.s, wallet) /\ q.s.dse_supply = d /\ ClaimList(q.claims)
      /\ staked - left - e - dust <= after /\ after <= staked - left + dust
  BY <1>2 DEF LoopDone
<1>6. /\ r.lsu_map = q.s.lsu_map /\ r.validators = q.s.validators /\ r.dse_supply = d - amount
      /\ r = [lsu_map |-> r.lsu_map, dse_supply |-> r.dse_supply, validators |-> r.validators]
  BY <1>3, <1>5 DEF StakingSound
<1>7. SumCurrentStaked(r) = after /\ \A w : Held(r, w) = Held(q.s, w)
  BY <1>6 DEF SumCurrentStaked, Held
<1>8. StakingSound(r, wallet)
  BY <1>1, <1>5, <1>6, <1>7 DEF StakingSound
<1>9. staked \in Nat /\ after \in Nat /\ dust \in Nat /\ p \in Nat /\ ONE \in Nat \ {0}
  BY <1>5, StakedSum, PricesAre, PerUnitIs, DecimalAssumption
<1>10. d * p <= ONE * staked /\ ONE * staked < d * p + d
  <2>1. (d * p <= ONE * staked \/ d = 0) /\ (d # 0 => ONE * staked < d * p + d)
    BY PerUnitIs, Zenon
  <2>2. d # 0
    BY <1>1
  <2> QED
    BY <2>1, <2>2
<1> HIDE DEF d, p, staked, after, dust
<1>11. left \in Nat /\ ONE * left <= amount * p /\ amount * p < ONE * left + ONE
  BY <1>1, <1>4, <1>9, DMulNat
<1>12. amount * p <= d * p
  <2>1. p * amount <= p * d
    BY <1>1, <1>9, ProductLe
  <2> QED
    BY <1>1, <1>9, <2>1
<1>13. left <= staked
  <2>1. ONE * left <= ONE * staked
    <3>1. ONE * left \in Int /\ amount * p \in Int /\ d * p \in Int /\ ONE * staked \in Int
      BY <1>1, <1>9, <1>11
    <3> QED
      BY <1>10, <1>11, <1>12, <3>1
  <2> QED
    BY <1>9, <1>11, <2>1, FactorLe
<1> DEFINE es == staked \div ONE
           ep == p \div ONE
<1>14. e \in Nat /\ es \in Nat /\ ep \in Nat /\ e <= es
  BY <1>9, <1>11, <1>13, DivMonotone, DivNat
<1> HIDE DEF e, es, ep
<1> DEFINE full == dust + es + ep + 1
<1>15. full \in Nat /\ (d - amount) * p = d * p - amount * p
  BY <1>1, <1>9, <1>14
<1>16. /\ ONE * staked - ONE * left - ONE * es - ONE * dust <= ONE * after
       /\ ONE * after <= ONE * staked - ONE * left + ONE * dust
  <2>1. ONE * (staked - left - es - dust) <= ONE * after
    <3>1. staked - left - es - dust <= after
      BY <1>5, <1>9, <1>11, <1>14
    <3> QED
      BY <1>9, <1>11, <1>14, <3>1, ProductLe
  <2>2. ONE * after <= ONE * (staked - left + dust)
    <3>1. after <= staked - left + dust
      BY <1>5
    <3> QED
      BY <1>9, <1>11, <3>1, ProductLe
  <2>3. /\ ONE * (staked - left - es - dust) = ONE * staked - ONE * left - ONE * es - ONE * dust
        /\ ONE * (staked - left + dust) = ONE * staked - ONE * left + ONE * dust
    BY <1>9, <1>11, <1>14
  <2> QED
    BY <2>1, <2>2, <2>3
<1>17. ONE * full = ONE * dust + ONE * es + ONE * ep + ONE
  BY <1>9, <1>14
<1> DEFINE oep == ONE * ep
           odust == ONE * dust
           oes == ONE * es
           ostaked == ONE * staked
           oleft == ONE * left
           oafter == ONE * after
           dp == d * p
           ap == amount * p
<1>18. /\ oep \in Nat /\ odust \in Nat /\ oes \in Nat /\ ostaked \in Nat /\ oleft \in Nat
       /\ oafter \in Nat /\ dp \in Nat /\ ap \in Nat
  BY <1>1, <1>9, <1>11, <1>14
<1> HIDE DEF full
<1>19. /\ (d - amount) * p <= ONE * after + ONE * full
       /\ ONE * after <= (d - amount) * p + d + ONE * full
  <2>1. /\ dp - ap = (d - amount) * p /\ ostaked - oleft - oes - odust <= oafter
        /\ oafter <= ostaked - oleft + odust /\ ONE * full = odust + oes + oep + ONE
        /\ dp <= ostaked /\ ostaked < dp + d /\ oleft <= ap /\ ap < oleft + ONE
        /\ oafter = ONE * after
    BY <1>10, <1>11, <1>15, <1>16, <1>17
  <2> HIDE DEF oep, odust, oes, ostaked, oleft, oafter, dp, ap
  <2>2. dp - ap <= oafter + (odust + oes + oep + ONE) /\ oafter <= dp - ap + d + (odust + oes + oep + ONE)
    BY <1>1, <1>9, <1>18, <2>1
  <2> QED
    BY <2>1, <2>2
<1>20. full = DustOf(s)
  BY DEF full, DustOf, dust, es, ep, staked, p
<1> QED
  BY <1>3, <1>5, <1>6, <1>7, <1>8, <1>19, <1>20 DEF r, d, p, after

----------------------------------------------------------------------------
(* The other calls on the staking pool *)

\* A user unstakes units of its own.
LEMMA UserUnstakes ==
    ASSUME NEW s, NEW wallet, StakingSound(s, wallet), NEW v \in Validator, NEW t \in Nat,
           t <= wallet[v]
    PROVE  LET r == Unstake(s, v, t)
           IN  /\ StakingSound(r, [wallet EXCEPT ![v] = @ - t])
               /\ r.dse_supply = s.dse_supply /\ r.lsu_map = s.lsu_map
               /\ ValueOfLsu(s.validators[v], t) \in Nat
<1> DEFINE val == s.validators[v]
           after == Unstaked(val, t)
           r == Unstake(s, v, t)
           rest == [wallet EXCEPT ![v] = @ - t]
<1>1. /\ Sane(val) /\ val \in Stakes /\ Held(s, v) \in Nat
      /\ wallet \in [Validator -> Nat] /\ val.lsu = Held(s, v) + wallet[v]
      /\ s.validators \in [Validator -> Stakes]
      /\ s = [lsu_map |-> s.lsu_map, dse_supply |-> s.dse_supply, validators |-> s.validators]
  BY HeldIs DEF StakingSound
<1>2. Sane(after) /\ after.lsu = val.lsu - t /\ after \in Stakes
  <2>1. t <= val.lsu
    BY <1>1
  <2> QED
    BY <1>1, <2>1, UnstakedIs DEF Sane
<1>3. ValueOfLsu(val, t) \in Nat
  BY <1>1, ValueIs
<1>4. r = [lsu_map |-> s.lsu_map, dse_supply |-> s.dse_supply,
           validators |-> [s.validators EXCEPT ![v] = after]]
  <2>1. r = [s EXCEPT !.validators = [s.validators EXCEPT ![v] = after]]
    BY <1>1 DEF Unstake, Unstaked
  <2> HIDE DEF after, r
  <2> QED
    BY <1>1, <2>1
<1> HIDE DEF r, after
<1>5. /\ r.lsu_map = s.lsu_map /\ r.dse_supply = s.dse_supply
      /\ r.validators \in [Validator -> Stakes] /\ r.validators[v] = after
      /\ \A w \in Validator \ {v} : r.validators[w] = s.validators[w]
  BY <1>1, <1>2, <1>4
<1>6. /\ rest \in [Validator -> Nat] /\ rest[v] = wallet[v] - t
      /\ \A w \in Validator \ {v} : rest[w] = wallet[w]
  BY <1>1
<1> HIDE DEF rest
<1>7. \A w \in Validator : Held(r, w) = Held(s, w)
  BY <1>5 DEF Held
<1>8. ASSUME NEW w \in Validator
      PROVE  Sane(r.validators[w]) /\ r.validators[w].lsu = Held(r, w) + rest[w]
  <2>1. CASE w = v
    <3>1. r.validators[v].lsu = Held(s, v) + wallet[v] - t /\ wallet[v] \in Nat
      BY <1>1, <1>2, <1>5
    <3> QED
      BY <1>1, <1>2, <1>5, <1>6, <1>7, <2>1, <3>1
  <2>2. CASE w # v
    BY <1>5, <1>6, <1>7, <2>2 DEF StakingSound
  <2> QED
    BY <2>1, <2>2
<1>9. StakingSound(r, rest)
  <2>1. r = [lsu_map |-> r.lsu_map, dse_supply |-> r.dse_supply, validators |-> r.validators]
    BY <1>4
  <2> QED
    BY <1>5, <1>6, <1>8, <2>1 DEF StakingSound
<1> QED
  BY <1>3, <1>5, <1>9 DEF r, rest

\* An epoch's rewards.
LEMMA EarnedIs ==
    ASSUME NEW s, NEW wallet, StakingSound(s, wallet), NEW earned \in [Validator -> Rewards]
    PROVE  LET r == [s EXCEPT !.validators =
                        [v \in Validator |-> Earned(s.validators[v], earned[v])]]
           IN  StakingSound(r, wallet) /\ r.dse_supply = s.dse_supply /\ r.lsu_map = s.lsu_map
<1> DEFINE more(v) == DMul(s.validators[v].xrd, earned[v])
           after == [v \in Validator |-> Earned(s.validators[v], earned[v])]
           r == [s EXCEPT !.validators = after]
<1>1. /\ s.validators \in [Validator -> Stakes]
      /\ s = [lsu_map |-> s.lsu_map, dse_supply |-> s.dse_supply, validators |-> s.validators]
  BY DEF StakingSound
<1>2. ASSUME NEW v \in Validator
      PROVE  after[v] \in Stakes /\ Sane(after[v]) /\ after[v].lsu = s.validators[v].lsu
  <2>1. s.validators[v] \in Stakes /\ Sane(s.validators[v])
    BY DEF StakingSound
  <2>2. more(v) \in Nat
    <3>1. s.validators[v].xrd \in Nat /\ earned[v] \in Nat
      BY <2>1, StakingEarningAssumption DEF Stakes
    <3> QED
      BY <3>1, DMulNat
  <2>3. s.validators[v].xrd = 0 => more(v) = 0
    <3>1. earned[v] \in Nat
      BY StakingEarningAssumption
    <3>2. DMul(0, earned[v]) = 0
      <4> DEFINE e == earned[v]
                 q == DMul(0, e)
      <4>1. q \in Nat /\ ONE * q <= 0 * e
        BY <3>1, DMulNat
      <4>2. 0 * e = 0 /\ ONE \in Nat \ {0}
        BY <3>1, DecimalAssumption
      <4> HIDE DEF q, e
      <4>3. ONE * q <= 0
        BY <4>1, <4>2
      <4>4. ONE * q <= ONE * 0
        BY <4>2, <4>3
      <4>5. q <= 0
        BY <4>1, <4>2, <4>4, FactorLe
      <4> QED
        BY <4>1, <4>5 DEF q, e
    <3> QED
      BY <3>2
  <2> DEFINE m == more(v)
  <2>4. after[v] = [s.validators[v] EXCEPT !.xrd = s.validators[v].xrd + m]
    BY DEF Earned
  <2> HIDE DEF m, after
  <2> QED
    BY <2>1, <2>2, <2>3, <2>4 DEF m, Stakes, Sane
<1>3. r = [lsu_map |-> s.lsu_map, dse_supply |-> s.dse_supply, validators |-> after]
  <2> HIDE DEF after
  <2> QED
    BY <1>1
<1>4. after = [v \in Validator |-> after[v]]
  OBVIOUS
<1> HIDE DEF r, after
<1>5. /\ r.lsu_map = s.lsu_map /\ r.dse_supply = s.dse_supply /\ r.validators = after
      /\ after \in [Validator -> Stakes]
      /\ r = [lsu_map |-> r.lsu_map, dse_supply |-> r.dse_supply, validators |-> r.validators]
  BY <1>2, <1>3, <1>4
<1>6. \A v \in Validator : Held(r, v) = Held(s, v)
  BY <1>5 DEF Held
<1>7. StakingSound(r, wallet)
  BY <1>2, <1>5, <1>6 DEF StakingSound
<1> QED
  BY <1>5, <1>7 DEF r, after

LEMMA StartIsSound ==
    StakingSound([lsu_map |-> << >>, dse_supply |-> 0, validators |-> InitialStake],
                 [v \in Validator |-> InitialStake[v].lsu])
<1> DEFINE s == [lsu_map |-> << >>, dse_supply |-> 0, validators |-> InitialStake]
           wallet == [v \in Validator |-> InitialStake[v].lsu]
<1>1. /\ InitialStake \in [Validator -> Stakes]
      /\ \A v \in Validator : Sane(InitialStake[v])
  <2>1. InitialStake \in [Validator -> Stakes]
    BY StakingEarningAssumption DEF Stakes
  <2>2. \A v \in Validator : /\ InitialStake[v].lsu <= InitialStake[v].xrd
                             /\ InitialStake[v].lsu = 0 => InitialStake[v].xrd = 0
    BY StakingEarningAssumption
  <2> QED
    BY <2>1, <2>2 DEF Sane
<1>2. DOMAIN << >> = {}
  OBVIOUS
<1>3. s.lsu_map = << >> /\ s.dse_supply = 0 /\ s.validators = InitialStake
  OBVIOUS
<1>4. \A v \in Validator : Held(s, v) = 0
  BY <1>2, <1>3 DEF Held
<1>5. wallet \in [Validator -> Nat] /\ \A v \in Validator : wallet[v] = InitialStake[v].lsu
  BY <1>1 DEF Stakes
<1>6. \A v \in Validator : InitialStake[v].lsu \in Nat
  BY <1>1 DEF Stakes
<1> HIDE DEF wallet
<1>7. \A v \in Validator : s.validators[v].lsu = Held(s, v) + wallet[v]
  BY <1>3, <1>4, <1>5, <1>6
<1>8. s = [lsu_map |-> s.lsu_map, dse_supply |-> s.dse_supply, validators |-> s.validators]
  OBVIOUS
<1> HIDE DEF s
<1>9. StakingSound(s, wallet)
  BY <1>1, <1>2, <1>3, <1>5, <1>7, <1>8 DEF StakingSound
<1> QED
  BY <1>9 DEF s, wallet

----------------------------------------------------------------------------
(* rebalance *)

\* What the LSUs a rebalance takes along may cost, per validator.
Allowances(s) ==
    [v \in Validator |-> (RebalanceDust + 1) * (LsuPrice(s.validators[v]) + 1)]

LEMMA AllowancesAre ==
    ASSUME NEW s, NEW wallet, StakingSound(s, wallet)
    PROVE  \A v \in Validator :
             /\ Allowances(s)[v] = (RebalanceDust + 1) * (LsuPrice(s.validators[v]) + 1)
             /\ Allowances(s)[v] \in Nat
<1> SUFFICES ASSUME NEW v \in Validator
             PROVE  (RebalanceDust + 1) * (LsuPrice(s.validators[v]) + 1) \in Nat
  BY DEF Allowances
<1> DEFINE a == RebalanceDust + 1
           b == LsuPrice(s.validators[v]) + 1
<1>1. a \in Nat /\ b \in Nat
  BY HeldIs, LsuPriceIs, StakingEarningAssumption
<1> HIDE DEF a, b
<1>2. a * b \in Nat
  BY <1>1
<1> QED
  BY <1>2 DEF a, b

\* Two members of a sum.
LEMMA SumPair ==
    ASSUME NEW f, NEW S, IsFiniteSet(S), \A x \in S : f[x] \in Nat,
           NEW v \in S, NEW w \in S, v # w
    PROVE  f[v] + f[w] <= SumFunctionOnSet(f, S)
<1>1. IsFiniteSet(S \ {v}) /\ w \in S \ {v} /\ \A x \in S \ {v} : f[x] \in Nat
  BY FS_Subset
<1>2. f[w] <= SumFunctionOnSet(f, S \ {v})
  BY <1>1, SumMember
<1>3. SumFunctionOnSet(f, S) = f[v] + SumFunctionOnSet(f, S \ {v})
  BY SumSplit
<1>4. SumFunctionOnSet(f, S \ {v}) \in Nat
  BY <1>1, SumNat
<1> QED
  BY <1>2, <1>3, <1>4

\* The LSUs that leave, for units of v or the whole vault.
Took(s, v, lsu_amount) ==
    LET lsu  == RebalancedLsu(s, v, lsu_amount)
        kept == IF TakesAll(s, v, lsu_amount) THEN DOMAIN s.lsu_map \ {v} ELSE DOMAIN s.lsu_map
    IN  [Unstake(s, v, lsu) EXCEPT
            !.lsu_map = [x \in kept |-> IF x = v THEN @[x] - lsu ELSE @[x]]]

LEMMA TookIs ==
    ASSUME NEW s, NEW wallet, StakingSound(s, wallet), NEW v \in Validator, NEW a \in Nat,
           NEW w \in Validator, NEW stake \in Nat, CanRebalance(s, v, a, w, stake)
    PROVE  LET z == Took(s, v, a)
               val == s.validators[v]
           IN  /\ StakingSound(z, wallet) /\ OnlyAt(s, z, v) /\ z.dse_supply = s.dse_supply
               /\ SumCurrentStaked(s)
                    <= SumCurrentStaked(z) + ValueOfLsu(val, a)
                         + RebalanceDust * (LsuPrice(val) + 1) + 2
               /\ LsuPrice(z.validators[v]) <= LsuPrice(val) + 1
<1> DEFINE map == s.lsu_map
           h == map[v]
           t == RebalancedLsu(s, v, a)
           val == s.validators[v]
           after == Unstaked(val, t)
           kept == IF TakesAll(s, v, a) THEN DOMAIN map \ {v} ELSE DOMAIN map
           z == Took(s, v, a)
<1>1. /\ v \in DOMAIN map /\ h \in Nat /\ h = Held(s, v) /\ h <= val.lsu
      /\ Sane(val) /\ val \in Stakes /\ RebalanceDust \in Nat
  BY HeldIs, StakingEarningAssumption DEF CanRebalance, StakingSound, Held
<1>2. t \in Nat /\ t <= h /\ t <= a + RebalanceDust /\ (TakesAll(s, v, a) => t = h)
  <2>1. t = IF TakesAll(s, v, a) THEN h ELSE a
    BY DEF RebalancedLsu
  <2>2. TakesAll(s, v, a) => h - a <= RebalanceDust
    BY <1>1 DEF TakesAll, Magnitude
  <2>3. t <= h
    BY DEF CanRebalance
  <2> HIDE DEF t
  <2> QED
    BY <1>1, <2>1, <2>2, <2>3
<1> HIDE DEF t
<1>3. /\ Sane(after) /\ after \in Stakes /\ after.lsu = val.lsu - t
      /\ LsuPrice(after) <= LsuPrice(val) + 1
  <2>1. t <= val.lsu
    BY <1>1, <1>2 DEF Stakes
  <2> HIDE DEF val
  <2>2. Sane(after) /\ after.lsu = val.lsu - t /\ LsuPrice(after) <= LsuPrice(val) + 1
    BY <1>1, <1>2, <2>1, UnstakedIs
  <2> QED
    BY <2>2 DEF Sane, val
<1>4. z = [lsu_map |-> [x \in kept |-> IF x = v THEN map[x] - t ELSE map[x]],
           dse_supply |-> s.dse_supply,
           validators |-> [s.validators EXCEPT ![v] = after]]
  <2>1. s = [lsu_map |-> s.lsu_map, dse_supply |-> s.dse_supply, validators |-> s.validators]
        /\ s.validators \in [Validator -> Stakes]
    BY DEF StakingSound
  <2> DEFINE u == Unstake(s, v, t)
  <2>2. u = [s EXCEPT !.validators = [s.validators EXCEPT ![v] = after]]
    BY <2>1 DEF Unstake, Unstaked
  <2> HIDE DEF u, after
  <2>3. u = [lsu_map |-> map, dse_supply |-> s.dse_supply,
             validators |-> [s.validators EXCEPT ![v] = after]]
    BY <2>1, <2>2
  <2>4. z = [u EXCEPT !.lsu_map = [x \in kept |-> IF x = v THEN u.lsu_map[x] - t
                                                   ELSE u.lsu_map[x]]]
    BY Zenon DEF Took, u, t
  <2>5. u.lsu_map = map
    BY <2>3
  <2> HIDE DEF z, kept, map
  <2> QED
    BY <2>3, <2>4, <2>5
<1> HIDE DEF z, after
<1>5. /\ z = [lsu_map |-> z.lsu_map, dse_supply |-> z.dse_supply, validators |-> z.validators]
      /\ z.dse_supply = s.dse_supply
      /\ z.validators \in [Validator -> Stakes] /\ z.validators[v] = after
      /\ \A x \in Validator \ {v} : z.validators[x] = s.validators[x]
  BY <1>3, <1>4 DEF StakingSound
<1>6. /\ DOMAIN z.lsu_map = kept
      /\ \A x \in kept : z.lsu_map[x] = IF x = v THEN map[x] - t ELSE map[x]
  BY <1>4
<1>7. Held(z, v) = h - t /\ h - t \in Nat
  <2>1. CASE TakesAll(s, v, a)
    <3>1. v \notin kept
      BY <2>1
    <3> HIDE DEF kept
    <3> QED
      BY <1>1, <1>2, <1>6, <2>1, <3>1 DEF Held
  <2>2. CASE ~ TakesAll(s, v, a)
    <3>1. v \in kept
      BY <1>1, <2>2
    <3> HIDE DEF kept
    <3> QED
      BY <1>1, <1>2, <1>6, <3>1 DEF Held
  <2> QED
    BY <2>1, <2>2
<1>8. \A x \in Validator \ {v} : Held(z, x) = Held(s, x)
  <2> SUFFICES ASSUME NEW x \in Validator \ {v} PROVE Held(z, x) = Held(s, x)
    OBVIOUS
  <2>1. x \in kept <=> x \in DOMAIN map
    OBVIOUS
  <2> HIDE DEF kept
  <2> QED
    BY <1>6, <2>1 DEF Held
<1>9. kept \subseteq DOMAIN map
  OBVIOUS
<1>10. DOMAIN z.lsu_map \subseteq Validator /\ \A x \in DOMAIN z.lsu_map : z.lsu_map[x] \in Nat
  <2> HIDE DEF kept
  <2>1. h = map[v]
    OBVIOUS
  <2> QED
    BY <1>6, <1>7, <1>9 DEF StakingSound
<1> HIDE DEF kept
<1>11. ASSUME NEW x \in Validator
       PROVE  Sane(z.validators[x]) /\ z.validators[x].lsu = Held(z, x) + wallet[x]
  <2>1. s.validators[x].lsu = Held(s, x) + wallet[x] /\ wallet[x] \in Nat
        /\ Sane(s.validators[x])
    BY DEF StakingSound
  <2>2. CASE x = v
    <3>1. z.validators[v].lsu = val.lsu - t /\ val.lsu = h + wallet[v]
      BY <1>1, <1>3, <1>5, <2>1, <2>2
    <3> HIDE DEF val, h
    <3> QED
      BY <1>1, <1>2, <1>3, <1>5, <1>7, <2>1, <2>2, <3>1
  <2>3. CASE x # v
    BY <1>5, <1>8, <2>1, <2>3
  <2> QED
    BY <2>2, <2>3
<1>12. StakingSound(z, wallet)
  BY <1>5, <1>10, <1>11 DEF StakingSound
<1>13. OnlyAt(s, z, v)
  BY <1>5, <1>8 DEF OnlyAt
<1> DEFINE worth == ValueOfLsu(val, h)
           left == ValueOfLsu(after, h - t)
           paid == ValueOfLsu(val, a)
           cost == RebalanceDust * (LsuPrice(val) + 1)
           b == SumCurrentStaked(s)
           c == SumCurrentStaked(z)
<1>14. worth <= left + paid + cost + 2
  BY <1>1, <1>2, TakenIs DEF after
<1>15. c = b - worth + left
  <2>1. SumCurrentStaked(z) = SumCurrentStaked(s) - WorthOf(s, v) + WorthOf(z, v)
    BY <1>12, <1>13, StakedMoves
  <2>2. WorthOf(s, v) = worth /\ WorthOf(z, v) = left
    BY <1>1, <1>5, <1>7 DEF WorthOf
  <2> QED
    BY <2>1, <2>2
<1>16. worth \in Nat /\ left \in Nat /\ paid \in Nat /\ b \in Nat /\ c \in Nat /\ cost \in Nat
  <2>1. LsuPrice(val) + 1 \in Nat
    BY <1>1, LsuPriceIs
  <2>2. cost \in Nat
    BY <1>1, <2>1
  <2> QED
    BY <1>1, <1>3, <1>7, <1>12, <2>2, ValueIs, StakedSum
<1> HIDE DEF worth, left, paid, cost, b, c
<1>17. b <= c + paid + cost + 2
  BY <1>14, <1>15, <1>16
<1> QED
  BY <1>3, <1>5, <1>12, <1>13, <1>17 DEF z, paid, cost, b, c

LEMMA RebalanceIs ==
    ASSUME NEW s, NEW wallet, StakingSound(s, wallet), NEW v \in Validator, NEW a \in Nat,
           NEW w \in Validator, NEW stake \in Nat, CanRebalance(s, v, a, w, stake)
    PROVE  LET r == Rebalance(s, v, a, w, stake)
           IN  /\ StakingSound(r, wallet) /\ r.dse_supply = s.dse_supply
               /\ SumCurrentStaked(r)
                    > SumCurrentStaked(s) - ONE - 4 - SumFunctionOnSet(Allowances(s), Validator)
<1> DEFINE z == Took(s, v, a)
           r == Rebalance(s, v, a, w, stake)
           val == z.validators[w]
           new == LsuForStake(val, stake)
           after == Staked(val, stake)
           price == LsuPrice(val)
           pv == LsuPrice(s.validators[v])
           paid == ValueOfLsu(s.validators[v], a)
           allowed == SumFunctionOnSet(Allowances(s), Validator)
           b == SumCurrentStaked(s)
           c == SumCurrentStaked(z)
           d == SumCurrentStaked(r)
           cost == RebalanceDust * (pv + 1)
<1>1. r = Bought(z, w, stake)
  BY Zenon DEF Rebalance, Took, Bought
<1>2. /\ StakingSound(z, wallet) /\ OnlyAt(s, z, v) /\ z.dse_supply = s.dse_supply
      /\ b <= c + paid + cost + 2
      /\ LsuPrice(z.validators[v]) <= pv + 1
  BY TookIs
<1> HIDE DEF z, r
<1>3. /\ StakingSound(r, wallet) /\ OnlyAt(z, r, w) /\ r.dse_supply = z.dse_supply
      /\ r.validators[w] = after /\ Held(r, w) = Held(z, w) + new
  BY <1>1, <1>2, BoughtIs
<1>4. val \in Stakes /\ Sane(val) /\ Held(z, w) \in Nat /\ Held(z, w) <= val.lsu
  BY <1>2, HeldIs
<1> DEFINE worth == ValueOfLsu(val, Held(z, w))
           bought == ValueOfLsu(after, new)
           more == ValueOfLsu(after, Held(z, w) + new)
<1>5. /\ new \in Nat /\ after \in Stakes
      /\ worth + bought <= more /\ stake - price - 1 <= bought
  <2> HIDE DEF val
  <2>1. /\ new \in Nat /\ Sane(after)
        /\ worth + bought <= more /\ stake - price - 1 <= bought
    BY <1>4, StakedIs
  <2> QED
    BY <2>1 DEF Sane
<1>6. d = c - worth + more
  <2>1. SumCurrentStaked(r) = SumCurrentStaked(z) - WorthOf(z, w) + WorthOf(r, w)
    BY <1>2, <1>3, StakedMoves
  <2>2. WorthOf(z, w) = worth /\ WorthOf(r, w) = more
    BY <1>3 DEF WorthOf
  <2> QED
    BY <2>1, <2>2
<1>7. /\ worth \in Nat /\ bought \in Nat /\ more \in Nat /\ price \in Nat /\ pv \in Nat
      /\ b \in Nat /\ c \in Nat /\ d \in Nat /\ paid \in Nat /\ ONE \in Nat \ {0}
      /\ RebalanceDust \in Nat
  <2>1. s.validators[v] \in Stakes /\ Held(z, w) + new \in Nat
    BY <1>4, <1>5, HeldIs
  <2>2. worth \in Nat /\ bought \in Nat /\ more \in Nat /\ paid \in Nat
    BY <1>4, <1>5, <2>1, ValueIs
  <2>3. price \in Nat /\ pv \in Nat
    BY <1>4, <2>1, LsuPriceIs
  <2>4. b \in Nat /\ c \in Nat /\ d \in Nat
    BY <1>2, <1>3, StakedSum
  <2> QED
    BY <2>2, <2>3, <2>4, DecimalAssumption, StakingEarningAssumption
<1>8. paid - stake < ONE
  <2>1. Magnitude(paid - stake) < ONE
    BY DEF CanRebalance
  <2> HIDE DEF paid
  <2> QED
    BY <1>7, <2>1 DEF Magnitude
<1>9. cost \in Nat
  <2> HIDE DEF pv
  <2> QED
    BY <1>7
<1>10. cost + price <= allowed + 1 /\ allowed \in Nat
  <2> DEFINE f == Allowances(s)
  <2>1. /\ \A x \in Validator : f[x] = (RebalanceDust + 1) * (LsuPrice(s.validators[x]) + 1)
                                /\ f[x] \in Nat
        /\ IsFiniteSet(Validator)
    BY AllowancesAre, StakingEarningAssumption
  <2> HIDE DEF f
  <2>2. f[v] = cost + pv + 1
    <3>1. f[v] = (RebalanceDust + 1) * (pv + 1)
      BY <2>1
    <3> HIDE DEF pv
    <3> QED
      BY <1>7, <3>1
  <2>3. CASE w = v
    <3>1. price <= pv + 1
      BY <1>2, <2>3
    <3>2. f[v] <= SumFunctionOnSet(f, Validator) /\ SumFunctionOnSet(f, Validator) \in Nat
      BY <2>1, SumMember, SumNat
    <3> HIDE DEF price, pv, cost
    <3> QED
      BY <1>7, <1>9, <2>2, <3>1, <3>2 DEF f
  <2>4. CASE w # v
    <3>1. f[v] + f[w] <= SumFunctionOnSet(f, Validator) /\ SumFunctionOnSet(f, Validator) \in Nat
      BY <2>1, <2>4, SumPair, SumNat
    <3>2. val = s.validators[w]
      BY <1>2, <2>4 DEF OnlyAt
    <3>3. f[w] = (RebalanceDust + 1) * (price + 1)
      BY <2>1, <3>2
    <3> HIDE DEF price, pv, cost
    <3>4. f[w] = RebalanceDust * (price + 1) + price + 1 /\ RebalanceDust * (price + 1) \in Nat
      BY <1>7, <3>3
    <3> DEFINE k == RebalanceDust * (price + 1)
    <3> HIDE DEF k
    <3>5. f[w] = k + price + 1 /\ k \in Nat
      BY <3>4 DEF k
    <3> QED
      BY <1>7, <1>9, <2>2, <3>1, <3>5 DEF f
  <2> QED
    BY <2>3, <2>4
<1> HIDE DEF price, pv, cost, worth, bought, more, paid, b, c, d, allowed
<1>11. d > b - ONE - 4 - allowed
  <2>1. c >= b - paid - cost - 2 /\ d >= c + bought /\ bought >= stake - price - 1
        /\ stake > paid - ONE
    BY <1>2, <1>5, <1>6, <1>7, <1>8, <1>9
  <2> QED
    BY <1>7, <1>9, <1>10, <2>1
<1> QED
  BY <1>2, <1>3, <1>11 DEF r, d, b, allowed

----------------------------------------------------------------------------
(* claim_xrd *)

\* The recursive function of the fold of Sell over the indices of a list.
Sale(g, base, nfts, at, D) ==
    g = [u \in SUBSET D |-> IF u = {} THEN base ELSE Sell(g[u \ {Max(u)}], nfts, at[Max(u)])]

Sold(nfts, base) == FoldLeftDomain(LAMBDA p, i : Sell(p, nfts, i), base, nfts)

Indices(nfts) == [i \in DOMAIN nfts |-> i]

LEMMA SaleIsFold ==
    ASSUME NEW base, NEW nfts
    PROVE  Sold(nfts, base)
             = (CHOOSE g : Sale(g, base, nfts, Indices(nfts), DOMAIN Indices(nfts)))
                   [DOMAIN Indices(nfts)]
BY Zenon DEF Sold, FoldLeftDomain, FoldLeft, MapThenFoldSet, Sale, Indices

LEMMA SaleStep ==
    ASSUME NEW g, NEW base, NEW nfts, NEW at, NEW D, Sale(g, base, nfts, at, D),
           NEW u \in SUBSET D
    PROVE  /\ u = {} => g[u] = base
           /\ u # {} => g[u] = Sell(g[u \ {Max(u)}], nfts, at[Max(u)])
BY DEF Sale

LEMMA SellOne ==
    ASSUME NEW base, NEW nfts, DOMAIN nfts = One
    PROVE  Sold(nfts, base) = Sell(base, nfts, 1)
<1> DEFINE at == Indices(nfts)
           one == Sell(base, nfts, 1)
           h == [u \in SUBSET One |-> IF u = {} THEN base ELSE one]
           g == CHOOSE f : Sale(f, base, nfts, at, One)
<1>1. DOMAIN at = One /\ at[1] = 1
  BY DEF Indices, One
<1> HIDE DEF at, one
<1>2. h[{}] = base
  BY Domains
<1>3. Sale(h, base, nfts, at, One)
  <2>1. ASSUME NEW u \in SUBSET One, u # {}
        PROVE  h[u \ {Max(u)}] = base /\ at[Max(u)] = 1
    <3>1. u = One
      BY <2>1, Domains
    <3>2. Max(u) = 1 /\ u \ {Max(u)} = {}
      BY <3>1, Domains
    <3> HIDE DEF h
    <3> QED
      BY <1>1, <1>2, <3>2
  <2> QED
    BY <2>1 DEF Sale, one
<1>4. Sale(g, base, nfts, at, One)
  BY <1>3
<1> HIDE DEF g, h
<1>5. {} \in SUBSET One /\ One \in SUBSET One /\ One # {}
  BY DEF One
<1>6. g[{}] = base
  BY <1>4, <1>5, SaleStep
<1>7. g[One] = Sell(g[One \ {Max(One)}], nfts, at[Max(One)])
  BY <1>4, <1>5, SaleStep
<1>8. Sold(nfts, base) = g[One]
  BY <1>1, SaleIsFold DEF g, at
<1>9. One \ {Max(One)} = {} /\ at[Max(One)] = 1
  BY <1>1, Domains
<1> QED
  BY <1>6, <1>7, <1>8, <1>9

LEMMA SellTwo ==
    ASSUME NEW base, NEW nfts, DOMAIN nfts = Two
    PROVE  Sold(nfts, base) = Sell(Sell(base, nfts, 1), nfts, 2)
<1> DEFINE at == Indices(nfts)
           one == Sell(base, nfts, 1)
           two == Sell(base, nfts, 2)
           both == Sell(one, nfts, 2)
           h == [u \in SUBSET Two |-> IF u = {} THEN base ELSE IF u = One THEN one
                                      ELSE IF u = {2} THEN two ELSE both]
           g == CHOOSE f : Sale(f, base, nfts, at, Two)
<1>1. DOMAIN at = Two /\ at[1] = 1 /\ at[2] = 2
  BY DEF Indices, Two
<1> HIDE DEF at
<1>2. h[{}] = base /\ h[One] = one /\ h[{2}] = two /\ h[Two] = both
  <2> HIDE DEF one, two, both
  <2> QED
    BY Domains
<1>3. Sale(h, base, nfts, at, Two)
  <2>1. ASSUME NEW u \in SUBSET Two
        PROVE  h[u] = IF u = {} THEN base ELSE Sell(h[u \ {Max(u)}], nfts, at[Max(u)])
    <3> HIDE DEF h
    <3>1. CASE u = {}
      BY <1>2, <3>1
    <3>2. CASE u = One
      <4>1. Max(u) = 1 /\ u \ {Max(u)} = {} /\ u # {}
        BY <3>2, Domains
      <4> QED
        BY <1>1, <1>2, <3>2, <4>1
    <3>3. CASE u = {2}
      <4>1. Max(u) = 2 /\ u \ {Max(u)} = {} /\ u # {}
        BY <3>3, Domains
      <4> QED
        BY <1>1, <1>2, <3>3, <4>1
    <3>4. CASE u = Two
      <4>1. Max(u) = 2 /\ u \ {Max(u)} = One /\ u # {}
        BY <3>4, Domains
      <4> QED
        BY <1>1, <1>2, <3>4, <4>1
    <3> QED
      BY <3>1, <3>2, <3>3, <3>4, Domains
  <2>2. h = [u \in SUBSET Two |-> h[u]]
    OBVIOUS
  <2> HIDE DEF h
  <2> QED
    BY <2>1, <2>2 DEF Sale
<1>4. Sale(g, base, nfts, at, Two)
  BY <1>3
<1> HIDE DEF g, h
<1>5. /\ {} \in SUBSET Two /\ One \in SUBSET Two /\ Two \in SUBSET Two
      /\ One # {} /\ Two # {}
  BY DEF One, Two
<1>6. g[{}] = base
  BY <1>4, <1>5, SaleStep
<1>7. g[One] = Sell(g[One \ {Max(One)}], nfts, at[Max(One)])
  BY <1>4, <1>5, SaleStep
<1>8. g[Two] = Sell(g[Two \ {Max(Two)}], nfts, at[Max(Two)])
  BY <1>4, <1>5, SaleStep
<1>9. Sold(nfts, base) = g[Two]
  BY <1>1, SaleIsFold DEF g, at
<1>10. One \ {Max(One)} = {} /\ at[Max(One)] = 1 /\ Two \ {Max(Two)} = One /\ at[Max(Two)] = 2
  BY <1>1, Domains
<1> QED
  BY <1>6, <1>7, <1>8, <1>9, <1>10

\* No claim is discounted at less than what the validators pay.
LEMMA DiscountRateIs ==
    ASSUME NEW p, PoolSound(p), NEW now \in Nat, p.last_update <= now, CanAccrue(p, now),
           p.interest_model = "XrdStaking", NEW amount \in Nat
    PROVE  DiscountRate(p, now, amount) \in Nat /\ ActiveSetApy <= DiscountRate(p, now, amount)
<1> DEFINE supply == GetRedemptionValue(p, now, p.share_supply)
           variable == GetVariableInterest(p, now, p.variable_loan_share_quantity)
           stable == GetStableLoanValue(p, now) + amount
           ratio == IF supply = 0 THEN 0 ELSE DDiv(variable + stable, supply)
           x == GetDefaultVariableInterest(InterestParams, ratio)
           d == DiscountRate(p, now, amount)
<1>1. d \in Nat
  BY PoolInterestRateNat DEF DiscountRate
<1>2. d = GetInterestRate(InterestParams, ratio, p.interest_model, ActiveSetApy).stable
  <2> HIDE DEF supply, variable, stable
  <2>1. PoolInterestRate(p, now, amount) = RatesFor(p, supply, variable, stable)
    BY DEF PoolInterestRate, supply, variable, stable
  <2>2. RatesFor(p, supply, variable, stable).stable
          = GetInterestRate(InterestParams, ratio, p.interest_model, ActiveSetApy).stable
    <3> DEFINE rate == GetInterestRate(InterestParams, ratio, p.interest_model, ActiveSetApy)
    <3>1. RatesFor(p, supply, variable, stable) = WithSupplyRate(p, rate, supply, variable, stable)
      BY DEF RatesFor
    <3> HIDE DEF rate
    <3> QED
      BY <3>1 DEF WithSupplyRate, rate
  <2> QED
    BY <2>1, <2>2 DEF DiscountRate
<1>3. d = IF x <= ActiveSetApy THEN ActiveSetApy ELSE x
  <2> HIDE DEF x, d, ratio
  <2>1. GetInterestRate(InterestParams, ratio, p.interest_model, ActiveSetApy)
          = VariableAndStable(x, "XrdStaking", ActiveSetApy)
    BY DEF GetInterestRate, x
  <2> QED
    BY <1>2, <2>1 DEF VariableAndStable
<1> HIDE DEF d, x
<1>4. ActiveSetApy \in Nat
  BY RatesAssumption
<1>5. ActiveSetApy <= d
  BY <1>1, <1>3, <1>4
<1> QED
  BY <1>1, <1>5 DEF d

\* The state of the lending pool when a claim is sold to it.
PoolFits ==
    /\ PoolSound(pool) /\ pool.interest_model = "XrdStaking" /\ pool.underlying_unit = 1
    /\ epoch \in StartEpoch .. MaxEpoch /\ pool.last_update <= epoch

\* One or two claim NFTs that the pool does not hold.
NftList(nfts) ==
    /\ DOMAIN nfts = One \/ DOMAIN nfts = Two
    /\ \A i \in DOMAIN nfts : nfts[i] \in ClaimNft /\ nfts[i] \notin pool.claim_nfts
    /\ \A i, j \in DOMAIN nfts : i # j => nfts[i] # nfts[j]

\* What staking the XRD would have cost.
Discounted(n) == CalcPrincipal(n.claim_amount, ActiveSetApy, n.claim_epoch - epoch)

NftPrices(nfts) == [i \in DOMAIN nfts |-> nfts[i].claim_amount - InterestOn(nfts, i)]

LEMMA NftIs ==
    ASSUME NEW n \in ClaimNft
    PROVE  n.claim_amount \in Nat /\ n.claim_epoch \in Nat
BY StakingEarningAssumption DEF ClaimNft

LEMMA NftPriceIs ==
    ASSUME PoolFits, NEW nfts, NftList(nfts), CanClaimXrd(nfts), NEW i \in Unmatured(nfts)
    PROVE  /\ i \in DOMAIN nfts /\ InterestOn(nfts, i) \in Nat
           /\ NftPrices(nfts)[i] \in Nat /\ Discounted(nfts[i]) \in Nat
           /\ NftPrices(nfts)[i] <= Discounted(nfts[i])
<1> DEFINE f == [j \in DOMAIN nfts |-> nfts[j].claim_amount]
           before == {j \in Unmatured(nfts) : j <= i}
           bought == SumFunctionOnSet(f, before)
           n == nfts[i]
           later == n.claim_epoch - epoch
           rate == DiscountRate(pool, epoch, bought)
           price == CalcPrincipal(n.claim_amount, rate, later)
<1>1. i \in DOMAIN nfts /\ n.claim_epoch > epoch
  BY DEF Unmatured
<1>2. epoch \in Nat
  BY StakingEarningAssumption DEF PoolFits
<1>3. n \in ClaimNft /\ n.claim_amount \in Nat /\ n.claim_epoch \in Nat
  BY <1>1, NftIs DEF NftList
<1>4. later \in Nat
  BY <1>1, <1>2, <1>3
<1>5. bought \in Nat
  <2>1. IsFiniteSet(before)
    <3>1. IsFiniteSet(One) /\ IsFiniteSet(Two)
      <4>1. IsFiniteSet(One)
        BY FS_Singleton DEF One
      <4>2. IsFiniteSet(One \cup {2}) /\ Two = One \cup {2}
        BY <4>1, FS_AddElement DEF One, Two
      <4> QED
        BY <4>1, <4>2
    <3>2. IsFiniteSet(DOMAIN nfts)
      BY <3>1 DEF NftList
    <3>3. before \subseteq DOMAIN nfts
      BY DEF Unmatured
    <3> QED
      BY <3>2, <3>3, FS_Subset
  <2>2. \A j \in before : f[j] \in Nat
    BY NftIs DEF Unmatured, NftList
  <2> HIDE DEF f, before
  <2> QED
    BY <2>1, <2>2, SumNat
<1> HIDE DEF bought
<1>6. CanAccrue(pool, epoch)
  <2>1. Unmatured(nfts) # {}
    OBVIOUS
  <2> QED
    BY <2>1 DEF CanClaimXrd
<1>7. rate \in Nat /\ ActiveSetApy <= rate
  BY <1>2, <1>5, <1>6, DiscountRateIs DEF PoolFits
<1>8. InterestOn(nfts, i) = n.claim_amount - price
  BY Zenon DEF InterestOn, bought, price
<1> HIDE DEF rate, later
<1>9. ActiveSetApy \in Nat
  BY RatesAssumption
<1>10. price \in Nat /\ price <= n.claim_amount
  BY <1>3, <1>4, <1>7, PrincipalBelowAmount
<1>11. Discounted(n) = CalcPrincipal(n.claim_amount, ActiveSetApy, later)
  BY DEF Discounted, later
<1>12. Discounted(n) \in Nat /\ price <= Discounted(n)
  <2>1. CalcPrincipal(n.claim_amount, ActiveSetApy, later) \in Nat
    BY <1>3, <1>4, <1>9, PrincipalBelowAmount
  <2>2. price <= CalcPrincipal(n.claim_amount, ActiveSetApy, later)
    BY <1>3, <1>4, <1>7, <1>9, PrincipalAntitone
  <2> QED
    BY <1>11, <2>1, <2>2
<1>13. NftPrices(nfts)[i] = n.claim_amount - InterestOn(nfts, i)
  BY <1>1 DEF NftPrices
<1> HIDE DEF n, price
<1>14. InterestOn(nfts, i) \in Nat /\ NftPrices(nfts)[i] = price
  BY <1>3, <1>8, <1>10, <1>13 DEF n
<1> QED
  BY <1>1, <1>10, <1>12, <1>14 DEF n

LEMMA SellIs ==
    ASSUME PoolFits, NEW nfts, NftList(nfts), CanClaimXrd(nfts), NEW i \in DOMAIN nfts,
           NEW p, PoolSound(p)
    PROVE  LET q == Sell(p, nfts, i)
           IN  /\ PoolSound(q)
               /\ Keeps(p, q, {"bonds", "bond_epochs", "claim_nfts", "bond_amount"})
               /\ q.claim_nfts
                    = p.claim_nfts \cup (IF i \in Unmatured(nfts) THEN {nfts[i]} ELSE {})
<1> DEFINE n == nfts[i]
           interest == InterestOn(nfts, i)
           q == AddFixedTerm(p, n, interest)
<1>1. CASE i \notin Unmatured(nfts)
  <2>1. Sell(p, nfts, i) = p
    BY <1>1 DEF Sell
  <2> QED
    BY <1>1, <2>1 DEF Keeps, PoolSound
<1>2. CASE i \in Unmatured(nfts)
  <2>1. Sell(p, nfts, i) = q
    BY <1>2 DEF Sell
  <2>2. n.claim_amount \in Nat /\ interest \in Nat
    BY <1>2, NftPriceIs, NftIs DEF NftList
  <2> HIDE DEF n, interest
  <2>3. PoolSound(q) /\ Keeps(p, q, {"bonds", "bond_epochs", "claim_nfts", "bond_amount"})
    BY <2>2, AddFixedTermSound
  <2>4. q.claim_nfts = p.claim_nfts \cup {n}
    <3>1. p = [f \in PoolFields |-> p[f]] /\ "claim_nfts" \in PoolFields
      BY PoolFieldNames DEF PoolSound, IsPool
    <3> QED
      BY <3>1, PoolFieldNames DEF AddFixedTerm
  <2> QED
    BY <1>2, <2>1, <2>3, <2>4 DEF n
<1> QED
  BY <1>1, <1>2

\* What the pool is after the sales.
LEMMA SalesAre ==
    ASSUME PoolFits, NEW nfts, NftList(nfts), CanClaimXrd(nfts), NEW base, PoolSound(base)
    PROVE  LET q == Sold(nfts, base)
           IN  /\ PoolSound(q)
               /\ Keeps(base, q, {"bonds", "bond_epochs", "claim_nfts", "bond_amount"})
               /\ q.claim_nfts = base.claim_nfts \cup {nfts[i] : i \in Unmatured(nfts)}
<1> DEFINE one == Sell(base, nfts, 1)
           two == Sell(one, nfts, 2)
           U == Unmatured(nfts)
           moved == {"bonds", "bond_epochs", "claim_nfts", "bond_amount"}
<1>1. U \subseteq DOMAIN nfts
  BY DEF Unmatured
<1>2. 1 \in DOMAIN nfts
  BY DEF NftList, One, Two
<1>3. /\ PoolSound(one) /\ Keeps(base, one, moved)
      /\ one.claim_nfts = base.claim_nfts \cup (IF 1 \in U THEN {nfts[1]} ELSE {})
  BY <1>2, SellIs
<1> HIDE DEF one, U
<1>4. CASE DOMAIN nfts = One
  <2>1. Sold(nfts, base) = one
    BY <1>4, SellOne DEF one
  <2>2. {nfts[i] : i \in U} = IF 1 \in U THEN {nfts[1]} ELSE {}
    BY <1>1, <1>4 DEF One
  <2> QED
    BY <1>3, <2>1, <2>2 DEF U
<1>5. CASE DOMAIN nfts = Two
  <2>1. Sold(nfts, base) = two
    BY <1>5, SellTwo DEF one
  <2>2. 2 \in DOMAIN nfts
    BY <1>5 DEF Two
  <2>3. /\ PoolSound(two) /\ Keeps(one, two, moved)
        /\ two.claim_nfts = one.claim_nfts \cup (IF 2 \in U THEN {nfts[2]} ELSE {})
    BY <1>3, <2>2, SellIs DEF U
  <2> HIDE DEF two
  <2>4. {nfts[i] : i \in U} = (IF 1 \in U THEN {nfts[1]} ELSE {})
                                 \cup (IF 2 \in U THEN {nfts[2]} ELSE {})
    BY <1>1, <1>5 DEF Two
  <2>5. Keeps(base, two, moved)
    BY <1>3, <2>3 DEF Keeps
  <2> QED
    BY <1>3, <2>1, <2>3, <2>4, <2>5 DEF U
<1> QED
  BY <1>4, <1>5 DEF NftList

LEMMA SumOne ==
    ASSUME NEW f, NEW x, f[x] \in Int
    PROVE  SumFunctionOnSet(f, {x}) = f[x]
<1>1. IsFiniteSet({x}) /\ {x} \ {x} = {}
  BY FS_Singleton
<1>2. \A y \in {x} : f[y] \in Int
  OBVIOUS
<1>3. x \in {x}
  OBVIOUS
<1>4. SumFunctionOnSet(f, {x}) = f[x] + SumFunctionOnSet(f, {x} \ {x})
  BY <1>1, <1>2, <1>3, SumSplit
<1>5. SumFunctionOnSet(f, {}) = 0
  BY SumEmpty
<1> QED
  BY <1>1, <1>4, <1>5

LEMMA SumTwo ==
    ASSUME NEW f, NEW x, NEW y, x # y, f[x] \in Int, f[y] \in Int
    PROVE  SumFunctionOnSet(f, {x, y}) = f[x] + f[y]
<1>1. IsFiniteSet({x, y}) /\ {x, y} \ {x} = {y}
  <2>1. IsFiniteSet({y}) /\ {y} \cup {x} = {x, y}
    BY FS_Singleton
  <2>2. IsFiniteSet({y} \cup {x})
    BY <2>1, FS_AddElement
  <2> QED
    BY <2>1, <2>2
<1>2. \A z \in {x, y} : f[z] \in Int
  OBVIOUS
<1>3. x \in {x, y}
  OBVIOUS
<1>4. SumFunctionOnSet(f, {x, y}) = f[x] + SumFunctionOnSet(f, {x, y} \ {x})
  BY <1>1, <1>2, <1>3, SumSplit
<1>5. SumFunctionOnSet(f, {y}) = f[y]
  BY SumOne
<1> QED
  BY <1>1, <1>4, <1>5

\* The NFTs that are sold.
Bonds(nfts) == {nfts[i] : i \in Unmatured(nfts)}

\* Each NFT is bought at most at its discounted value, and so are both.
LEMMA PriceIs ==
    ASSUME PoolFits, NEW nfts, NftList(nfts), CanClaimXrd(nfts)
    PROVE  /\ PriceOf(nfts) \in Nat
           /\ PriceOf(nfts)
                <= SumFunction([n \in Bonds(nfts) |->
                       CalcPrincipal(n.claim_amount, ActiveSetApy, n.claim_epoch - epoch)])
<1> DEFINE U == Unmatured(nfts)
           f == NftPrices(nfts)
           B == Bonds(nfts)
           g == [n \in B |-> CalcPrincipal(n.claim_amount, ActiveSetApy, n.claim_epoch - epoch)]
<1>1. PriceOf(nfts) = SumFunctionOnSet(f, U)
  BY Zenon DEF PriceOf, NftPrices
<1>2. SumFunction(g) = SumFunctionOnSet(g, B)
  BY Zenon DEF SumFunction
<1>3. \A i \in U : /\ nfts[i] \in B /\ g[nfts[i]] = Discounted(nfts[i])
                   /\ f[i] \in Nat /\ g[nfts[i]] \in Nat /\ f[i] <= g[nfts[i]]
  <2> SUFFICES ASSUME NEW i \in U
               PROVE  /\ nfts[i] \in B /\ g[nfts[i]] = Discounted(nfts[i])
                      /\ f[i] \in Nat /\ g[nfts[i]] \in Nat /\ f[i] <= g[nfts[i]]
    OBVIOUS
  <2>1. nfts[i] \in B
    BY DEF Bonds
  <2>2. g[nfts[i]] = Discounted(nfts[i])
    BY <2>1 DEF Discounted
  <2> HIDE DEF g, f, B
  <2>3. /\ NftPrices(nfts)[i] \in Nat /\ Discounted(nfts[i]) \in Nat
        /\ NftPrices(nfts)[i] <= Discounted(nfts[i])
    BY NftPriceIs
  <2> QED
    BY <2>1, <2>2, <2>3 DEF f
<1>4. U \subseteq Two
  BY DEF Unmatured, NftList, One, Two
<1>5. B = {nfts[i] : i \in U}
  BY DEF Bonds
<1>6. U = Two => nfts[1] # nfts[2]
  <2>1. U = Two => 1 \in DOMAIN nfts /\ 2 \in DOMAIN nfts
    BY DEF Unmatured, Two
  <2> QED
    BY <2>1 DEF NftList
<1> HIDE DEF U, f, g, B
<1>7. /\ SumFunctionOnSet(f, U) \in Nat
      /\ SumFunctionOnSet(f, U) <= SumFunctionOnSet(g, B)
  <2>1. ASSUME NEW i, U = {i}
        PROVE  /\ SumFunctionOnSet(f, U) \in Nat
               /\ SumFunctionOnSet(f, U) <= SumFunctionOnSet(g, B)
    <3>1. B = {nfts[i]} /\ i \in U
      BY <1>5, <2>1
    <3>2. SumFunctionOnSet(f, {i}) = f[i] /\ SumFunctionOnSet(g, {nfts[i]}) = g[nfts[i]]
      BY <1>3, <3>1, SumOne
    <3> QED
      BY <1>3, <2>1, <3>1, <3>2
  <2>2. CASE U = {}
    <3>1. B = {}
      BY <1>5, <2>2
    <3> QED
      BY <2>2, <3>1, SumEmpty
  <2>3. CASE U = Two
    <3>1. /\ B = {nfts[1], nfts[2]} /\ 1 \in U /\ 2 \in U /\ U = {1, 2}
          /\ nfts[1] # nfts[2]
      BY <1>5, <1>6, <2>3 DEF Two
    <3>2. /\ f[1] \in Nat /\ f[2] \in Nat /\ g[nfts[1]] \in Nat /\ g[nfts[2]] \in Nat
          /\ f[1] <= g[nfts[1]] /\ f[2] <= g[nfts[2]]
      BY <1>3, <3>1
    <3>3. SumFunctionOnSet(f, {1, 2}) = f[1] + f[2]
      BY <3>2, SumTwo
    <3>4. SumFunctionOnSet(g, {nfts[1], nfts[2]}) = g[nfts[1]] + g[nfts[2]]
      <4> DEFINE x == nfts[1]
                 y == nfts[2]
      <4>1. x # y /\ g[x] \in Int /\ g[y] \in Int
        BY <3>1, <3>2
      <4> HIDE DEF x, y
      <4>2. SumFunctionOnSet(g, {x, y}) = g[x] + g[y]
        BY <4>1, SumTwo
      <4> QED
        BY <4>2 DEF x, y
    <3>5. SumFunctionOnSet(f, U) = f[1] + f[2]
      BY <3>1, <3>3
    <3>6. SumFunctionOnSet(g, B) = g[nfts[1]] + g[nfts[2]]
      BY <3>1, <3>4
    <3> QED
      BY <3>2, <3>5, <3>6
  <2>4. U \in {{}, One, {2}, Two}
    BY <1>4, Domains
  <2> QED
    BY <2>1, <2>2, <2>3, <2>4 DEF One
<1> QED
  BY <1>1, <1>2, <1>7 DEF g, B

\* A claim as a whole.
LEMMA ClaimIs ==
    ASSUME PoolFits, NEW nfts, NftList(nfts), CanClaimXrd(nfts)
    PROVE  LET q == PoolAfterClaim(nfts)
               bought == q.claim_nfts \ pool.claim_nfts
           IN  /\ PoolSound(q) /\ q.interest_model = "XrdStaking" /\ q.underlying_unit = 1
               /\ q.last_update = pool.last_update
               /\ q.claim_nfts = pool.claim_nfts \cup Bonds(nfts)
               /\ bought # {} =>
                     pool.vault - q.vault
                       <= SumFunction([n \in bought |->
                              CalcPrincipal(n.claim_amount, ActiveSetApy, n.claim_epoch - epoch)])
<1> DEFINE q == PoolAfterClaim(nfts)
           bought == q.claim_nfts \ pool.claim_nfts
           price == PriceOf(nfts)
           base == BorrowFixedTerm(pool, price)
<1>1. CASE Unmatured(nfts) = {}
  <2>1. q = pool
    BY <1>1 DEF PoolAfterClaim
  <2>2. Bonds(nfts) = {}
    BY <1>1 DEF Bonds
  <2> HIDE DEF q
  <2> QED
    BY <2>1, <2>2 DEF PoolFits, q
<1>2. CASE Unmatured(nfts) # {}
  <2>1. q = Sold(nfts, base)
    BY <1>2, Zenon DEF PoolAfterClaim, Sold
  <2>2. price \in Nat /\ price <= pool.vault
    <3>1. price \in Nat
      BY PriceIs
    <3>2. CanBorrowFixedTerm(pool, price)
      BY <1>2 DEF CanClaimXrd
    <3>3. pool.vault \in Nat
      BY DEF PoolFits, PoolSound
    <3> HIDE DEF price
    <3> QED
      BY <3>1, <3>2, <3>3 DEF CanBorrowFixedTerm
  <2> HIDE DEF price
  <2>3. PoolSound(base) /\ Keeps(pool, base, {"vault"})
    BY <2>2, BorrowFixedTermSound DEF PoolFits
  <2>4. base.vault = pool.vault - price
    <3>1. FloorTo(price, 1) = price
      BY <2>2 DEF FloorTo
    <3>2. pool = [f \in PoolFields |-> pool[f]] /\ "vault" \in PoolFields
      BY PoolFieldNames DEF PoolFits, PoolSound, IsPool
    <3> QED
      BY <3>1, <3>2, PoolFieldNames DEF BorrowFixedTerm, PoolFits
  <2> HIDE DEF q, base
  <2>5. /\ PoolSound(q)
        /\ Keeps(base, q, {"bonds", "bond_epochs", "claim_nfts", "bond_amount"})
        /\ q.claim_nfts = base.claim_nfts \cup Bonds(nfts)
    BY <2>1, <2>3, SalesAre DEF Bonds
  <2>6. /\ q.vault = base.vault /\ q.interest_model = pool.interest_model
        /\ q.underlying_unit = pool.underlying_unit /\ q.last_update = pool.last_update
        /\ base.claim_nfts = pool.claim_nfts
    BY <2>3, <2>5, PoolFieldNames DEF Keeps
  <2>7. bought = Bonds(nfts)
    <3>1. \A n \in Bonds(nfts) : n \notin pool.claim_nfts
      BY DEF Bonds, NftList, Unmatured
    <3> QED
      BY <2>5, <2>6, <3>1
  <2>8. pool.vault - q.vault = price
    BY <2>2, <2>4, <2>6 DEF PoolFits, PoolSound
  <2> HIDE DEF bought
  <2>9. pool.vault - q.vault
          <= SumFunction([n \in bought |->
                 CalcPrincipal(n.claim_amount, ActiveSetApy, n.claim_epoch - epoch)])
    BY <2>7, <2>8, PriceIs DEF price
  <2> QED
    BY <2>5, <2>6, <2>9 DEF PoolFits, q, bought
<1> QED
  BY <1>1, <1>2

----------------------------------------------------------------------------
(* A lender's call *)

\* An update of the indices collects claim NFTs and adds none.
LEMMA UpdateIndexNfts ==
    ASSUME NEW p, PoolSound(p), NEW now \in Nat, p.last_update <= now, CanAccrue(p, now)
    PROVE  UpdateIndex(p, now).claim_nfts \subseteq p.claim_nfts
<1> DEFINE d == Collected(p, now)
           c == ClaimMaturedBonds(p, now)
           supply_index == CurrentDepositIndex(c, now)
           borrow_index == CurrentLoanIndex(c, now)
<1>1. IsPool(p) /\ "claim_nfts" \in PoolFields
  BY PoolFieldNames DEF PoolSound
<1>2. d.claim_nfts \subseteq p.claim_nfts
  BY <1>1, PoolFieldNames DEF Collected, IsPool
<1>3. IsPool(d)
  BY CollectedSound DEF PoolSound
<1> HIDE DEF d
<1>4. c = d \/ c = ShareOut(d, MatureInterest(p, now))
  BY DEF ClaimMaturedBonds, d
<1>5. IsPool(c) /\ c.claim_nfts = d.claim_nfts
  BY <1>1, <1>3, <1>4, PoolFieldNames DEF ShareOut, IsPool
<1> HIDE DEF c
<1>6. Accrue(c, now, supply_index, borrow_index).claim_nfts = c.claim_nfts
  BY <1>1, <1>5, PoolFieldNames DEF Accrue, IsPool
<1> QED
  BY <1>2, <1>5, <1>6 DEF UpdateIndex, c

LEMMA LendIs ==
    ASSUME NEW p, PoolSound(p), NEW now \in Nat, p.last_update <= now, CanAddLiquity(p, now),
           NEW amount \in Nat
    PROVE  LET q == AddLiquity(p, now, amount)
           IN  /\ PoolSound(q) /\ q.last_update = now
               /\ q.interest_model = p.interest_model /\ q.underlying_unit = p.underlying_unit
               /\ q.claim_nfts \subseteq p.claim_nfts
<1> DEFINE u == UpdateIndex(p, now)
           q == AddLiquity(p, now, amount)
           mint == MintAmount(u, amount)
<1>1. /\ PoolSound(u) /\ Keeps(p, u, BookFields \cup AccruedFields) /\ u.last_update = now
      /\ u.claim_nfts \subseteq p.claim_nfts
  BY UpdateIndexSound, UpdateIndexNfts DEF CanAddLiquity
<1>2. q = UpdateInterestRate(Supplied(u, amount, mint), now)
  BY DEF AddLiquity
<1> HIDE DEF u, q
<1>3. PoolSound(q) /\ Keeps(u, q, MovedFields({"vault", "share_supply"}))
  BY <1>1, <1>2, SupplySound
<1>4. /\ q.last_update = u.last_update /\ q.interest_model = u.interest_model
      /\ q.underlying_unit = u.underlying_unit /\ q.claim_nfts = u.claim_nfts
  BY <1>3, PoolFieldNames DEF Keeps, MovedFields, RateFields
<1>5. u.interest_model = p.interest_model /\ u.underlying_unit = p.underlying_unit
  BY <1>1, PoolFieldNames DEF Keeps, BookFields, AccruedFields
<1> QED
  BY <1>1, <1>3, <1>4, <1>5 DEF q

----------------------------------------------------------------------------
(* The inductive invariant *)

\* A claim NFT is in one place: with a user or in the lending pool, and those
\* minted later are others.
NftsApart ==
    /\ claims \subseteq ClaimNft /\ pool.claim_nfts \subseteq ClaimNft
    /\ claims \cap pool.claim_nfts = {}
    /\ \A n \in claims \cup pool.claim_nfts : n.id <= minted
    /\ minted \in 0 .. MaxNfts

StakingInv ==
    /\ StakingSound(staking, lsu_wallet)
    /\ PoolFits
    /\ NftsApart
    /\ calls \in 0 .. MaxCalls

LEMMA InitInv == ASSUME Init PROVE StakingInv
<1> DEFINE p == NewPool("XrdStaking", 1, 1, InsuranceRatio, 0)
<1>1. /\ Deposit \in Nat /\ StartEpoch \in Nat /\ MaxEpoch \in Nat /\ StartEpoch <= MaxEpoch
      /\ MaxNfts \in Nat /\ MaxCalls \in Nat
  BY StakingEarningAssumption
<1>2. PoolSound(p)
  BY NewPoolSound, StakingEarningAssumption
<1>3. /\ p.interest_model = "XrdStaking" /\ p.underlying_unit = 1 /\ p.last_update = 0
      /\ p.claim_nfts = {} /\ p.bond_epochs = {}
  BY DEF NewPool
<1> HIDE DEF p
<1>4. CanAddLiquity(p, StartEpoch)
  <2>1. MatureEpochs(p, StartEpoch) = {}
    BY <1>3 DEF MatureEpochs
  <2>2. MatureInterest(p, StartEpoch) = 0
    BY <2>1, SumEmpty DEF MatureInterest
  <2> QED
    BY <2>2 DEF CanAddLiquity, CanAccrue
<1>5. /\ PoolSound(pool) /\ pool.last_update = StartEpoch /\ pool.interest_model = "XrdStaking"
      /\ pool.underlying_unit = 1 /\ pool.claim_nfts = {}
  <2>1. pool = AddLiquity(p, StartEpoch, Deposit)
    BY DEF Init, p
  <2>2. p.last_update <= StartEpoch
    BY <1>1, <1>3
  <2> QED
    BY <1>1, <1>2, <1>3, <1>4, <2>1, <2>2, LendIs
<1>6. PoolFits
  BY <1>1, <1>5 DEF PoolFits, Init
<1>7. NftsApart
  BY <1>1, <1>5 DEF NftsApart, Init
<1>8. StakingSound(staking, lsu_wallet)
  BY StartIsSound DEF Init
<1>9. calls \in 0 .. MaxCalls
  BY <1>1 DEF Init
<1> QED
  BY <1>6, <1>7, <1>8, <1>9 DEF StakingInv

----------------------------------------------------------------------------
(* The claims that leave *)

\* What a step may pay for the claim NFTs it sells to the lending pool.
BuysAtDiscount ==
    LET bought == pool'.claim_nfts \ pool.claim_nfts
    IN  bought # {} =>
          pool.vault - pool'.vault
            <= SumFunction([n \in bought |->
                   CalcPrincipal(n.claim_amount, ActiveSetApy, n.claim_epoch - epoch)])

\* The NFTs minted for one or two unstakes.
LEMMA MintedIs ==
    ASSUME StakingInv, NEW unstakes, ClaimList(unstakes),
           minted + Len(Minted(unstakes)) <= MaxNfts
    PROVE  LET nfts == Minted(unstakes)
           IN  /\ NftList(nfts) /\ Len(nfts) \in {1, 2} /\ Range(nfts) \subseteq ClaimNft
               /\ \A n \in Range(nfts) : minted < n.id /\ n.id <= minted + Len(nfts)
<1> DEFINE nfts == Minted(unstakes)
           k == Len(unstakes)
<1>1. /\ k \in {1, 2} /\ DOMAIN unstakes = 1 .. k
      /\ \A i \in 1 .. k : unstakes[i] \in Claim
  BY DEF ClaimList
<1>2. /\ minted \in 0 .. MaxNfts /\ MaxNfts \in Nat /\ epoch \in Nat
      /\ epoch + UnbondEpochs \in StartEpoch .. (MaxEpoch + UnbondEpochs)
  BY StakingEarningAssumption DEF StakingInv, NftsApart, PoolFits
<1>3. /\ DOMAIN nfts = 1 .. k
      /\ \A i \in 1 .. k :
            nfts[i] = [id |-> minted + i, validator |-> unstakes[i].validator,
                       claim_epoch |-> epoch + UnbondEpochs, claim_amount |-> unstakes[i].amount]
  BY <1>1 DEF Minted
<1>4. nfts = [i \in 1 .. k |-> nfts[i]]
  BY <1>3 DEF Minted
<1> HIDE DEF nfts, k
<1>5. Len(nfts) = k
  <2>1. nfts \in Seq({nfts[i] : i \in 1 .. k})
    BY <1>1, <1>4
  <2> QED
    BY <1>1, <1>3, <2>1
<1>6. \A i \in 1 .. k : nfts[i] \in ClaimNft /\ nfts[i].id = minted + i
  <2> SUFFICES ASSUME NEW i \in 1 .. k PROVE nfts[i] \in ClaimNft /\ nfts[i].id = minted + i
    OBVIOUS
  <2>1. minted + i \in 1 .. MaxNfts
    BY <1>1, <1>2, <1>5 DEF nfts
  <2>2. unstakes[i].validator \in Validator /\ unstakes[i].amount \in Nat
    BY <1>1 DEF Claim
  <2> QED
    BY <1>2, <1>3, <2>1, <2>2 DEF ClaimNft
<1>7. \A i \in 1 .. k : nfts[i] \notin pool.claim_nfts
  BY <1>1, <1>2, <1>6 DEF StakingInv, NftsApart
<1>8. \A i, j \in 1 .. k : i # j => nfts[i] # nfts[j]
  BY <1>1, <1>2, <1>6
<1>9. DOMAIN nfts = One \/ DOMAIN nfts = Two
  BY <1>1, <1>3 DEF One, Two
<1>10. \A n \in Range(nfts) : n \in ClaimNft /\ minted < n.id /\ n.id <= minted + k
  BY <1>1, <1>2, <1>3, <1>6 DEF Range
<1> QED
  BY <1>1, <1>3, <1>5, <1>6, <1>7, <1>8, <1>9, <1>10 DEF NftList, nfts

LEMMA LeaveIs ==
    ASSUME StakingInv, NEW unstakes, ClaimList(unstakes), NEW faster \in BOOLEAN,
           Leave(unstakes, faster), epoch' = epoch
    PROVE  PoolFits' /\ NftsApart' /\ BuysAtDiscount
<1> DEFINE nfts == Minted(unstakes)
<1>1. minted + Len(nfts) <= MaxNfts /\ minted' = minted + Len(nfts)
  BY Zenon DEF Leave
<1>2. /\ NftList(nfts) /\ Len(nfts) \in {1, 2} /\ Range(nfts) \subseteq ClaimNft
      /\ \A n \in Range(nfts) : minted < n.id /\ n.id <= minted + Len(nfts)
  BY <1>1, MintedIs
<1>3. faster => CanClaimXrd(nfts) /\ pool' = PoolAfterClaim(nfts) /\ claims' = claims
  BY DEF Leave
<1>4. ~ faster => claims' = claims \cup Range(nfts) /\ pool' = pool
  BY DEF Leave
<1>5. \A i \in DOMAIN nfts : nfts[i] \in Range(nfts)
  BY DEF Range
<1> HIDE DEF nfts
<1>6. /\ minted \in 0 .. MaxNfts /\ MaxNfts \in Nat
      /\ claims \subseteq ClaimNft /\ pool.claim_nfts \subseteq ClaimNft
      /\ claims \cap pool.claim_nfts = {}
      /\ \A n \in claims \cup pool.claim_nfts : n.id <= minted
      /\ PoolFits
  BY StakingEarningAssumption DEF StakingInv, NftsApart
<1>7. minted' \in 0 .. MaxNfts /\ minted <= minted'
  BY <1>1, <1>2, <1>6
<1>8. \A n \in ClaimNft : n.id \in Nat
  BY DEF ClaimNft
<1>9. CASE faster
  <2>1. /\ PoolSound(pool') /\ pool'.interest_model = "XrdStaking" /\ pool'.underlying_unit = 1
        /\ pool'.last_update = pool.last_update
        /\ pool'.claim_nfts = pool.claim_nfts \cup Bonds(nfts)
        /\ BuysAtDiscount
    BY <1>2, <1>3, <1>6, <1>9, ClaimIs DEF BuysAtDiscount
  <2>2. Bonds(nfts) \subseteq Range(nfts)
    BY <1>5 DEF Bonds, Unmatured
  <2>3. PoolFits'
    BY <1>6, <2>1 DEF PoolFits
  <2>4. NftsApart'
    <3>1. claims' \subseteq ClaimNft /\ pool'.claim_nfts \subseteq ClaimNft
      BY <1>2, <1>3, <1>6, <1>9, <2>1, <2>2
    <3>2. \A n \in claims' \cup pool'.claim_nfts : n.id <= minted'
      BY <1>1, <1>2, <1>3, <1>6, <1>7, <1>8, <1>9, <2>1, <2>2
    <3>3. claims' \cap pool'.claim_nfts = {}
      <4>1. \A n \in Bonds(nfts) : n \notin claims
        BY <1>2, <1>6, <1>8, <2>2
      <4> QED
        BY <1>3, <1>6, <1>9, <2>1, <4>1
    <3> QED
      BY <1>7, <3>1, <3>2, <3>3 DEF NftsApart
  <2> QED
    BY <2>1, <2>3, <2>4
<1>10. CASE ~ faster
  <2>1. pool' = pool /\ claims' = claims \cup Range(nfts)
    BY <1>4, <1>10
  <2>2. PoolFits'
    BY <1>6, <2>1 DEF PoolFits
  <2>3. BuysAtDiscount
    BY <2>1 DEF BuysAtDiscount
  <2>4. NftsApart'
    <3>1. claims' \subseteq ClaimNft /\ pool'.claim_nfts \subseteq ClaimNft
      BY <1>2, <1>6, <2>1
    <3>2. \A n \in claims' \cup pool'.claim_nfts : n.id <= minted'
      BY <1>1, <1>2, <1>6, <1>7, <1>8, <2>1
    <3>3. claims' \cap pool'.claim_nfts = {}
      <4>1. \A n \in Range(nfts) : n \notin pool.claim_nfts
        BY <1>2, <1>6, <1>8
      <4> QED
        BY <1>6, <2>1, <4>1
    <3> QED
      BY <1>7, <3>1, <3>2, <3>3 DEF NftsApart
  <2> QED
    BY <2>2, <2>3, <2>4
<1> QED
  BY <1>9, <1>10

----------------------------------------------------------------------------
(* The steps *)

ValueKept ==
    staking'.dse_supply # staking.dse_supply =>
        LET total  == ONE * SumCurrentStaked(staking')
            supply == staking.dse_supply
            value  == staking'.dse_supply * ValuePerUnit(staking)
        IN  /\ value <= total + ONE * RedeemDust
            /\ staking'.dse_supply > supply => value <= total
            /\ supply > 0 => total <= value + supply + ONE * RedeemDust

RebalanceKept ==
    staking'.dse_supply = staking.dse_supply /\ staking'.lsu_map # staking.lsu_map =>
        SumCurrentStaked(staking')
          > SumCurrentStaked(staking) - ONE - 4
              - SumFunction([v \in Validator |->
                    (RebalanceDust + 1) * (LsuPrice(staking.validators[v]) + 1)])

StepIs == StakingInv' /\ BuysAtDiscount /\ ValueKept /\ RebalanceKept

LEMMA SamePool == ASSUME pool' = pool PROVE BuysAtDiscount
BY DEF BuysAtDiscount

LEMMA SamePoolFits == ASSUME PoolFits, pool' = pool, epoch' = epoch PROVE PoolFits'
BY DEF PoolFits

LEMMA SameNfts ==
    ASSUME NftsApart, pool' = pool, claims' = claims, minted' = minted PROVE NftsApart'
BY DEF NftsApart

LEMMA SameSupply == ASSUME staking'.dse_supply = staking.dse_supply PROVE ValueKept
BY DEF ValueKept

LEMMA SameMap == ASSUME staking'.lsu_map = staking.lsu_map PROVE RebalanceKept
BY DEF RebalanceKept

LEMMA CallIs == ASSUME calls \in 0 .. MaxCalls, Call PROVE calls' \in 0 .. MaxCalls
BY StakingEarningAssumption DEF Call

LEMMA DustIs ==
    ASSUME StakingSound(staking, lsu_wallet)
    PROVE  RedeemDust = DustOf(staking) /\ RedeemDust \in Nat
<1> DEFINE f == Prices(staking)
           a == SumCurrentStaked(staking)
           p == ValuePerUnit(staking)
<1>1. SumFunction(f) = SumFunctionOnSet(f, Validator)
  BY Zenon DEF SumFunction, Prices
<1>2. RedeemDust = SumFunction(f) + a \div ONE + p \div ONE + 1
  BY Zenon DEF RedeemDust, Prices
<1>3. SumFunctionOnSet(f, Validator) \in Nat /\ a \in Nat /\ p \in Nat
  BY PricesAre, StakedSum, PerUnitIs
<1>4. DustOf(staking) = SumFunctionOnSet(f, Validator) + a \div ONE + p \div ONE + 1
  BY Zenon DEF DustOf
<1> HIDE DEF f, a, p
<1>5. a \div ONE \in Nat /\ p \div ONE \in Nat
  BY <1>3, DivNat, DecimalAssumption
<1> QED
  BY <1>1, <1>2, <1>3, <1>4, <1>5

LEMMA AllowanceIs ==
    ASSUME StakingSound(staking, lsu_wallet)
    PROVE  LET allowed == SumFunction([v \in Validator |->
                             (RebalanceDust + 1) * (LsuPrice(staking.validators[v]) + 1)])
           IN  allowed \in Nat /\ allowed = SumFunctionOnSet(Allowances(staking), Validator)
<1> DEFINE f == Allowances(staking)
<1>1. SumFunction(f) = SumFunctionOnSet(f, Validator)
  BY Zenon DEF SumFunction, Allowances
<1>2. SumFunctionOnSet(f, Validator) \in Nat
  BY AllowancesAre, SumNat, StakingEarningAssumption
<1>3. SumFunction(f) = SumFunction([v \in Validator |->
                          (RebalanceDust + 1) * (LsuPrice(staking.validators[v]) + 1)])
  BY Zenon DEF Allowances
<1> HIDE DEF f
<1>4. SumFunction(f) \in Nat
  BY <1>1, <1>2
<1> QED
  BY <1>1, <1>3, <1>4, Zenon DEF f

LEMMA JoinStep ==
    ASSUME StakingInv, NEW v \in Validator, NEW amount \in Joins, Join(v, amount)
    PROVE  StepIs
<1> DEFINE s == staking
           r == staking'
           p == ValuePerUnit(s)
           price == LsuPrice(s.validators[v])
           d == s.dse_supply
           dust == SumFunctionOnSet(Prices(s), Validator)
           a == SumCurrentStaked(s)
           b == SumCurrentStaked(r)
           value == r.dse_supply * p
           total == ONE * b
<1>1. /\ StakingSound(s, lsu_wallet) /\ PoolFits /\ NftsApart /\ calls \in 0 .. MaxCalls
      /\ amount \in Nat
  BY StakingEarningAssumption DEF StakingInv
<1>2. /\ CanContribute(s, v, amount) /\ r = Contribute(s, v, amount)
      /\ lsu_wallet' = lsu_wallet /\ claims' = claims /\ pool' = pool
      /\ minted' = minted /\ epoch' = epoch /\ Call
  BY DEF Join
<1>3. /\ StakingSound(r, lsu_wallet) /\ r.dse_supply >= d /\ a <= b /\ value <= total
      /\ d > 0 => total <= value + d + ONE * (price + 2 + p \div ONE + 1)
  BY <1>1, <1>2, ContributeIs
<1>4. StakingInv'
  BY <1>1, <1>2, <1>3, SamePoolFits, SameNfts, CallIs DEF StakingInv
<1>5. BuysAtDiscount
  BY <1>2, SamePool
<1>6. /\ RedeemDust = dust + a \div ONE + p \div ONE + 1 /\ RedeemDust \in Nat
      /\ dust \in Nat /\ price \in Nat /\ price + 2 <= dust
      /\ a \in Nat /\ b \in Nat /\ p \in Nat /\ d \in Nat /\ ONE \in Nat \ {0}
  <2>1. RedeemDust = DustOf(s) /\ RedeemDust \in Nat
    BY <1>1, DustIs
  <2>2. \A x \in Validator : Prices(s)[x] = LsuPrice(s.validators[x]) + 2 /\ Prices(s)[x] \in Nat
    BY <1>1, PricesAre
  <2>3. Prices(s)[v] <= dust /\ dust \in Nat
    BY <2>2, SumMember, SumNat, StakingEarningAssumption
  <2>4. price \in Nat /\ a \in Nat /\ b \in Nat /\ p \in Nat /\ d \in Nat
    BY <1>1, <1>3, HeldIs, LsuPriceIs, StakedSum, PerUnitIs DEF StakingSound
  <2>5. price + 2 <= dust
    BY <2>2, <2>3
  <2> QED
    BY <2>1, <2>3, <2>4, <2>5, DecimalAssumption DEF DustOf
<1>7. value \in Nat /\ total \in Nat
  <2>1. r.dse_supply \in Nat
    BY <1>3 DEF StakingSound
  <2> HIDE DEF p, b
  <2> QED
    BY <1>6, <2>1
<1> HIDE DEF value, total, price, p, dust, a, b, d
<1>8. /\ ONE * RedeemDust \in Nat
      /\ ONE * (price + 2 + p \div ONE + 1) <= ONE * RedeemDust
  <2> DEFINE k == p \div ONE
             x == price + 2 + k + 1
             y == RedeemDust
  <2>1. k \in Nat /\ a \div ONE \in Nat
    BY <1>6, DivNat
  <2>2. x \in Int /\ y \in Nat /\ x <= y
    <3> DEFINE e == a \div ONE
    <3> HIDE DEF k, e
    <3> QED
      BY <1>6, <2>1 DEF k, e
  <2> HIDE DEF x, y
  <2>3. ONE * x <= ONE * y /\ ONE * y \in Nat
    BY <1>6, <2>2, ProductLe
  <2> QED
    BY <2>3 DEF x, y
<1>9. d > 0 => total <= value + d + ONE * RedeemDust
  <2> DEFINE x == ONE * (price + 2 + p \div ONE + 1)
             y == ONE * RedeemDust
  <2>1. x \in Int
    <3> DEFINE k == p \div ONE
    <3>1. k \in Nat
      BY <1>6, DivNat
    <3> HIDE DEF k
    <3>2. ONE * (price + 2 + k + 1) \in Int
      BY <1>6, <3>1
    <3> QED
      BY <3>2 DEF k
  <2>2. y \in Nat /\ x <= y /\ (d > 0 => total <= value + d + x)
    BY <1>3, <1>8
  <2> HIDE DEF x, y
  <2>3. d > 0 => total <= value + d + y
    BY <1>6, <1>7, <2>1, <2>2
  <2> QED
    BY <2>3 DEF y
<1>10. value <= total + ONE * RedeemDust
  <2> DEFINE y == ONE * RedeemDust
  <2>1. y \in Nat
    BY <1>8
  <2> HIDE DEF y
  <2>2. value <= total + y
    BY <1>3, <1>7, <2>1
  <2> QED
    BY <2>2 DEF y
<1>11. ValueKept
  BY <1>3, <1>9, <1>10 DEF ValueKept, value, total, d, p, b
<1>12. RebalanceKept
  <2> DEFINE allowed == SumFunction([w \in Validator |->
                           (RebalanceDust + 1) * (LsuPrice(staking.validators[w]) + 1)])
  <2>1. allowed \in Nat
    BY <1>1, AllowanceIs
  <2> HIDE DEF allowed
  <2>2. b > a - ONE - 4 - allowed
    BY <1>3, <1>6, <2>1
  <2> QED
    BY <2>2 DEF RebalanceKept, allowed, a, b
<1> QED
  BY <1>4, <1>5, <1>11, <1>12 DEF StepIs

LEMMA PartsAre ==
    ASSUME NEW quantity \in Nat, NEW part \in Parts(quantity)
    PROVE  part \in 1 .. quantity
<1>1. quantity \div 2 \in Nat /\ 2 * (quantity \div 2) <= quantity
  BY DivBounds, DivNat
<1>2. (part = quantity \/ part = quantity \div 2) /\ part > 0
  BY DEF Parts
<1> QED
  BY <1>1, <1>2

LEMMA RedeemDseStep ==
    ASSUME StakingInv, NEW vs \in Lists(Validator), NEW amount \in Parts(staking.dse_supply),
           NEW faster \in BOOLEAN, RedeemDse(vs, amount, faster)
    PROVE  StepIs
<1> DEFINE s == staking
           r == staking'
           d == s.dse_supply
           value == r.dse_supply * ValuePerUnit(s)
           total == ONE * SumCurrentStaked(r)
           list == RedeemClaims(s, vs, amount)
<1>1. /\ StakingSound(s, lsu_wallet) /\ PoolFits /\ NftsApart /\ calls \in 0 .. MaxCalls
      /\ d \in Nat
  BY DEF StakingInv, StakingSound
<1>2. amount \in 1 .. d
  BY <1>1, PartsAre
<1>3. /\ CanRedeem(s, vs, amount) /\ r = Redeem(s, vs, amount) /\ Leave(list, faster)
      /\ lsu_wallet' = lsu_wallet /\ epoch' = epoch /\ Call
  BY DEF RedeemDse
<1>4. /\ StakingSound(r, lsu_wallet) /\ ClaimList(list) /\ r.dse_supply = d - amount
      /\ value <= total + ONE * DustOf(s)
      /\ total <= value + d + ONE * DustOf(s)
  BY <1>1, <1>2, <1>3, RedeemIs
<1>5. PoolFits' /\ NftsApart' /\ BuysAtDiscount
  BY <1>3, <1>4, LeaveIs
<1>6. StakingInv'
  BY <1>1, <1>3, <1>4, <1>5, CallIs DEF StakingInv
<1>7. RedeemDust = DustOf(s)
  BY <1>1, DustIs
<1>8. r.dse_supply < d
  BY <1>1, <1>2, <1>4
<1>9. ValueKept
  <2>1. ~ (r.dse_supply > d)
    BY <1>1, <1>2, <1>4
  <2> QED
    BY <1>4, <1>7, <2>1 DEF ValueKept
<1>10. RebalanceKept
  BY <1>1, <1>2, <1>8 DEF RebalanceKept
<1> QED
  BY <1>5, <1>6, <1>9, <1>10 DEF StepIs

LEMMA RedeemLsuStep ==
    ASSUME StakingInv, NEW v \in Validator, NEW faster \in BOOLEAN,
           NEW lsu \in Parts(lsu_wallet[v]), RedeemLsu(v, lsu, faster)
    PROVE  StepIs
<1> DEFINE s == staking
           r == staking'
           worth == ValueOfLsu(s.validators[v], lsu)
           list == <<[validator |-> v, amount |-> worth]>>
<1>1. /\ StakingSound(s, lsu_wallet) /\ PoolFits /\ NftsApart /\ calls \in 0 .. MaxCalls
      /\ lsu_wallet[v] \in Nat
  BY DEF StakingInv, StakingSound
<1>2. lsu \in Nat /\ lsu <= lsu_wallet[v]
  BY <1>1, PartsAre
<1>3. /\ Leave(list, faster) /\ r = Unstake(s, v, lsu)
      /\ lsu_wallet' = [lsu_wallet EXCEPT ![v] = @ - lsu] /\ epoch' = epoch /\ Call
  BY DEF RedeemLsu
<1>4. /\ StakingSound(r, lsu_wallet') /\ r.dse_supply = s.dse_supply /\ r.lsu_map = s.lsu_map
      /\ worth \in Nat
  BY <1>1, <1>2, <1>3, UserUnstakes
<1>5. ClaimList(list)
  <2> HIDE DEF worth
  <2>1. [validator |-> v, amount |-> worth] \in Claim
    BY <1>4 DEF Claim
  <2> QED
    BY <2>1 DEF ClaimList
<1> HIDE DEF list
<1>6. PoolFits' /\ NftsApart' /\ BuysAtDiscount
  BY <1>3, <1>5, LeaveIs
<1>7. StakingInv'
  BY <1>1, <1>3, <1>4, <1>6, CallIs DEF StakingInv
<1> QED
  BY <1>4, <1>6, <1>7, SameSupply, SameMap DEF StepIs

LEMMA ClaimXrdStep ==
    ASSUME StakingInv, NEW nfts \in Lists(claims), ClaimXrd(nfts)
    PROVE  StepIs
<1>1. /\ StakingSound(staking, lsu_wallet) /\ PoolFits /\ NftsApart /\ calls \in 0 .. MaxCalls
  BY DEF StakingInv
<1>2. /\ CanClaimXrd(nfts) /\ pool' = PoolAfterClaim(nfts) /\ claims' = claims \ Range(nfts)
      /\ staking' = staking /\ lsu_wallet' = lsu_wallet /\ minted' = minted /\ epoch' = epoch
      /\ Call
  BY DEF ClaimXrd
<1>3. /\ claims \subseteq ClaimNft /\ pool.claim_nfts \subseteq ClaimNft
      /\ claims \cap pool.claim_nfts = {}
  BY <1>1 DEF NftsApart
<1>4. NftList(nfts) /\ \A i \in DOMAIN nfts : nfts[i] \in claims
  <2>1. ASSUME NEW x \in claims, nfts = <<x>>
        PROVE  NftList(nfts) /\ \A i \in DOMAIN nfts : nfts[i] \in claims
    <3>1. DOMAIN nfts = One /\ nfts[1] = x
      BY <2>1 DEF One
    <3> QED
      BY <1>3, <3>1 DEF NftList, One
  <2>2. ASSUME NEW x \in claims, NEW y \in claims, x # y, nfts = <<x, y>>
        PROVE  NftList(nfts) /\ \A i \in DOMAIN nfts : nfts[i] \in claims
    <3>1. DOMAIN nfts = Two /\ nfts[1] = x /\ nfts[2] = y
      BY <2>2 DEF Two
    <3> QED
      BY <1>3, <2>2, <3>1 DEF NftList, Two
  <2>3. \/ \E x \in claims : nfts = <<x>>
        \/ \E p \in {q \in claims \X claims : q[1] # q[2]} : nfts = <<p[1], p[2]>>
    BY DEF Lists
  <2>4. ASSUME NEW p \in {q \in claims \X claims : q[1] # q[2]}, nfts = <<p[1], p[2]>>
        PROVE  \E x, y \in claims : x # y /\ nfts = <<x, y>>
    BY <2>4
  <2> QED
    BY <2>1, <2>2, <2>3, <2>4
<1>5. /\ PoolSound(pool') /\ pool'.interest_model = "XrdStaking" /\ pool'.underlying_unit = 1
      /\ pool'.last_update = pool.last_update
      /\ pool'.claim_nfts = pool.claim_nfts \cup Bonds(nfts)
      /\ BuysAtDiscount
  BY <1>1, <1>2, <1>4, ClaimIs DEF BuysAtDiscount
<1>6. PoolFits'
  BY <1>1, <1>2, <1>5 DEF PoolFits
<1>7. Bonds(nfts) \subseteq Range(nfts) /\ Bonds(nfts) \subseteq claims
  BY <1>4 DEF Bonds, Unmatured, Range
<1>8. NftsApart'
  <2>1. claims' \subseteq ClaimNft /\ pool'.claim_nfts \subseteq ClaimNft
    BY <1>2, <1>3, <1>5, <1>7
  <2>2. claims' \cap pool'.claim_nfts = {}
    BY <1>2, <1>3, <1>5, <1>7
  <2>3. \A n \in claims' \cup pool'.claim_nfts : n \in claims \cup pool.claim_nfts
    BY <1>2, <1>5, <1>7
  <2> QED
    BY <1>1, <1>2, <2>1, <2>2, <2>3 DEF NftsApart
<1>9. StakingInv'
  BY <1>1, <1>2, <1>6, <1>8, CallIs DEF StakingInv
<1> QED
  BY <1>2, <1>5, <1>9, SameSupply, SameMap DEF StepIs

LEMMA AdminRebalanceStep ==
    ASSUME StakingInv, NEW v \in Validator, NEW w \in Validator, NEW r \in Rebalances,
           AdminRebalance(v, r[1], w, r[2])
    PROVE  StepIs
<1> DEFINE allowed == SumFunction([x \in Validator |->
                         (RebalanceDust + 1) * (LsuPrice(staking.validators[x]) + 1)])
<1>1. /\ StakingSound(staking, lsu_wallet) /\ PoolFits /\ NftsApart /\ calls \in 0 .. MaxCalls
      /\ r[1] \in Nat /\ r[2] \in Nat
  <2>1. r \in Nat \X Nat
    BY StakingEarningAssumption
  <2> QED
    BY <2>1 DEF StakingInv
<1>2. /\ CanRebalance(staking, v, r[1], w, r[2])
      /\ staking' = Rebalance(staking, v, r[1], w, r[2])
      /\ lsu_wallet' = lsu_wallet /\ claims' = claims /\ pool' = pool
      /\ minted' = minted /\ epoch' = epoch /\ Call
  BY DEF AdminRebalance
<1>3. /\ StakingSound(staking', lsu_wallet) /\ staking'.dse_supply = staking.dse_supply
      /\ SumCurrentStaked(staking')
           > SumCurrentStaked(staking) - ONE - 4
               - SumFunctionOnSet(Allowances(staking), Validator)
  <2> DEFINE a == r[1]
             b == r[2]
  <2>1. a \in Nat /\ b \in Nat /\ CanRebalance(staking, v, a, w, b)
        /\ staking' = Rebalance(staking, v, a, w, b)
    BY <1>1, <1>2
  <2> HIDE DEF a, b
  <2> QED
    BY <1>1, <2>1, RebalanceIs
<1>4. allowed = SumFunctionOnSet(Allowances(staking), Validator)
  BY <1>1, AllowanceIs
<1>5. RebalanceKept
  BY <1>3, <1>4 DEF RebalanceKept
<1>6. StakingInv'
  BY <1>1, <1>2, <1>3, SamePoolFits, SameNfts, CallIs DEF StakingInv
<1> QED
  BY <1>2, <1>3, <1>5, <1>6, SamePool, SameSupply DEF StepIs

LEMMA LendStep == ASSUME StakingInv, Lend PROVE StepIs
<1>1. /\ StakingSound(staking, lsu_wallet) /\ PoolFits /\ NftsApart /\ calls \in 0 .. MaxCalls
      /\ Deposit \in Nat /\ epoch \in Nat
  BY StakingEarningAssumption DEF StakingInv, PoolFits
<1>2. /\ CanAddLiquity(pool, epoch) /\ pool' = AddLiquity(pool, epoch, Deposit)
      /\ staking' = staking /\ lsu_wallet' = lsu_wallet /\ claims' = claims
      /\ minted' = minted /\ epoch' = epoch /\ Call
  BY DEF Lend
<1>3. /\ PoolSound(pool') /\ pool'.last_update = epoch
      /\ pool'.interest_model = "XrdStaking" /\ pool'.underlying_unit = 1
      /\ pool'.claim_nfts \subseteq pool.claim_nfts
  <2>1. PoolSound(pool) /\ pool.last_update <= epoch /\ pool.interest_model = "XrdStaking"
        /\ pool.underlying_unit = 1
    BY <1>1 DEF PoolFits
  <2> QED
    BY <1>1, <1>2, <2>1, LendIs
<1>4. PoolFits'
  BY <1>1, <1>2, <1>3 DEF PoolFits
<1>5. NftsApart'
  BY <1>1, <1>2, <1>3 DEF NftsApart
<1>6. BuysAtDiscount
  <2>1. pool'.claim_nfts \ pool.claim_nfts = {}
    BY <1>3
  <2> QED
    BY <2>1 DEF BuysAtDiscount
<1>7. StakingInv'
  BY <1>1, <1>2, <1>4, <1>5, CallIs DEF StakingInv
<1> QED
  BY <1>2, <1>6, <1>7, SameSupply, SameMap DEF StepIs

LEMMA NextEpochStep == ASSUME StakingInv, NextEpoch PROVE StepIs
<1>1. /\ StakingSound(staking, lsu_wallet) /\ PoolFits /\ NftsApart /\ calls \in 0 .. MaxCalls
      /\ StartEpoch \in Nat /\ MaxEpoch \in Nat
  BY StakingEarningAssumption DEF StakingInv
<1>2. /\ epoch < MaxEpoch /\ epoch' = epoch + 1 /\ lsu_wallet' = lsu_wallet /\ claims' = claims
      /\ pool' = pool /\ minted' = minted /\ calls' = calls
  BY DEF NextEpoch
<1>3. PICK earned \in [Validator -> Rewards] :
         staking' = [staking EXCEPT !.validators =
                        [v \in Validator |-> Earned(staking.validators[v], earned[v])]]
  BY DEF NextEpoch
<1>4. /\ StakingSound(staking', lsu_wallet) /\ staking'.dse_supply = staking.dse_supply
      /\ staking'.lsu_map = staking.lsu_map
  BY <1>1, <1>3, EarnedIs
<1>5. PoolFits'
  <2>1. epoch' \in StartEpoch .. MaxEpoch /\ pool.last_update <= epoch'
    <3>1. pool.last_update \in Nat /\ pool.last_update <= epoch /\ epoch \in StartEpoch .. MaxEpoch
      BY <1>1 DEF PoolFits, PoolSound
    <3> QED
      BY <1>1, <1>2, <3>1
  <2> QED
    BY <1>1, <1>2, <2>1 DEF PoolFits
<1>6. StakingInv'
  BY <1>1, <1>2, <1>4, <1>5, SameNfts DEF StakingInv
<1> QED
  BY <1>2, <1>4, <1>6, SamePool, SameSupply, SameMap DEF StepIs

LEMMA StutterStep == ASSUME StakingInv, UNCHANGED vars PROVE StepIs
<1>1. /\ StakingSound(staking, lsu_wallet) /\ PoolFits /\ NftsApart /\ calls \in 0 .. MaxCalls
  BY DEF StakingInv
<1>2. /\ staking' = staking /\ lsu_wallet' = lsu_wallet /\ claims' = claims /\ pool' = pool
      /\ minted' = minted /\ epoch' = epoch /\ calls' = calls
  BY DEF vars
<1>3. StakingInv'
  BY <1>1, <1>2, SamePoolFits, SameNfts DEF StakingInv
<1> QED
  BY <1>2, <1>3, SamePool, SameSupply, SameMap DEF StepIs

LEMMA StakingStep == ASSUME StakingInv, [Next]_vars PROVE StepIs
<1>1. CASE UNCHANGED vars
  BY <1>1, StutterStep
<1>2. CASE \E v \in Validator, amount \in Joins : Join(v, amount)
  BY <1>2, JoinStep
<1>3. CASE \E vs \in Lists(Validator), amount \in Parts(staking.dse_supply), faster \in BOOLEAN :
              RedeemDse(vs, amount, faster)
  BY <1>3, RedeemDseStep
<1>4. CASE \E v \in Validator, faster \in BOOLEAN : \E lsu \in Parts(lsu_wallet[v]) :
              RedeemLsu(v, lsu, faster)
  BY <1>4, RedeemLsuStep
<1>5. CASE \E nfts \in Lists(claims) : ClaimXrd(nfts)
  BY <1>5, ClaimXrdStep
<1>6. CASE \E v, w \in Validator, r \in Rebalances : AdminRebalance(v, r[1], w, r[2])
  BY <1>6, AdminRebalanceStep
<1>7. CASE Lend
  BY <1>7, LendStep
<1>8. CASE NextEpoch
  BY <1>8, NextEpochStep
<1> QED
  BY <1>1, <1>2, <1>3, <1>4, <1>5, <1>6, <1>7, <1>8 DEF Next

\* The pool and its users always hold all the units of the validators, the
\* lending pool stays sound, and a claim NFT is in one place.
THEOREM StakingInvariant == Spec => []StakingInv
<1>1. Init => StakingInv
  BY InitInv
<1>2. StakingInv /\ [Next]_vars => StakingInv'
  BY StakingStep DEF StepIs
<1> QED
  BY <1>1, <1>2, PTL DEF Spec

\* No vault, wallet or supply of earning.rs ever becomes negative, and every
\* claim NFT is one a validator minted.
THEOREM Typed == Spec => []TypeOK
<1>1. StakingInv => TypeOK
  <2> SUFFICES ASSUME StakingInv PROVE TypeOK
    OBVIOUS
  <2>1. /\ StakingSound(staking, lsu_wallet) /\ PoolFits /\ NftsApart /\ calls \in 0 .. MaxCalls
    BY DEF StakingInv
  <2>2. /\ staking.dse_supply \in Nat
        /\ DOMAIN staking.lsu_map \subseteq Validator
        /\ \A v \in DOMAIN staking.lsu_map : staking.lsu_map[v] \in Nat
        /\ staking.validators \in [Validator -> [lsu : Nat, xrd : Nat]]
        /\ lsu_wallet \in [Validator -> Nat]
    BY <2>1, Zenon DEF StakingSound, Stakes
  <2>3. DOMAIN pool = PoolFields /\ pool.vault \in Nat
    <3>1. pool = [f \in PoolFields |-> pool[f]] /\ pool.vault \in Nat
      BY <2>1 DEF PoolFits, PoolSound, IsPool
    <3> QED
      BY <3>1
  <2>4. epoch \in StartEpoch .. MaxEpoch
    BY <2>1 DEF PoolFits
  <2>5. /\ claims \subseteq ClaimNft /\ pool.claim_nfts \subseteq ClaimNft
        /\ minted \in 0 .. MaxNfts
    BY <2>1 DEF NftsApart
  <2> QED
    BY <2>1, <2>2, <2>3, <2>4, <2>5 DEF TypeOK
<1> QED
  BY <1>1, StakingInvariant, PTL

\* claim_xrd never has the lending pool pay more for claim NFTs than their value
\* discounted at the rate the active validators pay, whatever it holds and owes.
THEOREM BoughtAtDiscount == Spec => PoolBuysAtDiscount
<1>1. StakingInv /\ [Next]_vars => [BuysAtDiscount]_vars
  BY StakingStep DEF StepIs
<1>2. [BuysAtDiscount]_vars
        => [LET bought == pool'.claim_nfts \ pool.claim_nfts
            IN  bought # {} =>
                  pool.vault - pool'.vault
                    <= SumFunction([n \in bought |->
                           CalcPrincipal(n.claim_amount, ActiveSetApy, n.claim_epoch - epoch)])]_vars
  BY DEF BuysAtDiscount
<1> QED
  BY <1>1, <1>2, StakingInvariant, PTL DEF Spec, PoolBuysAtDiscount

\* contribute and redeem settle at the price of the moment: what the dseXRD of
\* the others are worth moves by no more than the truncations, whatever the
\* validators, their stakes and the order the caller lists them in.
THEOREM SettledAtPrice == Spec => DseValueKept
<1>1. StakingInv /\ [Next]_vars => [ValueKept]_vars
  BY StakingStep DEF StepIs
<1>2. [ValueKept]_vars
        => [staking'.dse_supply # staking.dse_supply =>
              LET total  == ONE * SumCurrentStaked(staking')
                  supply == staking.dse_supply
                  value  == staking'.dse_supply * ValuePerUnit(staking)
              IN  /\ value <= total + ONE * RedeemDust
                  /\ staking'.dse_supply > supply => value <= total
                  /\ supply > 0 => total <= value + supply + ONE * RedeemDust]_vars
  BY DEF ValueKept
<1> QED
  BY <1>1, <1>2, StakingInvariant, PTL DEF Spec, DseValueKept

\* A rebalance costs the stakers less than the 1 XRD its check allows, but for
\* the LSUs within RebalanceDust it takes along and the truncations.
THEOREM RebalancedAtValue == Spec => RebalanceKeepsValue
<1>1. StakingInv /\ [Next]_vars => [RebalanceKept]_vars
  BY StakingStep DEF StepIs
<1>2. [RebalanceKept]_vars
        => [staking'.dse_supply = staking.dse_supply /\ staking'.lsu_map # staking.lsu_map =>
              SumCurrentStaked(staking')
                > SumCurrentStaked(staking) - ONE - 4
                    - SumFunction([v \in Validator |->
                          (RebalanceDust + 1) * (LsuPrice(staking.validators[v]) + 1)])]_vars
  BY DEF RebalanceKept
<1> QED
  BY <1>1, <1>2, StakingInvariant, PTL DEF Spec, RebalanceKeepsValue
=============================================================================
