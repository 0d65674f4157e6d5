------------------------- MODULE CdpManager_proofs -------------------------
(***************************************************************************)
(* Proofs about the manager, of the behaviours in which the average rate   *)
(* of no pool's stable loans becomes negative ([]RatesKept): without       *)
(* stable loans these are all of them.  ManagerInv is the inductive        *)
(* invariant: every pool is sound and has no bonds, the dx tokens are in   *)
(* users' accounts or in the vaults, a pool's debt shares are those of     *)
(* the positions and its stable loans no more than theirs, and a vault     *)
(* holds the collateral of its positions rounded up to whole dx token      *)
(* units.  The limit of a loan needs no more of it than that: the index a  *)
(* limit is computed with is the one the pools are updated to, and every   *)
(* rounding is monotone.                                                   *)
(***************************************************************************)
EXTENDS CdpManager, LendResourcePool_proofs

-----------------------------------------------------------------------------
(* Rounding *)

LEMMA DMulNegative ==
    ASSUME NEW a \in Nat \ {0}, NEW b \in Nat \ {0}
    PROVE  DMul(-a, b) = -DMul(a, b)
<1>1. a * b \in Nat /\ a * b # 0 /\ (-a) * b = -(a * b) /\ ONE \in Nat \ {0}
  BY DecimalAssumption, SMTT(30)
<1> DEFINE m == a * b
<1> HIDE DEF m
<1>2. TruncDiv(-m, ONE) = -TruncDiv(m, ONE)
  BY <1>1 DEF TruncDiv, Sign, Magnitude, m
<1> QED
  BY <1>1, <1>2 DEF DMul, m

LEMMA DDivNegative ==
    ASSUME NEW a \in Nat \ {0}, NEW b \in Nat \ {0}
    PROVE  /\ DDiv(-a, b) = -DDiv(a, b)
           /\ DDiv(-a, -b) = DDiv(a, b)
<1>1. a * ONE \in Nat /\ a * ONE # 0 /\ (-a) * ONE = -(a * ONE)
  BY DecimalAssumption, SMTT(30)
<1> DEFINE m == a * ONE
<1> HIDE DEF m
<1>2. TruncDiv(-m, b) = -TruncDiv(m, b) /\ TruncDiv(-m, -b) = TruncDiv(m, b)
  BY <1>1 DEF TruncDiv, Sign, Magnitude, m
<1> QED
  BY <1>1, <1>2 DEF DDiv, m

\* Multiples of the unit stay out of a rounding up.
LEMMA CeilToOfSum ==
    ASSUME NEW x \in Int, NEW k \in Int, NEW unit \in Nat \ {0}
    PROVE  CeilTo(x + unit * k, unit) = CeilTo(x, unit) + unit * k
<1> DEFINE q == (-x) \div unit
<1>1. q \in Int /\ unit * q <= -x /\ -x < unit * q + unit
  BY DivBounds
<1>2. -(x + unit * k) = -x - unit * k /\ unit * k \in Int /\ unit * (q - k) = unit * q - unit * k
  BY <1>1, SMTT(30)
<1> HIDE DEF q
<1>3. (-(x + unit * k)) \div unit = q - k
  <2> DEFINE y == -(x + unit * k)
  <2>1. y \in Int /\ unit * (q - k) <= y /\ y < unit * (q - k) + unit
    BY <1>1, <1>2
  <2>2. (q - k) \in Int /\ (q - k) * unit = unit * (q - k) /\ ((q - k) + 1) * unit = unit * (q - k) + unit
    BY <1>1, SMTT(30)
  <2> HIDE DEF y
  <2>3. (q - k) * unit <= y /\ y < ((q - k) + 1) * unit
    BY <2>1, <2>2
  <2> DEFINE r == q - k
  <2>4. r \in Int
    BY <2>2
  <2> HIDE DEF r
  <2>5. r <= y \div unit
    BY <2>1, <2>3, <2>4, DivLower DEF r
  <2>6. y \div unit <= r
    BY <2>1, <2>3, <2>4, DivUpper DEF r
  <2>7. y \div unit = r
    BY <2>1, <2>4, <2>5, <2>6, DivBounds
  <2> QED
    BY <2>7 DEF y, r
<1>4. CeilTo(x + unit * k, unit) = -(unit * (q - k)) /\ CeilTo(x, unit) = -(unit * q)
  BY <1>3 DEF CeilTo, FloorTo, q
<1> QED
  BY <1>1, <1>2, <1>4

LEMMA CeilToMonotone ==
    ASSUME NEW x \in Int, NEW y \in Int, x <= y, NEW unit \in Nat \ {0}
    PROVE  CeilTo(x, unit) <= CeilTo(y, unit)
<1>1. (-y) \div unit <= (-x) \div unit
  BY DivMonotone
<1>2. (-y) \div unit \in Int /\ (-x) \div unit \in Int
  BY DivBounds
<1>3. unit * ((-y) \div unit) <= unit * ((-x) \div unit)
  BY <1>1, <1>2, SMTT(30)
<1> QED
  BY <1>2, <1>3, SMTT(30) DEF CeilTo, FloorTo

\* What a position loses when q leaves it and q rounded down leaves the vault.
LEMMA CeilAfterRelease ==
    ASSUME NEW x \in Int, NEW q \in Nat, NEW unit \in Nat \ {0}
    PROVE  CeilTo(x - q, unit) <= CeilTo(x, unit) - FloorTo(q, unit)
<1> DEFINE k == q \div unit
<1>1. k \in Int /\ FloorTo(q, unit) = unit * k /\ unit * k <= q /\ unit * k \in Int
  BY DivBounds, SMTT(30) DEF FloorTo
<1> HIDE DEF k
<1>2. x - unit * k = x + unit * (-k) /\ unit * (-k) = -(unit * k) /\ -k \in Int
  BY <1>1, SMTT(30)
<1>3. CeilTo(x + unit * (-k), unit) = CeilTo(x, unit) + unit * (-k)
  BY <1>2, CeilToOfSum
<1>4. CeilTo(x - q, unit) <= CeilTo(x - unit * k, unit)
  BY <1>1, CeilToMonotone
<1> QED
  BY <1>1, <1>2, <1>3, <1>4, CeilToBounds

LEMMA FloorAtMostCeil ==
    ASSUME NEW x \in Int, NEW unit \in Nat \ {0}
    PROVE  FloorTo(x, unit) <= CeilTo(x, unit)
BY FloorToBounds, CeilToBounds

LEMMA TruncToNat ==
    ASSUME NEW x \in Nat, NEW unit \in Nat \ {0}
    PROVE  TruncTo(x, unit) = FloorTo(x, unit)
BY TruncDivNat DEF TruncTo, FloorTo

\* Taking nothing of a negative amount means that it is less than a unit.
LEMMA TruncToNegative ==
    ASSUME NEW x \in Nat \ {0}, NEW unit \in Nat \ {0}, 0 <= TruncTo(-x, unit)
    PROVE  x < unit /\ TruncTo(-x, unit) = 0
<1> DEFINE q == x \div unit
<1>1. q \in Nat /\ unit * q <= x /\ x < unit * q + unit
  BY DivBounds, DivNat
<1>2. TruncTo(-x, unit) = unit * (-q)
  BY DEF TruncTo, TruncDiv, Sign, Magnitude
<1> HIDE DEF q
<1>3. q = 0
  BY <1>1, <1>2, SMTT(30)
<1> QED
  BY <1>1, <1>2, <1>3, SMTT(30)

-----------------------------------------------------------------------------
(* Seizing collateral *)

LEMMA ProductLess ==
    ASSUME NEW x \in Nat, NEW a \in Nat, NEW b \in Nat, x * a < x * b + x
    PROVE  a <= b
<1>1. SUFFICES ASSUME b + 1 <= a PROVE FALSE
  OBVIOUS
<1>2. x * (b + 1) <= x * a /\ x * (b + 1) = x * b + x
  BY <1>1, SMTT(30)
<1> QED
  BY <1>2, SMTT(30)

\* The truncated index of a collateral of a dx tokens: dividing their value by it
\* returns at least a, and no more when a is at most 1.0.
LEMMA DustReturns ==
    ASSUME NEW a \in Nat \ {0}, NEW index \in Nat, ONE <= index
    PROVE  LET v == DMul(a, index)
               x == DDiv(v, a)
           IN  /\ v \in Nat /\ a <= v
               /\ x \in Nat /\ ONE <= x
               /\ DDiv(v, x) \in Nat /\ a <= DDiv(v, x)
               /\ a <= ONE => DDiv(v, x) = a
<1> DEFINE v == DMul(a, index)
           x == DDiv(v, a)
           y == DDiv(v, x)
           w == v * ONE
<1>1. v \in Nat /\ a <= v /\ ONE \in Nat \ {0}
  BY DMulNat, DMulGrows, DecimalAssumption
<1> HIDE DEF v
<1>2. x \in Nat /\ a * x <= w /\ w < a * x + a
  BY <1>1, DDivNat
<1> HIDE DEF x
<1>3. w \in Nat /\ a * ONE <= w
  BY <1>1, SMTT(30)
<1> HIDE DEF w
<1>4. ONE <= x
  <2>1. a * ONE < a * x + a
    BY <1>1, <1>2, <1>3, SMTT(30)
  <2> QED
    BY <1>1, <1>2, <2>1, ProductLess
<1>5. x \in Nat \ {0}
  BY <1>1, <1>2, <1>4
<1>6. y \in Nat /\ x * y <= w /\ w < x * y + x
  BY <1>1, <1>5, DDivNat DEF w
<1> HIDE DEF y
<1>7. a <= y
  <2>1. x * a < x * y + x
    BY <1>2, <1>3, <1>6, SMTT(30)
  <2> QED
    BY <1>2, <1>6, <2>1, ProductLess
<1>8. ASSUME a <= ONE PROVE y = a
  <2>1. a <= x
    BY <1>1, <1>2, <1>4, <1>8
  <2>2. x * y < x * a + x
    BY <1>2, <1>3, <1>6, <2>1, SMTT(30)
  <2>3. y <= a
    BY <1>2, <1>6, <2>2, ProductLess
  <2> QED
    BY <1>6, <1>7, <2>3
<1> QED
  BY <1>1, <1>2, <1>4, <1>6, <1>7, <1>8 DEF v, x, y

\* The positions, prices and indices that a seizure meets.
Seizable(d, value, index) ==
    /\ d.collateral_amount \in Int \ {0} /\ index \in Nat /\ ONE <= index
    /\ value = DMul(d.collateral_amount, index)
    /\ DDiv(value, d.collateral_amount) # 0
    /\ quote[d.borrow_token] \in Nat \ {0} /\ quote[d.collateral_token] \in Nat \ {0}
    /\ AssetStates[d.collateral_token].liquidation_bonus \in Nat

LEMMA WithBonusNat ==
    ASSUME NEW d, AssetStates[d.collateral_token].liquidation_bonus \in Nat, NEW amount \in Nat
    PROVE  WithBonus(d, amount) \in Nat /\ amount <= WithBonus(d, amount)
<1>1. (ONE + AssetStates[d.collateral_token].liquidation_bonus) \in Nat
      /\ ONE <= ONE + AssetStates[d.collateral_token].liquidation_bonus
  BY DecimalAssumption
<1> DEFINE factor == ONE + AssetStates[d.collateral_token].liquidation_bonus
<1>2. factor \in Nat /\ ONE <= factor
  BY <1>1
<1> HIDE DEF factor
<1>3. DMul(amount, factor) \in Nat /\ amount <= DMul(amount, factor)
  BY <1>2, DMulNat, DMulGrows
<1> QED
  BY <1>3 DEF WithBonus, factor

\* The dx tokens a seizure releases: none of a negative collateral, unless it is
\* less than a unit and then all of it.
LEMMA SeizureBounds ==
    ASSUME NEW d, NEW value, NEW index, Seizable(d, value, index), NEW debt \in Nat,
           NEW unit \in 1 .. ONE
    PROVE  LET q == Seizure(d, value, debt)
               n == d.collateral_amount
           IN  /\ q.debt \in Int /\ q.collateral \in Int
               /\ \/ q.collateral >= 0
                  \/ /\ n < 0
                     /\ 0 <= TruncTo(q.collateral, unit)
                          => q.collateral = n /\ -n < unit /\ TruncTo(q.collateral, unit) = 0
<1> DEFINE b == d.borrow_token
           c == d.collateral_token
           n == d.collateral_amount
           q == Seizure(d, value, debt)
           worth == DMul(debt, quote[b])
           seized == DDiv(WithBonus(d, worth), quote[c])
           x == DDiv(value, n)
           price == WithBonus(d, quote[b])
<1>0. ONE \in Nat \ {0}
  BY DecimalAssumption
<1>1. /\ quote[b] \in Nat \ {0} /\ quote[c] \in Nat \ {0}
      /\ n \in Int \ {0} /\ index \in Nat /\ ONE <= index /\ x # 0
      /\ AssetStates[d.collateral_token].liquidation_bonus \in Nat
      /\ value = DMul(n, index)
  BY DEF Seizable
<1>2. q = IF seized > value
          THEN [debt |-> DDiv(DMul(value, quote[c]), price), collateral |-> DDiv(value, x)]
          ELSE [debt |-> debt, collateral |-> DDiv(seized, x)]
  BY DEF Seizure
<1> HIDE DEF q, x
<1>3. seized \in Nat /\ price \in Nat \ {0}
  <2>1. worth \in Nat
    BY <1>1, DMulNat
  <2> HIDE DEF worth
  <2>2. WithBonus(d, worth) \in Nat /\ WithBonus(d, quote[b]) \in Nat
        /\ quote[b] <= WithBonus(d, quote[b])
    BY <1>1, <2>1, WithBonusNat
  <2>3. seized \in Nat
    BY <1>1, <2>2, DDivNat
  <2> HIDE DEF seized
  <2> QED
    BY <1>1, <2>2, <2>3
<1> HIDE DEF seized, price
<1>4. CASE n > 0
  <2>1. /\ value \in Nat /\ x \in Nat \ {0}
    <3>1. n \in Nat \ {0}
      BY <1>1, <1>4
    <3> HIDE DEF n
    <3>2. DMul(n, index) \in Nat /\ DDiv(DMul(n, index), n) \in Nat
      BY <1>1, <3>1, DustReturns
    <3> QED
      BY <1>1, <3>2 DEF x
  <2>2. DDiv(value, x) \in Nat /\ DDiv(seized, x) \in Nat
    BY <1>3, <2>1, DDivNat
  <2>3. DMul(value, quote[c]) \in Nat
    BY <1>1, <2>1, DMulNat
  <2>4. DDiv(DMul(value, quote[c]), price) \in Nat
    BY <1>3, <2>3, DDivNat
  <2>5. q.debt \in Int /\ q.collateral \in Int /\ q.collateral >= 0
    BY <1>2, <2>2, <2>4
  <2> QED
    BY <2>5 DEF q
<1>5. CASE n < 0
  <2> DEFINE a == -n
             v == DMul(a, index)
  <2>1. a \in Nat \ {0}
    BY <1>1, <1>5
  <2>2. n = -a
    BY <1>1
  <2> HIDE DEF a, n
  <2>3. /\ v \in Nat /\ a <= v
        /\ DDiv(v, a) \in Nat /\ ONE <= DDiv(v, a)
        /\ DDiv(v, DDiv(v, a)) \in Nat /\ a <= DDiv(v, DDiv(v, a))
        /\ a <= ONE => DDiv(v, DDiv(v, a)) = a
    BY <1>1, <2>1, DustReturns
  <2>4. value = -v
    <3>1. index \in Nat \ {0}
      BY <1>0, <1>1
    <3> QED
      BY <1>1, <2>1, <2>2, <3>1, DMulNegative
  <2> HIDE DEF v
  <2>5. v \in Nat \ {0}
    BY <2>1, <2>3
  <2>6. x = DDiv(v, a)
    BY <2>1, <2>2, <2>4, <2>5, DDivNegative DEF x
  <2>7. x \in Nat \ {0}
    BY <1>0, <2>3, <2>6
  <2>8. DDiv(value, x) = -DDiv(v, x)
    BY <2>4, <2>5, <2>7, DDivNegative
  <2>9. seized > value
    BY <1>3, <2>4, <2>5
  <2> DEFINE y == DDiv(v, x)
  <2>10. y \in Nat \ {0} /\ a <= y /\ (a <= ONE => y = a)
    BY <2>1, <2>3, <2>6
  <2> HIDE DEF y
  <2>11. q.collateral = -y /\ q.debt = DDiv(DMul(value, quote[c]), price)
    BY <1>2, <2>8, <2>9 DEF y
  <2>12. q.debt \in Int
    <3>1. value \in Int
      BY <2>4, <2>5
    <3>2. DMul(value, quote[c]) \in Int
      BY <1>1, <3>1, DMulInt
    <3> QED
      BY <1>3, <2>11, <3>2, DDivInt
  <2>13. ASSUME 0 <= TruncTo(-y, unit) PROVE y = a /\ a < unit /\ TruncTo(-y, unit) = 0
    <3>1. unit \in Nat \ {0}
      OBVIOUS
    <3>2. y < unit /\ TruncTo(-y, unit) = 0
      BY <2>10, <2>13, <3>1, TruncToNegative
    <3> QED
      BY <1>0, <2>1, <2>10, <3>2
  <2> QED
    BY <1>5, <2>1, <2>2, <2>10, <2>11, <2>12, <2>13 DEF n, q
<1> QED
  BY <1>1, <1>4, <1>5

\* After a seizure the collateral, rounded up to whole units, is smaller by at
\* least what has left the vault.
LEMMA SeizureLeaves ==
    ASSUME NEW d, NEW value, NEW index, Seizable(d, value, index), NEW debt \in Nat,
           NEW unit \in 1 .. ONE, 0 <= TruncTo(Seizure(d, value, debt).collateral, unit)
    PROVE  LET q == Seizure(d, value, debt).collateral
               n == d.collateral_amount
           IN  /\ TruncTo(q, unit) \in Nat
               /\ CeilTo(n - q, unit) <= CeilTo(n, unit) - TruncTo(q, unit)
<1> DEFINE q == Seizure(d, value, debt).collateral
           n == d.collateral_amount
<1>1. /\ q \in Int /\ 0 <= TruncTo(q, unit) /\ unit \in Nat \ {0}
      /\ q >= 0 \/ (q = n /\ n < 0 /\ -n < unit /\ TruncTo(q, unit) = 0)
  BY SeizureBounds
<1>2. n \in Int
  BY DEF Seizable
<1> HIDE DEF q, n
<1>3. CASE q >= 0
  <2>1. q \in Nat
    BY <1>1, <1>3
  <2>2. TruncTo(q, unit) = FloorTo(q, unit)
    BY <1>1, <2>1, TruncToNat
  <2>3. FloorTo(q, unit) \in Nat
    BY <1>1, <2>1, FloorToBounds
  <2> QED
    BY <1>1, <1>2, <2>1, <2>2, <2>3, CeilAfterRelease DEF q, n
<1>4. CASE q = n /\ n < 0 /\ -n < unit /\ TruncTo(q, unit) = 0
  <2>1. n - q = 0
    BY <1>2, <1>4
  <2>2. CeilTo(0, unit) = 0 /\ CeilTo(n, unit) = 0
    <3>1. 0 \div unit = 0 /\ (-n) \div unit = 0
      BY <1>1, <1>2, <1>4, SMTT(30)
    <3> QED
      BY <1>1, <3>1, SMTT(30) DEF CeilTo, FloorTo
  <2> QED
    BY <1>4, <2>1, <2>2 DEF q, n
<1> QED
  BY <1>1, <1>3, <1>4

-----------------------------------------------------------------------------
(* The pools of the manager *)

AssetPool(t, p, now) ==
    /\ PoolSound(p) /\ p.last_update <= now
    /\ p.bond_epochs = {}
    /\ p.share_unit = ShareUnit[t] /\ p.underlying_unit = Unit[t]

\* q is p with its dx tokens and debt shares changed, and at most so much more lent
\* at stable rates.
Moved(p, q, dx_tokens, debt_shares, lent) ==
    /\ q.share_supply = p.share_supply + dx_tokens
    /\ q.variable_loan_share_quantity = p.variable_loan_share_quantity + debt_shares
    /\ q.stable_loan_amount <= p.stable_loan_amount + lent \/ q.stable_loan_amount = 0

\* The average rate of the stable loans is rounded at every loan and payment and
\* may become negative.
RatesKept == \A t \in Token : pools[t].stable_loan_interest_rate >= 0

\* q has the indices that p quotes.
AtQuote(p, q, now) ==
    /\ q.last_update = now
    /\ q.deposit_index = CurrentDepositIndex(p, now)
    /\ q.loan_index = CurrentLoanIndex(p, now)

LEMMA NothingMatures ==
    ASSUME NEW p, NEW now, p.bond_epochs = {}
    PROVE  MatureInterest(p, now) = 0 /\ CanAccrue(p, now)
<1>1. MatureEpochs(p, now) = {}
  BY DEF MatureEpochs
<1>2. MatureInterest(p, now) = 0
  BY <1>1, SumEmpty DEF MatureInterest
<1> QED
  BY <1>2 DEF CanAccrue

LEMMA AssetIndices ==
    ASSUME NEW t, NEW p, NEW now \in Nat, AssetPool(t, p, now)
    PROVE  /\ CurrentDepositIndex(p, now) \in Nat /\ ONE <= CurrentDepositIndex(p, now)
           /\ CurrentLoanIndex(p, now) \in Nat /\ ONE <= CurrentLoanIndex(p, now)
<1>1. PoolSound(p) /\ p.last_update <= now /\ CanAccrue(p, now)
  BY NothingMatures DEF AssetPool
<1>2. /\ p.deposit_index \in Nat /\ ONE <= p.deposit_index
      /\ p.loan_index \in Nat /\ ONE <= p.loan_index /\ ONE \in Nat
  BY <1>1, DecimalAssumption DEF PoolSound
<1>3. /\ CurrentDepositIndex(p, now) \in Nat /\ p.deposit_index <= CurrentDepositIndex(p, now)
      /\ CurrentLoanIndex(p, now) \in Nat /\ p.loan_index <= CurrentLoanIndex(p, now)
  BY <1>1, CurrentDepositIndexGrows, CurrentLoanIndexGrows
<1> QED
  BY <1>2, <1>3

LEMMA AssetUpdated ==
    ASSUME NEW t, NEW p, NEW now \in Nat, AssetPool(t, p, now)
    PROVE  LET u == UpdateIndex(p, now)
           IN  /\ AssetPool(t, u, now) /\ Moved(p, u, 0, 0, 0) /\ AtQuote(p, u, now)
               /\ p.vault <= u.vault
<1> DEFINE u == UpdateIndex(p, now)
<1>1. /\ PoolSound(p) /\ p.last_update <= now /\ CanAccrue(p, now)
      /\ MatureInterest(p, now) = 0
  BY NothingMatures DEF AssetPool
<1>2. /\ PoolSound(u) /\ Keeps(p, u, BookFields \cup AccruedFields)
      /\ u.last_update = now /\ p.vault <= u.vault
      /\ u.loan_index = CurrentLoanIndex(p, now)
      /\ u.deposit_index
           = IF now = p.last_update THEN p.deposit_index
             ELSE CalcLinearInterest(ClaimedIndex(p, now), p.deposit_interest_rate,
                                     now - p.last_update)
  BY <1>1, UpdateIndexSound
<1>3. u.bond_epochs = {}
  BY <1>1, UpdateIndexBonds DEF AssetPool
<1> HIDE DEF u
<1>4. u.deposit_index = CurrentDepositIndex(p, now)
  BY <1>1, <1>2 DEF CurrentDepositIndex, WithBonds, ClaimedIndex
<1>5. /\ u.share_unit = p.share_unit /\ u.underlying_unit = p.underlying_unit
      /\ u.share_supply = p.share_supply
      /\ u.variable_loan_share_quantity = p.variable_loan_share_quantity
      /\ u.stable_loan_amount = p.stable_loan_amount
  BY <1>2, PoolFieldNames DEF Keeps, BookFields, AccruedFields
<1>6. /\ p.share_supply \in Nat /\ p.variable_loan_share_quantity \in Nat
      /\ p.stable_loan_amount \in Nat
  BY <1>1 DEF PoolSound
<1> QED
  BY <1>2, <1>3, <1>4, <1>5, <1>6 DEF AssetPool, Moved, AtQuote, u

LEMMA NewAssetPoolSound ==
    ASSUME NEW t \in Token, NEW now \in Nat
    PROVE  AssetPool(t, NewAssetPool(t), now)
<1> DEFINE p == NewAssetPool(t)
<1>1. Unit[t] \in Nat \ {0} /\ ShareUnit[t] \in Nat \ {0}
  <2>1. Unit[t] \in Nat \ {0} /\ ShareUnit[t] \in 1 .. ONE /\ ONE \in Nat
    BY CdpManagerAssumption, DecimalAssumption
  <2> QED
    BY <2>1
<1>2. PoolSound(p)
  BY <1>1, NewPoolSound, CdpManagerAssumption DEF NewAssetPool
<1>3. /\ p.last_update = 0 /\ p.bond_epochs = {}
      /\ p.share_unit = ShareUnit[t] /\ p.underlying_unit = Unit[t]
  BY DEF NewAssetPool, NewPool
<1> QED
  BY <1>2, <1>3 DEF AssetPool

AssetFields == {"vault", "share_supply", "variable_loan_share_quantity",
                "stable_loan_amount", "stable_loan_interest_rate"}

\* A method whose pool keeps what AssetPool says of an updated one.
LEMMA AssetKept ==
    ASSUME NEW t, NEW p, NEW now \in Nat, AssetPool(t, p, now),
           NEW q, PoolSound(q),
           Keeps(UpdateIndex(p, now), q,
                 MovedFields(AssetFields))
    PROVE  AssetPool(t, q, now) /\ AtQuote(p, q, now)
<1> DEFINE u == UpdateIndex(p, now)
<1>1. AssetPool(t, u, now) /\ AtQuote(p, u, now)
  BY AssetUpdated
<1> HIDE DEF u
<1>2. Keeps(u, q, MovedFields(AssetFields))
  BY DEF u
<1>3. /\ q.last_update = u.last_update /\ q.deposit_index = u.deposit_index
      /\ q.loan_index = u.loan_index /\ q.bond_epochs = u.bond_epochs
      /\ q.share_unit = u.share_unit /\ q.underlying_unit = u.underlying_unit
  BY <1>2, PoolFieldNames DEF Keeps, MovedFields, RateFields, AssetFields
<1> QED
  BY <1>1, <1>3 DEF AssetPool, AtQuote

LEMMA AssetSupplied ==
    ASSUME NEW t, NEW p, NEW now \in Nat, AssetPool(t, p, now), NEW amount \in Nat
    PROVE  LET q == AddLiquity(p, now, amount)
               minted == MintAmount(UpdateIndex(p, now), amount)
           IN  /\ AssetPool(t, q, now) /\ AtQuote(p, q, now)
               /\ minted \in Nat /\ Moved(p, q, minted, 0, 0)
<1> DEFINE u == UpdateIndex(p, now)
           minted == MintAmount(u, amount)
           q == AddLiquity(p, now, amount)
<1>1. /\ AssetPool(t, u, now) /\ Moved(p, u, 0, 0, 0) /\ PoolSound(u) /\ u.last_update = now
      /\ p.share_supply \in Nat /\ p.variable_loan_share_quantity \in Nat
      /\ p.stable_loan_amount \in Nat
  BY AssetUpdated DEF AssetPool, AtQuote, PoolSound
<1>2. minted \in Nat
  BY <1>1, MintAmountBounds
<1>3. /\ PoolSound(q) /\ Keeps(u, q, MovedFields({"vault", "share_supply"}))
      /\ q.share_supply = u.share_supply + minted
  BY <1>1, SupplySound DEF AddLiquity
<1> HIDE DEF u, q, minted
<1>4. /\ Keeps(u, q, MovedFields(AssetFields))
      /\ q.variable_loan_share_quantity = u.variable_loan_share_quantity
      /\ q.stable_loan_amount = u.stable_loan_amount
  BY <1>3, PoolFieldNames DEF Keeps, MovedFields, RateFields, AssetFields
<1>5. AssetPool(t, q, now) /\ AtQuote(p, q, now)
  BY <1>3, <1>4, AssetKept DEF u
<1>6. Moved(p, q, minted, 0, 0)
  BY <1>1, <1>2, <1>3, <1>4 DEF Moved
<1> QED
  BY <1>2, <1>5, <1>6 DEF u, q, minted

LEMMA AssetRedeemed ==
    ASSUME NEW t, NEW p, NEW now \in Nat, AssetPool(t, p, now),
           NEW shares \in Nat, shares <= p.share_supply, CanRemoveLiquity(p, now, shares)
    PROVE  LET q == RemoveLiquity(p, now, shares)
           IN  AssetPool(t, q, now) /\ AtQuote(p, q, now) /\ Moved(p, q, -shares, 0, 0)
<1> DEFINE u == UpdateIndex(p, now)
           q == RemoveLiquity(p, now, shares)
<1>1. /\ AssetPool(t, u, now) /\ Moved(p, u, 0, 0, 0) /\ PoolSound(u) /\ u.last_update = now
      /\ p.share_supply \in Nat /\ p.variable_loan_share_quantity \in Nat
      /\ p.stable_loan_amount \in Nat
  BY AssetUpdated DEF AssetPool, AtQuote, PoolSound
<1>2. u.share_supply = p.share_supply
  BY <1>1 DEF Moved
<1>3. u.vault >= WithdrawAmount(u, now, shares)
  BY DEF CanRemoveLiquity
<1>4. /\ PoolSound(q) /\ Keeps(u, q, MovedFields({"vault", "share_supply"}))
      /\ q.share_supply = u.share_supply - shares
  BY <1>1, <1>2, <1>3, WithdrawSound DEF RemoveLiquity
<1> HIDE DEF u, q
<1>5. /\ Keeps(u, q, MovedFields(AssetFields))
      /\ q.variable_loan_share_quantity = u.variable_loan_share_quantity
      /\ q.stable_loan_amount = u.stable_loan_amount
  BY <1>4, PoolFieldNames DEF Keeps, MovedFields, RateFields, AssetFields
<1>6. AssetPool(t, q, now) /\ AtQuote(p, q, now)
  BY <1>4, <1>5, AssetKept DEF u
<1>7. Moved(p, q, -shares, 0, 0)
  BY <1>1, <1>4, <1>5 DEF Moved
<1> QED
  BY <1>6, <1>7 DEF q

LEMMA AssetBorrowed ==
    ASSUME NEW t, NEW p, NEW now \in Nat, AssetPool(t, p, now), NEW amount \in Nat,
           CanBorrowVariable(p, now, amount)
    PROVE  LET q == BorrowVariable(p, now, amount)
               shares == VariableShare(UpdateIndex(p, now), amount)
           IN  /\ AssetPool(t, q, now) /\ AtQuote(p, q, now)
               /\ shares \in Nat /\ Moved(p, q, 0, shares, 0)
<1> DEFINE u == UpdateIndex(p, now)
           shares == VariableShare(u, amount)
           q == BorrowVariable(p, now, amount)
<1>1. /\ AssetPool(t, u, now) /\ Moved(p, u, 0, 0, 0) /\ PoolSound(u) /\ u.last_update = now
      /\ p.share_supply \in Nat /\ p.variable_loan_share_quantity \in Nat
      /\ p.stable_loan_amount \in Nat
      /\ p.vault \in Nat /\ u.vault \in Nat /\ p.vault <= u.vault
  BY AssetUpdated DEF AssetPool, AtQuote, PoolSound
<1>2. shares \in Nat
  BY <1>1, VariableShareNat
<1>3. amount <= u.vault
  BY <1>1 DEF CanBorrowVariable
<1>4. /\ PoolSound(q) /\ Keeps(u, q, MovedFields({"vault", "variable_loan_share_quantity"}))
      /\ q.variable_loan_share_quantity = u.variable_loan_share_quantity + shares
  BY <1>1, <1>3, LentVariableSound DEF BorrowVariable
<1> HIDE DEF u, q, shares
<1>5. /\ Keeps(u, q, MovedFields(AssetFields))
      /\ q.share_supply = u.share_supply
      /\ q.stable_loan_amount = u.stable_loan_amount
  BY <1>4, PoolFieldNames DEF Keeps, MovedFields, RateFields, AssetFields
<1>6. AssetPool(t, q, now) /\ AtQuote(p, q, now)
  BY <1>4, <1>5, AssetKept DEF u
<1>7. Moved(p, q, 0, shares, 0)
  BY <1>1, <1>2, <1>4, <1>5 DEF Moved
<1> QED
  BY <1>2, <1>6, <1>7 DEF u, q, shares

LEMMA AssetRepaid ==
    ASSUME NEW t, NEW p, NEW now \in Nat, AssetPool(t, p, now), NEW bucket \in Nat,
           NEW normalized \in Nat, normalized <= p.variable_loan_share_quantity,
           NEW limit \in Limits, CanRepayVariable(p, now, bucket, normalized, limit)
    PROVE  LET q == RepayVariable(p, now, bucket, normalized, limit)
               s == RepayVariableSplit(UpdateIndex(p, now), bucket, normalized, limit)
           IN  /\ AssetPool(t, q, now) /\ AtQuote(p, q, now)
               /\ s.paid \in Nat /\ s.normalized \in Nat /\ s.normalized <= normalized
               /\ Moved(p, q, 0, -s.normalized, 0)
<1> DEFINE u == UpdateIndex(p, now)
           s == RepayVariableSplit(u, bucket, normalized, limit)
           q == RepayVariable(p, now, bucket, normalized, limit)
<1>1. /\ AssetPool(t, u, now) /\ Moved(p, u, 0, 0, 0) /\ PoolSound(u) /\ u.last_update = now
      /\ p.share_supply \in Nat /\ p.variable_loan_share_quantity \in Nat
      /\ p.stable_loan_amount \in Nat
  BY AssetUpdated DEF AssetPool, AtQuote, PoolSound
<1>2. u.variable_loan_share_quantity = p.variable_loan_share_quantity
  BY <1>1 DEF Moved
<1>3. IsMultiple(s.paid, u.underlying_unit)
  BY <1>1 DEF CanRepayVariable, CanTake, AssetPool
<1>4. s.paid \in Nat /\ s.normalized \in Nat /\ s.normalized <= normalized
  BY <1>1, <1>3, RepaySplitBounds
<1>5. q = PaidVariable(u, now, s)
  BY DEF RepayVariable
<1> HIDE DEF u, q, s
<1>6. /\ PoolSound(q) /\ Keeps(u, q, MovedFields({"vault", "variable_loan_share_quantity"}))
      /\ q.variable_loan_share_quantity = u.variable_loan_share_quantity - s.normalized
  BY <1>1, <1>2, <1>4, <1>5, PaidVariableSound
<1>7. /\ Keeps(u, q, MovedFields(AssetFields))
      /\ q.share_supply = u.share_supply
      /\ q.stable_loan_amount = u.stable_loan_amount
  BY <1>6, PoolFieldNames DEF Keeps, MovedFields, RateFields, AssetFields
<1>8. AssetPool(t, q, now) /\ AtQuote(p, q, now)
  BY <1>6, <1>7, AssetKept DEF u
<1>9. Moved(p, q, 0, -s.normalized, 0)
  BY <1>1, <1>4, <1>6, <1>7 DEF Moved
<1> QED
  BY <1>4, <1>8, <1>9 DEF u, q, s

\* A loan at the stable rate that is quoted for it.
LEMMA AssetLent ==
    ASSUME NEW t, NEW p, NEW now \in Nat, AssetPool(t, p, now), NEW amount \in Nat,
           CanBorrowStable(p, now, amount)
    PROVE  LET rate == PoolInterestRate(p, now, amount).stable
               q == BorrowStable(p, now, amount, rate)
           IN  /\ AssetPool(t, q, now) /\ AtQuote(p, q, now)
               /\ rate \in Nat /\ Moved(p, q, 0, 0, amount)
<1> DEFINE u == UpdateIndex(p, now)
           rate == PoolInterestRate(p, now, amount).stable
           average == GetWeightRate(p.stable_loan_amount, p.stable_loan_interest_rate,
                                    amount, rate)
           q == BorrowStable(p, now, amount, rate)
<1>1. /\ AssetPool(t, u, now) /\ Moved(p, u, 0, 0, 0) /\ PoolSound(u) /\ u.last_update = now
      /\ p.share_supply \in Nat /\ p.variable_loan_share_quantity \in Nat
      /\ p.stable_loan_amount \in Nat /\ p.stable_loan_interest_rate \in Nat
      /\ p.vault \in Nat /\ u.vault \in Nat /\ p.vault <= u.vault
      /\ PoolSound(p) /\ p.last_update <= now
  BY AssetUpdated DEF AssetPool, AtQuote, PoolSound
<1>2. rate \in Nat
  BY <1>1, PoolInterestRateNat DEF CanBorrowStable
<1> HIDE DEF rate
<1>3. average \in Nat
  BY <1>1, <1>2, WeightRateNat DEF CanBorrowStable
<1>4. amount <= u.vault
  BY <1>1 DEF CanBorrowStable
<1>5. q = LentStable(u, now, amount, average)
  BY DEF BorrowStable
<1> HIDE DEF q, average, u
<1>6. /\ PoolSound(q) /\ Keeps(u, q, MovedFields(StableFields))
      /\ q.stable_loan_amount = u.stable_loan_amount + amount
  BY <1>1, <1>3, <1>4, <1>5, LentStableSound
<1>7. /\ Keeps(u, q, MovedFields(AssetFields))
      /\ q.share_supply = u.share_supply
      /\ q.variable_loan_share_quantity = u.variable_loan_share_quantity
  BY <1>6, PoolFieldNames DEF Keeps, MovedFields, RateFields, AssetFields, StableFields
<1>8. AssetPool(t, q, now) /\ AtQuote(p, q, now)
  BY <1>6, <1>7, AssetKept DEF u
<1>9. Moved(p, q, 0, 0, amount)
  <2>1. u.stable_loan_amount \in Nat
    BY <1>1 DEF PoolSound
  <2> QED
    BY <1>1, <1>6, <1>7, <2>1 DEF Moved
<1> QED
  BY <1>2, <1>8, <1>9 DEF q, rate

\* A payment of a stable loan does not update the indices of its pool.
LEMMA AssetStableRepaid ==
    ASSUME NEW t, NEW p, NEW now \in Nat, AssetPool(t, p, now), NEW bucket \in Nat,
           NEW loan_amount \in Nat, NEW rate \in Nat, NEW last \in Nat, last <= now,
           NEW limit \in Limits, CanRepayStable(p, now, bucket, loan_amount, rate, last, limit),
           RepayStable(p, now, bucket, loan_amount, rate, last, limit).stable_loan_interest_rate >= 0
    PROVE  LET q == RepayStable(p, now, bucket, loan_amount, rate, last, limit)
               s == RepayStableSplit(p, now, bucket, loan_amount, rate, last, limit)
               interest == GetStableInterest(now, loan_amount, last, rate)
           IN  /\ AssetPool(t, q, now) /\ Moved(p, q, 0, 0, -s.in_borrow)
               /\ StableSplitSound(s, interest, bucket, loan_amount, limit)
<1> DEFINE s == RepayStableSplit(p, now, bucket, loan_amount, rate, last, limit)
           interest == GetStableInterest(now, loan_amount, last, rate)
           q == RepayStable(p, now, bucket, loan_amount, rate, last, limit)
<1>1. /\ PoolSound(p) /\ p.last_update <= now /\ CanAccrue(p, now)
      /\ p.share_supply \in Nat /\ p.variable_loan_share_quantity \in Nat
      /\ p.stable_loan_amount \in Nat
  BY DEF AssetPool, PoolSound, CanRepayStable
<1>2. StableSplitSound(s, interest, bucket, loan_amount, limit)
  BY <1>1, StableSplitBounds
<1>3. q = PaidStable(p, now, s, rate) /\ q.stable_loan_interest_rate >= 0
  BY DEF RepayStable
<1> HIDE DEF s, q, interest
<1>4. s.paid \in Nat /\ s.in_borrow \in Int
  BY <1>2 DEF StableSplitSound
<1>5. /\ PoolSound(q) /\ Keeps(p, q, MovedFields(StableFields))
      /\ q.stable_loan_amount = IF p.stable_loan_amount <= s.in_borrow THEN 0
                                ELSE p.stable_loan_amount - s.in_borrow
  BY <1>1, <1>3, <1>4, PaidStableSound
<1>6. /\ q.share_supply = p.share_supply /\ q.last_update = p.last_update
      /\ q.variable_loan_share_quantity = p.variable_loan_share_quantity
      /\ q.bond_epochs = p.bond_epochs
      /\ q.share_unit = p.share_unit /\ q.underlying_unit = p.underlying_unit
  BY <1>5, PoolFieldNames DEF Keeps, MovedFields, RateFields, StableFields
<1>7. AssetPool(t, q, now)
  BY <1>5, <1>6 DEF AssetPool
<1>8. Moved(p, q, 0, 0, -s.in_borrow)
  BY <1>1, <1>4, <1>5, <1>6 DEF Moved
<1> QED
  BY <1>2, <1>7, <1>8 DEF q, s, interest

\* The average rate survives a withdrawal, whatever it is.
SameRate(p, q) == IsPool(q) /\ q.stable_loan_interest_rate = p.stable_loan_interest_rate

LEMMA RatesSameRate ==
    ASSUME NEW p, IsPool(p), NEW now
    PROVE  SameRate(p, UpdateInterestRate(p, now))
<1> DEFINE rate == PoolInterestRate(p, now, 0)
<1>1. SameRate(p, WithRates(p, rate))
  <2> HIDE DEF rate
  <2> QED
    BY PoolFieldNames DEF IsPool, WithRates, SameRate
<1> QED
  BY <1>1 DEF UpdateInterestRate

LEMMA UpdateSameRate ==
    ASSUME NEW p, IsPool(p), NEW now
    PROVE  SameRate(p, UpdateIndex(p, now))
<1> DEFINE collected == Collected(p, now)
           matured == MatureInterest(p, now)
           c == ClaimMaturedBonds(p, now)
           supply_index == CurrentDepositIndex(c, now)
           borrow_index == CurrentLoanIndex(c, now)
<1>1. SameRate(p, collected)
  BY PoolFieldNames DEF IsPool, Collected, SameRate
<1>2. SameRate(p, c)
  <2> HIDE DEF collected, matured
  <2>1. SameRate(collected, ShareOut(collected, matured))
    BY <1>1, PoolFieldNames DEF IsPool, ShareOut, SameRate
  <2>2. c = IF matured > 0 THEN ShareOut(collected, matured) ELSE collected
    BY DEF ClaimMaturedBonds, collected, matured
  <2> HIDE DEF c
  <2> QED
    BY <1>1, <2>1, <2>2 DEF SameRate
<1> HIDE DEF c, supply_index, borrow_index
<1>3. SameRate(c, Accrue(c, now, supply_index, borrow_index))
  BY <1>2, PoolFieldNames DEF IsPool, Accrue, SameRate
<1>4. UpdateIndex(p, now)
        = IF now = p.last_update THEN p ELSE Accrue(c, now, supply_index, borrow_index)
  BY DEF UpdateIndex, c, supply_index, borrow_index
<1>5. SameRate(p, p)
  BY DEF SameRate
<1> QED
  BY <1>2, <1>3, <1>4, <1>5 DEF SameRate

LEMMA RedeemSameRate ==
    ASSUME NEW p, IsPool(p), NEW now, NEW shares
    PROVE  SameRate(p, RemoveLiquity(p, now, shares))
<1> DEFINE u == UpdateIndex(p, now)
           w == [u EXCEPT !.share_supply = @ - shares]
           v == UpdateInterestRate(w, now)
           out == WithdrawAmount(u, now, shares)
           q == [v EXCEPT !.vault = @ - out]
<1>1. RemoveLiquity(p, now, shares) = q
  BY DEF RemoveLiquity, Withdrawn
<1>2. SameRate(p, u)
  BY UpdateSameRate
<1> HIDE DEF u
<1>3. SameRate(u, w)
  BY <1>2, PoolFieldNames DEF IsPool, SameRate
<1> HIDE DEF w, out
<1>4. SameRate(w, v)
  BY <1>3, RatesSameRate DEF SameRate
<1> HIDE DEF v
<1>5. SameRate(v, q)
  BY <1>4, PoolFieldNames DEF IsPool, SameRate
<1> HIDE DEF q
<1> QED
  BY <1>1, <1>2, <1>3, <1>4, <1>5 DEF SameRate

LEMMA PaidStableIsPool ==
    ASSUME NEW p, IsPool(p), NEW now, NEW s, NEW rate
    PROVE  IsPool(PaidStable(p, now, s, rate))
<1> DEFINE total  == p.stable_loan_amount - s.in_borrow
           yearly == DMul(p.stable_loan_amount, p.stable_loan_interest_rate)
                       - DMul(s.in_borrow, rate)
           closes == s.in_borrow >= 0 /\ total <= 0
           average == IF closes THEN 0 ELSE DDiv(yearly, total)
           left == IF closes THEN 0 ELSE total
           v == [p EXCEPT !.stable_loan_amount = left,
                          !.stable_loan_interest_rate = average,
                          !.vault = @ + s.paid]
<1>1. PaidStable(p, now, s, rate) = UpdateInterestRate(v, now)
  BY DEF PaidStable
<1>2. IsPool(v)
  <2> HIDE DEF left, average
  <2> QED
    BY PoolFieldNames DEF IsPool
<1> HIDE DEF v
<1> QED
  BY <1>1, <1>2, RatesSameRate DEF SameRate

LEMMA AssetVaultMoved ==
    ASSUME NEW t, NEW p, NEW now, AssetPool(t, p, now), NEW q, PoolSound(q), Keeps(p, q, {"vault"})
    PROVE  AssetPool(t, q, now) /\ Moved(p, q, 0, 0, 0)
<1>1. /\ q.last_update = p.last_update /\ q.bond_epochs = p.bond_epochs
      /\ q.share_unit = p.share_unit /\ q.underlying_unit = p.underlying_unit
      /\ q.share_supply = p.share_supply
      /\ q.variable_loan_share_quantity = p.variable_loan_share_quantity
      /\ q.stable_loan_amount = p.stable_loan_amount
  BY PoolFieldNames DEF Keeps
<1>2. p.share_supply \in Nat /\ p.variable_loan_share_quantity \in Nat /\ p.stable_loan_amount \in Nat
  BY DEF AssetPool, PoolSound
<1> QED
  BY <1>1, <1>2 DEF AssetPool, Moved

LEMMA AssetFeePaid ==
    ASSUME NEW t, NEW p, NEW now \in Nat, AssetPool(t, p, now), NEW bucket,
           NEW amount \in Nat, NEW fee \in Nat, CanRepayFixedTerm(p, now, bucket, amount, fee)
    PROVE  LET q == RepayFixedTerm(p, now, amount, fee)
           IN  AssetPool(t, q, now) /\ Moved(p, q, 0, 0, 0)
<1> DEFINE q == RepayFixedTerm(p, now, amount, fee)
<1>1. PoolSound(p) /\ p.last_update <= now
  BY DEF AssetPool
<1>2. FixedTermRepaid(p, q, fee, now)
  BY <1>1, RepayFixedTermSound
<1> HIDE DEF q
<1>3. p.share_supply \in Nat /\ p.variable_loan_share_quantity \in Nat /\ p.stable_loan_amount \in Nat
  BY <1>1 DEF PoolSound
<1> QED
  BY <1>2, <1>3 DEF AssetPool, Moved, FixedTermRepaid, q

-----------------------------------------------------------------------------
(* The positions *)

\* A position as the manager books it: without debt shares when it is stable.
SoundCdp == {d \in Cdp : d.is_stable => StableBorrowing /\ d.normalized_borrow = 0}

\* The amount a position has borrowed at a stable rate.
LentBy(d) == IF d.is_stable THEN d.borrow_amount ELSE 0

\* What positions owe a pool, in debt shares and at stable rates, and what they
\* hold of a vault in whole units.
Owed(cs, t) ==
    SumFunctionOnSet([i \in DOMAIN cs |-> cs[i].normalized_borrow],
                     {i \in DOMAIN cs : cs[i].borrow_token = t /\ cs[i].is_stable = FALSE})
Lent(cs, t) ==
    SumFunctionOnSet([i \in DOMAIN cs |-> cs[i].borrow_amount],
                     {i \in DOMAIN cs : cs[i].borrow_token = t /\ cs[i].is_stable = TRUE})
Held(cs, t) ==
    SumFunctionOnSet([i \in DOMAIN cs |-> CeilTo(cs[i].collateral_amount, ShareUnit[t])],
                     {i \in DOMAIN cs : cs[i].collateral_token = t})

LEMMA UnitsPositive ==
    ASSUME NEW t \in Token
    PROVE  /\ Unit[t] \in Nat \ {0} /\ ShareUnit[t] \in Nat \ {0} /\ ShareUnit[t] \in 1 .. ONE
           /\ ONE \in Nat \ {0}
<1>1. Unit[t] \in Nat \ {0} /\ ShareUnit[t] \in 1 .. ONE /\ ONE \in Nat \ {0}
  BY CdpManagerAssumption, DecimalAssumption
<1> QED
  BY <1>1

LEMMA CdpFields ==
    ASSUME NEW d \in SoundCdp
    PROVE  /\ d.borrow_token \in Token /\ d.collateral_token \in Token
           /\ d.is_stable \in BOOLEAN /\ (d.is_stable => d.normalized_borrow = 0)
           /\ d.total_borrow \in Nat /\ d.total_repay \in Nat /\ d.normalized_borrow \in Nat
           /\ d.borrow_amount \in Nat /\ d.collateral_amount \in Int
           /\ d.stable_rate \in Nat /\ d.last_update_epoch \in Nat /\ LentBy(d) \in Nat
           /\ \A t \in Token : CeilTo(d.collateral_amount, ShareUnit[t]) \in Int
<1>1. d.collateral_amount \in Int
  BY DEF SoundCdp, Cdp
<1>2. \A t \in Token : CeilTo(d.collateral_amount, ShareUnit[t]) \in Int
  BY <1>1, UnitsPositive, CeilToBounds
<1> QED
  BY <1>2 DEF SoundCdp, Cdp, LentBy

LEMMA CdpAt ==
    ASSUME NEW cs \in Seq(SoundCdp)
    PROVE  IsFiniteSet(DOMAIN cs) /\ \A i \in DOMAIN cs : cs[i] \in SoundCdp
<1>1. DOMAIN cs = 1 .. Len(cs) /\ Len(cs) \in Nat
  OBVIOUS
<1> QED
  BY <1>1, FS_Interval

\* g is f with x added to its domain, or with x changed.
Grown(f, g, D, x) ==
    /\ IsFiniteSet(D) /\ x \notin D /\ g[x] \in Int
    /\ \A y \in D : f[y] \in Int /\ g[y] = f[y]
Changed(f, g, D, x) ==
    /\ IsFiniteSet(D) /\ x \in D
    /\ \A y \in D : f[y] \in Int /\ g[y] \in Int /\ (y # x => g[y] = f[y])

SumsGrow(f, g, S, x) ==
    /\ SumFunctionOnSet(g, S) = SumFunctionOnSet(f, S)
    /\ SumFunctionOnSet(g, S \cup {x}) = SumFunctionOnSet(f, S) + g[x]

LEMMA SumGrows ==
    ASSUME NEW D, NEW x, NEW f, NEW g, Grown(f, g, D, x), NEW S \in SUBSET D
    PROVE  SumsGrow(f, g, S, x)
<1>1. IsFiniteSet(S) /\ x \notin S /\ \A y \in S : f[y] \in Int /\ g[y] \in Int /\ f[y] = g[y]
  BY FS_Subset DEF Grown
<1>2. SumFunctionOnSet(f, S) = SumFunctionOnSet(g, S) /\ SumFunctionOnSet(f, S) \in Int
  BY <1>1, SumAgree, SumInt
<1>3. SumFunctionOnSet(g, S \cup {x}) = g[x] + SumFunctionOnSet(g, S)
  BY <1>1, SumAdd DEF Grown
<1>4. g[x] \in Int
  BY DEF Grown
<1> QED
  BY <1>2, <1>3, <1>4 DEF SumsGrow

LEMMA CdpAppended ==
    ASSUME NEW cs \in Seq(SoundCdp), NEW d \in SoundCdp, NEW t \in Token
    PROVE  LET cs2 == Append(cs, d)
           IN  /\ Owed(cs2, t) = IF d.borrow_token = t THEN Owed(cs, t) + d.normalized_borrow
                                 ELSE Owed(cs, t)
               /\ Lent(cs2, t) = IF d.borrow_token = t THEN Lent(cs, t) + LentBy(d)
                                 ELSE Lent(cs, t)
               /\ Held(cs2, t) = IF d.collateral_token = t
                                 THEN Held(cs, t) + CeilTo(d.collateral_amount, ShareUnit[t])
                                 ELSE Held(cs, t)
<1> DEFINE cs2 == Append(cs, d)
           x == Len(cs) + 1
           D == DOMAIN cs
           f == [i \in D |-> cs[i].normalized_borrow]
           g == [i \in DOMAIN cs2 |-> cs2[i].normalized_borrow]
           h == [i \in D |-> CeilTo(cs[i].collateral_amount, ShareUnit[t])]
           k == [i \in DOMAIN cs2 |-> CeilTo(cs2[i].collateral_amount, ShareUnit[t])]
           l == [i \in D |-> cs[i].borrow_amount]
           m == [i \in DOMAIN cs2 |-> cs2[i].borrow_amount]
           S == {i \in D : cs[i].borrow_token = t /\ cs[i].is_stable = FALSE}
           U == {i \in D : cs[i].borrow_token = t /\ cs[i].is_stable = TRUE}
           T == {i \in D : cs[i].collateral_token = t}
           S2 == {i \in DOMAIN cs2 : cs2[i].borrow_token = t /\ cs2[i].is_stable = FALSE}
           U2 == {i \in DOMAIN cs2 : cs2[i].borrow_token = t /\ cs2[i].is_stable = TRUE}
           T2 == {i \in DOMAIN cs2 : cs2[i].collateral_token = t}
<1>1. /\ IsFiniteSet(D) /\ x \notin D /\ DOMAIN cs2 = D \cup {x}
      /\ cs2[x] = d /\ \A i \in D : cs2[i] = cs[i] /\ cs[i] \in SoundCdp
  <2>1. Len(cs) \in Nat /\ D = 1 .. Len(cs) /\ DOMAIN cs2 = 1 .. x
    OBVIOUS
  <2>2. cs2[x] = d /\ \A i \in D : cs2[i] = cs[i]
    BY <2>1
  <2>3. x \notin D /\ DOMAIN cs2 = D \cup {x}
    BY <2>1
  <2> QED
    BY <2>2, <2>3, CdpAt
<1> HIDE DEF cs2, D, x
<1>2. /\ g[x] = d.normalized_borrow /\ g[x] \in Int
      /\ m[x] = d.borrow_amount /\ m[x] \in Int
      /\ k[x] = CeilTo(d.collateral_amount, ShareUnit[t]) /\ k[x] \in Int
  BY <1>1, CdpFields
<1>3. /\ \A y \in D : f[y] \in Int /\ g[y] = f[y]
      /\ \A y \in D : h[y] \in Int /\ k[y] = h[y]
      /\ \A y \in D : l[y] \in Int /\ m[y] = l[y]
  BY <1>1, CdpFields
<1>4. /\ S2 = IF d.borrow_token = t /\ d.is_stable = FALSE THEN S \cup {x} ELSE S
      /\ U2 = IF d.borrow_token = t /\ d.is_stable = TRUE THEN U \cup {x} ELSE U
      /\ T2 = IF d.collateral_token = t THEN T \cup {x} ELSE T
  BY <1>1
<1>5. S \in SUBSET D /\ T \in SUBSET D /\ U \in SUBSET D
  OBVIOUS
<1> HIDE DEF f, g, h, k, l, m, S, T, U, S2, T2, U2
<1>6. SumsGrow(f, g, S, x)
  <2>1. Grown(f, g, D, x) /\ S \in SUBSET D
    BY <1>1, <1>2, <1>3, <1>5 DEF Grown
  <2> HIDE DEF x
  <2> QED
    BY ONLY <2>1, SumGrows
<1>7. SumsGrow(h, k, T, x)
  <2>1. Grown(h, k, D, x) /\ T \in SUBSET D
    BY <1>1, <1>2, <1>3, <1>5 DEF Grown
  <2> HIDE DEF x
  <2> QED
    BY ONLY <2>1, SumGrows
<1>8. SumsGrow(l, m, U, x)
  <2>1. Grown(l, m, D, x) /\ U \in SUBSET D
    BY <1>1, <1>2, <1>3, <1>5 DEF Grown
  <2> HIDE DEF x
  <2> QED
    BY ONLY <2>1, SumGrows
<1>9. /\ Owed(cs2, t) = SumFunctionOnSet(g, S2) /\ Owed(cs, t) = SumFunctionOnSet(f, S)
      /\ Held(cs2, t) = SumFunctionOnSet(k, T2) /\ Held(cs, t) = SumFunctionOnSet(h, T)
      /\ Lent(cs2, t) = SumFunctionOnSet(m, U2) /\ Lent(cs, t) = SumFunctionOnSet(l, U)
  BY DEF Owed, Held, Lent, f, g, h, k, l, m, S, T, U, S2, T2, U2, D
<1>10. /\ d.is_stable \in BOOLEAN /\ (d.is_stable => d.normalized_borrow = 0)
       /\ SumFunctionOnSet(f, S) \in Int /\ SumFunctionOnSet(l, U) \in Int
  <2>1. IsFiniteSet(S) /\ IsFiniteSet(U)
    BY <1>1, <1>5, FS_Subset
  <2> QED
    BY <1>3, <1>5, <2>1, SumInt, CdpFields
<1>11. /\ Owed(cs2, t) = IF d.borrow_token = t THEN Owed(cs, t) + d.normalized_borrow
                        ELSE Owed(cs, t)
      /\ Lent(cs2, t) = IF d.borrow_token = t THEN Lent(cs, t) + LentBy(d)
                        ELSE Lent(cs, t)
  BY <1>2, <1>4, <1>6, <1>8, <1>9, <1>10 DEF LentBy, SumsGrow
<1>12. Held(cs2, t) = IF d.collateral_token = t
                      THEN Held(cs, t) + CeilTo(d.collateral_amount, ShareUnit[t])
                      ELSE Held(cs, t)
  BY <1>2, <1>4, <1>7, <1>9 DEF SumsGrow
<1> QED
  BY <1>11, <1>12 DEF cs2

LEMMA SumChanges ==
    ASSUME NEW D, NEW x, NEW f, NEW g, Changed(f, g, D, x), NEW S \in SUBSET D
    PROVE  SumFunctionOnSet(g, S) = IF x \in S THEN SumFunctionOnSet(f, S) - f[x] + g[x]
                                    ELSE SumFunctionOnSet(f, S)
<1>1. IsFiniteSet(S) /\ \A y \in S : f[y] \in Int /\ g[y] \in Int
  BY FS_Subset DEF Changed
<1>2. CASE x \in S
  <2>1. \A y \in S \ {x} : f[y] = g[y]
    BY DEF Changed
  <2> QED
    BY <1>1, <1>2, <2>1, SumChanged
<1>3. CASE x \notin S
  <2>1. \A y \in S : f[y] \in Int /\ f[y] = g[y]
    BY <1>1, <1>3 DEF Changed
  <2> QED
    BY <1>1, <1>3, <2>1, SumAgree
<1> QED
  BY <1>2, <1>3

\* cs2 is cs with the position d in the place of id.
Replaced(cs, id, d, cs2) ==
    /\ cs \in Seq(SoundCdp) /\ id \in DOMAIN cs /\ d \in SoundCdp
    /\ d.borrow_token = cs[id].borrow_token /\ d.collateral_token = cs[id].collateral_token
    /\ d.is_stable = cs[id].is_stable
    /\ cs2 = [cs EXCEPT ![id] = d]

LEMMA CdpChanged ==
    ASSUME NEW cs, NEW id, NEW d, NEW cs2, Replaced(cs, id, d, cs2), NEW t \in Token
    PROVE  /\ cs2 \in Seq(SoundCdp) /\ Len(cs2) = Len(cs)
           /\ Owed(cs2, t) = IF d.borrow_token = t
                             THEN Owed(cs, t) - cs[id].normalized_borrow + d.normalized_borrow
                             ELSE Owed(cs, t)
           /\ Lent(cs2, t) = IF d.borrow_token = t
                             THEN Lent(cs, t) - LentBy(cs[id]) + LentBy(d)
                             ELSE Lent(cs, t)
           /\ Held(cs2, t) = IF d.collateral_token = t
                             THEN Held(cs, t) - CeilTo(cs[id].collateral_amount, ShareUnit[t])
                                    + CeilTo(d.collateral_amount, ShareUnit[t])
                             ELSE Held(cs, t)
<1> DEFINE D == DOMAIN cs
           f == [i \in D |-> cs[i].normalized_borrow]
           g == [i \in DOMAIN cs2 |-> cs2[i].normalized_borrow]
           h == [i \in D |-> CeilTo(cs[i].collateral_amount, ShareUnit[t])]
           k == [i \in DOMAIN cs2 |-> CeilTo(cs2[i].collateral_amount, ShareUnit[t])]
           l == [i \in D |-> cs[i].borrow_amount]
           m == [i \in DOMAIN cs2 |-> cs2[i].borrow_amount]
           S == {i \in D : cs[i].borrow_token = t /\ cs[i].is_stable = FALSE}
           U == {i \in D : cs[i].borrow_token = t /\ cs[i].is_stable = TRUE}
           T == {i \in D : cs[i].collateral_token = t}
           S2 == {i \in DOMAIN cs2 : cs2[i].borrow_token = t /\ cs2[i].is_stable = FALSE}
           U2 == {i \in DOMAIN cs2 : cs2[i].borrow_token = t /\ cs2[i].is_stable = TRUE}
           T2 == {i \in DOMAIN cs2 : cs2[i].collateral_token = t}
<1>0. /\ cs \in Seq(SoundCdp) /\ id \in DOMAIN cs /\ d \in SoundCdp
      /\ d.borrow_token = cs[id].borrow_token /\ d.collateral_token = cs[id].collateral_token
      /\ d.is_stable = cs[id].is_stable
      /\ cs2 = [cs EXCEPT ![id] = d]
  BY DEF Replaced
<1>1. cs2 \in Seq(SoundCdp) /\ Len(cs2) = Len(cs)
  <2>1. Len(cs) \in Nat /\ D = 1 .. Len(cs) /\ cs \in [1 .. Len(cs) -> SoundCdp]
    BY <1>0
  <2>2. cs2 \in [1 .. Len(cs) -> SoundCdp]
    BY <1>0, <2>1
  <2> QED
    BY <2>1, <2>2
<1>2. /\ IsFiniteSet(D) /\ id \in D /\ DOMAIN cs2 = D
      /\ cs2[id] = d /\ \A i \in D \ {id} : cs2[i] = cs[i]
      /\ \A i \in D : cs[i] \in SoundCdp /\ cs2[i] \in SoundCdp
  BY <1>0, CdpAt
<1> HIDE DEF D
<1>3. /\ g[id] = d.normalized_borrow /\ f[id] = cs[id].normalized_borrow
      /\ m[id] = d.borrow_amount /\ l[id] = cs[id].borrow_amount
      /\ k[id] = CeilTo(d.collateral_amount, ShareUnit[t])
      /\ h[id] = CeilTo(cs[id].collateral_amount, ShareUnit[t])
  BY <1>2
<1>4. Changed(f, g, D, id) /\ Changed(h, k, D, id) /\ Changed(l, m, D, id)
  <2>1. ASSUME NEW y \in D
        PROVE  /\ f[y] \in Int /\ g[y] \in Int /\ (y # id => g[y] = f[y])
               /\ h[y] \in Int /\ k[y] \in Int /\ (y # id => k[y] = h[y])
               /\ l[y] \in Int /\ m[y] \in Int /\ (y # id => m[y] = l[y])
    <3>1. cs[y] \in SoundCdp /\ cs2[y] \in SoundCdp /\ (y # id => cs2[y] = cs[y])
      BY <1>2
    <3>2. /\ f[y] = cs[y].normalized_borrow /\ g[y] = cs2[y].normalized_borrow
          /\ h[y] = CeilTo(cs[y].collateral_amount, ShareUnit[t])
          /\ k[y] = CeilTo(cs2[y].collateral_amount, ShareUnit[t])
          /\ l[y] = cs[y].borrow_amount /\ m[y] = cs2[y].borrow_amount
      BY <1>2
    <3>3. \A e \in SoundCdp : /\ e.normalized_borrow \in Int /\ e.borrow_amount \in Int
                                 /\ CeilTo(e.collateral_amount, ShareUnit[t]) \in Int
      BY CdpFields
    <3> HIDE DEF f, g, h, k, l, m
    <3> QED
      BY ONLY <3>1, <3>2, <3>3
  <2> QED
    BY <1>2, <2>1 DEF Changed
<1>5. S2 = S /\ T2 = T /\ U2 = U
  BY <1>0, <1>2
<1>6. /\ S \in SUBSET D /\ T \in SUBSET D /\ U \in SUBSET D
      /\ (id \in S) <=> (d.borrow_token = t /\ d.is_stable = FALSE)
      /\ (id \in U) <=> (d.borrow_token = t /\ d.is_stable = TRUE)
      /\ (id \in T) <=> (d.collateral_token = t)
  <2>1. id \in D /\ d.borrow_token = cs[id].borrow_token
        /\ d.collateral_token = cs[id].collateral_token /\ d.is_stable = cs[id].is_stable
    BY <1>0, <1>2
  <2>2. S \in SUBSET D /\ T \in SUBSET D /\ U \in SUBSET D
    OBVIOUS
  <2>3. (id \in S) <=> (d.borrow_token = t /\ d.is_stable = FALSE)
    BY <2>1
  <2>4. (id \in U) <=> (d.borrow_token = t /\ d.is_stable = TRUE)
    BY <2>1
  <2>5. (id \in T) <=> (d.collateral_token = t)
    BY <2>1
  <2> QED
    BY <2>2, <2>3, <2>4, <2>5
<1> HIDE DEF f, g, h, k, l, m, S, T, U, S2, T2, U2
<1>7. SumFunctionOnSet(g, S) = IF id \in S THEN SumFunctionOnSet(f, S) - f[id] + g[id]
                               ELSE SumFunctionOnSet(f, S)
  BY <1>4, <1>6, SumChanges
<1>8. SumFunctionOnSet(k, T) = IF id \in T THEN SumFunctionOnSet(h, T) - h[id] + k[id]
                               ELSE SumFunctionOnSet(h, T)
  BY <1>4, <1>6, SumChanges
<1>9. SumFunctionOnSet(m, U) = IF id \in U THEN SumFunctionOnSet(l, U) - l[id] + m[id]
                               ELSE SumFunctionOnSet(l, U)
  BY <1>4, <1>6, SumChanges
<1>10. /\ Owed(cs2, t) = SumFunctionOnSet(g, S2) /\ Owed(cs, t) = SumFunctionOnSet(f, S)
       /\ Held(cs2, t) = SumFunctionOnSet(k, T2) /\ Held(cs, t) = SumFunctionOnSet(h, T)
       /\ Lent(cs2, t) = SumFunctionOnSet(m, U2) /\ Lent(cs, t) = SumFunctionOnSet(l, U)
  BY DEF Owed, Held, Lent, f, g, h, k, l, m, S, T, U, S2, T2, U2, D
<1>11. /\ d.is_stable \in BOOLEAN /\ d.is_stable = cs[id].is_stable
       /\ (d.is_stable => d.normalized_borrow = 0 /\ cs[id].normalized_borrow = 0)
       /\ SumFunctionOnSet(f, S) \in Int /\ SumFunctionOnSet(l, U) \in Int
  <2>1. IsFiniteSet(S) /\ IsFiniteSet(U)
    BY <1>2, <1>6, FS_Subset
  <2>2. \A y \in D : f[y] \in Int /\ l[y] \in Int
    BY <1>4 DEF Changed
  <2>3. SumFunctionOnSet(f, S) \in Int /\ SumFunctionOnSet(l, U) \in Int
    BY <1>6, <2>1, <2>2, SumInt
  <2> QED
    BY <1>0, <1>2, <2>3, CdpFields
<1>12. Owed(cs2, t) = IF d.borrow_token = t
                      THEN Owed(cs, t) - cs[id].normalized_borrow + d.normalized_borrow
                      ELSE Owed(cs, t)
  BY <1>3, <1>5, <1>6, <1>7, <1>10, <1>11
<1>13. Lent(cs2, t) = IF d.borrow_token = t
                      THEN Lent(cs, t) - LentBy(cs[id]) + LentBy(d)
                      ELSE Lent(cs, t)
  BY <1>3, <1>5, <1>6, <1>9, <1>10, <1>11 DEF LentBy
<1>14. Held(cs2, t) = IF d.collateral_token = t
                      THEN Held(cs, t) - CeilTo(cs[id].collateral_amount, ShareUnit[t])
                             + CeilTo(d.collateral_amount, ShareUnit[t])
                      ELSE Held(cs, t)
  BY <1>3, <1>5, <1>6, <1>8, <1>10
<1> QED
  BY <1>1, <1>12, <1>13, <1>14

LEMMA SharesOwed ==
    ASSUME NEW cs \in Seq(SoundCdp), NEW id \in DOMAIN cs, ~ cs[id].is_stable
    PROVE  cs[id].normalized_borrow <= Owed(cs, cs[id].borrow_token)
<1> DEFINE t == cs[id].borrow_token
           f == [i \in DOMAIN cs |-> cs[i].normalized_borrow]
           S == {i \in DOMAIN cs : cs[i].borrow_token = t /\ cs[i].is_stable = FALSE}
<1>1. IsFiniteSet(S) /\ id \in S
  <2>1. cs[id].is_stable \in BOOLEAN /\ IsFiniteSet(DOMAIN cs)
    BY CdpAt, CdpFields
  <2> QED
    BY <2>1, FS_Subset
<1>2. \A i \in S : f[i] \in Nat
  BY CdpAt, CdpFields
<1>3. f[id] = cs[id].normalized_borrow
  OBVIOUS
<1> HIDE DEF f, S
<1>4. f[id] <= SumFunctionOnSet(f, S)
  BY <1>1, <1>2, SumMember
<1> QED
  BY <1>3, <1>4 DEF Owed, f, S

LEMMA LentNat ==
    ASSUME NEW cs \in Seq(SoundCdp), NEW t
    PROVE  Lent(cs, t) \in Nat
<1> DEFINE f == [i \in DOMAIN cs |-> cs[i].borrow_amount]
           S == {i \in DOMAIN cs : cs[i].borrow_token = t /\ cs[i].is_stable = TRUE}
<1>1. IsFiniteSet(S)
  BY CdpAt, FS_Subset
<1>2. \A i \in S : f[i] \in Nat
  BY CdpAt, CdpFields
<1> HIDE DEF f, S
<1>3. SumFunctionOnSet(f, S) \in Nat
  BY <1>1, <1>2, SumNat
<1> QED
  BY <1>3 DEF Lent, f, S

-----------------------------------------------------------------------------
(* The invariant *)

FlashLoan == [id : Nat, res_addr : Token, amount : Nat, fee : Nat]

\* One token: its pool p, what the vault has of its dx tokens, what the users have.
TokenBook(t, p, cs, vault, wallet, now) ==
    /\ AssetPool(t, p, now)
    /\ vault \in Nat /\ wallet \in Nat
    /\ p.share_supply = wallet + vault
    /\ p.variable_loan_share_quantity = Owed(cs, t)
    /\ p.stable_loan_amount <= Lent(cs, t)
    /\ Held(cs, t) <= vault

OverTokens(f) == f = [t \in Token |-> f[t]]

Positions(cs) == cs \in Seq(SoundCdp) /\ Len(cs) <= MaxCdps

\* No position has interest to come.
Dated(cs, now) == \A i \in DOMAIN cs : cs[i].last_update_epoch <= now

ManagerInv ==
    /\ OverTokens(pools) /\ OverTokens(collateral_vaults) /\ OverTokens(dx_wallets)
    /\ Positions(cdps) /\ Dated(cdps, epoch)
    /\ \A t \in Token :
          TokenBook(t, pools[t], cdps, collateral_vaults[t], dx_wallets[t], epoch)
    /\ close_factor_percent \in Nat /\ transient_nfts \subseteq FlashLoan
    /\ quote \in Quotes /\ epoch \in StartEpoch .. MaxEpoch /\ calls \in 0 .. MaxCalls

LEMMA InvNumbers ==
    ASSUME ManagerInv
    PROVE  /\ epoch \in Nat /\ calls \in Nat
           /\ \A t \in Token : quote[t] \in Nat \ {0}
<1>1. StartEpoch \in Nat /\ MaxEpoch \in Nat /\ MaxCalls \in Nat /\ Quotes \subseteq [Token -> Nat \ {0}]
  BY CdpManagerAssumption
<1> QED
  BY <1>1 DEF ManagerInv

\* g is f with the value v at x.
Updated(f, g, x, v) ==
    /\ OverTokens(f) /\ OverTokens(g)
    /\ g[x] = v /\ \A t \in Token \ {x} : g[t] = f[t]

LEMMA OverTokensChanged ==
    ASSUME NEW f, OverTokens(f), NEW x \in Token, NEW v, NEW g, g = [f EXCEPT ![x] = v]
    PROVE  Updated(f, g, x, v)
<1>1. DOMAIN f = Token
  BY DEF OverTokens
<1>2. g = [t \in Token |-> IF t = x THEN v ELSE f[t]]
  BY <1>1
<1> QED
  BY <1>2 DEF OverTokens, Updated

LEMMA CallCounted ==
    ASSUME ManagerInv, Call
    PROVE  calls' \in 0 .. MaxCalls
BY CdpManagerAssumption DEF ManagerInv, Call

LEMMA HeldInt ==
    ASSUME NEW cs \in Seq(SoundCdp), NEW t \in Token
    PROVE  Held(cs, t) \in Int
<1> DEFINE f == [i \in DOMAIN cs |-> CeilTo(cs[i].collateral_amount, ShareUnit[t])]
           S == {i \in DOMAIN cs : cs[i].collateral_token = t}
<1>1. IsFiniteSet(S)
  BY CdpAt, FS_Subset
<1>2. ASSUME NEW i \in S PROVE f[i] \in Int
  <2>1. i \in DOMAIN cs /\ cs[i] \in SoundCdp
    BY CdpAt
  <2> QED
    BY <2>1, CdpFields
<1> HIDE DEF f, S
<1>3. SumFunctionOnSet(f, S) \in Int
  BY <1>1, <1>2, SumInt
<1> QED
  BY <1>3 DEF Held, f, S

\* The book of a token after its pool, its positions and its dx tokens have moved.
LEMMA TokenBookMoved ==
    ASSUME NEW t \in Token, NEW p, NEW cs \in Seq(SoundCdp), NEW vault, NEW wallet, NEW now,
           TokenBook(t, p, cs, vault, wallet, now),
           NEW q, NEW dx_tokens \in Int, NEW debt_shares \in Int, NEW lent \in Int,
           AssetPool(t, q, now), Moved(p, q, dx_tokens, debt_shares, lent),
           NEW cs2 \in Seq(SoundCdp), NEW vault2 \in Nat, NEW wallet2 \in Nat,
           wallet2 + vault2 = wallet + vault + dx_tokens,
           Owed(cs2, t) = Owed(cs, t) + debt_shares,
           Lent(cs2, t) = Lent(cs, t) + lent,
           Held(cs2, t) <= vault2
    PROVE  TokenBook(t, q, cs2, vault2, wallet2, now)
<1>1. Lent(cs, t) \in Nat /\ Lent(cs2, t) \in Nat
  BY LentNat
<1>2. p.stable_loan_amount \in Nat /\ q.stable_loan_amount \in Nat
  BY DEF TokenBook, AssetPool, PoolSound
<1>3. q.stable_loan_amount <= Lent(cs2, t)
  BY <1>1, <1>2, SMTT(30) DEF TokenBook, Moved
<1> QED
  BY <1>3 DEF TokenBook, Moved

LEMMA NotMoved ==
    ASSUME NEW t, NEW p, NEW now, AssetPool(t, p, now)
    PROVE  Moved(p, p, 0, 0, 0)
BY DEF Moved, AssetPool, PoolSound

LEMMA BookFacts ==
    ASSUME ManagerInv, NEW t \in Token
    PROVE  /\ TokenBook(t, pools[t], cdps, collateral_vaults[t], dx_wallets[t], epoch)
           /\ AssetPool(t, pools[t], epoch) /\ cdps \in Seq(SoundCdp)
           /\ collateral_vaults[t] \in Nat /\ dx_wallets[t] \in Nat
           /\ pools[t].share_supply = dx_wallets[t] + collateral_vaults[t]
           /\ Held(cdps, t) \in Int /\ Held(cdps, t) <= collateral_vaults[t]
           /\ Owed(cdps, t) \in Nat /\ Lent(cdps, t) \in Nat
           /\ Owed(cdps, t) = Owed(cdps, t) + 0 /\ Lent(cdps, t) = Lent(cdps, t) + 0
<1>1. /\ TokenBook(t, pools[t], cdps, collateral_vaults[t], dx_wallets[t], epoch)
      /\ cdps \in Seq(SoundCdp)
  BY DEF ManagerInv, Positions
<1>2. Held(cdps, t) \in Int /\ Lent(cdps, t) \in Nat
  BY <1>1, HeldInt, LentNat
<1>3. Owed(cdps, t) \in Nat
  BY <1>1 DEF TokenBook, AssetPool, PoolSound
<1>4. Owed(cdps, t) = Owed(cdps, t) + 0 /\ Lent(cdps, t) = Lent(cdps, t) + 0
  BY <1>2, <1>3
<1> QED
  BY <1>1, <1>2, <1>3, <1>4 DEF TokenBook

-----------------------------------------------------------------------------
(* The steps *)

LEMMA InitInv ==
    ASSUME Init
    PROVE  ManagerInv
<1>1. /\ StartEpoch \in Nat /\ StartEpoch \in StartEpoch .. MaxEpoch /\ MaxCalls \in Nat
      /\ MaxCdps \in Nat
  BY CdpManagerAssumption
<1>2. ASSUME NEW t \in Token
      PROVE  TokenBook(t, pools[t], cdps, collateral_vaults[t], dx_wallets[t], epoch)
  <2> DEFINE p == NewAssetPool(t)
             q == AddLiquity(p, StartEpoch, Seed[t])
  <2>1. AssetPool(t, p, StartEpoch) /\ p.variable_loan_share_quantity = 0
        /\ p.stable_loan_amount = 0
    BY <1>1, NewAssetPoolSound DEF NewAssetPool, NewPool
  <2>2. Seed[t] \in Nat
    BY CdpManagerAssumption
  <2> HIDE DEF p
  <2>3. \E minted \in Nat : AssetPool(t, q, StartEpoch) /\ Moved(p, q, minted, 0, 0)
    BY <1>1, <2>1, <2>2, AssetSupplied
  <2>4. pools[t] = q /\ epoch = StartEpoch /\ cdps = << >>
        /\ collateral_vaults[t] = 0 /\ dx_wallets[t] = q.share_supply
    BY DEF Init, p
  <2> HIDE DEF q
  <2>5. q.variable_loan_share_quantity = 0 /\ q.share_supply \in Nat
        /\ q.stable_loan_amount <= 0
    BY <2>1, <2>3 DEF Moved, AssetPool, PoolSound
  <2>6. Owed(<< >>, t) = 0 /\ Lent(<< >>, t) = 0 /\ Held(<< >>, t) = 0
    <3>1. /\ {i \in DOMAIN << >> : << >>[i].borrow_token = t /\ << >>[i].is_stable = FALSE} = {}
          /\ {i \in DOMAIN << >> : << >>[i].borrow_token = t /\ << >>[i].is_stable = TRUE} = {}
          /\ {i \in DOMAIN << >> : << >>[i].collateral_token = t} = {}
      OBVIOUS
    <3> QED
      BY <3>1, SumEmpty DEF Owed, Lent, Held
  <2> QED
    BY <2>3, <2>4, <2>5, <2>6 DEF TokenBook
<1>3. Positions(cdps) /\ Dated(cdps, epoch)
  BY <1>1 DEF Init, Positions, Dated
<1>4. OverTokens(pools) /\ OverTokens(collateral_vaults) /\ OverTokens(dx_wallets)
  BY DEF Init, OverTokens
<1>5. close_factor_percent \in Nat /\ transient_nfts \subseteq FlashLoan /\ calls \in 0 .. MaxCalls
  BY <1>1, DecimalAssumption DEF Init
<1>6. quote \in Quotes /\ epoch \in StartEpoch .. MaxEpoch
  BY <1>1 DEF Init
<1> QED
  BY <1>2, <1>3, <1>4, <1>5, <1>6 DEF ManagerInv

LEMMA SupplyKeeps ==
    ASSUME ManagerInv, NEW x \in Token, NEW amount \in Supplies, Supply(x, amount)
    PROVE  ManagerInv'
<1> DEFINE p == pools[x]
           q == AddLiquity(p, epoch, amount)
           minted == MintAmount(UpdateIndex(p, epoch), amount)
<1>1. amount \in Nat /\ epoch \in Nat /\ AssetPool(x, p, epoch)
  BY InvNumbers, CdpManagerAssumption DEF ManagerInv, TokenBook
<1>2. AssetPool(x, q, epoch) /\ minted \in Nat /\ Moved(p, q, minted, 0, 0)
  BY <1>1, AssetSupplied
<1>3. /\ pools' = [pools EXCEPT ![x] = q] /\ dx_wallets' = [dx_wallets EXCEPT ![x] = dx_wallets[x] + minted]
      /\ Call /\ UNCHANGED <<cdps, collateral_vaults, close_factor_percent, transient_nfts, quote, epoch>>
  BY DEF Supply
<1> HIDE DEF q, minted
<1>4. Updated(pools, pools', x, q) /\ Updated(dx_wallets, dx_wallets', x, dx_wallets[x] + minted)
  BY <1>3, OverTokensChanged DEF ManagerInv
<1>5. ASSUME NEW t \in Token
      PROVE  TokenBook(t, pools'[t], cdps', collateral_vaults'[t], dx_wallets'[t], epoch')
  <2>1. TokenBook(t, pools[t], cdps, collateral_vaults[t], dx_wallets[t], epoch)
    BY DEF ManagerInv
  <2>2. CASE t = x
    <3>1. /\ TokenBook(x, p, cdps, collateral_vaults[x], dx_wallets[x], epoch)
          /\ cdps \in Seq(SoundCdp)
          /\ collateral_vaults[x] \in Nat /\ dx_wallets[x] \in Nat
          /\ Held(cdps, x) <= collateral_vaults[x]
          /\ Owed(cdps, x) = Owed(cdps, x) + 0 /\ Lent(cdps, x) = Lent(cdps, x) + 0
      BY BookFacts
    <3>2. /\ (dx_wallets[x] + minted) + collateral_vaults[x]
                = dx_wallets[x] + collateral_vaults[x] + minted
          /\ minted \in Int /\ dx_wallets[x] + minted \in Nat
      BY <1>2, <3>1
    <3>3. TokenBook(x, q, cdps, collateral_vaults[x], dx_wallets[x] + minted, epoch)
      BY ONLY x \in Token, 0 \in Int, <1>2, <3>1, <3>2, TokenBookMoved
    <3>4. /\ pools'[t] = q /\ cdps' = cdps /\ collateral_vaults'[t] = collateral_vaults[x]
          /\ dx_wallets'[t] = dx_wallets[x] + minted /\ epoch' = epoch
      BY <1>3, <1>4, <2>2 DEF Updated
    <3> QED
      BY <2>2, <3>3, <3>4
  <2>3. CASE t # x
    BY <1>3, <1>4, <2>1, <2>3 DEF Updated
  <2> QED
    BY <2>2, <2>3
<1>6. calls' \in 0 .. MaxCalls
  BY <1>3, CallCounted
<1> QED
  BY <1>3, <1>4, <1>5, <1>6 DEF ManagerInv, Updated

LEMMA WithdrawKeeps ==
    ASSUME ManagerInv, NEW x \in Token, NEW shares \in Withdrawals, Withdraw(x, shares)
    PROVE  ManagerInv'
<1> DEFINE p == pools[x]
           q == RemoveLiquity(p, epoch, shares)
<1>1. /\ shares \in Nat /\ epoch \in Nat
      /\ TokenBook(x, p, cdps, collateral_vaults[x], dx_wallets[x], epoch)
  BY InvNumbers, CdpManagerAssumption DEF ManagerInv
<1>2. /\ AssetPool(x, p, epoch) /\ p.share_supply = dx_wallets[x] + collateral_vaults[x]
      /\ dx_wallets[x] \in Nat /\ collateral_vaults[x] \in Nat
  BY <1>1 DEF TokenBook
<1>3. /\ pools' = [pools EXCEPT ![x] = q] /\ dx_wallets' = [dx_wallets EXCEPT ![x] = dx_wallets[x] - shares]
      /\ shares <= dx_wallets[x] /\ CanRemoveLiquity(p, epoch, shares)
      /\ Call /\ UNCHANGED <<cdps, collateral_vaults, close_factor_percent, transient_nfts, quote, epoch>>
  BY DEF Withdraw
<1>4. AssetPool(x, q, epoch) /\ Moved(p, q, -shares, 0, 0)
  <2>1. shares <= p.share_supply
    BY <1>1, <1>2, <1>3
  <2> QED
    BY <1>1, <1>2, <1>3, <2>1, AssetRedeemed
<1> HIDE DEF q
<1>5. Updated(pools, pools', x, q) /\ Updated(dx_wallets, dx_wallets', x, dx_wallets[x] - shares)
  BY <1>3, OverTokensChanged DEF ManagerInv
<1>6. ASSUME NEW t \in Token
      PROVE  TokenBook(t, pools'[t], cdps', collateral_vaults'[t], dx_wallets'[t], epoch')
  <2>1. TokenBook(t, pools[t], cdps, collateral_vaults[t], dx_wallets[t], epoch)
    BY DEF ManagerInv
  <2>2. CASE t = x
    <3>1. /\ cdps \in Seq(SoundCdp) /\ Held(cdps, x) <= collateral_vaults[x]
          /\ Owed(cdps, x) = Owed(cdps, x) + 0 /\ Lent(cdps, x) = Lent(cdps, x) + 0
      BY BookFacts
    <3>2. /\ (dx_wallets[x] - shares) + collateral_vaults[x]
                = dx_wallets[x] + collateral_vaults[x] + (-shares)
          /\ -shares \in Int /\ dx_wallets[x] - shares \in Nat
      BY <1>1, <1>2, <1>3
    <3>3. TokenBook(x, q, cdps, collateral_vaults[x], dx_wallets[x] - shares, epoch)
      BY ONLY x \in Token, 0 \in Int, <1>1, <1>2, <1>4, <3>1, <3>2, TokenBookMoved
    <3>4. /\ pools'[t] = q /\ cdps' = cdps /\ collateral_vaults'[t] = collateral_vaults[x]
          /\ dx_wallets'[t] = dx_wallets[x] - shares /\ epoch' = epoch
      BY <1>3, <1>5, <2>2 DEF Updated
    <3> QED
      BY <2>2, <3>3, <3>4
  <2>3. CASE t # x
    BY <1>3, <1>5, <2>1, <2>3 DEF Updated
  <2> QED
    BY <2>2, <2>3
<1>7. calls' \in 0 .. MaxCalls
  BY <1>3, CallCounted
<1> QED
  BY <1>3, <1>5, <1>6, <1>7 DEF ManagerInv, Updated

\* A dx bucket, rounded up to whole units, is what it was.
LEMMA BucketIsWhole ==
    ASSUME NEW t \in Token, NEW dx_amount \in Collaterals \cup Additions, NEW n \in Int
    PROVE  /\ dx_amount \in Nat
           /\ CeilTo(dx_amount, ShareUnit[t]) = dx_amount
           /\ CeilTo(n + dx_amount, ShareUnit[t]) = CeilTo(n, ShareUnit[t]) + dx_amount
<1>1. dx_amount \in Nat /\ ShareUnit[t] \in Nat \ {0} /\ dx_amount % ShareUnit[t] = 0
  BY CdpManagerAssumption, UnitsPositive DEF IsMultiple
<1> DEFINE unit == ShareUnit[t]
           k == dx_amount \div unit
<1>2. k \in Int /\ unit \in Nat \ {0} /\ unit * k = dx_amount
  BY <1>1, SMTT(30)
<1> HIDE DEF k, unit
<1>3. CeilTo(0 + unit * k, unit) = CeilTo(0, unit) + unit * k
  BY <1>2, CeilToOfSum
<1>4. CeilTo(n + unit * k, unit) = CeilTo(n, unit) + unit * k
  BY <1>2, CeilToOfSum
<1>5. CeilTo(0, unit) = 0
  BY <1>2, SMTT(30) DEF CeilTo, FloorTo
<1> QED
  BY <1>1, <1>2, <1>3, <1>4, <1>5 DEF unit

LEMMA PositionOpened ==
    ASSUME ManagerInv, NEW c \in Token, NEW b \in Token, NEW dx_amount \in Collaterals,
           dx_amount <= dx_wallets[c], Len(cdps) < MaxCdps,
           NEW d \in SoundCdp, d.borrow_token = b, d.collateral_token = c,
           d.collateral_amount = dx_amount, d.last_update_epoch <= epoch,
           NEW q, AssetPool(b, q, epoch),
           Moved(pools[b], q, 0, d.normalized_borrow, LentBy(d)),
           pools' = [pools EXCEPT ![b] = q], cdps' = Append(cdps, d),
           dx_wallets' = [dx_wallets EXCEPT ![c] = dx_wallets[c] - dx_amount],
           collateral_vaults' = [collateral_vaults EXCEPT ![c] = collateral_vaults[c] + dx_amount],
           Call, UNCHANGED <<close_factor_percent, transient_nfts, quote, epoch>>
    PROVE  ManagerInv'
<1> DEFINE shares == d.normalized_borrow
           lent == LentBy(d)
<1>1. /\ dx_amount \in Nat /\ shares \in Nat /\ lent \in Nat /\ cdps \in Seq(SoundCdp)
  BY CdpFields, CdpManagerAssumption DEF ManagerInv, Positions
<1>2. Positions(cdps') /\ Dated(cdps', epoch)
  <2>1. /\ Append(cdps, d) \in Seq(SoundCdp) /\ Len(Append(cdps, d)) = Len(cdps) + 1
        /\ Len(cdps) \in Nat /\ DOMAIN cdps = 1 .. Len(cdps)
        /\ DOMAIN Append(cdps, d) = 1 .. (Len(cdps) + 1)
    BY <1>1
  <2>2. \A i \in DOMAIN Append(cdps, d) :
           Append(cdps, d)[i] = d \/ (i \in DOMAIN cdps /\ Append(cdps, d)[i] = cdps[i])
    BY <1>1, <2>1
  <2>3. Positions(cdps')
    BY <2>1, CdpManagerAssumption DEF Positions
  <2> QED
    BY <2>2, <2>3 DEF Dated, ManagerInv
<1>3. /\ Updated(pools, pools', b, q)
      /\ Updated(dx_wallets, dx_wallets', c, dx_wallets[c] - dx_amount)
      /\ Updated(collateral_vaults, collateral_vaults', c, collateral_vaults[c] + dx_amount)
  BY OverTokensChanged DEF ManagerInv
<1>4. ASSUME NEW t \in Token
      PROVE  TokenBook(t, pools'[t], cdps', collateral_vaults'[t], dx_wallets'[t], epoch')
  <2>1. /\ TokenBook(t, pools[t], cdps, collateral_vaults[t], dx_wallets[t], epoch)
        /\ collateral_vaults[t] \in Nat /\ dx_wallets[t] \in Nat
        /\ Held(cdps, t) \in Int /\ Held(cdps, t) <= collateral_vaults[t]
        /\ Owed(cdps, t) = Owed(cdps, t) + 0 /\ Lent(cdps, t) = Lent(cdps, t) + 0
    BY BookFacts
  <2>2. /\ Owed(cdps', t) = IF b = t THEN Owed(cdps, t) + shares ELSE Owed(cdps, t)
        /\ Lent(cdps', t) = IF b = t THEN Lent(cdps, t) + lent ELSE Lent(cdps, t)
        /\ Held(cdps', t) = IF c = t THEN Held(cdps, t) + CeilTo(dx_amount, ShareUnit[t])
                            ELSE Held(cdps, t)
    BY <1>1, CdpAppended
  <2>3. CeilTo(dx_amount, ShareUnit[t]) = dx_amount
    BY <1>1, BucketIsWhole
  <2> DEFINE v == collateral_vaults'[t]
             w == dx_wallets'[t]
  <2>4. /\ v \in Nat /\ w \in Nat /\ w + v = dx_wallets[t] + collateral_vaults[t] + 0
        /\ Held(cdps', t) <= v
    <3>1. CASE t = c
      <4>1. v = collateral_vaults[t] + dx_amount /\ w = dx_wallets[t] - dx_amount /\ dx_amount <= dx_wallets[t]
        BY <1>3, <3>1 DEF Updated
      <4>2. Held(cdps', t) = Held(cdps, t) + dx_amount
        BY <2>2, <2>3, <3>1
      <4>3. /\ dx_amount \in Nat /\ collateral_vaults[t] \in Nat /\ dx_wallets[t] \in Nat
            /\ Held(cdps, t) \in Int /\ Held(cdps, t) <= collateral_vaults[t]
        BY <1>1, <2>1
      <4> HIDE DEF v, w
      <4> QED
        BY ONLY <4>1, <4>2, <4>3
    <3>2. CASE t # c
      <4>1. v = collateral_vaults[t] /\ w = dx_wallets[t]
        BY <1>3, <3>2 DEF Updated
      <4> HIDE DEF v, w
      <4> QED
        BY <2>1, <2>2, <3>2, <4>1
    <3> QED
      BY <3>1, <3>2
  <2>5. cdps' \in Seq(SoundCdp)
    BY <1>2 DEF Positions
  <2> HIDE DEF v, w, shares, lent
  <2>6. CASE t = b
    <3>1. /\ pools'[t] = q /\ Moved(pools[t], q, 0, shares, lent) /\ AssetPool(t, q, epoch)
          /\ Owed(cdps', t) = Owed(cdps, t) + shares /\ Lent(cdps', t) = Lent(cdps, t) + lent
      BY <1>3, <2>2, <2>6 DEF Updated, shares, lent
    <3>2. TokenBook(t, q, cdps', v, w, epoch)
      BY ONLY t \in Token, 0 \in Int, <1>1, <2>1, <2>4, <2>5, <3>1, TokenBookMoved
    <3> QED
      BY <3>1, <3>2 DEF v, w
  <2>7. CASE t # b
    <3>1. pools'[t] = pools[t] /\ Moved(pools[t], pools[t], 0, 0, 0) /\ AssetPool(t, pools[t], epoch)
      BY <1>3, <2>1, <2>7, NotMoved DEF Updated, TokenBook
    <3>2. Owed(cdps', t) = Owed(cdps, t) + 0 /\ Lent(cdps', t) = Lent(cdps, t) + 0
      BY <2>1, <2>2, <2>7
    <3>3. TokenBook(t, pools[t], cdps', v, w, epoch)
      BY ONLY t \in Token, 0 \in Int, <1>1, <2>1, <2>4, <2>5, <3>1, <3>2, TokenBookMoved
    <3> QED
      BY <3>1, <3>3 DEF v, w
  <2> QED
    BY <2>6, <2>7
<1>5. calls' \in 0 .. MaxCalls
  BY CallCounted
<1> QED
  BY <1>2, <1>3, <1>4, <1>5 DEF ManagerInv, Updated

LEMMA OpenVariableKeeps ==
    ASSUME ManagerInv, NEW c \in Token, NEW b \in Token,
           NEW dx_amount \in Collaterals, NEW amount \in Loans,
           OpenVariable(c, dx_amount, b, amount)
    PROVE  ManagerInv'
<1> DEFINE p == pools[b]
           q == BorrowVariable(p, epoch, amount)
           shares == VariableShare(UpdateIndex(p, epoch), amount)
           d == NewCdp(c, b, amount, dx_amount, shares, 0, FALSE)
<1>1. amount \in Nat /\ dx_amount \in Nat /\ epoch \in Nat /\ AssetPool(b, p, epoch)
  BY InvNumbers, BookFacts, CdpManagerAssumption
<1>2. /\ pools' = [pools EXCEPT ![b] = q] /\ cdps' = Append(cdps, d)
      /\ dx_wallets' = [dx_wallets EXCEPT ![c] = dx_wallets[c] - dx_amount]
      /\ collateral_vaults' = [collateral_vaults EXCEPT ![c] = collateral_vaults[c] + dx_amount]
      /\ dx_amount <= dx_wallets[c] /\ Len(cdps) < MaxCdps /\ CanBorrowVariable(p, epoch, amount)
      /\ Call /\ UNCHANGED <<close_factor_percent, transient_nfts, quote, epoch>>
  BY DEF OpenVariable
<1>3. AssetPool(b, q, epoch) /\ shares \in Nat /\ Moved(p, q, 0, shares, 0)
  BY <1>1, <1>2, AssetBorrowed
<1> HIDE DEF q, shares
<1>4. /\ d \in SoundCdp /\ d.borrow_token = b /\ d.collateral_token = c
      /\ d.normalized_borrow = shares /\ d.collateral_amount = dx_amount
      /\ LentBy(d) = 0 /\ d.last_update_epoch <= epoch
  BY <1>1, <1>3 DEF NewCdp, SoundCdp, Cdp, LentBy
<1> HIDE DEF d
<1> QED
  BY <1>2, <1>3, <1>4, PositionOpened

LEMMA OpenStableKeeps ==
    ASSUME ManagerInv, StableBorrowing, NEW c \in Token, NEW b \in Token,
           NEW dx_amount \in Collaterals, NEW amount \in Loans,
           OpenStable(c, dx_amount, b, amount)
    PROVE  ManagerInv'
<1> DEFINE p == pools[b]
           rate == PoolInterestRate(p, epoch, amount).stable
           q == BorrowStable(p, epoch, amount, rate)
           d == NewCdp(c, b, amount, dx_amount, 0, rate, TRUE)
<1>1. amount \in Nat /\ dx_amount \in Nat /\ epoch \in Nat /\ AssetPool(b, p, epoch)
  BY InvNumbers, BookFacts, CdpManagerAssumption
<1>2. /\ pools' = [pools EXCEPT ![b] = q] /\ cdps' = Append(cdps, d)
      /\ dx_wallets' = [dx_wallets EXCEPT ![c] = dx_wallets[c] - dx_amount]
      /\ collateral_vaults' = [collateral_vaults EXCEPT ![c] = collateral_vaults[c] + dx_amount]
      /\ dx_amount <= dx_wallets[c] /\ Len(cdps) < MaxCdps /\ CanBorrowStable(p, epoch, amount)
      /\ Call /\ UNCHANGED <<close_factor_percent, transient_nfts, quote, epoch>>
  BY DEF OpenStable
<1>3. AssetPool(b, q, epoch) /\ rate \in Nat /\ Moved(p, q, 0, 0, amount)
  BY <1>1, <1>2, AssetLent
<1> HIDE DEF q, rate
<1>4. /\ d \in SoundCdp /\ d.borrow_token = b /\ d.collateral_token = c
      /\ d.normalized_borrow = 0 /\ d.collateral_amount = dx_amount
      /\ LentBy(d) = amount /\ d.last_update_epoch <= epoch
  BY <1>1, <1>3 DEF NewCdp, SoundCdp, Cdp, LentBy
<1> HIDE DEF d
<1> QED
  BY <1>2, <1>3, <1>4, PositionOpened

\* A step that changes one position, of which dx_tokens are minted or burned.
PoolsMoved(id, d, dx_tokens) ==
    \A t \in Token :
        /\ AssetPool(t, pools'[t], epoch)
        /\ Moved(pools[t], pools'[t],
                 IF t = d.collateral_token THEN dx_tokens ELSE 0,
                 IF t = d.borrow_token THEN d.normalized_borrow - cdps[id].normalized_borrow ELSE 0,
                 IF t = d.borrow_token THEN LentBy(d) - LentBy(cdps[id]) ELSE 0)

VaultsMoved(id, d, dx_tokens) ==
    LET c == d.collateral_token
    IN  /\ collateral_vaults'[c] \in Nat /\ dx_wallets'[c] \in Nat
        /\ dx_wallets'[c] + collateral_vaults'[c]
             = dx_wallets[c] + collateral_vaults[c] + dx_tokens
        /\ CeilTo(d.collateral_amount, ShareUnit[c]) - CeilTo(cdps[id].collateral_amount, ShareUnit[c])
             <= collateral_vaults'[c] - collateral_vaults[c]
        /\ \A t \in Token \ {c} : /\ collateral_vaults'[t] = collateral_vaults[t]
                                  /\ dx_wallets'[t] = dx_wallets[t]

CdpMoved(id, d, dx_tokens) ==
    /\ d \in SoundCdp /\ dx_tokens \in Int
    /\ d.borrow_token = cdps[id].borrow_token /\ d.collateral_token = cdps[id].collateral_token
    /\ d.is_stable = cdps[id].is_stable /\ d.last_update_epoch <= epoch
    /\ cdps' = [cdps EXCEPT ![id] = d]
    /\ OverTokens(pools') /\ OverTokens(collateral_vaults') /\ OverTokens(dx_wallets')
    /\ PoolsMoved(id, d, dx_tokens) /\ VaultsMoved(id, d, dx_tokens)
    /\ Call /\ UNCHANGED <<close_factor_percent, transient_nfts, quote, epoch>>

LEMMA CdpMovedKeeps ==
    ASSUME ManagerInv, NEW id \in DOMAIN cdps, NEW d, NEW dx_tokens, CdpMoved(id, d, dx_tokens)
    PROVE  ManagerInv'
<1> DEFINE b == d.borrow_token
           c == d.collateral_token
           e == cdps[id]
           more == d.normalized_borrow - e.normalized_borrow
           lent_more == LentBy(d) - LentBy(e)
<1>1. /\ d \in SoundCdp /\ e \in SoundCdp /\ dx_tokens \in Int
      /\ b = e.borrow_token /\ c = e.collateral_token /\ d.is_stable = e.is_stable
      /\ cdps \in Seq(SoundCdp) /\ cdps' = [cdps EXCEPT ![id] = d]
  BY CdpAt DEF ManagerInv, Positions, CdpMoved
<1>2. /\ b \in Token /\ c \in Token /\ d.normalized_borrow \in Nat /\ e.normalized_borrow \in Nat
      /\ LentBy(d) \in Nat /\ LentBy(e) \in Nat
  BY <1>1, CdpFields
<1>3. \A t \in Token :
         /\ cdps' \in Seq(SoundCdp) /\ Len(cdps') = Len(cdps)
         /\ Owed(cdps', t) = IF b = t THEN Owed(cdps, t) - e.normalized_borrow + d.normalized_borrow
                             ELSE Owed(cdps, t)
         /\ Lent(cdps', t) = IF b = t THEN Lent(cdps, t) - LentBy(e) + LentBy(d)
                             ELSE Lent(cdps, t)
         /\ Held(cdps', t) = IF c = t THEN Held(cdps, t) - CeilTo(e.collateral_amount, ShareUnit[t])
                                             + CeilTo(d.collateral_amount, ShareUnit[t])
                             ELSE Held(cdps, t)
  <2>1. Replaced(cdps, id, d, cdps')
    BY <1>1 DEF Replaced
  <2> QED
    BY <2>1, CdpChanged
<1>4. Positions(cdps') /\ Dated(cdps', epoch)
  <2>1. Positions(cdps')
    BY <1>2, <1>3 DEF ManagerInv, Positions
  <2>2. DOMAIN cdps' = DOMAIN cdps /\ \A i \in DOMAIN cdps : cdps'[i] = d \/ cdps'[i] = cdps[i]
    BY <1>1
  <2>3. d.last_update_epoch <= epoch
    BY DEF CdpMoved
  <2> QED
    BY <2>1, <2>2, <2>3 DEF ManagerInv, Dated
<1>5. ASSUME NEW t \in Token
      PROVE  TokenBook(t, pools'[t], cdps', collateral_vaults'[t], dx_wallets'[t], epoch')
  <2> DEFINE dx == IF t = c THEN dx_tokens ELSE 0
             debt == IF t = b THEN more ELSE 0
             lent == IF t = b THEN lent_more ELSE 0
             v == collateral_vaults'[t]
             w == dx_wallets'[t]
  <2>1. TokenBook(t, pools[t], cdps, collateral_vaults[t], dx_wallets[t], epoch)
    BY BookFacts
  <2>2. /\ Owed(cdps, t) \in Int /\ Held(cdps, t) \in Int /\ Lent(cdps, t) \in Int
        /\ CeilTo(e.collateral_amount, ShareUnit[t]) \in Int
        /\ CeilTo(d.collateral_amount, ShareUnit[t]) \in Int
        /\ collateral_vaults[t] \in Nat /\ dx_wallets[t] \in Nat
        /\ Held(cdps, t) <= collateral_vaults[t]
    BY <1>1, BookFacts, CdpFields
  <2>3. /\ AssetPool(t, pools'[t], epoch) /\ Moved(pools[t], pools'[t], dx, debt, lent)
        /\ dx \in Int /\ debt \in Int /\ lent \in Int
    BY <1>1, <1>2 DEF CdpMoved, PoolsMoved
  <2>4. Owed(cdps', t) = Owed(cdps, t) + debt /\ Lent(cdps', t) = Lent(cdps, t) + lent
    <3> DEFINE o == Owed(cdps, t)
               l == Lent(cdps, t)
    <3>1. /\ Owed(cdps', t) = IF b = t THEN o - e.normalized_borrow + d.normalized_borrow ELSE o
          /\ Lent(cdps', t) = IF b = t THEN l - LentBy(e) + LentBy(d) ELSE l
          /\ o \in Int /\ l \in Int
      BY <1>3, <2>2
    <3> HIDE DEF o, l
    <3>2. Owed(cdps', t) = o + debt /\ Lent(cdps', t) = l + lent
      BY <1>2, <3>1
    <3> QED
      BY <3>2 DEF o, l
  <2>5. v \in Nat /\ w \in Nat /\ w + v = dx_wallets[t] + collateral_vaults[t] + dx /\ Held(cdps', t) <= v
    <3>1. CASE t = c
      <4>1. /\ v \in Nat /\ w \in Nat
            /\ w + v = dx_wallets[t] + collateral_vaults[t] + dx
            /\ CeilTo(d.collateral_amount, ShareUnit[t]) - CeilTo(e.collateral_amount, ShareUnit[t])
                 <= v - collateral_vaults[t]
        BY <3>1 DEF CdpMoved, VaultsMoved
      <4>2. Held(cdps', t) = Held(cdps, t) - CeilTo(e.collateral_amount, ShareUnit[t])
                                + CeilTo(d.collateral_amount, ShareUnit[t])
        BY <1>3, <3>1
      <4> HIDE DEF v, w, dx
      <4> QED
        BY <2>2, <4>1, <4>2
    <3>2. CASE t # c
      <4>1. v = collateral_vaults[t] /\ w = dx_wallets[t] /\ dx = 0
        BY <3>2 DEF CdpMoved, VaultsMoved
      <4>2. Held(cdps', t) = Held(cdps, t)
        BY <1>3, <3>2
      <4> HIDE DEF v, w, dx
      <4> QED
        BY <2>2, <4>1, <4>2
    <3> QED
      BY <3>1, <3>2
  <2>6. cdps' \in Seq(SoundCdp)
    BY <1>4 DEF Positions
  <2> HIDE DEF v, w, dx, debt, lent
  <2>7. TokenBook(t, pools'[t], cdps', v, w, epoch)
    <3>1. cdps \in Seq(SoundCdp)
      BY <1>1
    <3> QED
      BY ONLY t \in Token, <2>1, <2>3, <2>4, <2>5, <2>6, <3>1, TokenBookMoved
  <2>8. epoch' = epoch
    BY DEF CdpMoved
  <2> QED
    BY <2>7, <2>8 DEF v, w
<1>6. calls' \in 0 .. MaxCalls
  BY CallCounted DEF CdpMoved
<1> QED
  BY <1>4, <1>5, <1>6 DEF ManagerInv, CdpMoved

\* What holds of the position a step is about.
LEMMA CdpInv ==
    ASSUME ManagerInv, NEW id \in DOMAIN cdps
    PROVE  LET d == cdps[id]
               b == d.borrow_token
               c == d.collateral_token
           IN  /\ d \in SoundCdp /\ b \in Token /\ c \in Token
               /\ epoch \in Nat /\ d.last_update_epoch <= epoch
               /\ AssetPool(b, pools[b], epoch) /\ AssetPool(c, pools[c], epoch)
               /\ collateral_vaults[c] \in Nat /\ dx_wallets[c] \in Nat
               /\ pools[c].share_supply = dx_wallets[c] + collateral_vaults[c]
               /\ ~ d.is_stable => d.normalized_borrow <= pools[b].variable_loan_share_quantity
<1>1. cdps \in Seq(SoundCdp) /\ cdps[id].last_update_epoch <= epoch
  BY DEF ManagerInv, Positions, Dated
<1> DEFINE d == cdps[id]
<1>2. d \in SoundCdp /\ (~ d.is_stable => d.normalized_borrow <= Owed(cdps, d.borrow_token))
  BY <1>1, CdpAt, SharesOwed
<1> HIDE DEF d
<1>3. d.borrow_token \in Token /\ d.collateral_token \in Token
  BY <1>2, CdpFields
<1>4. \A t \in Token : TokenBook(t, pools[t], cdps, collateral_vaults[t], dx_wallets[t], epoch)
  BY DEF ManagerInv
<1> QED
  BY <1>1, <1>2, <1>3, <1>4, InvNumbers DEF TokenBook, d

LEMMA OnePoolMoved ==
    ASSUME ManagerInv, NEW x \in Token, NEW q, Updated(pools, pools', x, q), AssetPool(x, q, epoch),
           NEW id, NEW d, NEW dx_tokens, NEW debt_shares, NEW lent,
           debt_shares = d.normalized_borrow - cdps[id].normalized_borrow,
           lent = LentBy(d) - LentBy(cdps[id]),
           Moved(pools[x], q, dx_tokens, debt_shares, lent),
           dx_tokens = 0 \/ x = d.collateral_token,
           (debt_shares = 0 /\ lent = 0) \/ x = d.borrow_token
    PROVE  PoolsMoved(id, d, dx_tokens)
<1> SUFFICES ASSUME NEW t \in Token
             PROVE  /\ AssetPool(t, pools'[t], epoch)
                    /\ Moved(pools[t], pools'[t],
                             IF t = d.collateral_token THEN dx_tokens ELSE 0,
                             IF t = d.borrow_token THEN debt_shares ELSE 0,
                             IF t = d.borrow_token THEN lent ELSE 0)
  BY DEF PoolsMoved
<1>1. CASE t = x
  <2>1. /\ pools'[t] = q
        /\ (IF t = d.collateral_token THEN dx_tokens ELSE 0) = dx_tokens
        /\ (IF t = d.borrow_token THEN debt_shares ELSE 0) = debt_shares
        /\ (IF t = d.borrow_token THEN lent ELSE 0) = lent
    BY <1>1 DEF Updated
  <2> QED
    BY <1>1, <2>1
<1>2. CASE t # x
  <2>1. /\ pools'[t] = pools[t]
        /\ (IF t = d.collateral_token THEN dx_tokens ELSE 0) = 0
        /\ (IF t = d.borrow_token THEN debt_shares ELSE 0) = 0
        /\ (IF t = d.borrow_token THEN lent ELSE 0) = 0
    BY <1>2 DEF Updated
  <2>2. AssetPool(t, pools[t], epoch)
    BY DEF ManagerInv, TokenBook
  <2> QED
    BY <2>1, <2>2, NotMoved
<1> QED
  BY <1>1, <1>2

LEMMA VaultsStay ==
    ASSUME ManagerInv, NEW id \in DOMAIN cdps, NEW d,
           d.collateral_token = cdps[id].collateral_token,
           d.collateral_amount = cdps[id].collateral_amount,
           UNCHANGED <<collateral_vaults, dx_wallets>>
    PROVE  VaultsMoved(id, d, 0)
<1> DEFINE c == d.collateral_token
           e == cdps[id]
<1>1. /\ c \in Token /\ e \in SoundCdp
      /\ collateral_vaults[c] \in Nat /\ dx_wallets[c] \in Nat
  BY CdpInv
<1>2. CeilTo(e.collateral_amount, ShareUnit[c]) \in Int
  BY <1>1, CdpFields
<1> QED
  BY <1>1, <1>2 DEF VaultsMoved

\* d is the position e with the same terms: its tokens and its kind.
SameTerms(e, d) ==
    /\ d.borrow_token = e.borrow_token /\ d.collateral_token = e.collateral_token
    /\ d.is_stable = e.is_stable

\* d is the position e once it has borrowed or received collateral.
Extended(e, d, borrowed, interest, collateral, shares) ==
    /\ d \in SoundCdp /\ SameTerms(e, d)
    /\ d.total_borrow = e.total_borrow + borrowed /\ d.total_repay = e.total_repay
    /\ d.normalized_borrow = e.normalized_borrow + shares
    /\ d.borrow_amount = e.borrow_amount + borrowed + interest
    /\ d.collateral_amount = e.collateral_amount + collateral
    /\ d.last_update_epoch <= epoch
    /\ e.is_stable => d.last_update_epoch = epoch

LEMMA ExtendedCdp ==
    ASSUME NEW e \in SoundCdp, epoch \in Nat, e.last_update_epoch <= epoch,
           NEW borrowed \in Nat, NEW interest \in Nat, NEW collateral \in Nat,
           NEW shares \in Nat, NEW rate \in Nat, e.is_stable => shares = 0
    PROVE  Extended(e, UpdateCdpData(e, borrowed, interest, collateral, shares, rate),
                    borrowed, interest, collateral, shares)
<1> DEFINE d == UpdateCdpData(e, borrowed, interest, collateral, shares, rate)
           new_rate == IF e.is_stable THEN rate ELSE e.stable_rate
           since == IF e.is_stable THEN epoch ELSE e.last_update_epoch
<1>1. e \in Cdp /\ (e.is_stable => StableBorrowing /\ e.normalized_borrow = 0)
  BY DEF SoundCdp
<1>2. d = [borrow_token |-> e.borrow_token, collateral_token |-> e.collateral_token,
           is_stable |-> e.is_stable,
           total_borrow |-> e.total_borrow + borrowed, total_repay |-> e.total_repay,
           normalized_borrow |-> e.normalized_borrow + shares,
           borrow_amount |-> e.borrow_amount + borrowed + interest,
           collateral_amount |-> e.collateral_amount + collateral,
           last_update_epoch |-> since, stable_rate |-> new_rate]
  <2>1. d = [e EXCEPT !.total_borrow = @ + borrowed,
                      !.borrow_amount = @ + borrowed + interest,
                      !.normalized_borrow = @ + shares,
                      !.collateral_amount = @ + collateral,
                      !.stable_rate = new_rate, !.last_update_epoch = since]
    BY Zenon DEF UpdateCdpData
  <2>2. e = [borrow_token |-> e.borrow_token, collateral_token |-> e.collateral_token,
             is_stable |-> e.is_stable,
             total_borrow |-> e.total_borrow, total_repay |-> e.total_repay,
             normalized_borrow |-> e.normalized_borrow, borrow_amount |-> e.borrow_amount,
             collateral_amount |-> e.collateral_amount,
             last_update_epoch |-> e.last_update_epoch, stable_rate |-> e.stable_rate]
    BY <1>1 DEF Cdp
  <2> HIDE DEF new_rate, since, d
  <2> QED
    BY <2>1, <2>2
<1>3. /\ e.borrow_token \in Token /\ e.collateral_token \in Token /\ e.is_stable \in BOOLEAN
      /\ (e.total_borrow + borrowed) \in Nat /\ e.total_repay \in Nat
      /\ (e.normalized_borrow + shares) \in Nat
      /\ (e.borrow_amount + borrowed + interest) \in Nat
      /\ (e.collateral_amount + collateral) \in Int
      /\ since \in Nat /\ new_rate \in Nat
      /\ since <= epoch /\ (e.is_stable => since = epoch)
      /\ (e.is_stable => e.normalized_borrow + shares = 0)
  BY <1>1 DEF Cdp
<1> HIDE DEF d, since, new_rate
<1>4. d \in Cdp /\ (d.is_stable => StableBorrowing /\ d.normalized_borrow = 0)
  BY <1>1, <1>2, <1>3 DEF Cdp
<1>5. /\ SameTerms(e, d)
      /\ d.total_borrow = e.total_borrow + borrowed /\ d.total_repay = e.total_repay
      /\ d.normalized_borrow = e.normalized_borrow + shares
      /\ d.borrow_amount = e.borrow_amount + borrowed + interest
      /\ d.collateral_amount = e.collateral_amount + collateral
      /\ d.last_update_epoch = since
  BY <1>2 DEF SameTerms
<1> QED
  BY <1>3, <1>4, <1>5 DEF SoundCdp, Extended, d

\* A payment: of a stable position, part of the loan or, when negative, interest that
\* joins it; of a variable one, debt shares.
LEMMA RepaidCdp ==
    ASSUME NEW e \in SoundCdp, epoch \in Nat, e.last_update_epoch <= epoch,
           NEW paid \in Nat, NEW loan \in Int, NEW shares \in Nat,
           IF e.is_stable THEN loan <= e.borrow_amount /\ shares = 0
           ELSE loan = 0 /\ shares <= e.normalized_borrow
    PROVE  LET d == UpdateCdpAfterRepay(e, paid, loan, shares)
           IN  /\ d \in SoundCdp /\ SameTerms(e, d)
               /\ d.total_borrow = e.total_borrow /\ d.total_repay = e.total_repay + paid
               /\ d.normalized_borrow = e.normalized_borrow - shares
               /\ d.borrow_amount = e.borrow_amount - loan
               /\ d.collateral_amount = e.collateral_amount
               /\ d.last_update_epoch <= epoch
               /\ loan # 0 => d.last_update_epoch = epoch
               /\ loan = 0 => d.last_update_epoch = e.last_update_epoch
                               /\ d.stable_rate = e.stable_rate
<1> DEFINE d == UpdateCdpAfterRepay(e, paid, loan, shares)
           changed == e.is_stable /\ loan # 0
           left == IF e.is_stable THEN e.normalized_borrow ELSE e.normalized_borrow - shares
           owed == IF changed THEN e.borrow_amount - loan ELSE e.borrow_amount
           rate == IF changed /\ e.borrow_amount = loan THEN 0 ELSE e.stable_rate
           since == IF changed THEN epoch ELSE e.last_update_epoch
<1>1. e \in Cdp /\ (e.is_stable => StableBorrowing /\ e.normalized_borrow = 0)
  BY DEF SoundCdp
<1>2. d = [borrow_token |-> e.borrow_token, collateral_token |-> e.collateral_token,
           is_stable |-> e.is_stable,
           total_borrow |-> e.total_borrow, total_repay |-> e.total_repay + paid,
           normalized_borrow |-> left, borrow_amount |-> owed,
           collateral_amount |-> e.collateral_amount,
           last_update_epoch |-> since, stable_rate |-> rate]
  <2>1. d = [e EXCEPT !.total_repay = @ + paid, !.normalized_borrow = left,
                      !.borrow_amount = owed, !.stable_rate = rate,
                      !.last_update_epoch = since]
    BY Zenon DEF UpdateCdpAfterRepay
  <2>2. e = [borrow_token |-> e.borrow_token, collateral_token |-> e.collateral_token,
             is_stable |-> e.is_stable,
             total_borrow |-> e.total_borrow, total_repay |-> e.total_repay,
             normalized_borrow |-> e.normalized_borrow, borrow_amount |-> e.borrow_amount,
             collateral_amount |-> e.collateral_amount,
             last_update_epoch |-> e.last_update_epoch, stable_rate |-> e.stable_rate]
    BY <1>1 DEF Cdp
  <2> HIDE DEF changed, left, owed, rate, since, d
  <2> QED
    BY <2>1, <2>2
<1>3. /\ e.borrow_token \in Token /\ e.collateral_token \in Token /\ e.is_stable \in BOOLEAN
      /\ e.total_borrow \in Nat /\ (e.total_repay + paid) \in Nat
      /\ e.normalized_borrow \in Nat /\ e.borrow_amount \in Nat /\ e.collateral_amount \in Int
      /\ e.last_update_epoch \in Nat /\ e.stable_rate \in Nat
  BY <1>1 DEF Cdp
<1>4. /\ left \in Nat /\ left = e.normalized_borrow - shares /\ (e.is_stable => left = 0)
      /\ owed \in Nat /\ owed = e.borrow_amount - loan
      /\ since \in Nat /\ since <= epoch /\ rate \in Nat
      /\ loan # 0 => since = epoch
      /\ loan = 0 => since = e.last_update_epoch /\ rate = e.stable_rate
  BY <1>1, <1>3
<1> HIDE DEF d, changed, left, owed, rate, since
<1>5. d \in Cdp /\ (d.is_stable => StableBorrowing /\ d.normalized_borrow = 0)
  BY <1>1, <1>2, <1>3, <1>4 DEF Cdp
<1>6. /\ SameTerms(e, d)
      /\ d.total_borrow = e.total_borrow /\ d.total_repay = e.total_repay + paid
      /\ d.normalized_borrow = left /\ d.borrow_amount = owed
      /\ d.collateral_amount = e.collateral_amount
      /\ d.last_update_epoch = since /\ d.stable_rate = rate
  BY <1>2 DEF SameTerms
<1> QED
  BY <1>4, <1>5, <1>6 DEF SoundCdp, d

LEMMA ReleasedCdp ==
    ASSUME NEW e \in SoundCdp, NEW n \in Int
    PROVE  LET d == [e EXCEPT !.collateral_amount = @ - n]
           IN  /\ d \in SoundCdp /\ SameTerms(e, d)
               /\ d.total_borrow = e.total_borrow /\ d.total_repay = e.total_repay
               /\ d.normalized_borrow = e.normalized_borrow
               /\ d.borrow_amount = e.borrow_amount
               /\ d.collateral_amount = e.collateral_amount - n
               /\ d.last_update_epoch = e.last_update_epoch /\ d.stable_rate = e.stable_rate
<1> DEFINE less == e.collateral_amount - n
           d == [e EXCEPT !.collateral_amount = less]
<1>1. e \in Cdp /\ (e.is_stable => StableBorrowing /\ e.normalized_borrow = 0)
  BY DEF SoundCdp
<1>2. less \in Int
  BY <1>1 DEF Cdp
<1> HIDE DEF less
<1>3. /\ d \in Cdp /\ SameTerms(e, d) /\ d.collateral_amount = less
      /\ d.total_borrow = e.total_borrow /\ d.total_repay = e.total_repay
      /\ d.normalized_borrow = e.normalized_borrow /\ d.borrow_amount = e.borrow_amount
      /\ d.last_update_epoch = e.last_update_epoch /\ d.stable_rate = e.stable_rate
  BY <1>1, <1>2 DEF Cdp, SameTerms
<1> HIDE DEF d
<1>4. d \in SoundCdp
  BY <1>1, <1>3 DEF SoundCdp, SameTerms
<1> QED
  BY <1>3, <1>4 DEF d, less

\* What has been borrowed at a stable rate only grows.
LEMMA StableDebtGrows ==
    ASSUME NEW d \in SoundCdp, epoch \in Nat, d.last_update_epoch <= epoch
    PROVE  StableDebt(d) \in Nat /\ d.borrow_amount <= StableDebt(d)
           /\ StableDebt(d) - d.borrow_amount \in Nat
<1> DEFINE grown == CalcCompoundInterest(d.borrow_amount, d.stable_rate, epoch - d.last_update_epoch)
<1>1. /\ d.borrow_amount \in Nat /\ d.stable_rate \in Nat /\ d.last_update_epoch \in Nat
      /\ epoch - d.last_update_epoch \in Nat
  BY CdpFields
<1>2. grown \in Nat /\ d.borrow_amount <= grown
  BY <1>1, CompoundInterestGrows
<1> HIDE DEF grown
<1>3. StableDebt(d) = d.borrow_amount + (grown - d.borrow_amount)
  BY DEF StableDebt, GetStableInterest, grown
<1> QED
  BY <1>1, <1>2, <1>3

\* A step that changes the debt of a position and the pool that lends it.
LEMMA DebtMoved ==
    ASSUME ManagerInv, NEW id \in DOMAIN cdps, NEW d \in SoundCdp, SameTerms(cdps[id], d),
           d.collateral_amount = cdps[id].collateral_amount, d.last_update_epoch <= epoch,
           NEW q, AssetPool(d.borrow_token, q, epoch),
           Moved(pools[d.borrow_token], q, 0, d.normalized_borrow - cdps[id].normalized_borrow,
                 LentBy(d) - LentBy(cdps[id])),
           pools' = [pools EXCEPT ![d.borrow_token] = q], cdps' = [cdps EXCEPT ![id] = d],
           Call, UNCHANGED <<collateral_vaults, dx_wallets>>,
           UNCHANGED <<close_factor_percent, transient_nfts, quote, epoch>>
    PROVE  ManagerInv'
<1> DEFINE b == d.borrow_token
<1>1. b \in Token
  BY CdpFields
<1>2. Updated(pools, pools', b, q)
  BY <1>1, OverTokensChanged DEF ManagerInv
<1>3. PoolsMoved(id, d, 0)
  BY <1>1, <1>2, OnePoolMoved
<1>4. VaultsMoved(id, d, 0)
  BY VaultsStay DEF SameTerms
<1>5. CdpMoved(id, d, 0)
  BY <1>2, <1>3, <1>4 DEF CdpMoved, Updated, ManagerInv, SameTerms
<1> QED
  BY <1>5, CdpMovedKeeps

LEMMA ExtendVariableKeeps ==
    ASSUME ManagerInv, NEW id \in DOMAIN cdps, NEW amount \in Loans, ExtendVariable(id, amount)
    PROVE  ManagerInv'
<1> DEFINE e == cdps[id]
           b == e.borrow_token
           p == pools[b]
           q == BorrowVariable(p, epoch, amount)
           shares == VariableShare(UpdateIndex(p, epoch), amount)
           d == UpdateCdpData(e, amount, 0, 0, shares, 0)
<1>1. /\ e \in SoundCdp /\ b \in Token /\ epoch \in Nat /\ amount \in Nat
      /\ AssetPool(b, p, epoch) /\ e.last_update_epoch <= epoch
      /\ e.normalized_borrow \in Nat /\ e.collateral_amount \in Int
  BY CdpInv, CdpFields, CdpManagerAssumption
<1>2. /\ pools' = [pools EXCEPT ![b] = q] /\ cdps' = [cdps EXCEPT ![id] = d]
      /\ CanBorrowVariable(p, epoch, amount) /\ ~ e.is_stable
      /\ Call /\ UNCHANGED <<collateral_vaults, dx_wallets>>
      /\ UNCHANGED <<close_factor_percent, transient_nfts, quote, epoch>>
  BY DEF ExtendVariable
<1>3. AssetPool(b, q, epoch) /\ shares \in Nat /\ Moved(p, q, 0, shares, 0)
  BY <1>1, <1>2, AssetBorrowed
<1> HIDE DEF q, shares
<1>4. /\ d \in SoundCdp /\ SameTerms(e, d) /\ d.last_update_epoch <= epoch
      /\ d.normalized_borrow = e.normalized_borrow + shares
      /\ d.collateral_amount = e.collateral_amount + 0
  <2>1. /\ e \in SoundCdp /\ epoch \in Nat /\ e.last_update_epoch <= epoch /\ amount \in Nat
        /\ 0 \in Nat /\ shares \in Nat /\ (e.is_stable => shares = 0)
    BY <1>1, <1>2, <1>3
  <2>2. Extended(e, d, amount, 0, 0, shares)
    BY ONLY <2>1, ExtendedCdp
  <2> HIDE DEF d
  <2> QED
    BY <2>2 DEF Extended
<1> HIDE DEF d
<1>5. /\ d.normalized_borrow - e.normalized_borrow = shares
      /\ LentBy(d) - LentBy(e) = 0 /\ d.borrow_token = b
      /\ d.collateral_amount = e.collateral_amount
  BY <1>1, <1>2, <1>3, <1>4 DEF LentBy, SameTerms
<1> QED
  BY <1>2, <1>3, <1>4, <1>5, DebtMoved

\* The interest so far joins the loan in the position, not in the pool.
LEMMA ExtendStableKeeps ==
    ASSUME ManagerInv, NEW id \in DOMAIN cdps, NEW amount \in Loans, ExtendStable(id, amount)
    PROVE  ManagerInv'
<1> DEFINE e == cdps[id]
           b == e.borrow_token
           p == pools[b]
           interest == StableDebt(e) - e.borrow_amount
           rate == PoolInterestRate(p, epoch, amount).stable
           average == GetWeightRate(StableDebt(e), e.stable_rate, amount, rate)
           q == BorrowStable(p, epoch, amount, rate)
           d == UpdateCdpData(e, amount, interest, 0, 0, average)
<1>1. /\ e \in SoundCdp /\ b \in Token /\ epoch \in Nat /\ amount \in Nat
      /\ AssetPool(b, p, epoch) /\ e.last_update_epoch <= epoch /\ e.last_update_epoch \in Nat
      /\ e.normalized_borrow \in Nat /\ e.collateral_amount \in Int
      /\ e.borrow_amount \in Nat /\ e.stable_rate \in Nat
  BY CdpInv, CdpFields, CdpManagerAssumption
<1>2. /\ pools' = [pools EXCEPT ![b] = q] /\ cdps' = [cdps EXCEPT ![id] = d]
      /\ CanBorrowStable(p, epoch, amount) /\ e.is_stable /\ StableDebt(e) + amount # 0
      /\ Call /\ UNCHANGED <<collateral_vaults, dx_wallets>>
      /\ UNCHANGED <<close_factor_percent, transient_nfts, quote, epoch>>
  BY DEF ExtendStable
<1>3. AssetPool(b, q, epoch) /\ rate \in Nat /\ Moved(p, q, 0, 0, amount)
  BY <1>1, <1>2, AssetLent
<1> HIDE DEF q, rate
<1>4. StableDebt(e) \in Nat /\ interest \in Nat
  BY <1>1, StableDebtGrows
<1>5. average \in Nat
  BY <1>1, <1>2, <1>3, <1>4, WeightRateNat
<1> HIDE DEF interest, average
<1>6. /\ d \in SoundCdp /\ SameTerms(e, d) /\ d.last_update_epoch <= epoch
      /\ d.normalized_borrow = e.normalized_borrow
      /\ d.borrow_amount = e.borrow_amount + amount + interest
      /\ d.collateral_amount = e.collateral_amount
  <2>1. /\ e \in SoundCdp /\ epoch \in Nat /\ e.last_update_epoch <= epoch
        /\ amount \in Nat /\ interest \in Nat /\ average \in Nat
        /\ 0 \in Nat /\ (e.is_stable => 0 = 0)
    BY <1>1, <1>4, <1>5
  <2>2. Extended(e, d, amount, interest, 0, 0)
    BY ONLY <2>1, ExtendedCdp
  <2> HIDE DEF d
  <2> QED
    BY <1>1, <2>2 DEF Extended
<1> HIDE DEF d
<1>7. /\ d.normalized_borrow - e.normalized_borrow = 0
      /\ LentBy(d) - LentBy(e) = amount + interest /\ d.borrow_token = b
      /\ d.collateral_amount = e.collateral_amount
  BY <1>1, <1>2, <1>4, <1>6 DEF LentBy, SameTerms
<1>8. Moved(p, q, 0, 0, amount + interest)
  <2>1. p.stable_loan_amount \in Nat /\ q.stable_loan_amount \in Nat
    BY <1>1, <1>3 DEF AssetPool, PoolSound
  <2> QED
    BY <1>1, <1>3, <1>4, <2>1 DEF Moved
<1> QED
  BY <1>2, <1>3, <1>6, <1>7, <1>8, DebtMoved

\* A payment of a position, as its pool takes it.
LEMMA PositionPaid ==
    ASSUME ManagerInv, NEW id \in DOMAIN cdps, NEW bucket \in Nat, NEW limit \in Limits,
           CanPay(cdps[id], bucket, limit),
           cdps[id].is_stable =>
              PoolPaid(cdps[id], bucket, limit).stable_loan_interest_rate >= 0
    PROVE  LET e == cdps[id]
               b == e.borrow_token
               q == PoolPaid(e, bucket, limit)
               d == CdpPaid(e, bucket, limit)
           IN  /\ AssetPool(b, q, epoch) /\ d \in SoundCdp /\ SameTerms(e, d)
               /\ PaySplit(e, bucket, limit).paid \in Nat
               /\ d.total_borrow = e.total_borrow
               /\ d.total_repay = e.total_repay + PaySplit(e, bucket, limit).paid
               /\ d.collateral_amount = e.collateral_amount /\ d.last_update_epoch <= epoch
               /\ Moved(pools[b], q, 0, d.normalized_borrow - e.normalized_borrow,
                        LentBy(d) - LentBy(e))
<1> DEFINE e == cdps[id]
           b == e.borrow_token
           p == pools[b]
           q == PoolPaid(e, bucket, limit)
           s == PaySplit(e, bucket, limit)
           d == CdpPaid(e, bucket, limit)
<1>1. /\ e \in SoundCdp /\ b \in Token /\ epoch \in Nat /\ AssetPool(b, p, epoch)
      /\ e.last_update_epoch <= epoch /\ e.last_update_epoch \in Nat
      /\ e.normalized_borrow \in Nat /\ e.borrow_amount \in Nat /\ e.stable_rate \in Nat
      /\ ~ e.is_stable => e.normalized_borrow <= p.variable_loan_share_quantity
  BY CdpInv, CdpFields
<1>2. CASE e.is_stable
  <2> DEFINE interest == GetStableInterest(epoch, e.borrow_amount, e.last_update_epoch, e.stable_rate)
  <2>1. /\ q = RepayStable(p, epoch, bucket, e.borrow_amount, e.stable_rate, e.last_update_epoch, limit)
        /\ s = RepayStableSplit(p, epoch, bucket, e.borrow_amount, e.stable_rate,
                                e.last_update_epoch, limit)
        /\ d = UpdateCdpAfterRepay(e, s.paid, s.in_borrow, 0)
        /\ CanRepayStable(p, epoch, bucket, e.borrow_amount, e.stable_rate,
                          e.last_update_epoch, limit)
        /\ q.stable_loan_interest_rate >= 0
    BY <1>2 DEF PoolPaid, PaySplit, CdpPaid, CdpAfter, CanPay
  <2> HIDE DEF q, s, interest
  <2>2. /\ AssetPool(b, q, epoch) /\ Moved(p, q, 0, 0, -s.in_borrow)
        /\ StableSplitSound(s, interest, bucket, e.borrow_amount, limit)
    BY <1>1, <2>1, AssetStableRepaid, SMTT(40) DEF interest
  <2>3. s.paid \in Nat /\ s.in_borrow \in Int /\ s.in_borrow <= e.borrow_amount
    BY <2>2 DEF StableSplitSound
  <2>4. /\ d \in SoundCdp /\ SameTerms(e, d)
        /\ d.total_borrow = e.total_borrow /\ d.total_repay = e.total_repay + s.paid
        /\ d.normalized_borrow = e.normalized_borrow - 0
        /\ d.borrow_amount = e.borrow_amount - s.in_borrow
        /\ d.collateral_amount = e.collateral_amount /\ d.last_update_epoch <= epoch
    BY <1>1, <1>2, <2>1, <2>3, RepaidCdp
  <2> HIDE DEF d
  <2>5. d.normalized_borrow - e.normalized_borrow = 0 /\ LentBy(d) - LentBy(e) = -s.in_borrow
    BY <1>1, <1>2, <2>3, <2>4 DEF LentBy, SameTerms
  <2> QED
    BY <2>2, <2>3, <2>4, <2>5 DEF q, s, d
<1>3. CASE ~ e.is_stable
  <2>1. /\ q = RepayVariable(p, epoch, bucket, e.normalized_borrow, limit)
        /\ s = RepayVariableSplit(UpdateIndex(p, epoch), bucket, e.normalized_borrow, limit)
        /\ d = UpdateCdpAfterRepay(e, s.paid, 0, s.normalized)
        /\ CanRepayVariable(p, epoch, bucket, e.normalized_borrow, limit)
    BY <1>3 DEF PoolPaid, PaySplit, CdpPaid, CdpAfter, CanPay
  <2> HIDE DEF q, s
  <2>2. /\ AssetPool(b, q, epoch) /\ s.paid \in Nat /\ s.normalized \in Nat
        /\ s.normalized <= e.normalized_borrow /\ Moved(p, q, 0, -s.normalized, 0)
    BY <1>1, <1>3, <2>1, AssetRepaid
  <2>3. /\ d \in SoundCdp /\ SameTerms(e, d)
        /\ d.total_borrow = e.total_borrow /\ d.total_repay = e.total_repay + s.paid
        /\ d.normalized_borrow = e.normalized_borrow - s.normalized
        /\ d.borrow_amount = e.borrow_amount - 0
        /\ d.collateral_amount = e.collateral_amount /\ d.last_update_epoch <= epoch
    <3>1. /\ e \in SoundCdp /\ epoch \in Nat /\ e.last_update_epoch <= epoch
          /\ s.paid \in Nat /\ 0 \in Int /\ s.normalized \in Nat
          /\ IF e.is_stable THEN 0 <= e.borrow_amount /\ s.normalized = 0
             ELSE 0 = 0 /\ s.normalized <= e.normalized_borrow
      BY <1>1, <1>3, <2>2
    <3>2. d = UpdateCdpAfterRepay(e, s.paid, 0, s.normalized)
      BY <2>1
    <3> HIDE DEF d
    <3> QED
      BY ONLY <3>1, <3>2, RepaidCdp
  <2> HIDE DEF d
  <2>4. d.normalized_borrow - e.normalized_borrow = -s.normalized /\ LentBy(d) - LentBy(e) = 0
    BY <1>1, <1>3, <2>2, <2>3 DEF LentBy, SameTerms
  <2> QED
    BY <2>2, <2>3, <2>4 DEF q, s, d
<1> QED
  BY <1>2, <1>3

LEMMA RepayKeeps ==
    ASSUME ManagerInv, StableBorrowing => RatesKept',
           NEW id \in DOMAIN cdps, NEW bucket \in Repayments, Repay(id, bucket)
    PROVE  ManagerInv'
<1> DEFINE e == cdps[id]
           b == e.borrow_token
           p == pools[b]
           q == PoolPaid(e, bucket, {})
           d == CdpPaid(e, bucket, {})
<1>1. e \in SoundCdp /\ b \in Token /\ bucket \in Nat /\ {} \in Limits
  BY CdpInv, CdpManagerAssumption DEF Limits
<1>2. /\ pools' = [pools EXCEPT ![b] = q] /\ cdps' = [cdps EXCEPT ![id] = d]
      /\ CanPay(e, bucket, {})
      /\ Call /\ UNCHANGED <<collateral_vaults, dx_wallets>>
      /\ UNCHANGED <<close_factor_percent, transient_nfts, quote, epoch>>
  BY DEF Repay
<1> HIDE DEF q, d
<1>3. e.is_stable => q.stable_loan_interest_rate >= 0
  <2>1. Updated(pools, pools', b, q)
    BY <1>1, <1>2, OverTokensChanged DEF ManagerInv
  <2>2. pools'[b] = q
    BY <2>1 DEF Updated
  <2> QED
    BY <1>1, <2>2 DEF SoundCdp, RatesKept
<1>4. /\ AssetPool(b, q, epoch) /\ d \in SoundCdp /\ SameTerms(e, d)
      /\ d.collateral_amount = e.collateral_amount /\ d.last_update_epoch <= epoch
      /\ Moved(p, q, 0, d.normalized_borrow - e.normalized_borrow, LentBy(d) - LentBy(e))
  BY <1>1, <1>2, <1>3, PositionPaid DEF q, d
<1>5. d.borrow_token = b
  BY <1>4 DEF SameTerms
<1> QED
  BY <1>2, <1>4, <1>5, DebtMoved

\* Dx tokens that join the collateral of a position, from an account or minted.
LEMMA CollateralAdded ==
    ASSUME ManagerInv, NEW id \in DOMAIN cdps, NEW added \in Nat, NEW minted \in Nat,
           NEW c, c = cdps[id].collateral_token,
           \/ added \in Additions /\ minted = 0
           \/ minted = added /\ CeilTo(added, ShareUnit[c]) = added,
           added - minted <= dx_wallets[c],
           OverTokens(pools'), OverTokens(dx_wallets'),
           Updated(collateral_vaults, collateral_vaults', c, collateral_vaults[c] + added),
           Updated(dx_wallets, dx_wallets', c, dx_wallets[c] - (added - minted)),
           NEW q, Updated(pools, pools', c, q), AssetPool(c, q, epoch),
           Moved(pools[c], q, minted, 0, 0),
           cdps' = [cdps EXCEPT ![id] = UpdateCdpData(cdps[id], 0, 0, added, 0, 0)],
           Call, UNCHANGED <<close_factor_percent, transient_nfts, quote, epoch>>
    PROVE  ManagerInv'
<1> DEFINE e == cdps[id]
           d == UpdateCdpData(e, 0, 0, added, 0, 0)
<1>1. /\ e \in SoundCdp /\ c \in Token
      /\ collateral_vaults[c] \in Nat /\ dx_wallets[c] \in Nat
      /\ e.collateral_amount \in Int /\ e.normalized_borrow \in Nat
      /\ e.borrow_amount \in Nat /\ epoch \in Nat /\ e.last_update_epoch <= epoch
      /\ CeilTo(e.collateral_amount, ShareUnit[c]) \in Int
  BY CdpInv, CdpFields
<1>2. /\ d \in SoundCdp /\ SameTerms(e, d) /\ d.last_update_epoch <= epoch
      /\ d.collateral_token = c
      /\ d.normalized_borrow = e.normalized_borrow + 0
      /\ d.borrow_amount = e.borrow_amount + 0 + 0
      /\ d.collateral_amount = e.collateral_amount + added
  <2>1. /\ 0 \in Nat /\ e \in SoundCdp /\ epoch \in Nat /\ e.last_update_epoch <= epoch
        /\ (e.is_stable => 0 = 0)
    BY <1>1
  <2>2. Extended(e, d, 0, 0, added, 0)
    BY ONLY <2>1, added \in Nat, ExtendedCdp
  <2> HIDE DEF d
  <2> QED
    BY <2>2 DEF Extended, SameTerms
<1>3. cdps' = [cdps EXCEPT ![id] = d]
  OBVIOUS
<1> HIDE DEF d
<1>4. PoolsMoved(id, d, minted)
  <2>1. 0 = d.normalized_borrow - e.normalized_borrow /\ 0 = LentBy(d) - LentBy(e)
    BY <1>1, <1>2 DEF LentBy, SameTerms
  <2> QED
    BY <1>1, <1>2, <2>1, OnePoolMoved
<1>5. CeilTo(d.collateral_amount, ShareUnit[c])
        = CeilTo(e.collateral_amount, ShareUnit[c]) + added
  <2>1. CASE added \in Additions /\ minted = 0
    BY <1>1, <1>2, <2>1, BucketIsWhole
  <2>2. CASE minted = added /\ CeilTo(added, ShareUnit[c]) = added
    <3> DEFINE unit == ShareUnit[c]
               k == -((-added) \div unit)
    <3>1. unit \in Nat \ {0}
      BY <1>1, UnitsPositive
    <3> HIDE DEF unit
    <3>2. k \in Int /\ added = unit * k
      <4>1. (-added) \div unit \in Int
        BY <3>1, DivBounds
      <4>2. added = -(unit * ((-added) \div unit))
        BY <2>2 DEF CeilTo, FloorTo, unit
      <4> QED
        BY <3>1, <4>1, <4>2, SMTT(30)
    <3> HIDE DEF k
    <3>3. CeilTo(e.collateral_amount + unit * k, unit) = CeilTo(e.collateral_amount, unit) + unit * k
      BY <1>1, <3>1, <3>2, CeilToOfSum
    <3> QED
      BY <1>2, <3>2, <3>3 DEF unit
  <2> QED
    BY <2>1, <2>2
<1>6. VaultsMoved(id, d, minted)
  <2>1. /\ collateral_vaults'[c] = collateral_vaults[c] + added
        /\ dx_wallets'[c] = dx_wallets[c] - (added - minted)
        /\ \A t \in Token \ {c} : /\ collateral_vaults'[t] = collateral_vaults[t]
                                  /\ dx_wallets'[t] = dx_wallets[t]
    BY DEF Updated
  <2>2. /\ collateral_vaults'[c] \in Nat /\ dx_wallets'[c] \in Nat
        /\ dx_wallets'[c] + collateral_vaults'[c]
             = dx_wallets[c] + collateral_vaults[c] + minted
        /\ CeilTo(d.collateral_amount, ShareUnit[c]) - CeilTo(e.collateral_amount, ShareUnit[c])
             <= collateral_vaults'[c] - collateral_vaults[c]
    BY <1>1, <1>5, <2>1
  <2> QED
    BY <1>2, <2>1, <2>2 DEF VaultsMoved
<1>7. CdpMoved(id, d, minted)
  <2>1. OverTokens(collateral_vaults') /\ minted \in Int
    BY DEF Updated
  <2> QED
    BY <1>2, <1>3, <1>4, <1>6, <2>1 DEF CdpMoved, SameTerms
<1> QED
  BY <1>7, CdpMovedKeeps

LEMMA AddDxCollateralKeeps ==
    ASSUME ManagerInv, NEW id \in DOMAIN cdps, NEW added \in Additions, AddDxCollateral(id, added)
    PROVE  ManagerInv'
<1> DEFINE c == cdps[id].collateral_token
<1>1. /\ c \in Token /\ added \in Nat /\ dx_wallets[c] \in Nat
      /\ AssetPool(c, pools[c], epoch)
  BY CdpInv, CdpManagerAssumption
<1>2. /\ dx_wallets' = [dx_wallets EXCEPT ![c] = dx_wallets[c] - added]
      /\ collateral_vaults' = [collateral_vaults EXCEPT ![c] = collateral_vaults[c] + added]
      /\ cdps' = [cdps EXCEPT ![id] = UpdateCdpData(cdps[id], 0, 0, added, 0, 0)]
      /\ added <= dx_wallets[c] /\ Call
      /\ UNCHANGED pools /\ UNCHANGED <<close_factor_percent, transient_nfts, quote, epoch>>
  BY DEF AddDxCollateral
<1>3. added - 0 = added /\ 0 \in Nat
  BY <1>1
<1>4. /\ Updated(dx_wallets, dx_wallets', c, dx_wallets[c] - (added - 0))
      /\ Updated(collateral_vaults, collateral_vaults', c, collateral_vaults[c] + added)
  BY <1>1, <1>2, <1>3, OverTokensChanged DEF ManagerInv
<1>5. Updated(pools, pools', c, pools[c]) /\ Moved(pools[c], pools[c], 0, 0, 0)
  BY <1>1, <1>2, NotMoved DEF ManagerInv, Updated
<1>6. OverTokens(pools') /\ OverTokens(dx_wallets')
  BY <1>4, <1>5 DEF Updated
<1> HIDE DEF c
<1>7. c = cdps[id].collateral_token
  BY DEF c
<1> QED
  BY <1>1, <1>2, <1>3, <1>4, <1>5, <1>6, <1>7, CollateralAdded

LEMMA AddUnderlyingCollateralKeeps ==
    ASSUME ManagerInv, NEW id \in DOMAIN cdps, NEW amount \in Additions,
           AddUnderlyingCollateral(id, amount)
    PROVE  ManagerInv'
<1> DEFINE c == cdps[id].collateral_token
           p == pools[c]
           q == AddLiquity(p, epoch, amount)
           minted == MintAmount(UpdateIndex(p, epoch), amount)
<1>1. /\ c \in Token /\ amount \in Nat /\ dx_wallets[c] \in Nat /\ epoch \in Nat
      /\ AssetPool(c, p, epoch)
  BY CdpInv, CdpManagerAssumption
<1>2. /\ pools' = [pools EXCEPT ![c] = q]
      /\ collateral_vaults' = [collateral_vaults EXCEPT ![c] = collateral_vaults[c] + minted]
      /\ cdps' = [cdps EXCEPT ![id] = UpdateCdpData(cdps[id], 0, 0, minted, 0, 0)]
      /\ Call
      /\ UNCHANGED dx_wallets /\ UNCHANGED <<close_factor_percent, transient_nfts, quote, epoch>>
  BY DEF AddUnderlyingCollateral
<1>3. AssetPool(c, q, epoch) /\ minted \in Nat /\ Moved(p, q, minted, 0, 0)
  BY <1>1, AssetSupplied
<1>4. CeilTo(minted, ShareUnit[c]) = minted
  <2>0. AssetPool(c, UpdateIndex(p, epoch), epoch)
    BY <1>1, AssetUpdated
  <2>1. UpdateIndex(p, epoch).share_unit = ShareUnit[c] /\ ShareUnit[c] \in Nat \ {0}
    BY <1>1, <2>0, UnitsPositive DEF AssetPool
  <2> DEFINE unit == ShareUnit[c]
             x == DDiv(amount, UpdateIndex(p, epoch).deposit_index)
             k == x \div unit
  <2>2. x \in Int
    <3>1. /\ UpdateIndex(p, epoch).deposit_index \in Nat
          /\ ONE <= UpdateIndex(p, epoch).deposit_index /\ ONE \in Nat \ {0}
      BY <2>0, DecimalAssumption DEF AssetPool, PoolSound
    <3>2. UpdateIndex(p, epoch).deposit_index \in Nat \ {0}
      BY <3>1
    <3> QED
      BY <1>1, <3>2, DDivNat
  <2>3. minted = unit * k
    BY <2>1 DEF MintAmount, FloorTo
  <2> HIDE DEF x, unit, minted
  <2>4. k \in Int /\ unit \in Nat \ {0}
    BY <2>1, <2>2, DivBounds DEF unit
  <2> HIDE DEF k
  <2>5. CeilTo(0 + unit * k, unit) = CeilTo(0, unit) + unit * k
    BY ONLY <2>4, 0 \in Int, CeilToOfSum
  <2>6. CeilTo(0, unit) = 0
    BY <2>4, SMTT(30) DEF CeilTo, FloorTo
  <2>7. 0 + unit * k = minted
    BY <1>3, <2>3
  <2> QED
    BY <1>3, <2>3, <2>5, <2>6, <2>7 DEF unit
<1> HIDE DEF q, minted
<1>5. minted - minted = 0 /\ dx_wallets[c] - (minted - minted) = dx_wallets[c]
  BY <1>1, <1>3
<1>6. /\ Updated(pools, pools', c, q)
      /\ Updated(collateral_vaults, collateral_vaults', c, collateral_vaults[c] + minted)
  BY <1>1, <1>2, OverTokensChanged DEF ManagerInv
<1>7. Updated(dx_wallets, dx_wallets', c, dx_wallets[c] - (minted - minted))
  BY <1>2, <1>5 DEF ManagerInv, Updated
<1>8. OverTokens(pools') /\ OverTokens(dx_wallets') /\ minted - minted <= dx_wallets[c]
  BY <1>1, <1>5, <1>6, <1>7 DEF Updated
<1> HIDE DEF c
<1>9. c = cdps[id].collateral_token
  BY DEF c
<1> QED
  BY <1>2, <1>3, <1>4, <1>6, <1>7, <1>8, <1>9, CollateralAdded

\* What the position loses is rounded up, what leaves the vault is rounded down.
LEMMA WithdrawCollateralKeeps ==
    ASSUME ManagerInv, NEW id \in DOMAIN cdps, NEW amount \in Withdrawals,
           WithdrawCollateral(id, amount)
    PROVE  ManagerInv'
<1> DEFINE e == cdps[id]
           c == e.collateral_token
           p == pools[c]
           unit == ShareUnit[c]
           shares == DDiv(amount, CurrentDepositIndex(p, epoch))
           taken == FloorTo(shares, unit)
           q == RemoveLiquity(p, epoch, taken)
           d == [e EXCEPT !.collateral_amount = @ - CeilTo(shares, unit)]
<1>1. /\ e \in SoundCdp /\ c \in Token /\ amount \in Nat /\ epoch \in Nat
      /\ collateral_vaults[c] \in Nat /\ dx_wallets[c] \in Nat
      /\ AssetPool(c, p, epoch) /\ p.share_supply = dx_wallets[c] + collateral_vaults[c]
      /\ e.collateral_amount \in Int /\ e.normalized_borrow \in Nat
      /\ CeilTo(e.collateral_amount, unit) \in Int /\ unit \in Nat \ {0}
      /\ e.borrow_amount \in Nat /\ e.last_update_epoch <= epoch
  BY CdpInv, CdpFields, UnitsPositive, CdpManagerAssumption
<1>2. /\ pools' = [pools EXCEPT ![c] = q] /\ cdps' = [cdps EXCEPT ![id] = d]
      /\ collateral_vaults' = [collateral_vaults EXCEPT ![c] = collateral_vaults[c] - taken]
      /\ taken <= collateral_vaults[c] /\ CanRemoveLiquity(p, epoch, taken)
      /\ Call /\ UNCHANGED dx_wallets
      /\ UNCHANGED <<close_factor_percent, transient_nfts, quote, epoch>>
  BY DEF WithdrawCollateral
<1>3. shares \in Nat
  <2>1. CurrentDepositIndex(p, epoch) \in Nat /\ ONE <= CurrentDepositIndex(p, epoch)
        /\ ONE \in Nat \ {0}
    BY <1>1, AssetIndices, DecimalAssumption
  <2>2. CurrentDepositIndex(p, epoch) \in Nat \ {0}
    BY <2>1
  <2> QED
    BY <1>1, <2>2, DDivNat
<1> HIDE DEF shares, unit
<1>4. /\ taken \in Nat /\ taken <= CeilTo(shares, unit) /\ CeilTo(shares, unit) \in Int
  <2> HIDE DEF taken
  <2>1. shares \in Int /\ unit \in Nat \ {0}
    BY <1>1, <1>3
  <2>2. FloorTo(shares, unit) \in Nat
    BY <1>3, <2>1, FloorToBounds
  <2>3. FloorTo(shares, unit) <= CeilTo(shares, unit) /\ CeilTo(shares, unit) \in Int
    BY ONLY <2>1, FloorAtMostCeil, CeilToBounds
  <2> QED
    BY <2>2, <2>3 DEF taken
<1>5. /\ d \in SoundCdp /\ SameTerms(e, d) /\ d.collateral_token = c
      /\ d.normalized_borrow = e.normalized_borrow /\ d.borrow_amount = e.borrow_amount
      /\ d.last_update_epoch <= epoch
      /\ d.collateral_amount = e.collateral_amount - CeilTo(shares, unit)
  <2>1. /\ d \in SoundCdp /\ SameTerms(e, d)
        /\ d.normalized_borrow = e.normalized_borrow /\ d.borrow_amount = e.borrow_amount
        /\ d.last_update_epoch = e.last_update_epoch
        /\ d.collateral_amount = e.collateral_amount - CeilTo(shares, unit)
    BY <1>1, <1>4, ReleasedCdp
  <2> QED
    BY <1>1, <2>1 DEF SameTerms
<1>6. CeilTo(e.collateral_amount - CeilTo(shares, unit), unit)
        = CeilTo(e.collateral_amount, unit) - CeilTo(shares, unit)
  <2> DEFINE k == (-shares) \div unit
  <2>1. k \in Int /\ CeilTo(shares, unit) = -(unit * k) /\ unit * k \in Int
    <3>1. -shares \in Int /\ unit \in Nat \ {0}
      BY <1>1, <1>3
    <3>2. k \in Int
      BY ONLY <3>1, DivBounds
    <3>3. CeilTo(shares, unit) = -(unit * k)
      BY DEF CeilTo, FloorTo
    <3> HIDE DEF k
    <3>4. unit * k \in Int
      BY ONLY <3>1, <3>2, SMTT(30)
    <3> QED
      BY <3>2, <3>3, <3>4
  <2> HIDE DEF k
  <2>2. CeilTo(e.collateral_amount + unit * k, unit) = CeilTo(e.collateral_amount, unit) + unit * k
    BY <1>1, <2>1, CeilToOfSum
  <2> QED
    BY <1>1, <2>1, <2>2
<1>7. AssetPool(c, q, epoch) /\ Moved(p, q, -taken, 0, 0)
  <2>1. taken <= p.share_supply
    BY <1>1, <1>2, <1>4
  <2> QED
    BY <1>1, <1>2, <1>4, <2>1, AssetRedeemed
<1> HIDE DEF q, d, taken
<1>8. /\ Updated(pools, pools', c, q)
      /\ Updated(collateral_vaults, collateral_vaults', c, collateral_vaults[c] - taken)
  BY <1>1, <1>2, OverTokensChanged DEF ManagerInv
<1>9. PoolsMoved(id, d, -taken)
  <2>1. 0 = d.normalized_borrow - e.normalized_borrow /\ 0 = LentBy(d) - LentBy(e)
    BY <1>1, <1>5 DEF LentBy, SameTerms
  <2> QED
    BY <1>1, <1>5, <1>7, <1>8, <2>1, OnePoolMoved
<1>10. VaultsMoved(id, d, -taken)
  <2>1. /\ collateral_vaults'[c] = collateral_vaults[c] - taken /\ dx_wallets'[c] = dx_wallets[c]
        /\ \A t \in Token \ {c} : /\ collateral_vaults'[t] = collateral_vaults[t]
                                  /\ dx_wallets'[t] = dx_wallets[t]
    BY <1>2, <1>8 DEF Updated
  <2>2. CeilTo(d.collateral_amount, unit) = CeilTo(e.collateral_amount, unit) - CeilTo(shares, unit)
    BY <1>5, <1>6
  <2>3. /\ collateral_vaults'[c] \in Nat /\ dx_wallets'[c] \in Nat
        /\ dx_wallets'[c] + collateral_vaults'[c]
             = dx_wallets[c] + collateral_vaults[c] + (-taken)
        /\ CeilTo(d.collateral_amount, unit) - CeilTo(e.collateral_amount, unit)
             <= collateral_vaults'[c] - collateral_vaults[c]
    <3> DEFINE n == CeilTo(shares, unit)
               before == CeilTo(e.collateral_amount, unit)
               after == CeilTo(d.collateral_amount, unit)
    <3>1. /\ n \in Int /\ before \in Int /\ after = before - n
          /\ taken \in Nat /\ taken <= n /\ taken <= collateral_vaults[c]
      BY <1>1, <1>2, <1>4, <2>2
    <3> HIDE DEF n, before, after
    <3>2. after - before <= -taken
      BY <3>1
    <3> QED
      BY <1>1, <2>1, <3>1, <3>2 DEF before, after
  <2> QED
    BY <1>5, <2>1, <2>3 DEF VaultsMoved, unit
<1>11. CdpMoved(id, d, -taken)
  <2>1. /\ OverTokens(pools') /\ OverTokens(collateral_vaults') /\ OverTokens(dx_wallets')
        /\ -taken \in Int
    BY <1>2, <1>4, <1>8 DEF Updated, ManagerInv
  <2> QED
    BY <1>2, <1>5, <1>9, <1>10, <2>1 DEF CdpMoved, SameTerms
<1> QED
  BY <1>11, CdpMovedKeeps

LEMMA MovedTwice ==
    ASSUME NEW p, NEW q, NEW r, NEW x \in Int, NEW y \in Int, NEW x2 \in Int, NEW y2 \in Int,
           NEW lent \in Int, p.share_supply \in Int, p.variable_loan_share_quantity \in Int,
           p.stable_loan_amount \in Nat, q.stable_loan_amount \in Nat,
           r.stable_loan_amount \in Nat, Moved(p, q, x, y, lent), Moved(q, r, x2, y2, 0)
    PROVE  Moved(p, r, x + x2, y + y2, lent)
BY DEF Moved

LEMMA SeizableCdp ==
    ASSUME ManagerInv, NEW id \in DOMAIN cdps, Liquidatable(cdps[id])
    PROVE  LET d == cdps[id]
           IN  Seizable(d, CollateralValue(d),
                        CurrentDepositIndex(pools[d.collateral_token], epoch))
<1> DEFINE d == cdps[id]
           b == d.borrow_token
           c == d.collateral_token
           index == CurrentDepositIndex(pools[c], epoch)
<1>1. /\ d \in SoundCdp /\ b \in Token /\ c \in Token /\ epoch \in Nat
      /\ AssetPool(c, pools[c], epoch)
  BY CdpInv
<1>2. index \in Nat /\ ONE <= index
  BY <1>1, AssetIndices
<1>3. d.collateral_amount \in Int /\ d.collateral_amount # 0
      /\ DDiv(CollateralValue(d), d.collateral_amount) # 0
  BY <1>1, CdpFields DEF Liquidatable
<1>4. CollateralValue(d) = DMul(d.collateral_amount, index)
  BY DEF CollateralValue, GetRedemptionValue
<1>5. quote[b] \in Nat \ {0} /\ quote[c] \in Nat \ {0}
  BY <1>1, InvNumbers
<1>6. AssetStates[c].liquidation_bonus \in Nat
  BY <1>1, CdpManagerAssumption
<1> QED
  BY <1>2, <1>3, <1>4, <1>5, <1>6 DEF Seizable

LEMMA LiquidatedDebtNat ==
    ASSUME ManagerInv, NEW id \in DOMAIN cdps, NEW cover \in Nat
    PROVE  LiquidatedDebt(cdps[id], cover) \in Nat
<1> DEFINE d == cdps[id]
           p == pools[d.borrow_token]
           debt == LiquidationDebt(d)
           max_debt == PrecentMul(debt, close_factor_percent)
<1>1. /\ d \in SoundCdp /\ epoch \in Nat /\ d.last_update_epoch <= epoch
      /\ AssetPool(d.borrow_token, p, epoch) /\ d.normalized_borrow \in Nat
      /\ close_factor_percent \in Nat
  BY CdpInv, CdpFields DEF ManagerInv
<1>2. StableDebt(d) - d.borrow_amount \in Nat
  BY <1>1, StableDebtGrows
<1>3. VariableDebt(d) \in Nat
  <2>1. CurrentLoanIndex(p, epoch) \in Nat
    BY <1>1, AssetIndices
  <2> QED
    BY <1>1, <2>1, DMulNat DEF VariableDebt, GetVariableInterest
<1>4. debt \in Nat
  BY <1>2, <1>3 DEF LiquidationDebt
<1> HIDE DEF debt
<1>5. 100 * ONE \in Nat \ {0}
  BY DecimalAssumption
<1>6. max_debt \in Nat
  <2>1. DMul(debt, close_factor_percent) \in Nat
    BY <1>1, <1>4, DMulNat
  <2> QED
    BY <1>5, <2>1, DDivNat DEF PrecentMul
<1> HIDE DEF max_debt
<1>7. Min({max_debt, cover}) \in Nat
  <2>1. {max_debt, cover} = {max_debt, cover} \cup {} /\ {} \in Limits
    BY DEF Limits
  <2> QED
    BY <1>6, <2>1, MinWithLimit
<1> QED
  BY <1>6, <1>7 DEF LiquidatedDebt, max_debt, debt

\* The pool of the debt is paid, then the pool of the collateral redeems; they
\* may be the same pool.
LEMMA PaidAndRedeemed ==
    ASSUME ManagerInv, NEW b \in Token, NEW c \in Token,
           NEW paid_pool, AssetPool(b, paid_pool, epoch),
           NEW debt_shares \in Int, NEW lent \in Int,
           Moved(pools[b], paid_pool, 0, debt_shares, lent),
           NEW paid_pools, Updated(pools, paid_pools, b, paid_pool),
           NEW taken \in Nat, taken <= collateral_vaults[c],
           CanRemoveLiquity(paid_pools[c], epoch, taken),
           Updated(paid_pools, pools', c, RemoveLiquity(paid_pools[c], epoch, taken)),
           NEW id, NEW d, d.borrow_token = b, d.collateral_token = c,
           debt_shares = d.normalized_borrow - cdps[id].normalized_borrow,
           lent = LentBy(d) - LentBy(cdps[id])
    PROVE  PoolsMoved(id, d, -taken)
<1> DEFINE dx(t) == IF t = c THEN -taken ELSE 0
           debt(t) == IF t = b THEN debt_shares ELSE 0
           loan(t) == IF t = b THEN lent ELSE 0
<1>1. ASSUME NEW t \in Token
      PROVE  /\ AssetPool(t, paid_pools[t], epoch) /\ Moved(pools[t], paid_pools[t], 0, debt(t), loan(t))
             /\ pools[t].share_supply \in Nat /\ pools[t].variable_loan_share_quantity \in Nat
             /\ pools[t].stable_loan_amount \in Nat
             /\ collateral_vaults[t] <= pools[t].share_supply
             /\ dx(t) \in Int /\ debt(t) \in Int /\ loan(t) \in Int
  <2>1. /\ AssetPool(t, pools[t], epoch) /\ Moved(pools[t], pools[t], 0, 0, 0)
        /\ collateral_vaults[t] <= pools[t].share_supply
    BY NotMoved DEF ManagerInv, TokenBook
  <2>2. /\ pools[t].share_supply \in Nat /\ pools[t].variable_loan_share_quantity \in Nat
        /\ pools[t].stable_loan_amount \in Nat
    BY <2>1 DEF AssetPool, PoolSound
  <2>3. CASE t = b
    BY <2>1, <2>2, <2>3 DEF Updated
  <2>4. CASE t # b
    <3>1. paid_pools[t] = pools[t] /\ debt(t) = 0 /\ loan(t) = 0
      BY <2>4 DEF Updated
    <3> HIDE DEF debt, loan
    <3> QED
      BY <2>1, <2>2, <3>1
  <2> QED
    BY <2>3, <2>4
<1> DEFINE q == RemoveLiquity(paid_pools[c], epoch, taken)
<1>2. AssetPool(c, q, epoch) /\ Moved(paid_pools[c], q, -taken, 0, 0)
  <2>1. /\ AssetPool(c, paid_pools[c], epoch) /\ Moved(pools[c], paid_pools[c], 0, debt(c), loan(c))
        /\ pools[c].share_supply \in Nat /\ collateral_vaults[c] <= pools[c].share_supply
        /\ collateral_vaults[c] \in Nat
    BY <1>1 DEF ManagerInv, TokenBook
  <2>2. taken <= paid_pools[c].share_supply
    BY <2>1 DEF Moved
  <2> QED
    BY <2>1, <2>2, InvNumbers, AssetRedeemed
<1> HIDE DEF q, debt, loan
<1>3. ASSUME NEW t \in Token
      PROVE  AssetPool(t, pools'[t], epoch) /\ Moved(pools[t], pools'[t], dx(t), debt(t), loan(t))
  <2>1. CASE t = c
    <3>1. pools'[t] = q
      BY <2>1 DEF Updated, q
    <3>2. Moved(pools[t], q, 0 + (-taken), debt(t) + 0, loan(t))
      <4>1. paid_pools[t].stable_loan_amount \in Nat /\ q.stable_loan_amount \in Nat
        BY <1>1, <1>2, <2>1 DEF AssetPool, PoolSound
      <4> QED
        BY <1>1, <1>2, <2>1, <4>1, MovedTwice
    <3>3. 0 + (-taken) = dx(t) /\ debt(t) + 0 = debt(t)
      BY <1>1, <2>1
    <3> QED
      BY <1>2, <2>1, <3>1, <3>2, <3>3
  <2>2. CASE t # c
    <3>1. pools'[t] = paid_pools[t] /\ dx(t) = 0
      BY <2>2 DEF Updated
    <3> QED
      BY <1>1, <3>1
  <2> QED
    BY <2>1, <2>2
<1> HIDE DEF dx
<1> QED
  BY <1>3 DEF PoolsMoved, dx, debt, loan

LEMMA LiquidationKeeps ==
    ASSUME ManagerInv, StableBorrowing => RatesKept',
           NEW id \in DOMAIN cdps, NEW cover \in Covers, NEW bucket \in Repayments,
           Liquidation(id, cover, bucket)
    PROVE  ManagerInv'
<1> DEFINE e == cdps[id]
           b == e.borrow_token
           c == e.collateral_token
           p == pools[b]
           unit == ShareUnit[c]
           debt == LiquidatedDebt(e, cover)
           q == Seizure(e, CollateralValue(e), debt)
           paid == PaySplit(e, bucket, {q.debt}).paid
           paid_pool == PoolPaid(e, bucket, {q.debt})
           paid_cdp == CdpPaid(e, bucket, {q.debt})
           paid_pools == [pools EXCEPT ![b] = paid_pool]
           taken == TruncTo(q.collateral, unit)
           redeemed == RemoveLiquity(paid_pools[c], epoch, taken)
           d == [paid_cdp EXCEPT !.collateral_amount = @ - q.collateral]
<1>1. /\ e \in SoundCdp /\ b \in Token /\ c \in Token
      /\ epoch \in Nat /\ bucket \in Nat /\ cover \in Nat /\ AssetPool(b, p, epoch)
      /\ e.normalized_borrow \in Nat /\ e.collateral_amount \in Int /\ LentBy(e) \in Nat
      /\ CeilTo(e.collateral_amount, unit) \in Int
      /\ collateral_vaults[c] \in Nat /\ dx_wallets[c] \in Nat
      /\ unit \in 1 .. ONE
  BY CdpInv, CdpFields, UnitsPositive, CdpManagerAssumption
<1>2. Liquidatable(e) /\ Liquidate(id, q, bucket) /\ Call
      /\ UNCHANGED <<dx_wallets, close_factor_percent, transient_nfts, quote, epoch>>
  BY DEF Liquidation, GetLiquidateDebtAndCollateral
<1>3. /\ CanPay(e, bucket, {q.debt}) /\ paid = q.debt
      /\ RedeemSeized(c, taken, paid_pools) /\ cdps' = [cdps EXCEPT ![id] = d]
  <2> HIDE DEF q
  <2> QED
    BY <1>2 DEF Liquidate
<1>4. /\ 0 <= taken /\ taken <= collateral_vaults[c]
      /\ CanRemoveLiquity(paid_pools[c], epoch, taken)
      /\ pools' = [paid_pools EXCEPT ![c] = redeemed]
      /\ collateral_vaults' = [collateral_vaults EXCEPT ![c] = collateral_vaults[c] - taken]
  <2> HIDE DEF taken, paid_pools
  <2> QED
    BY <1>3 DEF RedeemSeized
<1>5. /\ Seizable(e, CollateralValue(e), CurrentDepositIndex(pools[c], epoch)) /\ debt \in Nat
  BY <1>1, <1>2, SeizableCdp, LiquidatedDebtNat
<1>6. q.debt \in Int /\ q.collateral \in Int
  <2> HIDE DEF debt
  <2> QED
    BY <1>1, <1>5, SeizureBounds
<1>7. /\ taken \in Nat
      /\ CeilTo(e.collateral_amount - q.collateral, unit)
           <= CeilTo(e.collateral_amount, unit) - taken
  <2> HIDE DEF debt, unit
  <2> QED
    BY <1>1, <1>4, <1>5, SeizureLeaves
<1> HIDE DEF q, debt
<1>8. {q.debt} \in Limits
  <2>1. paid >= 0
    BY <1>3 DEF CanPay, PaySplit, CanRepayVariable, CanRepayStable, CanTake
  <2> QED
    BY <1>3, <1>6, <2>1 DEF Limits
<1> HIDE DEF paid, paid_pool, paid_cdp, taken, unit
<1>9. /\ Updated(pools, paid_pools, b, paid_pool)
      /\ Updated(collateral_vaults, collateral_vaults', c, collateral_vaults[c] - taken)
  BY <1>1, <1>4, OverTokensChanged DEF ManagerInv
<1> HIDE DEF paid_pools
<1>10. Updated(paid_pools, pools', c, redeemed)
  <2>1. OverTokens(paid_pools)
    BY <1>9 DEF Updated
  <2> HIDE DEF redeemed, c
  <2> QED
    BY <1>1, <1>4, <2>1, OverTokensChanged
<1>11. e.is_stable => paid_pool.stable_loan_interest_rate >= 0
  <2> SUFFICES ASSUME e.is_stable PROVE paid_pool.stable_loan_interest_rate >= 0
    OBVIOUS
  <2>1. pools'[b].stable_loan_interest_rate >= 0
    BY <1>1 DEF SoundCdp, RatesKept
  <2>2. CASE b = c
    <3>1. IsPool(paid_pool)
      <4>1. IsPool(p)
        BY <1>1 DEF AssetPool, PoolSound
      <4> QED
        BY <4>1, PaidStableIsPool DEF paid_pool, PoolPaid, RepayStable
    <3>2. paid_pools[c] = paid_pool /\ pools'[b] = redeemed
      BY <1>9, <1>10, <2>2 DEF Updated
    <3>3. SameRate(paid_pool, redeemed)
      BY <3>1, <3>2, RedeemSameRate
    <3> QED
      BY <2>1, <3>2, <3>3 DEF SameRate
  <2>3. CASE b # c
    BY <1>1, <1>9, <1>10, <2>1, <2>3 DEF Updated
  <2> QED
    BY <2>2, <2>3
<1>12. /\ AssetPool(b, paid_pool, epoch) /\ paid_cdp \in SoundCdp /\ SameTerms(e, paid_cdp)
       /\ paid_cdp.collateral_amount = e.collateral_amount
       /\ paid_cdp.last_update_epoch <= epoch
       /\ Moved(p, paid_pool, 0, paid_cdp.normalized_borrow - e.normalized_borrow,
                LentBy(paid_cdp) - LentBy(e))
  BY <1>1, <1>3, <1>8, <1>11, PositionPaid DEF paid_pool, paid_cdp
<1> HIDE DEF d
<1>13. /\ d \in SoundCdp /\ SameTerms(e, d) /\ d.borrow_token = b /\ d.collateral_token = c
       /\ d.normalized_borrow \in Nat /\ LentBy(d) \in Nat /\ d.last_update_epoch <= epoch
       /\ d.normalized_borrow = paid_cdp.normalized_borrow /\ LentBy(d) = LentBy(paid_cdp)
       /\ d.collateral_amount = e.collateral_amount - q.collateral
  <2>1. /\ d \in SoundCdp /\ SameTerms(paid_cdp, d)
        /\ d.normalized_borrow = paid_cdp.normalized_borrow
        /\ d.borrow_amount = paid_cdp.borrow_amount
        /\ d.collateral_amount = paid_cdp.collateral_amount - q.collateral
        /\ d.last_update_epoch = paid_cdp.last_update_epoch
    BY <1>6, <1>12, ReleasedCdp DEF d
  <2>2. d.normalized_borrow \in Nat /\ LentBy(d) \in Nat
    BY <2>1, CdpFields
  <2> QED
    BY <1>12, <2>1, <2>2 DEF SameTerms, LentBy
<1>14. PoolsMoved(id, d, -taken)
  <2> DEFINE shares == d.normalized_borrow - e.normalized_borrow
             lent == LentBy(d) - LentBy(e)
  <2>1. shares \in Int /\ lent \in Int /\ Moved(p, paid_pool, 0, shares, lent)
    BY <1>1, <1>12, <1>13
  <2>2. shares = d.normalized_borrow - cdps[id].normalized_borrow /\ lent = LentBy(d) - LentBy(cdps[id])
    OBVIOUS
  <2> HIDE DEF shares, lent
  <2> QED
    BY <1>1, <1>4, <1>7, <1>9, <1>10, <1>12, <1>13, <2>1, <2>2, PaidAndRedeemed
<1>15. VaultsMoved(id, d, -taken)
  <2>1. /\ collateral_vaults'[c] = collateral_vaults[c] - taken /\ dx_wallets'[c] = dx_wallets[c]
        /\ \A t \in Token \ {c} : /\ collateral_vaults'[t] = collateral_vaults[t]
                                  /\ dx_wallets'[t] = dx_wallets[t]
    BY <1>2, <1>9 DEF Updated
  <2> DEFINE before == CeilTo(e.collateral_amount, unit)
             after == CeilTo(d.collateral_amount, unit)
  <2>2. before \in Int /\ after \in Int /\ after <= before - taken
    <3>1. unit \in Nat \ {0} /\ e.collateral_amount - q.collateral \in Int
      BY <1>1, <1>6, DecimalAssumption DEF unit
    <3> QED
      BY <1>1, <1>7, <1>13, <3>1, CeilToBounds DEF unit
  <2> HIDE DEF before, after
  <2>3. /\ collateral_vaults'[c] \in Nat /\ dx_wallets'[c] \in Nat
        /\ dx_wallets'[c] + collateral_vaults'[c]
             = dx_wallets[c] + collateral_vaults[c] + (-taken)
        /\ after - before <= collateral_vaults'[c] - collateral_vaults[c]
    BY <1>1, <1>4, <1>7, <2>1, <2>2
  <2> QED
    BY <1>13, <2>1, <2>3 DEF VaultsMoved, unit, before, after
<1>16. CdpMoved(id, d, -taken)
  <2>1. /\ OverTokens(pools') /\ OverTokens(collateral_vaults') /\ OverTokens(dx_wallets')
        /\ -taken \in Int
    BY <1>2, <1>7, <1>9, <1>10 DEF Updated, ManagerInv
  <2> QED
    BY <1>2, <1>3, <1>13, <1>14, <1>15, <2>1 DEF CdpMoved, SameTerms
<1> QED
  BY <1>16, CdpMovedKeeps

\* A step that changes the vault of one pool and no position.
LEMMA PoolReplaced ==
    ASSUME ManagerInv, NEW x \in Token, NEW q, pools' = [pools EXCEPT ![x] = q],
           AssetPool(x, q, epoch), Moved(pools[x], q, 0, 0, 0),
           UNCHANGED <<cdps, collateral_vaults, dx_wallets, close_factor_percent, quote, epoch>>,
           transient_nfts' \subseteq FlashLoan, calls' \in 0 .. MaxCalls
    PROVE  ManagerInv'
<1>1. Updated(pools, pools', x, q)
  BY OverTokensChanged DEF ManagerInv
<1>2. ASSUME NEW t \in Token
      PROVE  TokenBook(t, pools'[t], cdps', collateral_vaults'[t], dx_wallets'[t], epoch')
  <2>1. TokenBook(t, pools[t], cdps, collateral_vaults[t], dx_wallets[t], epoch)
    BY DEF ManagerInv
  <2>2. CASE t = x
    <3>1. pools'[t] = q
      BY <1>1, <2>2 DEF Updated
    <3>2. pools[t].share_supply \in Int /\ pools[t].variable_loan_share_quantity \in Int
      BY <2>1 DEF TokenBook, AssetPool, PoolSound
    <3>3. /\ q.share_supply = pools[t].share_supply
          /\ q.variable_loan_share_quantity = pools[t].variable_loan_share_quantity
          /\ q.stable_loan_amount <= Lent(cdps, t)
      <4>1. /\ pools[t].stable_loan_amount \in Nat /\ q.stable_loan_amount \in Nat
            /\ pools[t].stable_loan_amount <= Lent(cdps, t)
        BY <2>1, <2>2 DEF TokenBook, AssetPool, PoolSound
      <4>2. Lent(cdps, t) \in Nat
        BY LentNat DEF ManagerInv, Positions
      <4> QED
        BY <2>2, <3>2, <4>1, <4>2 DEF Moved
    <3>4. TokenBook(t, q, cdps, collateral_vaults[t], dx_wallets[t], epoch)
      BY <2>1, <2>2, <3>3 DEF TokenBook
    <3> QED
      BY <3>1, <3>4
  <2>3. CASE t # x
    BY <1>1, <2>1, <2>3 DEF Updated
  <2> QED
    BY <2>2, <2>3
<1> QED
  BY <1>1, <1>2 DEF ManagerInv, Updated

LEMMA BorrowFlashloanKeeps ==
    ASSUME ManagerInv, NEW x \in Token, NEW amount \in FlashLoans, BorrowFlashloan(x, amount)
    PROVE  ManagerInv'
<1> DEFINE p == pools[x]
           lent == FloorTo(amount, Unit[x])
           fee == DMul(lent, p.flashloan_fee_ratio)
           q == BorrowFixedTerm(p, amount)
<1>1. /\ AssetPool(x, p, epoch) /\ PoolSound(p) /\ p.flashloan_fee_ratio \in Nat
      /\ amount \in Nat /\ calls \in Nat /\ Unit[x] \in Nat \ {0}
  BY InvNumbers, UnitsPositive, CdpManagerAssumption DEF ManagerInv, TokenBook, AssetPool, PoolSound
<1>2. /\ pools' = [pools EXCEPT ![x] = q] /\ amount <= p.vault /\ Call
      /\ transient_nfts' = transient_nfts \cup
            {[id |-> calls, res_addr |-> x, amount |-> lent, fee |-> fee]}
      /\ UNCHANGED <<cdps, collateral_vaults, dx_wallets, close_factor_percent, quote, epoch>>
  <2>1. p.vault \in Nat
    BY <1>1 DEF PoolSound
  <2>2. p.vault >= amount
    BY DEF BorrowFlashloan, CanBorrowFixedTerm
  <2>3. /\ pools' = [pools EXCEPT ![x] = q] /\ Call
        /\ transient_nfts' = transient_nfts \cup
              {[id |-> calls, res_addr |-> x, amount |-> lent, fee |-> fee]}
        /\ UNCHANGED <<cdps, collateral_vaults, dx_wallets, close_factor_percent, quote, epoch>>
    BY Zenon DEF BorrowFlashloan
  <2> QED
    BY <1>1, <2>1, <2>2, <2>3
<1>3. lent \in Nat /\ fee \in Nat
  <2> DEFINE unit == Unit[x]
  <2>0. unit \in Nat \ {0} /\ amount \in Int /\ amount >= 0
    BY <1>1
  <2> HIDE DEF unit
  <2>1. FloorTo(amount, unit) \in Int /\ FloorTo(amount, unit) >= 0
    BY ONLY <2>0, FloorToBounds
  <2>2. lent \in Nat
    BY <2>1 DEF unit
  <2> HIDE DEF lent
  <2> QED
    BY <1>1, <2>2, DMulNat
<1>4. PoolSound(q) /\ Keeps(p, q, {"vault"})
  BY <1>1, <1>2, BorrowFixedTermSound
<1> HIDE DEF q, lent, fee
<1>5. AssetPool(x, q, epoch) /\ Moved(p, q, 0, 0, 0)
  BY <1>1, <1>4, AssetVaultMoved
<1>6. transient_nfts' \subseteq FlashLoan
  BY <1>1, <1>2, <1>3 DEF ManagerInv, FlashLoan
<1>7. calls' \in 0 .. MaxCalls
  BY <1>2, CallCounted
<1> QED
  BY <1>2, <1>5, <1>6, <1>7, PoolReplaced

LEMMA RepayFlashloanKeeps ==
    ASSUME ManagerInv, NEW nft \in transient_nfts, RepayFlashloan(nft)
    PROVE  ManagerInv'
<1> DEFINE x == nft.res_addr
           p == pools[x]
           q == RepayFixedTerm(p, epoch, nft.amount, nft.fee)
           total == FixedTermTotal(p, nft.amount, nft.fee)
<1>1. x \in Token /\ nft.amount \in Nat /\ nft.fee \in Nat /\ epoch \in Nat
  BY InvNumbers DEF ManagerInv, FlashLoan
<1>2. AssetPool(x, p, epoch)
  BY <1>1 DEF ManagerInv, TokenBook
<1>3. /\ CanRepayFixedTerm(p, epoch, total, nft.amount, nft.fee)
      /\ pools' = [pools EXCEPT ![x] = q] /\ transient_nfts' = transient_nfts \ {nft}
      /\ UNCHANGED <<cdps, collateral_vaults, dx_wallets, close_factor_percent, quote, epoch>>
      /\ calls' = calls
  BY DEF RepayFlashloan
<1>4. AssetPool(x, q, epoch) /\ Moved(p, q, 0, 0, 0)
  BY <1>1, <1>2, <1>3, AssetFeePaid
<1> HIDE DEF q
<1>5. transient_nfts' \subseteq FlashLoan /\ calls' \in 0 .. MaxCalls
  BY <1>3 DEF ManagerInv
<1> QED
  BY <1>1, <1>3, <1>4, <1>5, PoolReplaced

LEMMA DrawInsuranceKeeps ==
    ASSUME ManagerInv, NEW x \in Token, NEW amount \in Draws, DrawInsurance(x, amount)
    PROVE  ManagerInv'
<1> DEFINE p == pools[x]
           q == WithdrawInsurance(p, amount)
<1>1. AssetPool(x, p, epoch) /\ PoolSound(p) /\ amount \in Nat
  BY CdpManagerAssumption DEF ManagerInv, TokenBook, AssetPool
<1>2. /\ pools' = [pools EXCEPT ![x] = q] /\ amount <= p.vault /\ Call
      /\ UNCHANGED <<cdps, collateral_vaults, dx_wallets, close_factor_percent, quote, epoch>>
      /\ UNCHANGED transient_nfts
  BY DEF DrawInsurance, CanWithdrawInsurance
<1>3. PoolSound(q) /\ Keeps(p, q, {"vault"})
  BY <1>1, <1>2, WithdrawInsuranceSound
<1> HIDE DEF q
<1>4. AssetPool(x, q, epoch) /\ Moved(p, q, 0, 0, 0)
  BY <1>1, <1>3, AssetVaultMoved
<1>5. transient_nfts' \subseteq FlashLoan /\ calls' \in 0 .. MaxCalls
  BY <1>2, CallCounted DEF ManagerInv
<1> QED
  BY <1>2, <1>4, <1>5, PoolReplaced

\* Steps that change no pool, no position and no dx token.
LEMMA BooksStay ==
    ASSUME ManagerInv, UNCHANGED <<pools, cdps, collateral_vaults, dx_wallets, transient_nfts>>,
           close_factor_percent' \in Nat, quote' \in Quotes, calls' \in 0 .. MaxCalls,
           epoch <= epoch', epoch' \in StartEpoch .. MaxEpoch
    PROVE  ManagerInv'
<1>1. ASSUME NEW t \in Token
      PROVE  TokenBook(t, pools[t], cdps, collateral_vaults[t], dx_wallets[t], epoch')
  <2>1. TokenBook(t, pools[t], cdps, collateral_vaults[t], dx_wallets[t], epoch)
    BY DEF ManagerInv
  <2>2. epoch \in Nat /\ epoch' \in Nat /\ pools[t].last_update \in Nat
    <3>1. StartEpoch \in Nat /\ MaxEpoch \in Nat
      BY CdpManagerAssumption
    <3> QED
      BY <2>1, <3>1, InvNumbers DEF TokenBook, AssetPool, PoolSound
  <2>3. AssetPool(t, pools[t], epoch')
    BY <2>1, <2>2 DEF TokenBook, AssetPool
  <2> QED
    BY <2>1, <2>3 DEF TokenBook
<1>2. Dated(cdps, epoch')
  <2>1. \A i \in DOMAIN cdps : cdps[i].last_update_epoch \in Nat /\ cdps[i].last_update_epoch <= epoch
    BY CdpInv, CdpFields
  <2>2. epoch \in Nat /\ epoch' \in Nat
    BY InvNumbers, CdpManagerAssumption
  <2> QED
    BY <2>1, <2>2 DEF Dated
<1> QED
  BY <1>1, <1>2 DEF ManagerInv

LEMMA NextKeeps ==
    ASSUME ManagerInv, [Next]_vars, StableBorrowing => RatesKept'
    PROVE  ManagerInv'
<1>0. StartEpoch \in Nat /\ MaxEpoch \in Nat /\ MaxCalls \in Nat
      /\ CloseFactors \subseteq Nat /\ Pairs \subseteq Token \X Token
      /\ epoch \in StartEpoch .. MaxEpoch /\ epoch \in Nat
      /\ close_factor_percent \in Nat /\ quote \in Quotes /\ calls \in 0 .. MaxCalls
  BY CdpManagerAssumption, InvNumbers DEF ManagerInv
<1>1. ASSUME NEW t \in Token, NEW amount \in Supplies, Supply(t, amount) PROVE ManagerInv'
  BY <1>1, SupplyKeeps
<1>2. ASSUME NEW t \in Token, NEW shares \in Withdrawals, Withdraw(t, shares) PROVE ManagerInv'
  BY <1>2, WithdrawKeeps
<1>3. ASSUME NEW pair \in Pairs, NEW dx_amount \in Collaterals, NEW amount \in Loans,
             \/ OpenVariable(pair[2], dx_amount, pair[1], amount)
             \/ StableBorrowing /\ OpenStable(pair[2], dx_amount, pair[1], amount)
      PROVE  ManagerInv'
  <2>1. pair[1] \in Token /\ pair[2] \in Token
    BY <1>0
  <2> QED
    BY <1>3, <2>1, OpenVariableKeeps, OpenStableKeeps
<1>4. ASSUME NEW id \in DOMAIN cdps, NEW amount \in Loans,
             ExtendVariable(id, amount) \/ ExtendStable(id, amount)
      PROVE  ManagerInv'
  BY <1>4, ExtendVariableKeeps, ExtendStableKeeps
<1>5. ASSUME NEW id \in DOMAIN cdps, NEW amount \in Withdrawals, WithdrawCollateral(id, amount)
      PROVE  ManagerInv'
  BY <1>5, WithdrawCollateralKeeps
<1>6. ASSUME NEW id \in DOMAIN cdps, NEW amount \in Additions,
             AddDxCollateral(id, amount) \/ AddUnderlyingCollateral(id, amount)
      PROVE  ManagerInv'
  BY <1>6, AddDxCollateralKeeps, AddUnderlyingCollateralKeeps
<1>7. ASSUME NEW id \in DOMAIN cdps, NEW bucket \in Repayments, Repay(id, bucket)
      PROVE  ManagerInv'
  BY <1>7, RepayKeeps
<1>8. ASSUME NEW id \in DOMAIN cdps, NEW cover \in Covers, NEW bucket \in Repayments,
             Liquidation(id, cover, bucket)
      PROVE  ManagerInv'
  BY <1>8, LiquidationKeeps
<1>9. ASSUME NEW t \in Token, NEW amount \in FlashLoans, BorrowFlashloan(t, amount)
      PROVE  ManagerInv'
  BY <1>9, BorrowFlashloanKeeps
<1>10. ASSUME NEW nft \in transient_nfts, RepayFlashloan(nft) PROVE ManagerInv'
  BY <1>10, RepayFlashloanKeeps
<1>11. ASSUME NEW percent \in CloseFactors, SetCloseFactor(percent) PROVE ManagerInv'
  <2>1. calls' \in 0 .. MaxCalls
    BY <1>11, CallCounted DEF SetCloseFactor
  <2>2. /\ UNCHANGED <<pools, cdps, collateral_vaults, dx_wallets, transient_nfts>>
        /\ quote' = quote /\ epoch' = epoch /\ close_factor_percent' \in Nat
    BY <1>0, <1>11 DEF SetCloseFactor
  <2> QED
    BY <1>0, <2>1, <2>2, BooksStay
<1>12. ASSUME NEW t \in Token, NEW amount \in Draws, DrawInsurance(t, amount) PROVE ManagerInv'
  BY <1>12, DrawInsuranceKeeps
<1>13. CASE PricesMove
  <2>1. /\ UNCHANGED <<pools, cdps, collateral_vaults, dx_wallets, transient_nfts>>
        /\ quote' \in Quotes /\ epoch' = epoch /\ calls' = calls
        /\ close_factor_percent' = close_factor_percent
    BY <1>13 DEF PricesMove
  <2> QED
    BY <1>0, <2>1, BooksStay
<1>14. CASE NextEpoch
  <2>1. /\ UNCHANGED <<pools, cdps, collateral_vaults, dx_wallets, transient_nfts>>
        /\ quote' = quote /\ epoch < MaxEpoch /\ epoch' = epoch + 1 /\ calls' = calls
        /\ close_factor_percent' = close_factor_percent
    BY <1>14 DEF NextEpoch
  <2>2. epoch <= epoch' /\ epoch' \in StartEpoch .. MaxEpoch
    BY <1>0, <2>1
  <2> QED
    BY <1>0, <2>1, <2>2, BooksStay
<1>15. CASE UNCHANGED vars
  <2>1. /\ UNCHANGED <<pools, cdps, collateral_vaults, dx_wallets, transient_nfts>>
        /\ quote' = quote /\ epoch' = epoch /\ calls' = calls
        /\ close_factor_percent' = close_factor_percent
    BY <1>15 DEF vars
  <2> QED
    BY <1>0, <2>1, BooksStay
<1> QED
  BY <1>1, <1>2, <1>3, <1>4, <1>5, <1>6, <1>7, <1>8, <1>9, <1>10, <1>11, <1>12, <1>13,
     <1>14, <1>15 DEF Next

LEMMA ManagerInvariant == Spec /\ []RatesKept => []ManagerInv
<1>1. Init => ManagerInv
  BY InitInv
<1>2. ManagerInv /\ [Next]_vars /\ RatesKept' => ManagerInv'
  BY NextKeeps
<1> QED
  BY <1>1, <1>2, PTL DEF Spec

-----------------------------------------------------------------------------
(* The theorems *)

\* The average rates stay zero in a deployment that opens no position at a stable
\* rate (borrow_stable): of such a deployment what follows holds without a hypothesis.
THEOREM RatesKeptWithoutStableLoans ==
    ASSUME ~ StableBorrowing PROVE Spec => []RatesKept
<1>1. Init => ManagerInv
  BY InitInv
<1>2. ManagerInv /\ [Next]_vars => ManagerInv'
  BY NextKeeps
<1>3. ManagerInv => RatesKept
  BY DEF ManagerInv, TokenBook, AssetPool, PoolSound, RatesKept
<1> QED
  BY <1>1, <1>2, <1>3, PTL DEF Spec

\* No debt, total or vault of the manager ever becomes negative and no position
\* loses the form of its NFT, whatever the calls, prices and roundings
\* (borrow_variable, withdraw_collateral, liquidation and what they call), before
\* the average stable rate of a pool does.
THEOREM ManagerTypes == Spec /\ []RatesKept => []TypeOK
<1>1. ManagerInv => TypeOK
  <2> SUFFICES ASSUME ManagerInv PROVE TypeOK
    OBVIOUS
  <2>1. ASSUME NEW t \in Token
        PROVE  /\ DOMAIN pools[t] = PoolFields
               /\ pools[t].vault \in Nat /\ pools[t].share_supply \in Nat
               /\ pools[t].variable_loan_share_quantity \in Nat
               /\ pools[t].stable_loan_amount \in Nat
               /\ pools[t].stable_loan_interest_rate \in Nat
               /\ collateral_vaults[t] \in Nat /\ dx_wallets[t] \in Nat
    <3>1. /\ PoolSound(pools[t]) /\ collateral_vaults[t] \in Nat /\ dx_wallets[t] \in Nat
      BY DEF ManagerInv, TokenBook, AssetPool
    <3> DEFINE p == pools[t]
    <3>2. DOMAIN p = PoolFields
      BY <3>1 DEF PoolSound, IsPool
    <3> HIDE DEF p
    <3>3. PoolSound(p)
      BY <3>1 DEF p
    <3>4. /\ p.vault \in Nat /\ p.share_supply \in Nat /\ p.variable_loan_share_quantity \in Nat
          /\ p.stable_loan_amount \in Nat /\ p.stable_loan_interest_rate \in Nat
      BY <3>3 DEF PoolSound
    <3> QED
      BY <3>1, <3>2, <3>4 DEF p
  <2>2. DOMAIN pools = Token
    BY DEF ManagerInv, OverTokens
  <2>3. collateral_vaults \in [Token -> Nat] /\ dx_wallets \in [Token -> Nat]
    BY <2>1 DEF ManagerInv, OverTokens
  <2>4. cdps \in Seq(Cdp) /\ Len(cdps) <= MaxCdps
    <3>1. SoundCdp \subseteq Cdp
      BY DEF SoundCdp
    <3>2. cdps \in Seq(SoundCdp) /\ Len(cdps) <= MaxCdps
      BY DEF ManagerInv, Positions
    <3> QED
      BY <3>1, <3>2
  <2> QED
    BY <2>1, <2>2, <2>3, <2>4 DEF TypeOK, ManagerInv
<1> QED
  BY <1>1, ManagerInvariant, PTL

\* The debt shares of a pool are those of the positions, to the last one: no
\* payment, loan or liquidation loses or invents a share by rounding
\* (borrow_variable, extend_borrow, repay, liquidation).
THEOREM VariableBooksAgree == Spec /\ []RatesKept => []VariableBookMatches
<1>1. ManagerInv => VariableBookMatches
  <2> SUFFICES ASSUME ManagerInv, NEW t \in Token
               PROVE  pools[t].variable_loan_share_quantity
                        = SumFunctionOnSet([i \in DOMAIN cdps |-> cdps[i].normalized_borrow],
                                           CdpsOf(t, FALSE))
    BY DEF VariableBookMatches
  <2>1. pools[t].variable_loan_share_quantity = Owed(cdps, t)
    BY DEF ManagerInv, TokenBook
  <2> QED
    BY <2>1 DEF Owed, CdpsOf
<1> QED
  BY <1>1, ManagerInvariant, PTL

\* No pool counts more at stable rates than its positions owe, although a payment
\* short of the interest and the extension of a position add interest to the loan
\* that the pool books on its own side (borrow_stable, extend_borrow, repay,
\* liquidation).
THEOREM StableBookIsBacked == Spec /\ []RatesKept => []StableBookBacked
<1>1. ManagerInv => StableBookBacked
  <2> SUFFICES ASSUME ManagerInv, NEW t \in Token
               PROVE  pools[t].stable_loan_amount
                        <= SumFunctionOnSet([i \in DOMAIN cdps |-> cdps[i].borrow_amount],
                                            CdpsOf(t, TRUE))
    BY DEF StableBookBacked
  <2>1. pools[t].stable_loan_amount <= Lent(cdps, t)
    BY DEF ManagerInv, TokenBook
  <2> QED
    BY <2>1 DEF Lent, CdpsOf
<1> QED
  BY <1>1, ManagerInvariant, PTL

\* The vault always holds the collateral of all positions together, although
\* what leaves it and what the positions lose are rounded apart
\* (withdraw_collateral, liquidation).
THEOREM CollateralIsBacked == Spec /\ []RatesKept => []CollateralBacked
<1>1. ManagerInv => CollateralBacked
  <2> SUFFICES ASSUME ManagerInv, NEW t \in Token
               PROVE  SumFunctionOnSet([i \in DOMAIN cdps |-> cdps[i].collateral_amount],
                                       CollateralizedBy(t))
                        <= collateral_vaults[t]
    BY DEF CollateralBacked
  <2> DEFINE f == [i \in DOMAIN cdps |-> cdps[i].collateral_amount]
             h == [i \in DOMAIN cdps |-> CeilTo(cdps[i].collateral_amount, ShareUnit[t])]
             S == {i \in DOMAIN cdps : cdps[i].collateral_token = t}
  <2>1. cdps \in Seq(SoundCdp)
    BY DEF ManagerInv, Positions
  <2>2. IsFiniteSet(S)
    BY <2>1, CdpAt, FS_Subset
  <2>3. ASSUME NEW i \in S PROVE f[i] \in Int /\ h[i] \in Int /\ f[i] <= h[i]
    <3>1. cdps[i].collateral_amount \in Int /\ ShareUnit[t] \in Nat \ {0}
      BY <2>1, CdpAt, CdpFields, UnitsPositive
    <3> QED
      BY <3>1, CeilToBounds
  <2>4. SumFunctionOnSet(h, S) <= collateral_vaults[t] /\ collateral_vaults[t] \in Int
    BY DEF ManagerInv, TokenBook, Held
  <2> HIDE DEF f, h, S
  <2>5. SumFunctionOnSet(f, S) <= SumFunctionOnSet(h, S)
    BY <2>2, <2>3, SumLe
  <2>6. SumFunctionOnSet(f, S) \in Int /\ SumFunctionOnSet(h, S) \in Int
    BY <2>2, <2>3, SumInt
  <2>7. SumFunctionOnSet(f, S) <= collateral_vaults[t]
    BY <2>4, <2>5, <2>6
  <2> QED
    BY <2>7 DEF f, S, CollateralizedBy
<1> QED
  BY <1>1, ManagerInvariant, PTL

-----------------------------------------------------------------------------
(* The limit of a loan.  A bound read before a step still holds after it:  *)
(* the indices a pool quotes are those it updates to, and every rounding   *)
(* is monotone.                                                            *)

LEMMA TruncDivMonotone ==
    ASSUME NEW x \in Int, NEW y \in Int, x <= y, NEW n \in Nat \ {0}
    PROVE  TruncDiv(x, n) <= TruncDiv(y, n)
<1>1. ASSUME NEW z \in Int, z < 0 PROVE TruncDiv(z, n) = -((-z) \div n) /\ (-z) \div n \in Nat
  <2>1. Sign(z) = -1 /\ Sign(n) = 1 /\ Magnitude(z) = -z /\ Magnitude(n) = n
    BY <1>1 DEF Sign, Magnitude
  <2>2. (-z) \div n \in Nat
    BY <1>1, DivNat
  <2> QED
    BY <2>1, <2>2 DEF TruncDiv
<1>2. ASSUME NEW z \in Int, z >= 0 PROVE TruncDiv(z, n) = z \div n /\ z \div n \in Nat
  BY <1>2, TruncDivNat, DivNat
<1>3. CASE x >= 0
  BY <1>2, <1>3, DivMonotone
<1>4. CASE x < 0 /\ y >= 0
  BY <1>1, <1>2, <1>4
<1>5. CASE x < 0 /\ y < 0
  <2>1. (-y) \div n <= (-x) \div n
    BY DivMonotone
  <2> QED
    BY <1>1, <1>5, <2>1
<1> QED
  BY <1>3, <1>4, <1>5

LEMMA DivShift ==
    ASSUME NEW z \in Int, NEW j \in Int, NEW n \in Nat \ {0}
    PROVE  (z + n * j) \div n = z \div n + j
<1> DEFINE q == z \div n
           y == z + n * j
           r == q + j
<1>1. q \in Int /\ n * q <= z /\ z < n * q + n
  BY DivBounds
<1> HIDE DEF q
<1>2. y \in Int /\ r \in Int /\ r * n = n * q + n * j /\ (r + 1) * n = n * q + n * j + n
      /\ n * j \in Int /\ n * q \in Int
  BY <1>1, SMTT(30)
<1>3. r * n <= y /\ y < (r + 1) * n
  BY <1>1, <1>2
<1> HIDE DEF r, y
<1>4. r <= y \div n /\ y \div n <= r /\ y \div n \in Int
  BY <1>2, <1>3, DivLower, DivUpper, DivBounds
<1>5. y \div n = r
  BY <1>2, <1>4
<1> QED
  BY <1>5 DEF r, y, q

\* Whole units leave a truncation: exactly from a quotient that stays positive,
\* and never to less than the difference.
LEMMA TruncDivLess ==
    ASSUME NEW x \in Int, NEW k \in Nat, NEW n \in Nat \ {0}
    PROVE  /\ TruncDiv(x, n) - k <= TruncDiv(x - n * k, n)
           /\ x >= 0 => TruncDiv(x + n * k, n) = TruncDiv(x, n) + k
<1> DEFINE d == x \div n
<1>0. n * k \in Nat
  BY SMTT(30)
<1>1. k \in Int /\ n \in Nat \ {0} /\ -x \in Int
  OBVIOUS
<1>2. x >= 0 => TruncDiv(x + n * k, n) = TruncDiv(x, n) + k
  <2> SUFFICES ASSUME x >= 0 PROVE TruncDiv(x + n * k, n) = TruncDiv(x, n) + k
    OBVIOUS
  <2> DEFINE m == n * k
  <2>1. m \in Nat /\ x \in Nat
    BY <1>0
  <2>2. (x + m) \div n = x \div n + k
    BY ONLY <1>1, x \in Int, DivShift, Zenon
  <2> HIDE DEF m
  <2>3. TruncDiv(x + m, n) = (x + m) \div n /\ TruncDiv(x, n) = x \div n
    BY <2>1, TruncDivNat
  <2> QED
    BY <2>2, <2>3 DEF m
<1>3. TruncDiv(x, n) - k <= TruncDiv(x - n * k, n)
  <2> DEFINE m == n * k
             y == x - m
  <2>1. m \in Nat /\ y \in Int /\ y + m = x
    BY <1>0
  <2>2. CASE y >= 0
    <3>1. y \in Nat /\ x \in Nat
      BY <2>1, <2>2
    <3>2. (y + n * k) \div n = y \div n + k
      BY ONLY <1>1, <2>1, DivShift, Zenon
    <3>3. y + n * k = x
      BY <2>1
    <3> HIDE DEF y, m
    <3>4. TruncDiv(y, n) = y \div n /\ TruncDiv(x, n) = x \div n /\ y \div n \in Int
      BY <3>1, TruncDivNat, DivBounds
    <3>5. TruncDiv(x, n) - k = TruncDiv(y, n)
      BY <3>2, <3>3, <3>4
    <3> QED
      BY <3>4, <3>5 DEF y, m
  <2>3. CASE y < 0
    <3>1. -y = -x + n * k
      BY <2>1, <1>0
    <3>2. (-x + n * k) \div n = (-x) \div n + k
      BY ONLY <1>1, DivShift, Zenon
    <3> HIDE DEF y, m
    <3>3. TruncDiv(y, n) = -((-y) \div n) /\ (-y) \div n \in Int
      <4>1. Sign(y) = -1 /\ Sign(n) = 1 /\ Magnitude(y) = -y /\ Magnitude(n) = n
        BY <2>1, <2>3 DEF Sign, Magnitude
      <4>2. (-y) \div n \in Int
        BY <2>1, DivBounds
      <4> QED
        BY <4>1, <4>2 DEF TruncDiv
    <3>4. TruncDiv(y, n) = -((-x) \div n) - k /\ (-x) \div n \in Int
      BY <3>1, <3>2, <3>3, DivBounds
    <3>5. TruncDiv(x, n) <= -((-x) \div n)
      <4>1. CASE x < 0
        <5>1. Sign(x) = -1 /\ Sign(n) = 1 /\ Magnitude(x) = -x /\ Magnitude(n) = n
          BY <4>1 DEF Sign, Magnitude
        <5> QED
          BY <3>4, <5>1 DEF TruncDiv
      <4>2. CASE x >= 0
        <5>1. TruncDiv(x, n) = x \div n /\ x \div n \in Int /\ n * (x \div n) <= x
          BY <4>2, TruncDivNat, DivBounds
        <5>2. n * ((-x) \div n) <= -x
          BY DivBounds
        <5> DEFINE a == x \div n
                   b == (-x) \div n
        <5>3. a \in Int /\ b \in Int /\ n * a <= x /\ n * b <= -x
          BY <3>4, <5>1, <5>2
        <5> HIDE DEF a, b
        <5>4. n * (a + b) <= 0
          BY <5>3, SMTT(30)
        <5>5. a + b <= 0
          BY <5>3, <5>4, SMTT(30)
        <5> QED
          BY <5>1, <5>3, <5>5 DEF a, b
      <4> QED
        BY <4>1, <4>2
    <3>6. TruncDiv(x, n) \in Int
      BY TruncDivInt
    <3>7. TruncDiv(x, n) - k <= TruncDiv(y, n)
      BY <3>4, <3>5, <3>6
    <3> QED
      BY <3>7 DEF y, m
  <2> QED
    BY <2>1, <2>2, <2>3
<1> QED
  BY <1>2, <1>3

LEMMA DMulLe ==
    ASSUME NEW a \in Int, NEW b \in Int, a <= b, NEW c \in Nat
    PROVE  /\ DMul(a, c) \in Int /\ DMul(b, c) \in Int /\ DMul(a, c) <= DMul(b, c)
           /\ DMul(c, a) \in Int /\ DMul(c, b) \in Int /\ DMul(c, a) <= DMul(c, b)
<1> DEFINE x == a * c
           y == b * c
<1>1. x \in Int /\ y \in Int /\ x <= y /\ c * a = x /\ c * b = y
  BY SMTT(30)
<1> HIDE DEF x, y
<1>2. ONE \in Nat \ {0} /\ ONE \in Int \ {0}
  BY DecimalAssumption
<1>3. TruncDiv(x, ONE) <= TruncDiv(y, ONE)
  BY <1>1, <1>2, TruncDivMonotone
<1>4. TruncDiv(x, ONE) \in Int /\ TruncDiv(y, ONE) \in Int
  BY <1>1, <1>2, TruncDivInt
<1>5. DMul(a, c) = TruncDiv(x, ONE) /\ DMul(b, c) = TruncDiv(y, ONE)
      /\ DMul(c, a) = TruncDiv(x, ONE) /\ DMul(c, b) = TruncDiv(y, ONE)
  BY <1>1 DEF DMul, x, y
<1> QED
  BY <1>3, <1>4, <1>5

LEMMA DDivLe ==
    ASSUME NEW a \in Int, NEW b \in Int, a <= b, NEW n \in Nat \ {0}
    PROVE  DDiv(a, n) \in Int /\ DDiv(b, n) \in Int /\ DDiv(a, n) <= DDiv(b, n)
<1> DEFINE x == a * ONE
           y == b * ONE
<1>1. x \in Int /\ y \in Int /\ x <= y
  BY DecimalAssumption, SMTT(30)
<1> HIDE DEF x, y
<1>2. TruncDiv(x, n) <= TruncDiv(y, n) /\ TruncDiv(x, n) \in Int /\ TruncDiv(y, n) \in Int
  BY <1>1, TruncDivMonotone, TruncDivInt
<1> QED
  BY <1>2 DEF DDiv, x, y

\* What may be borrowed of b against an amount of c.
Limit(c, b, amount) == DDiv(DMul(DMul(quote[c], amount), AssetStates[c].ltv), quote[b])

\* A debt within the limit, rounded down, of some amount of the collateral is
\* within the limit, rounded up, of a larger one.
LEMMA LimitHolds ==
    ASSUME ManagerInv, NEW b \in Token, NEW c \in Token,
           NEW amount \in Int, NEW value \in Int, amount <= value,
           NEW debt \in Int, debt <= FloorTo(Limit(c, b, amount), Unit[b])
    PROVE  debt <= CeilTo(Limit(c, b, value), Unit[b])
<1>1. /\ quote[c] \in Nat /\ quote[b] \in Nat \ {0} /\ AssetStates[c].ltv \in Nat
      /\ Unit[b] \in Nat \ {0}
  BY InvNumbers, UnitsPositive, CdpManagerAssumption
<1> DEFINE x == DMul(quote[c], amount)
           y == DMul(quote[c], value)
           x2 == DMul(x, AssetStates[c].ltv)
           y2 == DMul(y, AssetStates[c].ltv)
           low == DDiv(x2, quote[b])
           high == DDiv(y2, quote[b])
<1>2. x \in Int /\ y \in Int /\ x <= y
  BY <1>1, DMulLe
<1> HIDE DEF x, y
<1>3. x2 \in Int /\ y2 \in Int /\ x2 <= y2
  BY <1>1, <1>2, DMulLe
<1> HIDE DEF x2, y2
<1>4. low \in Int /\ high \in Int /\ low <= high
  BY <1>1, <1>3, DDivLe
<1>5. low = Limit(c, b, amount) /\ high = Limit(c, b, value)
  BY DEF Limit, x, y, x2, y2
<1> HIDE DEF low, high
<1>6. /\ FloorTo(low, Unit[b]) \in Int /\ FloorTo(low, Unit[b]) <= low
      /\ CeilTo(high, Unit[b]) \in Int /\ high <= CeilTo(high, Unit[b])
  <2> DEFINE unit == Unit[b]
  <2>1. unit \in Nat \ {0}
    BY <1>1
  <2> HIDE DEF unit
  <2>2. /\ FloorTo(low, unit) \in Int /\ FloorTo(low, unit) <= low
        /\ CeilTo(high, unit) \in Int /\ high <= CeilTo(high, unit)
    BY ONLY <1>4, <2>1, FloorToBounds, CeilToBounds
  <2> QED
    BY <2>2 DEF unit
<1> QED
  BY <1>4, <1>5, <1>6

\* A loan adds at most its amount to the debt, but for the share it rounds up to.
LEMMA BorrowedDebt ==
    ASSUME NEW n \in Nat, NEW amount \in Nat, NEW index \in Nat \ {0}, NEW unit \in Nat \ {0}
    PROVE  LET shares == CeilTo(DDiv(amount, index), unit)
           IN  /\ shares \in Int
               /\ DMul(n + shares - unit, index) \in Int
               /\ DMul(n + shares - unit, index) <= DMul(n, index) + amount
<1> DEFINE d == DDiv(amount, index)
           shares == CeilTo(d, unit)
           k == n + shares - unit
<1>1. d \in Nat /\ index * d <= amount * ONE
  BY DDivNat
<1> HIDE DEF d
<1>2. shares \in Int /\ shares < d + unit
  BY <1>1, CeilToBounds
<1> HIDE DEF shares
<1>3. k \in Int /\ k <= n + d
  BY <1>1, <1>2
<1>4. DMul(k, index) \in Int /\ DMul(k, index) <= DMul(n + d, index)
      /\ DMul(n + d, index) \in Int
  <2>1. n + d \in Int /\ index \in Nat
    BY <1>1
  <2> HIDE DEF k
  <2> QED
    BY <1>3, <2>1, DMulLe
<1>5. DMul(n + d, index) <= DMul(n, index) + amount
  <2> DEFINE x == (n + d) * index
             y == n * index
             m == ONE * amount
  <2>0. ONE \in Nat \ {0} /\ amount * ONE = ONE * amount /\ m \in Nat
    BY DecimalAssumption, SMTT(30)
  <2>1. x = y + index * d /\ index * d \in Int /\ x \in Int /\ y \in Nat
    BY <1>1, SMTT(30)
  <2>2. x <= y + m /\ y + m \in Int
    BY <1>1, <2>0, <2>1
  <2> HIDE DEF x, y
  <2>3. TruncDiv(y + ONE * amount, ONE) = TruncDiv(y, ONE) + amount
    BY <2>0, <2>1, TruncDivLess
  <2>4. TruncDiv(x, ONE) <= TruncDiv(y + m, ONE)
    BY <2>0, <2>1, <2>2, TruncDivMonotone
  <2>5. DMul(n + d, index) = TruncDiv(x, ONE) /\ DMul(n, index) = TruncDiv(y, ONE)
    BY DEF DMul, x, y
  <2> QED
    BY <2>3, <2>4, <2>5
<1>6. DMul(n, index) \in Int
  BY DMulNat
<1> HIDE DEF k
<1>7. DMul(k, index) <= DMul(n, index) + amount
  BY <1>4, <1>5, <1>6
<1> QED
  BY <1>2, <1>4, <1>7 DEF k, shares, d

\* A withdrawal takes at most its amount from the collateral's value, but for
\* the dx token unit it rounds up to.
LEMMA WithdrawnValue ==
    ASSUME NEW n \in Int, NEW amount \in Nat, NEW index \in Nat \ {0}, NEW unit \in Nat \ {0}
    PROVE  LET shares == CeilTo(DDiv(amount, index), unit)
           IN  /\ DMul(n, index) - amount \in Int /\ DMul(n - shares + unit, index) \in Int
               /\ DMul(n, index) - amount <= DMul(n - shares + unit, index)
<1> DEFINE d == DDiv(amount, index)
           shares == CeilTo(d, unit)
           k == n - shares + unit
<1>1. d \in Nat /\ index * d <= amount * ONE
  BY DDivNat
<1> HIDE DEF d
<1>2. shares \in Int /\ shares < d + unit
  BY <1>1, CeilToBounds
<1> HIDE DEF shares
<1>3. k \in Int /\ n - d <= k
  BY <1>1, <1>2
<1>4. DMul(k, index) \in Int /\ DMul(n - d, index) <= DMul(k, index)
      /\ DMul(n - d, index) \in Int
  <2>1. n - d \in Int /\ index \in Nat
    BY <1>1
  <2> HIDE DEF k
  <2> QED
    BY <1>3, <2>1, DMulLe
<1>5. DMul(n, index) - amount <= DMul(n - d, index) /\ DMul(n, index) \in Int
  <2> DEFINE x == (n - d) * index
             y == n * index
             m == ONE * amount
  <2>0. ONE \in Nat \ {0} /\ ONE \in Int \ {0} /\ amount * ONE = ONE * amount /\ m \in Nat
    BY DecimalAssumption, SMTT(30)
  <2>1. x = y - index * d /\ index * d \in Int /\ x \in Int /\ y \in Int
    BY <1>1, SMTT(30)
  <2>2. y - m <= x /\ y - m \in Int
    BY <1>1, <2>0, <2>1
  <2> HIDE DEF x, y
  <2>3. TruncDiv(y, ONE) - amount <= TruncDiv(y - ONE * amount, ONE)
    BY <2>0, <2>1, TruncDivLess
  <2>4. TruncDiv(y - m, ONE) <= TruncDiv(x, ONE)
    BY <2>0, <2>1, <2>2, TruncDivMonotone
  <2>5. DMul(n - d, index) = TruncDiv(x, ONE) /\ DMul(n, index) = TruncDiv(y, ONE)
    BY DEF DMul, x, y
  <2>6. TruncDiv(x, ONE) \in Int /\ TruncDiv(y, ONE) \in Int /\ TruncDiv(y - m, ONE) \in Int
    BY <2>0, <2>1, <2>2, TruncDivInt
  <2> QED
    BY <2>3, <2>4, <2>5, <2>6
<1> HIDE DEF k
<1>7. DMul(n, index) - amount <= DMul(k, index) /\ DMul(n, index) - amount \in Int
  BY <1>4, <1>5
<1> QED
  BY <1>4, <1>7 DEF k, shares, d

LEMMA LimitInt ==
    ASSUME ManagerInv, NEW b \in Token, NEW c \in Token, NEW amount \in Int
    PROVE  Limit(c, b, amount) \in Int
<1>1. quote[c] \in Nat /\ quote[b] \in Nat \ {0} /\ AssetStates[c].ltv \in Nat
  BY InvNumbers, CdpManagerAssumption
<1> DEFINE x == DMul(quote[c], amount)
           y == DMul(x, AssetStates[c].ltv)
<1>2. x \in Int
  BY <1>1, amount <= amount, DMulLe
<1> HIDE DEF x
<1>3. x <= x /\ y \in Int
  BY <1>1, <1>2, x <= x, DMulLe
<1> HIDE DEF y
<1>4. DDiv(y, quote[b]) \in Int
  BY <1>1, <1>3, y <= y, DDivLe
<1> QED
  BY <1>4 DEF Limit, x, y

\* A pool quotes after the step what it quoted before.
QuoteStays(t) ==
    /\ CurrentDepositIndex(pools'[t], epoch) = CurrentDepositIndex(pools[t], epoch)
    /\ CurrentLoanIndex(pools'[t], epoch) = CurrentLoanIndex(pools[t], epoch)

LEMMA OneQuoteStays ==
    ASSUME ManagerInv, NEW x \in Token, NEW q, Updated(pools, pools', x, q),
           AtQuote(pools[x], q, epoch), NEW t \in Token
    PROVE  QuoteStays(t)
<1>1. CASE t = x
  <2>1. pools'[t] = q
    BY <1>1 DEF Updated
  <2>2. /\ CurrentDepositIndex(q, epoch) = q.deposit_index
        /\ CurrentLoanIndex(q, epoch) = q.loan_index
    BY DEF AtQuote, CurrentDepositIndex, CurrentLoanIndex
  <2> QED
    BY <1>1, <2>1, <2>2 DEF QuoteStays, AtQuote
<1>2. CASE t # x
  BY <1>2 DEF Updated, QuoteStays
<1> QED
  BY <1>1, <1>2

LEMMA CoverFollows ==
    ASSUME ManagerInv, NEW i, NEW d \in SoundCdp, cdps'[i] = d, ~ d.is_stable,
           QuoteStays(d.borrow_token), QuoteStays(d.collateral_token),
           NEW debt \in Int, NEW value \in Int, NEW amount \in Int,
           debt = DMul(d.normalized_borrow - ShareUnit[d.borrow_token],
                       CurrentLoanIndex(pools[d.borrow_token], epoch)),
           value = DMul(d.collateral_amount + ShareUnit[d.collateral_token],
                        CurrentDepositIndex(pools[d.collateral_token], epoch)),
           amount <= value,
           debt <= FloorTo(Limit(d.collateral_token, d.borrow_token, amount),
                           Unit[d.borrow_token])
    PROVE  CoveredAfter(i)
<1> DEFINE b == d.borrow_token
           c == d.collateral_token
<1>1. b \in Token /\ c \in Token
  BY CdpFields
<1>2. debt = GetVariableInterest(pools'[b], epoch, d.normalized_borrow - ShareUnit[b])
  BY DEF GetVariableInterest, QuoteStays
<1>3. value = GetRedemptionValue(pools'[c], epoch, d.collateral_amount + ShareUnit[c])
  BY DEF GetRedemptionValue, QuoteStays
<1>4. debt <= CeilTo(Limit(c, b, value), Unit[b])
  BY <1>1, LimitHolds
<1> QED
  BY <1>1, <1>2, <1>3, <1>4 DEF CoveredAfter, Limit

\* A limit the manager computes is that of the collateral's value less what is
\* to be removed.
LEMMA MaxLoanIsLimit ==
    ASSUME NEW c, NEW b, NEW dx_amount, NEW remove_amount
    PROVE  GetMaxLoanAmount(c, dx_amount, b, remove_amount)
             = FloorTo(Limit(c, b, DMul(dx_amount, CurrentDepositIndex(pools[c], epoch))
                                     - remove_amount), Unit[b])
BY DEF GetMaxLoanAmount, Limit, GetRedemptionValue

LEMMA IndicesPositive ==
    ASSUME ManagerInv, NEW t \in Token
    PROVE  /\ CurrentDepositIndex(pools[t], epoch) \in Nat \ {0}
           /\ CurrentLoanIndex(pools[t], epoch) \in Nat \ {0}
           /\ AssetPool(t, pools[t], epoch) /\ epoch \in Nat
<1>1. epoch \in Nat /\ AssetPool(t, pools[t], epoch)
  BY InvNumbers DEF ManagerInv, TokenBook
<1>2. /\ CurrentDepositIndex(pools[t], epoch) \in Nat
      /\ ONE <= CurrentDepositIndex(pools[t], epoch)
      /\ CurrentLoanIndex(pools[t], epoch) \in Nat
      /\ ONE <= CurrentLoanIndex(pools[t], epoch) /\ ONE \in Nat \ {0}
  BY <1>1, AssetIndices, DecimalAssumption
<1> QED
  BY <1>1, <1>2

LEMMA WithdrawalCovered ==
    ASSUME ManagerInv, NEW id \in DOMAIN cdps, NEW amount \in Withdrawals,
           WithdrawCollateral(id, amount), ~ cdps[id].is_stable
    PROVE  CoveredAfter(id)
<1> DEFINE e == cdps[id]
           b == e.borrow_token
           c == e.collateral_token
           p == pools[c]
           unit == ShareUnit[c]
           index == CurrentDepositIndex(p, epoch)
           shares == CeilTo(DDiv(amount, index), unit)
           taken == FloorTo(DDiv(amount, index), unit)
           q == RemoveLiquity(p, epoch, taken)
           d == [e EXCEPT !.collateral_amount = @ - shares]
<1>1. /\ e \in SoundCdp /\ b \in Token /\ c \in Token /\ amount \in Nat /\ epoch \in Nat
      /\ collateral_vaults[c] \in Nat /\ dx_wallets[c] \in Nat
      /\ AssetPool(c, p, epoch) /\ p.share_supply = dx_wallets[c] + collateral_vaults[c]
      /\ e.collateral_amount \in Int /\ e.normalized_borrow \in Nat
      /\ unit \in Nat \ {0} /\ ShareUnit[b] \in Nat \ {0} /\ index \in Nat \ {0}
      /\ id \in DOMAIN cdps
  BY CdpInv, CdpFields, UnitsPositive, IndicesPositive, CdpManagerAssumption
<1>2. /\ pools' = [pools EXCEPT ![c] = q] /\ cdps' = [cdps EXCEPT ![id] = d]
      /\ taken <= collateral_vaults[c] /\ CanRemoveLiquity(p, epoch, taken)
      /\ VariableDebt(e) <= GetMaxLoanAmount(c, e.collateral_amount, b, amount)
  <2>1. GetMaxLoanAmount(c, e.collateral_amount, b, amount) >= VariableDebt(e)
    BY DEF WithdrawCollateral, CollateralSuffices
  <2>2. /\ pools' = [pools EXCEPT ![c] = q] /\ cdps' = [cdps EXCEPT ![id] = d]
        /\ taken <= collateral_vaults[c] /\ CanRemoveLiquity(p, epoch, taken)
    BY DEF WithdrawCollateral
  <2> QED
    BY <2>1, <2>2
<1>3. taken \in Nat
  <2> DEFINE x == DDiv(amount, index)
  <2>1. x \in Nat
    BY <1>1, DDivNat
  <2> HIDE DEF x, unit, taken
  <2>2. FloorTo(x, unit) \in Nat
    BY <1>1, <2>1, FloorToBounds
  <2> QED
    BY <2>2 DEF x, taken
<1>4. AtQuote(p, q, epoch)
  <2>1. taken <= p.share_supply
    BY <1>1, <1>2, <1>3
  <2> QED
    BY <1>1, <1>2, <1>3, <2>1, AssetRedeemed
<1> HIDE DEF q, taken
<1>5. QuoteStays(b) /\ QuoteStays(c)
  <2>1. Updated(pools, pools', c, q)
    BY <1>1, <1>2, OverTokensChanged DEF ManagerInv
  <2> QED
    BY <1>1, <1>4, <2>1, OneQuoteStays
<1> DEFINE value == DMul(e.collateral_amount - shares + unit, index)
           left == DMul(e.collateral_amount, index) - amount
           debt == DMul(e.normalized_borrow - ShareUnit[b], CurrentLoanIndex(pools[b], epoch))
<1>6. left \in Int /\ value \in Int /\ left <= value /\ shares \in Int
  <2> HIDE DEF index, unit
  <2>1. shares \in Int
    <3>1. DDiv(amount, index) \in Int
      BY <1>1, DDivNat
    <3> QED
      BY <1>1, <3>1, CeilToBounds
  <2> QED
    BY <1>1, <2>1, WithdrawnValue
<1>7. debt \in Int /\ debt <= VariableDebt(e)
  <2>1. CurrentLoanIndex(pools[b], epoch) \in Nat
    BY <1>1, IndicesPositive
  <2>2. e.normalized_borrow - ShareUnit[b] \in Int /\ e.normalized_borrow \in Int
        /\ e.normalized_borrow - ShareUnit[b] <= e.normalized_borrow
    BY <1>1
  <2>3. debt \in Int /\ debt <= DMul(e.normalized_borrow, CurrentLoanIndex(pools[b], epoch))
    BY ONLY <2>1, <2>2, DMulLe
  <2> QED
    BY <2>3 DEF VariableDebt, GetVariableInterest
<1>8. debt <= FloorTo(Limit(c, b, left), Unit[b])
  <2>1. VariableDebt(e) <= FloorTo(Limit(c, b, left), Unit[b])
    BY <1>2, MaxLoanIsLimit
  <2>2. VariableDebt(e) \in Int /\ FloorTo(Limit(c, b, left), Unit[b]) \in Int
    <3>1. CurrentLoanIndex(pools[b], epoch) \in Nat /\ e.normalized_borrow \in Int
      BY <1>1, IndicesPositive
    <3>2. VariableDebt(e) \in Int
      BY <3>1, e.normalized_borrow <= e.normalized_borrow, DMulLe
         DEF VariableDebt, GetVariableInterest
    <3>3. Limit(c, b, left) \in Int
      BY <1>1, <1>6, LimitInt
    <3>4. Unit[b] \in Nat \ {0}
      BY <1>1, UnitsPositive
    <3> HIDE DEF left
    <3> QED
      BY <3>2, <3>3, <3>4, FloorToBounds
  <2> QED
    BY <1>7, <2>1, <2>2
<1> HIDE DEF shares
<1>9. /\ d \in SoundCdp /\ d.borrow_token = b /\ d.collateral_token = c
      /\ d.normalized_borrow = e.normalized_borrow /\ ~ d.is_stable
      /\ d.collateral_amount = e.collateral_amount - shares
  BY <1>1, <1>6, ReleasedCdp DEF SameTerms
<1>10. cdps'[id] = d
  BY <1>1, <1>2
<1> HIDE DEF d, left
<1>11. /\ value = DMul(d.collateral_amount + ShareUnit[c], CurrentDepositIndex(pools[c], epoch))
       /\ debt = DMul(d.normalized_borrow - ShareUnit[b], CurrentLoanIndex(pools[b], epoch))
  BY <1>9
<1> HIDE DEF value, debt
<1> QED
  BY <1>5, <1>6, <1>7, <1>8, <1>9, <1>10, <1>11, CoverFollows

\* Taking collateral out leaves a variable position within its LTV, whatever the
\* roundings, the divisibilities and the indices the pools are at
\* (validate_withdraw_collateral, withdraw_collateral).
THEOREM WithdrawalsStayCovered == Spec /\ []RatesKept => WithdrawalsKeepCover
<1>1. ManagerInv /\ [Next]_vars =>
        [\A id \in DOMAIN cdps, amount \in Withdrawals :
            WithdrawCollateral(id, amount) /\ ~ cdps[id].is_stable => CoveredAfter(id)]_vars
  BY WithdrawalCovered
<1> QED
  BY <1>1, ManagerInvariant, PTL DEF Spec, WithdrawalsKeepCover

LEMMA SharesAtQuote ==
    ASSUME ManagerInv, NEW t \in Token, NEW amount
    PROVE  VariableShare(UpdateIndex(pools[t], epoch), amount)
             = CeilTo(DDiv(amount, CurrentLoanIndex(pools[t], epoch)), ShareUnit[t])
<1> DEFINE u == UpdateIndex(pools[t], epoch)
<1>1. AssetPool(t, u, epoch) /\ AtQuote(pools[t], u, epoch)
  BY IndicesPositive, AssetUpdated
<1> HIDE DEF u
<1>2. u.loan_index = CurrentLoanIndex(pools[t], epoch) /\ u.share_unit = ShareUnit[t]
  BY <1>1 DEF AssetPool, AtQuote
<1> QED
  BY <1>2 DEF VariableShare, u

\* The value of a collateral is less than that of one more dx token unit.
LEMMA HeldValue ==
    ASSUME ManagerInv, NEW c \in Token, NEW collateral \in Int
    PROVE  LET index == CurrentDepositIndex(pools[c], epoch)
               held == DMul(collateral, index)
               value == DMul(collateral + ShareUnit[c], index)
           IN  held \in Int /\ held - 0 \in Int /\ value \in Int /\ held - 0 <= value
<1> DEFINE index == CurrentDepositIndex(pools[c], epoch)
           more == collateral + ShareUnit[c]
<1>1. index \in Nat /\ more \in Int /\ collateral <= more
  BY IndicesPositive, UnitsPositive
<1> HIDE DEF index, more
<1>2. DMul(collateral, index) \in Int /\ DMul(more, index) \in Int
      /\ DMul(collateral, index) <= DMul(more, index)
  BY <1>1, DMulLe
<1> QED
  BY <1>2 DEF index, more

LEMMA MaxLoanInt ==
    ASSUME ManagerInv, NEW b \in Token, NEW c \in Token, NEW collateral \in Int
    PROVE  GetMaxLoanAmount(c, collateral, b, 0) \in Int
<1> DEFINE held == DMul(collateral, CurrentDepositIndex(pools[c], epoch))
           m == held - 0
<1>1. m \in Int
  BY HeldValue
<1>2. GetMaxLoanAmount(c, collateral, b, 0) = FloorTo(Limit(c, b, m), Unit[b])
  BY MaxLoanIsLimit
<1> HIDE DEF m
<1>3. Limit(c, b, m) \in Int /\ Unit[b] \in Nat \ {0}
  BY <1>1, LimitInt, UnitsPositive
<1>4. FloorTo(Limit(c, b, m), Unit[b]) \in Int
  BY <1>3, FloorToBounds
<1> QED
  BY <1>2, <1>4

\* A position that owed n shares and borrows an amount that its limit allows.
LEMMA LoanCovered ==
    ASSUME ManagerInv, NEW b \in Token, NEW c \in Token, NEW n \in Nat, NEW amount \in Nat,
           NEW collateral \in Int,
           DMul(n, CurrentLoanIndex(pools[b], epoch)) + amount
             <= GetMaxLoanAmount(c, collateral, b, 0),
           QuoteStays(b), QuoteStays(c),
           NEW i, NEW d \in SoundCdp, cdps'[i] = d, ~ d.is_stable,
           d.borrow_token = b, d.collateral_token = c, d.collateral_amount = collateral,
           d.normalized_borrow = n + VariableShare(UpdateIndex(pools[b], epoch), amount)
    PROVE  CoveredAfter(i)
<1> DEFINE li == CurrentLoanIndex(pools[b], epoch)
           di == CurrentDepositIndex(pools[c], epoch)
           su == ShareUnit[b]
           shares == CeilTo(DDiv(amount, li), su)
           debt == DMul(n + shares - su, li)
           held == DMul(collateral, di)
           value == DMul(collateral + ShareUnit[c], di)
<1>1. /\ li \in Nat \ {0} /\ di \in Nat \ {0}
      /\ su \in Nat \ {0} /\ ShareUnit[c] \in Nat \ {0} /\ Unit[b] \in Nat \ {0}
  BY IndicesPositive, UnitsPositive
<1>2. shares \in Int /\ debt \in Int /\ debt <= DMul(n, li) + amount
  <2> HIDE DEF li, su
  <2> QED
    BY <1>1, BorrowedDebt
<1>3. held \in Int /\ held - 0 \in Int /\ value \in Int /\ held - 0 <= value
  BY HeldValue
<1>4. DMul(n, li) + amount <= FloorTo(Limit(c, b, held - 0), Unit[b])
  BY MaxLoanIsLimit
<1>5. /\ DMul(n, li) \in Int /\ FloorTo(Limit(c, b, held - 0), Unit[b]) \in Int
  <2>1. GetMaxLoanAmount(c, collateral, b, 0) \in Int
    BY MaxLoanInt
  <2> QED
    BY <1>1, <2>1, DMulNat, MaxLoanIsLimit
<1>6. debt = DMul(d.normalized_borrow - su, li)
  <2>1. VariableShare(UpdateIndex(pools[b], epoch), amount) = shares
    BY SharesAtQuote
  <2>2. d.normalized_borrow = n + shares
    BY ONLY <2>1, d.normalized_borrow = n + VariableShare(UpdateIndex(pools[b], epoch), amount)
  <2> HIDE DEF shares, li, su
  <2>3. n + shares - su = d.normalized_borrow - su
    BY <1>1, <1>2, <2>2
  <2> QED
    BY <2>3 DEF debt
<1>7. value = DMul(d.collateral_amount + ShareUnit[c], di)
  OBVIOUS
<1> DEFINE m == held - 0
<1> HIDE DEF debt, value, held, shares
<1>8. debt <= FloorTo(Limit(c, b, m), Unit[b])
  BY <1>2, <1>4, <1>5
<1>9. m \in Int /\ m <= value
  BY <1>3
<1> HIDE DEF m
<1> QED
  BY <1>2, <1>3, <1>6, <1>7, <1>8, <1>9, CoverFollows

\* A stable position whose loan its limit allows.
LEMMA StableLoanCovered ==
    ASSUME ManagerInv, NEW i, NEW d \in SoundCdp, cdps'[i] = d, d.is_stable,
           QuoteStays(d.collateral_token),
           d.borrow_amount
             <= GetMaxLoanAmount(d.collateral_token, d.collateral_amount, d.borrow_token, 0)
    PROVE  CoveredAfter(i)
<1> DEFINE b == d.borrow_token
           c == d.collateral_token
           index == CurrentDepositIndex(pools[c], epoch)
           m == DMul(d.collateral_amount, index) - 0
           value == DMul(d.collateral_amount + ShareUnit[c], index)
<1>1. b \in Token /\ c \in Token /\ d.borrow_amount \in Int /\ d.collateral_amount \in Int
  BY CdpFields
<1>2. m \in Int /\ value \in Int /\ m <= value
  BY <1>1, HeldValue
<1>3. d.borrow_amount <= FloorTo(Limit(c, b, m), Unit[b])
  BY MaxLoanIsLimit
<1>4. value = GetRedemptionValue(pools'[c], epoch, d.collateral_amount + ShareUnit[c])
  BY DEF GetRedemptionValue, QuoteStays
<1> HIDE DEF m, value, b, c
<1>5. d.borrow_amount <= CeilTo(Limit(c, b, value), Unit[b])
  BY <1>1, <1>2, <1>3, LimitHolds
<1> QED
  BY <1>4, <1>5 DEF CoveredAfter, Limit, b, c

\* What LoansStayWithinLtv says of a step.
LoansCovered ==
    \A i \in DOMAIN cdps' :
        (i \notin DOMAIN cdps \/ cdps'[i].total_borrow > cdps[i].total_borrow)
           => CoveredAfter(i)

LEMMA OneLoan ==
    ASSUME ManagerInv, NEW x, DOMAIN cdps' \subseteq DOMAIN cdps \cup {x},
           \A i \in DOMAIN cdps \ {x} : cdps'[i] = cdps[i],
           CoveredAfter(x) \/ (x \in DOMAIN cdps /\ cdps'[x].total_borrow = cdps[x].total_borrow)
    PROVE  LoansCovered
<1> SUFFICES ASSUME NEW i \in DOMAIN cdps',
                    i \notin DOMAIN cdps \/ cdps'[i].total_borrow > cdps[i].total_borrow
             PROVE  CoveredAfter(i)
  BY DEF LoansCovered
<1>1. i \in DOMAIN cdps => cdps[i].total_borrow \in Nat
  BY CdpInv, CdpFields
<1>2. i = x
  BY <1>1
<1> QED
  BY <1>1, <1>2

LEMMA OpenCovered ==
    ASSUME ManagerInv, NEW c \in Token, NEW b \in Token,
           NEW dx_amount \in Collaterals, NEW amount \in Loans,
           OpenVariable(c, dx_amount, b, amount)
    PROVE  LoansCovered
<1> DEFINE p == pools[b]
           q == BorrowVariable(p, epoch, amount)
           shares == VariableShare(UpdateIndex(p, epoch), amount)
           d == NewCdp(c, b, amount, dx_amount, shares, 0, FALSE)
           x == Len(cdps) + 1
           li == CurrentLoanIndex(p, epoch)
<1>1. /\ amount \in Nat /\ dx_amount \in Nat /\ epoch \in Nat
      /\ AssetPool(b, p, epoch) /\ cdps \in Seq(SoundCdp) /\ li \in Nat \ {0}
  BY IndicesPositive, CdpManagerAssumption DEF ManagerInv, Positions
<1>2. /\ pools' = [pools EXCEPT ![b] = q] /\ cdps' = Append(cdps, d)
      /\ amount <= GetMaxLoanAmount(c, dx_amount, b, 0)
      /\ CanBorrowVariable(p, epoch, amount)
  BY DEF OpenVariable
<1>3. AtQuote(p, q, epoch) /\ shares \in Nat
  BY <1>1, <1>2, AssetBorrowed
<1> HIDE DEF q
<1>4. QuoteStays(b) /\ QuoteStays(c)
  <2>1. Updated(pools, pools', b, q)
    BY <1>2, OverTokensChanged DEF ManagerInv
  <2> QED
    BY <1>3, <2>1, OneQuoteStays
<1>5. /\ d \in SoundCdp /\ d.borrow_token = b /\ d.collateral_token = c /\ ~ d.is_stable
      /\ d.normalized_borrow = shares /\ d.collateral_amount = dx_amount
  <2> HIDE DEF shares
  <2> QED
    BY <1>1, <1>3 DEF NewCdp, SoundCdp, Cdp
<1> HIDE DEF d
<1>6. /\ cdps'[x] = d /\ DOMAIN cdps' = DOMAIN cdps \cup {x}
      /\ \A i \in DOMAIN cdps \ {x} : cdps'[i] = cdps[i]
  BY <1>1, <1>2, <1>5
<1>7. DMul(0, li) + amount = amount
  <2>1. DMul(0, li) = 0
    <3>1. 0 * li = 0 /\ TruncDiv(0, ONE) = 0
      BY <1>1, DecimalAssumption DEF TruncDiv, Sign, Magnitude
    <3> QED
      BY <3>1 DEF DMul
  <2> QED
    BY <1>1, <2>1
<1>8. CoveredAfter(x)
  <2>1. 0 \in Nat /\ dx_amount \in Int /\ d.normalized_borrow = 0 + shares
    BY <1>1, <1>3, <1>5
  <2> HIDE DEF x
  <2> QED
    BY ONLY ManagerInv, b \in Token, c \in Token, <1>1, <1>2, <1>4, <1>5, <1>6, <1>7, <2>1,
            LoanCovered, SMTT(30)
<1> QED
  BY <1>6, <1>8, OneLoan

LEMMA OpenStableCovered ==
    ASSUME ManagerInv, StableBorrowing, NEW c \in Token, NEW b \in Token,
           NEW dx_amount \in Collaterals, NEW amount \in Loans,
           OpenStable(c, dx_amount, b, amount)
    PROVE  LoansCovered
<1> DEFINE p == pools[b]
           rate == PoolInterestRate(p, epoch, amount).stable
           q == BorrowStable(p, epoch, amount, rate)
           d == NewCdp(c, b, amount, dx_amount, 0, rate, TRUE)
           x == Len(cdps) + 1
<1>1. /\ amount \in Nat /\ dx_amount \in Nat /\ epoch \in Nat
      /\ AssetPool(b, p, epoch) /\ cdps \in Seq(SoundCdp)
  BY IndicesPositive, CdpManagerAssumption DEF ManagerInv, Positions
<1>2. /\ pools' = [pools EXCEPT ![b] = q] /\ cdps' = Append(cdps, d)
      /\ amount <= GetMaxLoanAmount(c, dx_amount, b, 0)
      /\ CanBorrowStable(p, epoch, amount)
  BY DEF OpenStable
<1>3. AtQuote(p, q, epoch) /\ rate \in Nat
  BY <1>1, <1>2, AssetLent
<1> HIDE DEF q, rate
<1>4. QuoteStays(c)
  <2>1. Updated(pools, pools', b, q)
    BY <1>2, OverTokensChanged DEF ManagerInv
  <2> QED
    BY <1>3, <2>1, OneQuoteStays
<1>5. /\ d \in SoundCdp /\ d.borrow_token = b /\ d.collateral_token = c /\ d.is_stable
      /\ d.borrow_amount = amount /\ d.collateral_amount = dx_amount
  BY <1>1, <1>3 DEF NewCdp, SoundCdp, Cdp
<1> HIDE DEF d
<1>6. /\ cdps'[x] = d /\ DOMAIN cdps' = DOMAIN cdps \cup {x}
      /\ \A i \in DOMAIN cdps \ {x} : cdps'[i] = cdps[i]
  BY <1>1, <1>2, <1>5
<1> HIDE DEF x
<1>7. CoveredAfter(x)
  BY <1>2, <1>4, <1>5, <1>6, StableLoanCovered
<1> QED
  BY <1>6, <1>7, OneLoan

LEMMA ExtendCovered ==
    ASSUME ManagerInv, NEW id \in DOMAIN cdps, NEW amount \in Loans, ExtendVariable(id, amount)
    PROVE  LoansCovered
<1> DEFINE e == cdps[id]
           b == e.borrow_token
           c == e.collateral_token
           p == pools[b]
           q == BorrowVariable(p, epoch, amount)
           shares == VariableShare(UpdateIndex(p, epoch), amount)
           d == UpdateCdpData(e, amount, 0, 0, shares, 0)
           n == e.normalized_borrow
           li == CurrentLoanIndex(p, epoch)
<1>1. /\ e \in SoundCdp /\ b \in Token /\ c \in Token /\ epoch \in Nat /\ amount \in Nat
      /\ AssetPool(b, p, epoch) /\ n \in Nat /\ e.collateral_amount \in Int
      /\ li \in Nat \ {0} /\ e.last_update_epoch <= epoch
  BY CdpInv, CdpFields, IndicesPositive, CdpManagerAssumption
<1>2. /\ pools' = [pools EXCEPT ![b] = q] /\ cdps' = [cdps EXCEPT ![id] = d]
      /\ DMul(n, li) + amount < GetMaxLoanAmount(c, e.collateral_amount, b, 0)
      /\ CanBorrowVariable(p, epoch, amount) /\ ~ e.is_stable
  BY DEF ExtendVariable, VariableDebt, GetVariableInterest
<1>3. AtQuote(p, q, epoch) /\ shares \in Nat
  BY <1>1, <1>2, AssetBorrowed
<1> HIDE DEF q
<1>4. QuoteStays(b) /\ QuoteStays(c)
  <2>1. Updated(pools, pools', b, q)
    BY <1>1, <1>2, OverTokensChanged DEF ManagerInv
  <2> QED
    BY <1>1, <1>3, <2>1, OneQuoteStays
<1>5. /\ d \in SoundCdp /\ d.borrow_token = b /\ d.collateral_token = c /\ ~ d.is_stable
      /\ d.normalized_borrow = n + shares
      /\ d.collateral_amount = e.collateral_amount
  <2> HIDE DEF shares, e
  <2>1. Extended(e, d, amount, 0, 0, shares)
    <3>1. /\ e \in SoundCdp /\ epoch \in Nat /\ e.last_update_epoch <= epoch
          /\ amount \in Nat /\ 0 \in Nat /\ shares \in Nat /\ (e.is_stable => shares = 0)
      BY <1>1, <1>2, <1>3
    <3> QED
      BY ONLY <3>1, ExtendedCdp
  <2> HIDE DEF d
  <2> QED
    BY <1>1, <1>2, <2>1 DEF Extended, SameTerms
<1> HIDE DEF d
<1>6. /\ cdps'[id] = d /\ DOMAIN cdps' \subseteq DOMAIN cdps \cup {id}
      /\ \A i \in DOMAIN cdps \ {id} : cdps'[i] = cdps[i]
  BY <1>2
<1>7. DMul(n, li) + amount <= GetMaxLoanAmount(c, e.collateral_amount, b, 0)
  <2> DEFINE owed == DMul(n, li) + amount
             most == GetMaxLoanAmount(c, e.collateral_amount, b, 0)
  <2>1. owed < most
    BY <1>2
  <2>2. owed \in Int /\ most \in Int
    <3>1. DMul(n, li) \in Nat
      BY <1>1, DMulNat
    <3>2. most \in Int
      BY <1>1, MaxLoanInt
    <3> QED
      BY <1>1, <3>1, <3>2
  <2> HIDE DEF owed, most
  <2>3. owed <= most
    BY <2>1, <2>2
  <2> QED
    BY <2>3 DEF owed, most
<1>8. CoveredAfter(id)
  <2> HIDE DEF e
  <2> QED
    BY <1>1, <1>4, <1>5, <1>6, <1>7, LoanCovered
<1> QED
  BY <1>6, <1>8, OneLoan

\* The interest that joins the loan is within the limit too.
LEMMA ExtendStableCovered ==
    ASSUME ManagerInv, NEW id \in DOMAIN cdps, NEW amount \in Loans, ExtendStable(id, amount)
    PROVE  LoansCovered
<1> DEFINE e == cdps[id]
           b == e.borrow_token
           c == e.collateral_token
           p == pools[b]
           interest == StableDebt(e) - e.borrow_amount
           rate == PoolInterestRate(p, epoch, amount).stable
           average == GetWeightRate(StableDebt(e), e.stable_rate, amount, rate)
           q == BorrowStable(p, epoch, amount, rate)
           d == UpdateCdpData(e, amount, interest, 0, 0, average)
           most == GetMaxLoanAmount(c, e.collateral_amount, b, 0)
<1>1. /\ e \in SoundCdp /\ b \in Token /\ c \in Token /\ epoch \in Nat /\ amount \in Nat
      /\ AssetPool(b, p, epoch) /\ e.collateral_amount \in Int /\ e.borrow_amount \in Nat
      /\ e.last_update_epoch <= epoch /\ e.stable_rate \in Nat
  BY CdpInv, CdpFields, CdpManagerAssumption
<1>2. /\ pools' = [pools EXCEPT ![b] = q] /\ cdps' = [cdps EXCEPT ![id] = d]
      /\ StableDebt(e) + amount < most /\ StableDebt(e) + amount # 0
      /\ CanBorrowStable(p, epoch, amount) /\ e.is_stable
  BY DEF ExtendStable
<1>3. AtQuote(p, q, epoch) /\ rate \in Nat
  BY <1>1, <1>2, AssetLent
<1> HIDE DEF q, rate
<1>4. QuoteStays(c)
  <2>1. Updated(pools, pools', b, q)
    BY <1>1, <1>2, OverTokensChanged DEF ManagerInv
  <2> QED
    BY <1>1, <1>3, <2>1, OneQuoteStays
<1>5. StableDebt(e) \in Nat /\ interest \in Nat /\ most \in Int
  BY <1>1, StableDebtGrows, MaxLoanInt
<1>6. average \in Nat
  BY <1>1, <1>2, <1>3, <1>5, WeightRateNat
<1>7. e.borrow_amount + amount + interest = StableDebt(e) + amount
  BY <1>1, <1>5
<1> HIDE DEF interest, average
<1>8. /\ d \in SoundCdp /\ SameTerms(e, d)
      /\ d.borrow_amount = e.borrow_amount + amount + interest
      /\ d.collateral_amount = e.collateral_amount
  <2>1. /\ e \in SoundCdp /\ epoch \in Nat /\ e.last_update_epoch <= epoch
        /\ amount \in Nat /\ interest \in Nat /\ average \in Nat
        /\ 0 \in Nat /\ (e.is_stable => 0 = 0)
    BY <1>1, <1>5, <1>6
  <2>2. Extended(e, d, amount, interest, 0, 0)
    BY ONLY <2>1, ExtendedCdp
  <2> HIDE DEF d
  <2> QED
    BY <1>1, <2>2 DEF Extended
<1> HIDE DEF d
<1>9. /\ d.collateral_token = c /\ d.borrow_token = b /\ d.is_stable
      /\ d.collateral_amount = e.collateral_amount /\ d.borrow_amount = StableDebt(e) + amount
  BY <1>1, <1>2, <1>7, <1>8 DEF SameTerms
<1>10. d.borrow_amount <= GetMaxLoanAmount(d.collateral_token, d.collateral_amount,
                                           d.borrow_token, 0)
  <2> HIDE DEF most
  <2>1. StableDebt(e) + amount <= most
    BY <1>1, <1>2, <1>5
  <2> QED
    BY <1>9, <2>1 DEF most
<1>11. /\ cdps'[id] = d /\ DOMAIN cdps' \subseteq DOMAIN cdps \cup {id}
       /\ \A i \in DOMAIN cdps \ {id} : cdps'[i] = cdps[i]
  BY <1>2
<1>12. CoveredAfter(id)
  BY <1>4, <1>8, <1>9, <1>10, <1>11, StableLoanCovered
<1> QED
  BY <1>11, <1>12, OneLoan

\* Nothing else makes a total_borrow grow: not a payment, a seizure, collateral
\* or another position.
LEMMA SameLoans ==
    ASSUME ManagerInv, NEW id \in DOMAIN cdps, NEW d, cdps' = [cdps EXCEPT ![id] = d],
           d.total_borrow = cdps[id].total_borrow
    PROVE  LoansCovered
<1>1. /\ cdps'[id] = d /\ DOMAIN cdps' \subseteq DOMAIN cdps \cup {id}
      /\ \A i \in DOMAIN cdps \ {id} : cdps'[i] = cdps[i]
  OBVIOUS
<1> QED
  BY <1>1, OneLoan

LEMMA NoLoans ==
    ASSUME ManagerInv, cdps' = cdps
    PROVE  LoansCovered
<1> SUFFICES ASSUME NEW i \in DOMAIN cdps, cdps[i].total_borrow > cdps[i].total_borrow
             PROVE  FALSE
  BY DEF LoansCovered
<1>1. cdps[i].total_borrow \in Nat
  BY CdpInv, CdpFields
<1> QED
  BY <1>1

LEMMA LoanUntouched ==
    ASSUME NEW e \in SoundCdp
    PROVE  /\ \A n : [e EXCEPT !.collateral_amount = @ - n].total_borrow = e.total_borrow
           /\ \A n : UpdateCdpData(e, 0, 0, n, 0, 0).total_borrow = e.total_borrow
           /\ \A s : CdpAfter(e, s).total_borrow = e.total_borrow
           /\ \A s, n : [CdpAfter(e, s) EXCEPT !.collateral_amount = @ - n].total_borrow
                          = e.total_borrow
<1>1. e \in Cdp /\ e.total_borrow \in Nat
  BY CdpFields DEF SoundCdp
<1>2. \A n : [e EXCEPT !.collateral_amount = @ - n].total_borrow = e.total_borrow
  BY <1>1 DEF Cdp
<1>3. \A n : UpdateCdpData(e, 0, 0, n, 0, 0).total_borrow = e.total_borrow
  <2>1. \A n : UpdateCdpData(e, 0, 0, n, 0, 0).total_borrow = e.total_borrow + 0
    BY <1>1 DEF Cdp, UpdateCdpData
  <2> QED
    BY <1>1, <2>1
<1>4. \A s : CdpAfter(e, s).total_borrow = e.total_borrow
  BY <1>1 DEF Cdp, CdpAfter, UpdateCdpAfterRepay
<1>5. \A s, n : [CdpAfter(e, s) EXCEPT !.collateral_amount = @ - n].total_borrow = e.total_borrow
  BY <1>1 DEF Cdp, CdpAfter, UpdateCdpAfterRepay
<1> QED
  BY <1>2, <1>3, <1>4, <1>5

LEMMA NextCovered ==
    ASSUME ManagerInv, [Next]_vars
    PROVE  [LoansCovered]_vars
<1>1. ASSUME UNCHANGED cdps PROVE LoansCovered
  BY <1>1, NoLoans
<1>2. ASSUME NEW pair \in Pairs, NEW dx_amount \in Collaterals, NEW amount \in Loans,
             \/ OpenVariable(pair[2], dx_amount, pair[1], amount)
             \/ StableBorrowing /\ OpenStable(pair[2], dx_amount, pair[1], amount)
      PROVE  LoansCovered
  <2>1. pair[1] \in Token /\ pair[2] \in Token
    BY CdpManagerAssumption
  <2> QED
    BY <1>2, <2>1, OpenCovered, OpenStableCovered
<1>3. ASSUME NEW id \in DOMAIN cdps, NEW amount \in Loans,
             ExtendVariable(id, amount) \/ ExtendStable(id, amount)
      PROVE  LoansCovered
  BY <1>3, ExtendCovered, ExtendStableCovered
<1>4. ASSUME NEW id \in DOMAIN cdps, NEW amount \in Withdrawals, WithdrawCollateral(id, amount)
      PROVE  LoansCovered
  <2> DEFINE c == cdps[id].collateral_token
             n == CeilTo(DDiv(amount, CurrentDepositIndex(pools[c], epoch)), ShareUnit[c])
             d == [cdps[id] EXCEPT !.collateral_amount = @ - n]
  <2>1. cdps' = [cdps EXCEPT ![id] = d]
    BY <1>4 DEF WithdrawCollateral
  <2> HIDE DEF n
  <2>2. d.total_borrow = cdps[id].total_borrow
    BY CdpInv, LoanUntouched
  <2> HIDE DEF d
  <2> QED
    BY <2>1, <2>2, SameLoans
<1>5. ASSUME NEW id \in DOMAIN cdps, NEW amount \in Additions,
             AddDxCollateral(id, amount) \/ AddUnderlyingCollateral(id, amount)
      PROVE  LoansCovered
  <2>1. PICK n : cdps' = [cdps EXCEPT ![id] = UpdateCdpData(cdps[id], 0, 0, n, 0, 0)]
    BY <1>5 DEF AddDxCollateral, AddUnderlyingCollateral
  <2> DEFINE d == UpdateCdpData(cdps[id], 0, 0, n, 0, 0)
  <2>2. d.total_borrow = cdps[id].total_borrow
    BY CdpInv, LoanUntouched
  <2>3. cdps' = [cdps EXCEPT ![id] = d]
    BY <2>1
  <2> HIDE DEF d
  <2> QED
    BY <2>2, <2>3, SameLoans
<1>6. ASSUME NEW id \in DOMAIN cdps, NEW bucket \in Repayments, Repay(id, bucket)
      PROVE  LoansCovered
  <2> DEFINE s == PaySplit(cdps[id], bucket, {})
             d == CdpAfter(cdps[id], s)
  <2>1. cdps' = [cdps EXCEPT ![id] = d]
    BY <1>6 DEF Repay, CdpPaid
  <2> HIDE DEF s
  <2>2. d.total_borrow = cdps[id].total_borrow
    BY CdpInv, LoanUntouched
  <2> HIDE DEF d
  <2> QED
    BY <2>1, <2>2, SameLoans
<1>7. ASSUME NEW id \in DOMAIN cdps, NEW cover \in Covers, NEW bucket \in Repayments,
             Liquidation(id, cover, bucket)
      PROVE  LoansCovered
  <2> DEFINE q == GetLiquidateDebtAndCollateral(cdps[id], cover)
             s == PaySplit(cdps[id], bucket, {q.debt})
             d == [CdpAfter(cdps[id], s) EXCEPT !.collateral_amount = @ - q.collateral]
  <2>1. cdps' = [cdps EXCEPT ![id] = d]
    BY <1>7 DEF Liquidation, Liquidate, CdpPaid
  <2> HIDE DEF s, q
  <2>2. d.total_borrow = cdps[id].total_borrow
    BY CdpInv, LoanUntouched
  <2> HIDE DEF d
  <2> QED
    BY <2>1, <2>2, SameLoans
<1>8. CASE UNCHANGED vars
  BY <1>8 DEF vars
<1>9. CASE Next
  <2>1. ASSUME NEW t \in Token, NEW amount \in Supplies, Supply(t, amount)
        PROVE  UNCHANGED cdps
    BY <2>1 DEF Supply
  <2>2. ASSUME NEW t \in Token, NEW shares \in Withdrawals, Withdraw(t, shares)
        PROVE  UNCHANGED cdps
    BY <2>2 DEF Withdraw
  <2>3. ASSUME NEW t \in Token, NEW amount \in FlashLoans, BorrowFlashloan(t, amount)
        PROVE  UNCHANGED cdps
    BY <2>3 DEF BorrowFlashloan
  <2>4. ASSUME NEW nft \in transient_nfts, RepayFlashloan(nft)
        PROVE  UNCHANGED cdps
    BY <2>4 DEF RepayFlashloan
  <2>5. ASSUME NEW percent \in CloseFactors, SetCloseFactor(percent)
        PROVE  UNCHANGED cdps
    BY <2>5 DEF SetCloseFactor
  <2>6. ASSUME NEW t \in Token, NEW amount \in Draws, DrawInsurance(t, amount)
        PROVE  UNCHANGED cdps
    BY <2>6 DEF DrawInsurance
  <2>7. PricesMove \/ NextEpoch => UNCHANGED cdps
    BY DEF PricesMove, NextEpoch
  <2> QED
    BY <1>1, <1>2, <1>3, <1>4, <1>5, <1>6, <1>7, <1>9,
       <2>1, <2>2, <2>3, <2>4, <2>5, <2>6, <2>7 DEF Next
<1> QED
  BY <1>8, <1>9

\* A position borrows more only within the limit its collateral gave it, with the
\* indices its pool was updated to and whatever the roundings (borrow_variable,
\* extend_borrow; the steps that are not loans never count as one).
THEOREM LoansStayCovered == Spec /\ []RatesKept => LoansStayWithinLtv
<1>1. ManagerInv /\ [Next]_vars =>
        [\A i \in DOMAIN cdps' :
            (i \notin DOMAIN cdps \/ cdps'[i].total_borrow > cdps[i].total_borrow)
               => CoveredAfter(i)]_vars
  BY NextCovered DEF LoansCovered
<1> QED
  BY <1>1, ManagerInvariant, PTL DEF Spec, LoansStayWithinLtv

-----------------------------------------------------------------------------
(* The gain of a liquidator.  The index a seizure divides by is the value  *)
(* of the collateral over its amount and so at most the pool's.            *)

\* The dx tokens a value buys at the truncated index, and what they are worth.
LEMMA SeizedWorth ==
    ASSUME NEW n \in Nat \ {0}, NEW index \in Nat, ONE <= index,
           NEW s \in Nat, s <= DMul(n, index)
    PROVE  LET x == DDiv(DMul(n, index), n)
               k == DDiv(s, x)
           IN  /\ k \in Nat /\ n - k >= -(n \div ONE)
               /\ DMul(k, index) \in Nat
               /\ DMul(k, index) <= s + (2 + (2 * n) \div ONE)
<1> DEFINE v == DMul(n, index)
           x == DDiv(v, n)
           k == DDiv(s, x)
<1>0. ONE \in Nat \ {0}
  BY DecimalAssumption
<1>1. /\ v \in Nat /\ ONE * v <= n * index /\ n * index < ONE * v + ONE
      /\ x \in Nat /\ ONE <= x
  BY DMulNat, DustReturns
<1> HIDE DEF v
<1>2. n * x <= v * ONE /\ v * ONE < n * x + n
  BY <1>1, DDivNat
<1> HIDE DEF x
<1>3. /\ k \in Nat /\ x * k <= s * ONE
  <2>1. x \in Nat \ {0}
    BY <1>0, <1>1
  <2> QED
    BY <2>1, DDivNat
<1> HIDE DEF k
<1>4. s * ONE <= v * ONE
  BY <1>0, <1>1, SMTT(30) DEF v
<1>5. x * k < x * n + n
  <2> DEFINE xk == x * k
             xn == n * x
             so == s * ONE
             vo == v * ONE
  <2>1. xk \in Int /\ xn \in Int /\ so \in Int /\ vo \in Int /\ x * n = xn
    BY <1>0, <1>1, <1>3, SMTT(30)
  <2>2. xk <= so /\ so <= vo /\ vo < xn + n
    BY <1>2, <1>3, <1>4
  <2> HIDE DEF xk, xn, so, vo
  <2>3. xk < xn + n
    BY <2>1, <2>2
  <2> QED
    BY <2>1, <2>3 DEF xk
<1>6. n - k >= -(n \div ONE)
  <2>1. k - n <= n \div ONE
    <3>1. CASE k <= n
      <4>1. n \div ONE \in Nat
        BY <1>0, DivNat
      <4> QED
        BY <1>3, <3>1, <4>1
    <3>2. CASE k > n
      <4> DEFINE j == k - n
      <4>1. j \in Nat /\ k = n + j
        BY <1>3, <3>2
      <4> HIDE DEF j
      <4>2. x * k = x * n + x * j /\ x * n \in Int /\ x * j \in Int
        BY <1>1, <4>1, SMTT(30)
      <4>3. x * j < n
        BY <1>5, <4>2
      <4>4. j * ONE <= x * j /\ j * ONE \in Int
        BY <1>0, <1>1, <4>1, SMTT(30)
      <4>5. j * ONE <= n
        BY <4>2, <4>3, <4>4
      <4>6. j <= n \div ONE
        BY <1>0, <4>1, <4>5, DivLower
      <4> QED
        BY <4>6 DEF j
    <3> QED
      BY <1>3, <3>1, <3>2
  <2>2. n \div ONE \in Nat
    BY <1>0, DivNat
  <2> QED
    BY <1>3, <2>1, <2>2
<1>7. k < 2 * n
  <2>1. ASSUME 2 * n <= k PROVE FALSE
    <3>1. x * (2 * n) <= x * k /\ x * (2 * n) = x * n + x * n /\ x * n \in Int /\ x * k \in Int
      BY <1>1, <1>3, <2>1, SMTT(30)
    <3>2. n <= x * n
      BY <1>0, <1>1, SMTT(30)
    <3> QED
      BY <1>5, <3>1, <3>2
  <2> QED
    BY <1>3, <2>1
<1> DEFINE low == k * x
           high == k * index
<1>8. high < low + 2 * n + 2 * ONE /\ high \in Nat /\ low \in Nat
  <2>0. high \in Nat /\ low \in Nat
    BY <1>1, <1>3, SMTT(30)
  <2>1. CASE index <= x
    <3>1. high <= low
      BY <1>1, <1>3, <2>1, SMTT(30)
    <3> HIDE DEF high, low
    <3> QED
      BY <1>0, <2>0, <3>1
  <2>2. CASE index > x
    <3> DEFINE g == index - x
    <3>1. g \in Nat /\ index = x + g
      BY <1>1, <2>2
    <3> HIDE DEF g
    <3>2. n * index = n * x + n * g /\ n * x \in Int /\ n * g \in Nat
      BY <1>1, <3>1, SMTT(30)
    <3>3. n * g < n + ONE
      <4> DEFINE ng == n * g
                 nx == n * x
                 ni == n * index
                 vo == v * ONE
      <4>1. ng \in Int /\ nx \in Int /\ ni = nx + ng /\ vo \in Int /\ ONE * v = vo
        BY <1>0, <1>1, <3>2, SMTT(30)
      <4>2. vo < nx + n /\ ni < vo + ONE
        BY <1>1, <1>2, <4>1
      <4> HIDE DEF ng, nx, ni, vo
      <4>3. ng < n + ONE
        BY <1>0, <4>1, <4>2
      <4> QED
        BY <4>3 DEF ng
    <3>4. k * g <= (2 * n) * g /\ (2 * n) * g = n * g + n * g /\ k * g \in Int
      BY <1>3, <1>7, <3>1, SMTT(30)
    <3>5. high = low + k * g
      BY <1>1, <1>3, <3>1, SMTT(30)
    <3> HIDE DEF high, low
    <3> QED
      BY <1>0, <2>0, <3>2, <3>3, <3>4, <3>5
  <2> QED
    BY <1>1, <2>1, <2>2
<1>9. DMul(k, index) \in Nat /\ DMul(k, index) = high \div ONE
  BY <1>3, DMulNat
<1>10. low <= s * ONE /\ s * ONE \in Int
  BY <1>0, <1>1, <1>3, SMTT(30)
<1> HIDE DEF high, low
<1>11. high \div ONE <= s + (2 + (2 * n) \div ONE)
  <2> DEFINE y == (2 * n) \div ONE
             q == s + (2 + y)
             so == s * ONE
             yo == ONE * y
  <2>1. y \in Nat /\ yo \in Int /\ 2 * n < yo + ONE
    <3>1. y \in Nat /\ 2 * n < ONE * y + ONE
      BY <1>0, DivBounds, DivNat
    <3> HIDE DEF y
    <3> QED
      BY <1>0, <3>1, SMTT(30)
  <2> HIDE DEF y
  <2>2. (q + 1) * ONE = so + 2 * ONE + yo + ONE /\ q \in Int /\ so \in Int
    BY <1>0, <2>1, SMTT(30)
  <2>3. high < so + 2 * ONE + yo + ONE
    <3>1. low <= so
      BY <1>10
    <3> HIDE DEF so, yo
    <3> QED
      BY <1>0, <1>8, <2>1, <2>2, <3>1
  <2> HIDE DEF so, yo, q
  <2>4. high < (q + 1) * ONE
    BY <2>2, <2>3
  <2>5. high \div ONE <= q
    BY <1>0, <1>8, <2>2, <2>4, DivUpper
  <2> QED
    BY <2>5 DEF q, y
<1> QED
  BY <1>3, <1>6, <1>9, <1>11 DEF k, x, v

\* A seizure of a negative collateral takes nothing.
LEMMA NothingSeized ==
    ASSUME NEW d, NEW value, NEW index, Seizable(d, value, index), NEW debt \in Nat,
           d.collateral_amount < 0
    PROVE  Seizure(d, value, debt).collateral < 0
<1> DEFINE n == d.collateral_amount
           seized == DDiv(WithBonus(d, DMul(debt, quote[d.borrow_token])), quote[d.collateral_token])
           a == -n
           v == DMul(a, index)
           x == DDiv(value, n)
<1>1. /\ quote[d.borrow_token] \in Nat \ {0} /\ quote[d.collateral_token] \in Nat \ {0}
      /\ n \in Int /\ index \in Nat /\ ONE <= index /\ ONE \in Nat \ {0}
      /\ AssetStates[d.collateral_token].liquidation_bonus \in Nat
      /\ value = DMul(n, index)
  BY DecimalAssumption DEF Seizable
<1>2. seized \in Nat
  <2>1. WithBonus(d, DMul(debt, quote[d.borrow_token])) \in Nat
    BY <1>1, DMulNat, WithBonusNat
  <2> QED
    BY <1>1, <2>1, DDivNat
<1>3. Seizure(d, value, debt).collateral = IF seized > value THEN DDiv(value, x) ELSE DDiv(seized, x)
  BY DEF Seizure
<1> HIDE DEF seized
<1>4. a \in Nat \ {0} /\ n = -a
  BY <1>1
<1> HIDE DEF a, n
<1>5. /\ v \in Nat /\ a <= v
      /\ DDiv(v, a) \in Nat /\ ONE <= DDiv(v, a)
      /\ DDiv(v, DDiv(v, a)) \in Nat /\ a <= DDiv(v, DDiv(v, a))
  BY <1>1, <1>4, DustReturns
<1>6. value = -v
  BY <1>1, <1>4, DMulNegative
<1> HIDE DEF v
<1>7. v \in Nat \ {0}
  BY <1>4, <1>5
<1>8. x = DDiv(v, a)
  BY <1>4, <1>6, <1>7, DDivNegative
<1> HIDE DEF x
<1>9. x \in Nat \ {0}
  BY <1>1, <1>5, <1>8
<1>10. DDiv(value, x) = -DDiv(v, x) /\ a <= DDiv(v, x) /\ DDiv(v, x) \in Nat
  BY <1>5, <1>6, <1>7, <1>8, <1>9, DDivNegative
<1>11. seized > value
  BY <1>2, <1>6, <1>7
<1> QED
  BY <1>3, <1>4, <1>10, <1>11

\* A sum of values is worth what they are worth, but for one atto.
LEMMA WorthOfSum ==
    ASSUME NEW s \in Nat, NEW e \in Nat, NEW price \in Nat, NEW t \in Nat, t <= s + e
    PROVE  DMul(t, price) <= DMul(s, price) + (DMul(e, price) + 1)
<1> DEFINE sp == s * price
           ep == e * price
           tp == t * price
           x == DMul(s, price)
           y == DMul(e, price)
           z == DMul(t, price)
<1>1. sp \in Nat /\ ep \in Nat /\ tp \in Nat /\ tp <= sp + ep /\ ONE \in Nat \ {0}
  BY DecimalAssumption, SMTT(30)
<1>2. /\ x \in Nat /\ sp < ONE * x + ONE
      /\ y \in Nat /\ ep < ONE * y + ONE
      /\ z \in Nat /\ ONE * z <= tp
  BY DMulNat
<1> HIDE DEF sp, ep, tp, x, y, z
<1>3. ONE * z < ONE * (x + (y + 1) + 1)
  <2>1. ONE * (x + (y + 1) + 1) = ONE * x + ONE * y + ONE + ONE /\ ONE * x \in Int
        /\ ONE * y \in Int /\ ONE * z \in Int
    BY <1>1, <1>2, SMTT(30)
  <2> QED
    BY <1>1, <1>2, <2>1
<1>4. ASSUME x + (y + 1) + 1 <= z PROVE FALSE
  <2>1. ONE * (x + (y + 1) + 1) <= ONE * z
    BY <1>1, <1>2, <1>4, SMTT(30)
  <2>2. ONE * (x + (y + 1) + 1) \in Int /\ ONE * z \in Int
    BY <1>1, <1>2
  <2> QED
    BY <1>3, <2>1, <2>2
<1>5. z <= x + (y + 1)
  BY <1>2, <1>4
<1> QED
  BY <1>5 DEF x, y, z

\* The smaller debt of a capped seizure is worth, with the bonus, what is seized.
LEMMA CappedDebtWorth ==
    ASSUME NEW worth \in Nat, NEW price \in Nat \ {0}, NEW bonus \in Nat
    PROVE  LET w == DMul(price, ONE + bonus)
               debt == DDiv(worth, w)
               paid == DMul(DMul(debt, price), ONE + bonus)
           IN  /\ debt \in Nat /\ paid \in Nat
               /\ worth <= paid + (w + bonus) \div ONE + 2
<1> DEFINE F == ONE + bonus
           w == DMul(price, F)
           debt == DDiv(worth, w)
           m == DMul(debt, price)
           paid == DMul(m, F)
<1>0. ONE \in Nat \ {0} /\ F \in Nat /\ ONE <= F
  BY DecimalAssumption
<1>f. F = ONE + bonus
  OBVIOUS
<1> HIDE DEF F
<1>1. w \in Nat \ {0} /\ ONE * w <= price * F
  <2>1. w \in Nat /\ ONE * w <= price * F /\ price <= w
    BY <1>0, DMulNat, DMulGrows
  <2> HIDE DEF w
  <2> QED
    BY <2>1
<1> HIDE DEF w
<1>2. debt \in Nat /\ worth * ONE < w * debt + w
  BY <1>1, DDivNat
<1> HIDE DEF debt
<1>3. m \in Nat /\ debt * price < ONE * m + ONE
  BY <1>2, DMulNat
<1> HIDE DEF m
<1>4. paid \in Nat /\ m * F < ONE * paid + ONE
  BY <1>0, <1>3, DMulNat
<1> HIDE DEF paid
<1>5. w * debt <= F * (m + 1)
  <2> DEFINE wd == w * debt
             dp == debt * price
             k == F * (m + 1)
  <2>1. /\ wd \in Nat /\ dp \in Nat /\ k \in Nat
        /\ ONE * wd = (ONE * w) * debt /\ (price * F) * debt = F * dp
        /\ ONE * k = F * (ONE * m + ONE)
    BY <1>0, <1>1, <1>2, <1>3, SMTT(30)
  <2>2. (ONE * w) * debt <= (price * F) * debt
    <3> DEFINE l == ONE * w
               h == price * F
    <3>1. l \in Int /\ h \in Int /\ l <= h
      BY <1>0, <1>1
    <3> HIDE DEF l, h
    <3>2. l * debt <= h * debt
      BY <1>2, <3>1, SMTT(30)
    <3> QED
      BY <3>2 DEF l, h
  <2>3. F * dp <= F * (ONE * m + ONE)
    <3> DEFINE h == ONE * m + ONE
    <3>1. h \in Int /\ dp <= h
      BY <1>0, <1>3, <2>1
    <3> HIDE DEF h, dp
    <3>2. F * dp <= F * h
      BY <1>0, <2>1, <3>1, SMTT(30)
    <3> QED
      BY <3>2 DEF h
  <2>4. ONE * wd <= ONE * k
    <3> DEFINE f1 == (ONE * w) * debt
               f2 == F * dp
               f3 == F * (ONE * m + ONE)
               f4 == (price * F) * debt
               f5 == ONE * wd
               f6 == ONE * k
    <3>1. f1 \in Int /\ f2 \in Int /\ f3 \in Int /\ f4 = f2 /\ f5 = f1 /\ f6 = f3
      BY <1>0, <1>1, <1>2, <1>3, <2>1
    <3>2. f1 <= f4 /\ f2 <= f3
      BY <2>2, <2>3
    <3> HIDE DEF f1, f2, f3, f4, f5, f6
    <3>3. f5 <= f6
      BY <3>1, <3>2
    <3> QED
      BY <3>3 DEF f5, f6
  <2> HIDE DEF wd, k
  <2>5. wd <= k
    BY <1>0, <2>1, <2>4, SMTT(30)
  <2> QED
    BY <2>5 DEF wd, k
<1>6. worth <= paid + (w + bonus) \div ONE + 2
  <2> DEFINE wo == worth * ONE
             wd == w * debt
             mf == m * F
             po == ONE * paid
             j == worth - (paid + 2)
  <2>1. /\ wo \in Int /\ wd \in Int /\ mf \in Int /\ po \in Int /\ F * (m + 1) = mf + F
    BY <1>0, <1>1, <1>2, <1>3, <1>4, SMTT(30)
  <2>2. wo < wd + w /\ mf < po + ONE /\ wd <= mf + F
    BY <1>2, <1>4, <1>5, <2>1
  <2>3. j * ONE = wo - po - 2 * ONE /\ j \in Int
    BY <1>0, <1>4, SMTT(30)
  <2> HIDE DEF wo, wd, mf, po
  <2>4. wo - po - 2 * ONE <= w + bonus
    BY <1>0, <1>1, <1>f, <2>1, <2>2
  <2>5. j * ONE <= w + bonus
    BY <2>3, <2>4
  <2>6. j <= (w + bonus) \div ONE /\ (w + bonus) \div ONE \in Int
    <3>1. w + bonus \in Int
      BY <1>1
    <3> HIDE DEF j
    <3> QED
      BY <1>0, <2>3, <2>5, <3>1, DivLower, DivBounds
  <2> DEFINE r == (w + bonus) \div ONE
  <2> HIDE DEF r
  <2>7. worth <= paid + r + 2
    BY <1>4, <2>6 DEF r
  <2> QED
    BY <2>7 DEF r
<1> QED
  BY <1>2, <1>4, <1>6 DEF paid, m, debt, w, F

\* What a seizure takes is worth the debt it repays and the bonus.
LEMMA SeizureGain ==
    ASSUME NEW d, NEW value, NEW index, Seizable(d, value, index), NEW debt \in Nat,
           d.collateral_amount > 0
    PROVE  LET q == Seizure(d, value, debt)
           IN  /\ d.collateral_amount - q.collateral >= -SeizureDust(d)
               /\ DMul(DMul(q.collateral, index), quote[d.collateral_token])
                    <= WithBonus(d, DMul(q.debt, quote[d.borrow_token])) + GainDust(d)
<1> DEFINE b == d.borrow_token
           c == d.collateral_token
           n == d.collateral_amount
           bonus == AssetStates[c].liquidation_bonus
           seized == DDiv(WithBonus(d, DMul(debt, quote[b])), quote[c])
           x == DDiv(value, n)
           w == WithBonus(d, quote[b])
           e == 2 + (2 * n) \div ONE
           r == (w + bonus) \div ONE
           de == DMul(e, quote[c])
           q == Seizure(d, value, debt)
           worth(t) == WithBonus(d, DMul(t, quote[b]))
<1>1. /\ quote[b] \in Nat \ {0} /\ quote[c] \in Nat \ {0}
      /\ n \in Nat \ {0} /\ index \in Nat /\ ONE <= index /\ ONE \in Nat \ {0}
      /\ bonus \in Nat /\ value = DMul(n, index)
  BY DecimalAssumption DEF Seizable
<1>2. q = IF seized > value
          THEN [debt |-> DDiv(DMul(value, quote[c]), w), collateral |-> DDiv(value, x)]
          ELSE [debt |-> debt, collateral |-> DDiv(seized, x)]
  BY DEF Seizure
<1>3. value \in Nat /\ w \in Nat /\ worth(debt) \in Nat
  <2>1. DMul(debt, quote[b]) \in Nat
    BY <1>1, DMulNat
  <2>2. value \in Nat
    BY <1>1, DMulNat
  <2> HIDE DEF n
  <2>3. w \in Nat /\ worth(debt) \in Nat
    BY <1>1, <2>1, WithBonusNat
  <2> QED
    BY <2>2, <2>3
<1>4. seized \in Nat /\ quote[c] * seized <= worth(debt) * ONE
  BY <1>1, <1>3, DDivNat
<1>5. e \in Nat /\ de \in Nat /\ r \in Nat /\ GainDust(d) = de + r + 3
  <2>1. (2 * n) \div ONE \in Nat /\ (w + bonus) \div ONE \in Nat
    <3>1. 2 * n \in Nat /\ w + bonus \in Nat
      BY <1>1, <1>3
    <3> HIDE DEF w, bonus, n
    <3> QED
      BY <1>1, <3>1, DivNat
  <2>2. e \in Nat
    BY <2>1
  <2> HIDE DEF e
  <2> QED
    BY <1>1, <2>1, <2>2, DMulNat DEF GainDust, e
<1> HIDE DEF q, seized
\* What the dx tokens bought for s are worth in XRD.
<1>6. ASSUME NEW s \in Nat, s <= value
      PROVE  LET k == DDiv(s, x)
             IN  /\ k \in Nat /\ n - k >= -SeizureDust(d)
                 /\ DMul(DMul(k, index), quote[c]) <= DMul(s, quote[c]) + (de + 1)
                 /\ DMul(s, quote[c]) \in Nat /\ DMul(DMul(k, index), quote[c]) \in Int
  <2> DEFINE k == DDiv(s, x)
             t == DMul(k, index)
  <2>1. k \in Nat /\ n - k >= -(n \div ONE) /\ t \in Nat /\ t <= s + e
    BY <1>1, <1>6, SeizedWorth
  <2> HIDE DEF k, t, e, n
  <2>2. DMul(t, quote[c]) <= DMul(s, quote[c]) + (de + 1)
    BY <1>1, <1>5, <1>6, <2>1, WorthOfSum
  <2>3. DMul(s, quote[c]) \in Nat /\ DMul(t, quote[c]) \in Nat
    <3> DEFINE price == quote[c]
    <3>1. price \in Nat
      BY <1>1
    <3> HIDE DEF price
    <3>2. DMul(s, price) \in Nat /\ DMul(t, price) \in Nat
      BY <2>1, <3>1, DMulNat
    <3> QED
      BY <3>2 DEF price
  <2> QED
    BY <2>1, <2>2, <2>3 DEF SeizureDust, k, t, n
<1>7. CASE seized > value
  <2> DEFINE k == DDiv(value, x)
             all == DMul(value, quote[c])
             less == DDiv(all, w)
  <2>1. q.collateral = k /\ q.debt = less
    BY <1>2, <1>7
  <2>2. /\ k \in Nat /\ n - k >= -SeizureDust(d) /\ all \in Nat
        /\ DMul(DMul(k, index), quote[c]) <= all + (de + 1)
        /\ DMul(DMul(k, index), quote[c]) \in Int
    BY <1>3, <1>6
  <2>3. worth(less) \in Nat /\ all <= worth(less) + r + 2
    <3> DEFINE price == DMul(quote[b], ONE + bonus)
               part == DMul(DMul(DDiv(all, price), quote[b]), ONE + bonus)
    <3>1. w = price /\ worth(less) = part
      BY DEF WithBonus
    <3>2. part \in Nat /\ all <= part + (price + bonus) \div ONE + 2
      <4> HIDE DEF all, bonus
      <4> QED
        BY <1>1, <2>2, CappedDebtWorth
    <3> HIDE DEF price, part, all, worth, less, w
    <3> QED
      BY <3>1, <3>2
  <2>4. DMul(DMul(k, index), quote[c]) \in Int
    BY <2>2
  <2> HIDE DEF k, all, less, worth, e, r, de, n
  <2>5. DMul(DMul(k, index), quote[c]) <= worth(less) + GainDust(d)
    BY <1>5, <2>2, <2>3, <2>4
  <2> QED
    BY <2>1, <2>2, <2>5 DEF worth, n, q
<1>8. CASE ~ (seized > value)
  <2> DEFINE k == DDiv(seized, x)
             part == DMul(seized, quote[c])
  <2>1. q.collateral = k /\ q.debt = debt
    BY <1>2, <1>8
  <2>2. /\ k \in Nat /\ n - k >= -SeizureDust(d) /\ part \in Nat
        /\ DMul(DMul(k, index), quote[c]) <= part + (de + 1)
        /\ DMul(DMul(k, index), quote[c]) \in Int
    <3>1. seized <= value
      BY <1>3, <1>4, <1>8
    <3> QED
      BY <1>4, <1>6, <3>1
  <2>3. part <= worth(debt)
    <3> DEFINE y == worth(debt)
               sq == seized * quote[c]
               yo == y * ONE
    <3>1. ONE * part <= sq /\ sq = quote[c] * seized /\ sq \in Int
      <4> DEFINE price == quote[c]
      <4>1. price \in Nat /\ seized \in Nat
        BY <1>1, <1>4
      <4> HIDE DEF price
      <4>2. ONE * DMul(seized, price) <= seized * price
        BY <4>1, DMulNat
      <4>3. seized * price = price * seized /\ seized * price \in Int
        BY <4>1
      <4> QED
        BY <4>2, <4>3 DEF price
    <3>2. sq <= yo /\ y \in Nat /\ yo = ONE * y /\ yo \in Int /\ ONE * part \in Int
      <4> HIDE DEF part, worth
      <4> QED
        BY <1>1, <1>3, <1>4, <2>2, <3>1
    <3> HIDE DEF part, y, sq, yo
    <3>3. ONE * part <= ONE * y
      BY <3>1, <3>2
    <3>4. part <= y
      BY <1>1, <2>2, <3>2, <3>3, SMTT(30)
    <3> QED
      BY <3>4 DEF y
  <2>4. DMul(DMul(k, index), quote[c]) \in Int
    BY <2>2
  <2> HIDE DEF k, part, worth, e, r, de, n
  <2>5. DMul(DMul(k, index), quote[c]) <= worth(debt) + GainDust(d)
    BY <1>3, <1>5, <2>2, <2>3, <2>4
  <2> QED
    BY <2>1, <2>2, <2>5 DEF worth, n, q
<1> QED
  BY <1>7, <1>8 DEF q

\* What LiquidatorGainBounded says of a step.
GainsBounded ==
    \A i \in DOMAIN cdps :
        cdps'[i].total_repay > cdps[i].total_repay
          /\ cdps'[i].collateral_amount < cdps[i].collateral_amount =>
          LET d == cdps[i]
              c == d.collateral_token
              seized == GetRedemptionValue(pools[c], epoch,
                                           d.collateral_amount - cdps'[i].collateral_amount)
              repaid == cdps'[i].total_repay - d.total_repay
          IN  /\ cdps'[i].collateral_amount >= -SeizureDust(d)
              /\ DMul(seized, quote[c])
                   <= WithBonus(d, DMul(repaid, quote[d.borrow_token])) + GainDust(d)

\* A step gives a liquidator nothing that repays no debt or takes no collateral
\* of the one position it changes.
LEMMA NoGain ==
    ASSUME ManagerInv, NEW x, \A i \in DOMAIN cdps \ {x} : cdps'[i] = cdps[i],
           x \in DOMAIN cdps =>
               \/ cdps'[x].total_repay = cdps[x].total_repay
               \/ /\ cdps'[x].collateral_amount >= cdps[x].collateral_amount
                  /\ cdps'[x].collateral_amount \in Int
    PROVE  GainsBounded
<1> SUFFICES ASSUME NEW i \in DOMAIN cdps,
                    cdps'[i].total_repay > cdps[i].total_repay,
                    cdps'[i].collateral_amount < cdps[i].collateral_amount
             PROVE  FALSE
  BY DEF GainsBounded
<1>1. cdps[i].total_repay \in Nat /\ cdps[i].collateral_amount \in Int
  BY CdpInv DEF SoundCdp, Cdp
<1>2. i = x
  BY <1>1
<1>3. cdps'[i].collateral_amount >= cdps[i].collateral_amount
      /\ cdps'[i].collateral_amount \in Int
  BY <1>1, <1>2
<1> QED
  BY <1>1, <1>3

\* A payment of a position of either kind, with or without the collateral it releases.
LEMMA PaymentNoted ==
    ASSUME NEW e \in SoundCdp, NEW s, NEW n
    PROVE  /\ CdpAfter(e, s).collateral_amount = e.collateral_amount
           /\ LET d == [CdpAfter(e, s) EXCEPT !.collateral_amount = @ - n]
              IN  /\ d.total_repay = e.total_repay + s.paid
                  /\ d.collateral_amount = e.collateral_amount - n
<1> DEFINE r == CdpAfter(e, s)
<1>1. e \in Cdp
  BY DEF SoundCdp
<1>2. r.total_repay = e.total_repay + s.paid /\ r.collateral_amount = e.collateral_amount
      /\ {"total_repay", "collateral_amount"} \subseteq DOMAIN r
  BY <1>1 DEF Cdp, CdpAfter, UpdateCdpAfterRepay
<1> HIDE DEF r
<1> QED
  BY <1>2 DEF r

LEMMA LiquidationGain ==
    ASSUME ManagerInv, NEW id \in DOMAIN cdps, NEW cover \in Covers, NEW bucket \in Repayments,
           Liquidation(id, cover, bucket)
    PROVE  GainsBounded
<1> DEFINE e == cdps[id]
           c == e.collateral_token
           index == CurrentDepositIndex(pools[c], epoch)
           debt == LiquidatedDebt(e, cover)
           q == Seizure(e, CollateralValue(e), debt)
           s == PaySplit(e, bucket, {q.debt})
           d == [CdpAfter(e, s) EXCEPT !.collateral_amount = @ - q.collateral]
<1>1. /\ e \in SoundCdp /\ c \in Token /\ e.borrow_token \in Token
      /\ e.collateral_amount \in Int /\ e.total_repay \in Nat /\ ShareUnit[c] \in 1 .. ONE
      /\ cover \in Nat
  BY CdpInv, CdpManagerAssumption DEF SoundCdp, Cdp
<1>2. Liquidatable(e) /\ Liquidate(id, q, bucket)
  BY DEF Liquidation, GetLiquidateDebtAndCollateral
<1>3. Seizable(e, CollateralValue(e), index) /\ debt \in Nat
  BY <1>1, <1>2, SeizableCdp, LiquidatedDebtNat
<1>4. q.debt \in Int /\ q.collateral \in Int
  <2> HIDE DEF debt
  <2> QED
    BY <1>1, <1>3, SeizureBounds
<1>5. s.paid = q.debt /\ cdps' = [cdps EXCEPT ![id] = d]
  <2> HIDE DEF q
  <2> QED
    BY <1>2 DEF Liquidate, CdpPaid
<1> HIDE DEF debt
<1>6. /\ e.collateral_amount < 0 => q.collateral < 0
      /\ e.collateral_amount > 0 =>
            /\ e.collateral_amount - q.collateral >= -SeizureDust(e)
            /\ DMul(DMul(q.collateral, index), quote[c])
                 <= WithBonus(e, DMul(q.debt, quote[e.borrow_token])) + GainDust(e)
  BY <1>3, NothingSeized, SeizureGain
<1> HIDE DEF q, s, index
<1>7. d.total_repay = e.total_repay + s.paid
      /\ d.collateral_amount = e.collateral_amount - q.collateral
  BY <1>1, PaymentNoted
<1>8. cdps'[id] = d /\ \A i \in DOMAIN cdps \ {id} : cdps'[i] = cdps[i]
  BY <1>5
<1> HIDE DEF d
<1>9. CASE e.collateral_amount > 0
  <2> SUFFICES ASSUME NEW i \in DOMAIN cdps,
                      cdps'[i].total_repay > cdps[i].total_repay,
                      cdps'[i].collateral_amount < cdps[i].collateral_amount
               PROVE  LET f == cdps[i]
                          seized == GetRedemptionValue(pools[f.collateral_token], epoch,
                                       f.collateral_amount - cdps'[i].collateral_amount)
                          repaid == cdps'[i].total_repay - f.total_repay
                      IN  /\ cdps'[i].collateral_amount >= -SeizureDust(f)
                          /\ DMul(seized, quote[f.collateral_token])
                               <= WithBonus(f, DMul(repaid, quote[f.borrow_token])) + GainDust(f)
    BY DEF GainsBounded
  <2>1. i = id
    <3>1. cdps[i].total_repay \in Nat
      BY CdpInv DEF SoundCdp, Cdp
    <3> QED
      BY <1>8, <3>1
  <2>2. /\ cdps'[i].total_repay - e.total_repay = q.debt
        /\ e.collateral_amount - cdps'[i].collateral_amount = q.collateral
        /\ cdps'[i].collateral_amount = e.collateral_amount - q.collateral
    BY <1>1, <1>4, <1>5, <1>7, <1>8, <2>1
  <2>3. GetRedemptionValue(pools[c], epoch, q.collateral) = DMul(q.collateral, index)
    BY DEF GetRedemptionValue, index
  <2> QED
    BY <1>6, <1>9, <2>1, <2>2, <2>3
<1>10. CASE ~ (e.collateral_amount > 0)
  <2>1. e.collateral_amount # 0
    BY <1>3 DEF Seizable
  <2>2. /\ cdps'[id].collateral_amount >= cdps[id].collateral_amount
        /\ cdps'[id].collateral_amount \in Int
    BY <1>1, <1>4, <1>6, <1>7, <1>8, <1>10, <2>1
  <2> QED
    BY <1>8, <2>2, NoGain
<1> QED
  BY <1>9, <1>10

LEMMA RepayGain ==
    ASSUME ManagerInv, NEW id \in DOMAIN cdps, NEW bucket \in Repayments, Repay(id, bucket)
    PROVE  GainsBounded
<1> DEFINE e == cdps[id]
           s == PaySplit(e, bucket, {})
           d == CdpAfter(e, s)
<1>1. e \in SoundCdp /\ e.collateral_amount \in Int
  BY CdpInv DEF SoundCdp, Cdp
<1>2. cdps' = [cdps EXCEPT ![id] = d]
  BY DEF Repay, CdpPaid
<1> HIDE DEF s
<1>3. d.collateral_amount = e.collateral_amount
  BY <1>1, PaymentNoted
<1> HIDE DEF d
<1>4. /\ \A i \in DOMAIN cdps \ {id} : cdps'[i] = cdps[i]
      /\ cdps'[id].collateral_amount = cdps[id].collateral_amount
  BY <1>2, <1>3
<1>5. cdps'[id].collateral_amount >= cdps[id].collateral_amount
      /\ cdps'[id].collateral_amount \in Int
  BY <1>1, <1>4
<1> QED
  BY <1>4, <1>5, NoGain

\* The other steps repay nothing.
LEMMA SameRepayments ==
    ASSUME ManagerInv, NEW id \in DOMAIN cdps, NEW d, cdps' = [cdps EXCEPT ![id] = d],
           d.total_repay = cdps[id].total_repay
    PROVE  GainsBounded
<1>1. cdps'[id] = d /\ \A i \in DOMAIN cdps \ {id} : cdps'[i] = cdps[i]
  OBVIOUS
<1> QED
  BY <1>1, NoGain

LEMMA RepaymentsUntouched ==
    ASSUME NEW e \in SoundCdp
    PROVE  /\ \A n : [e EXCEPT !.collateral_amount = @ - n].total_repay = e.total_repay
           /\ \A total_borrow, borrowed, collateral, shares, rate :
                 UpdateCdpData(e, total_borrow, borrowed, collateral, shares, rate).total_repay
                   = e.total_repay
<1>1. e \in Cdp
  BY DEF SoundCdp
<1> QED
  BY <1>1 DEF Cdp, UpdateCdpData

LEMMA NextGains ==
    ASSUME ManagerInv, [Next]_vars
    PROVE  [GainsBounded]_vars
<1>1. ASSUME UNCHANGED cdps PROVE GainsBounded
  BY <1>1, \A i \in DOMAIN cdps : cdps'[i] = cdps[i] /\ cdps'[i].total_repay = cdps[i].total_repay,
     NoGain
<1>2. ASSUME NEW d, cdps' = Append(cdps, d)
      PROVE  GainsBounded
  <2>1. cdps \in Seq(SoundCdp)
    BY DEF ManagerInv, Positions
  <2>2. /\ \A i \in DOMAIN cdps \ {Len(cdps) + 1} : cdps'[i] = cdps[i]
        /\ Len(cdps) + 1 \notin DOMAIN cdps
    BY <1>2, <2>1
  <2> QED
    BY <2>2, NoGain
<1>3. ASSUME NEW pair \in Pairs, NEW dx_amount \in Collaterals, NEW amount \in Loans,
             \/ OpenVariable(pair[2], dx_amount, pair[1], amount)
             \/ StableBorrowing /\ OpenStable(pair[2], dx_amount, pair[1], amount)
      PROVE  GainsBounded
  <2>1. PICK shares, rate, stable :
           cdps' = Append(cdps, NewCdp(pair[2], pair[1], amount, dx_amount, shares, rate, stable))
    BY <1>3 DEF OpenVariable, OpenStable
  <2> QED
    BY <1>2, <2>1
<1>4. ASSUME NEW id \in DOMAIN cdps, NEW amount \in Loans,
             ExtendVariable(id, amount) \/ ExtendStable(id, amount)
      PROVE  GainsBounded
  <2>1. PICK total_borrow, borrowed, collateral, shares, rate :
           cdps' = [cdps EXCEPT ![id] =
                      UpdateCdpData(cdps[id], total_borrow, borrowed, collateral, shares, rate)]
    BY <1>4 DEF ExtendVariable, ExtendStable
  <2> DEFINE d == UpdateCdpData(cdps[id], total_borrow, borrowed, collateral, shares, rate)
  <2>2. d.total_repay = cdps[id].total_repay
    BY CdpInv, RepaymentsUntouched
  <2>3. cdps' = [cdps EXCEPT ![id] = d]
    BY <2>1
  <2> HIDE DEF d
  <2> QED
    BY <2>2, <2>3, SameRepayments
<1>5. ASSUME NEW id \in DOMAIN cdps, NEW amount \in Withdrawals, WithdrawCollateral(id, amount)
      PROVE  GainsBounded
  <2> DEFINE c == cdps[id].collateral_token
             n == CeilTo(DDiv(amount, CurrentDepositIndex(pools[c], epoch)), ShareUnit[c])
             d == [cdps[id] EXCEPT !.collateral_amount = @ - n]
  <2>1. cdps' = [cdps EXCEPT ![id] = d]
    BY <1>5 DEF WithdrawCollateral
  <2> HIDE DEF n
  <2>2. d.total_repay = cdps[id].total_repay
    BY CdpInv, RepaymentsUntouched
  <2> HIDE DEF d
  <2> QED
    BY <2>1, <2>2, SameRepayments
<1>6. ASSUME NEW id \in DOMAIN cdps, NEW amount \in Additions,
             AddDxCollateral(id, amount) \/ AddUnderlyingCollateral(id, amount)
      PROVE  GainsBounded
  <2>1. PICK n : cdps' = [cdps EXCEPT ![id] = UpdateCdpData(cdps[id], 0, 0, n, 0, 0)]
    BY <1>6 DEF AddDxCollateral, AddUnderlyingCollateral
  <2> DEFINE d == UpdateCdpData(cdps[id], 0, 0, n, 0, 0)
  <2>2. d.total_repay = cdps[id].total_repay
    BY CdpInv, RepaymentsUntouched
  <2>3. cdps' = [cdps EXCEPT ![id] = d]
    BY <2>1
  <2> HIDE DEF d
  <2> QED
    BY <2>2, <2>3, SameRepayments
<1>7. CASE UNCHANGED vars
  BY <1>7 DEF vars
<1>8. CASE Next
  <2>1. ASSUME NEW t \in Token, NEW amount \in Supplies, Supply(t, amount)
        PROVE  UNCHANGED cdps
    BY <2>1 DEF Supply
  <2>2. ASSUME NEW t \in Token, NEW shares \in Withdrawals, Withdraw(t, shares)
        PROVE  UNCHANGED cdps
    BY <2>2 DEF Withdraw
  <2>3. ASSUME NEW t \in Token, NEW amount \in FlashLoans, BorrowFlashloan(t, amount)
        PROVE  UNCHANGED cdps
    BY <2>3 DEF BorrowFlashloan
  <2>4. ASSUME NEW nft \in transient_nfts, RepayFlashloan(nft)
        PROVE  UNCHANGED cdps
    BY <2>4 DEF RepayFlashloan
  <2>5. ASSUME NEW percent \in CloseFactors, SetCloseFactor(percent)
        PROVE  UNCHANGED cdps
    BY <2>5 DEF SetCloseFactor
  <2>6. ASSUME NEW t \in Token, NEW amount \in Draws, DrawInsurance(t, amount)
        PROVE  UNCHANGED cdps
    BY <2>6 DEF DrawInsurance
  <2>7. PricesMove \/ NextEpoch => UNCHANGED cdps
    BY DEF PricesMove, NextEpoch
  <2> QED
    BY <1>1, <1>3, <1>4, <1>5, <1>6, <1>8, RepayGain, LiquidationGain,
       <2>1, <2>2, <2>3, <2>4, <2>5, <2>6, <2>7 DEF Next
<1> QED
  BY <1>7, <1>8

\* Liquidators gain no more than the bonus on the debt they repay, at any
\* indices, prices and divisibilities, and a seizure of all the collateral leaves
\* the position at most a dust below zero (get_liquidate_debt_and_collateral,
\* liquidation; Bucket::take gives the pool the debt computed).
THEOREM LiquidatorGains == Spec /\ []RatesKept => LiquidatorGainBounded
<1>1. ManagerInv /\ [Next]_vars =>
        [\A i \in DOMAIN cdps :
            cdps'[i].total_repay > cdps[i].total_repay
              /\ cdps'[i].collateral_amount < cdps[i].collateral_amount =>
              LET d == cdps[i]
                  c == d.collateral_token
                  seized == GetRedemptionValue(pools[c], epoch,
                                               d.collateral_amount - cdps'[i].collateral_amount)
                  repaid == cdps'[i].total_repay - d.total_repay
              IN  /\ cdps'[i].collateral_amount >= -SeizureDust(d)
                  /\ DMul(seized, quote[c])
                       <= WithBonus(d, DMul(repaid, quote[d.borrow_token])) + GainDust(d)]_vars
  BY NextGains DEF GainsBounded
<1> QED
  BY <1>1, ManagerInvariant, PTL DEF Spec, LiquidatorGainBounded

-----------------------------------------------------------------------------
(* The debts of the stable positions.  A payment takes off a loan at most  *)
(* what it pays beyond the interest, and every loan or payment starts the  *)
(* interest anew from a loan that has the old one in it.                   *)

\* What StableDebtKept says of a step.
DebtsKept ==
    \A i \in DOMAIN cdps :
        cdps[i].is_stable =>
          StableDebt(cdps'[i])
            >= StableDebt(cdps[i]) - (cdps'[i].total_repay - cdps[i].total_repay)

\* Collateral is added to a position, at whatever cost to its debt.
CollateralAddition ==
    \E id \in DOMAIN cdps, amount \in Additions :
        AddDxCollateral(id, amount) \/ AddUnderlyingCollateral(id, amount)

LEMMA OneDebtKept ==
    ASSUME ManagerInv, NEW x, \A i \in DOMAIN cdps \ {x} : cdps'[i] = cdps[i],
           x \in DOMAIN cdps /\ cdps[x].is_stable =>
               StableDebt(cdps'[x])
                 >= StableDebt(cdps[x]) - (cdps'[x].total_repay - cdps[x].total_repay)
    PROVE  DebtsKept
<1> SUFFICES ASSUME NEW i \in DOMAIN cdps, cdps[i].is_stable, i # x
             PROVE  StableDebt(cdps'[i])
                      >= StableDebt(cdps[i]) - (cdps'[i].total_repay - cdps[i].total_repay)
  BY DEF DebtsKept
<1>1. /\ cdps[i] \in SoundCdp /\ epoch \in Nat /\ cdps[i].last_update_epoch <= epoch
      /\ cdps[i].total_repay \in Nat
  BY CdpInv, CdpFields DEF SoundCdp, Cdp
<1>2. StableDebt(cdps[i]) \in Nat
  BY <1>1, StableDebtGrows
<1>3. cdps'[i] = cdps[i]
  OBVIOUS
<1> QED
  BY <1>1, <1>2, <1>3

\* A position with the loan, the rate and the epoch of e owes what e owes.
LEMMA SameStableDebt ==
    ASSUME NEW e, NEW d, d.borrow_amount = e.borrow_amount, d.stable_rate = e.stable_rate,
           d.last_update_epoch = e.last_update_epoch
    PROVE  StableDebt(d) = StableDebt(e)
  BY DEF StableDebt

\* A payment.
LEMMA PaidDebtKept ==
    ASSUME ManagerInv, NEW id \in DOMAIN cdps, NEW bucket \in Nat, NEW limit \in Limits,
           cdps[id].is_stable
    PROVE  LET e == cdps[id]
               d == CdpPaid(e, bucket, limit)
               paid == PaySplit(e, bucket, limit).paid
           IN  /\ d \in SoundCdp /\ paid \in Nat
               /\ d.total_repay = e.total_repay + paid
               /\ StableDebt(d) >= StableDebt(e) - paid
<1> DEFINE e == cdps[id]
           p == pools[e.borrow_token]
           interest == GetStableInterest(epoch, e.borrow_amount, e.last_update_epoch, e.stable_rate)
           s == PaySplit(e, bucket, limit)
           d == CdpPaid(e, bucket, limit)
<1>1. /\ e \in SoundCdp /\ epoch \in Nat /\ PoolSound(p)
      /\ e.last_update_epoch <= epoch /\ e.last_update_epoch \in Nat
      /\ e.borrow_amount \in Nat /\ e.stable_rate \in Nat
  BY CdpInv, CdpFields DEF AssetPool
<1>2. /\ s = RepayStableSplit(p, epoch, bucket, e.borrow_amount, e.stable_rate,
                              e.last_update_epoch, limit)
      /\ d = UpdateCdpAfterRepay(e, s.paid, s.in_borrow, 0)
      /\ StableDebt(e) = e.borrow_amount + interest
  BY DEF PaySplit, CdpPaid, CdpAfter, StableDebt
<1> HIDE DEF s, interest
<1>3. StableSplitSound(s, interest, bucket, e.borrow_amount, limit)
  BY <1>1, <1>2, StableSplitBounds DEF interest
<1>4. /\ s.paid \in Nat /\ s.in_borrow \in Int /\ s.in_borrow <= e.borrow_amount
      /\ s.in_borrow = s.paid - s.interest
      /\ s.interest \in Nat /\ interest \in Nat /\ interest <= s.interest
  BY <1>3 DEF StableSplitSound
<1>5. /\ d \in SoundCdp /\ SameTerms(e, d) /\ d.total_repay = e.total_repay + s.paid
      /\ d.borrow_amount = e.borrow_amount - s.in_borrow
      /\ d.last_update_epoch <= epoch
      /\ s.in_borrow = 0 => d.last_update_epoch = e.last_update_epoch
                              /\ d.stable_rate = e.stable_rate
  <2>1. /\ e \in SoundCdp /\ epoch \in Nat /\ e.last_update_epoch <= epoch
        /\ s.paid \in Nat /\ s.in_borrow \in Int /\ 0 \in Nat
        /\ IF e.is_stable THEN s.in_borrow <= e.borrow_amount /\ 0 = 0
           ELSE s.in_borrow = 0 /\ 0 <= e.normalized_borrow
    BY <1>1, <1>4
  <2>2. d = UpdateCdpAfterRepay(e, s.paid, s.in_borrow, 0)
    BY <1>2
  <2> HIDE DEF d
  <2> QED
    BY ONLY <2>1, <2>2, RepaidCdp
<1> HIDE DEF d
<1>6. CASE s.in_borrow = 0
  <2>1. d.borrow_amount = e.borrow_amount
    BY <1>1, <1>5, <1>6
  <2>2. StableDebt(d) = StableDebt(e)
    BY <1>5, <1>6, <2>1, SameStableDebt
  <2>3. StableDebt(e) \in Nat
    BY <1>1, StableDebtGrows
  <2> QED
    BY <1>4, <1>5, <2>2, <2>3 DEF s, d
<1>7. CASE s.in_borrow # 0
  <2>1. StableDebt(d) \in Nat /\ d.borrow_amount <= StableDebt(d) /\ d.borrow_amount \in Nat
    BY <1>1, <1>5, StableDebtGrows, CdpFields
  <2>2. StableDebt(e) = e.borrow_amount + interest
    BY <1>2
  <2>3. d.borrow_amount = e.borrow_amount - s.in_borrow
    BY <1>5
  <2>4. StableDebt(d) >= StableDebt(e) - s.paid
    <3> DEFINE owed == StableDebt(d)
               owing == StableDebt(e)
    <3>1. owed \in Nat /\ d.borrow_amount <= owed /\ owing = e.borrow_amount + interest
      BY <2>1, <2>2
    <3> HIDE DEF owed, owing, e
    <3>2. owed >= owing - s.paid
      BY <1>1, <1>4, <2>3, <3>1
    <3> QED
      BY <3>2 DEF owed, owing
  <2> QED
    BY <1>4, <1>5, <2>4 DEF s, d
<1> QED
  BY <1>6, <1>7

LEMMA RepayKeepsDebts ==
    ASSUME ManagerInv, NEW id \in DOMAIN cdps, NEW bucket \in Repayments, Repay(id, bucket)
    PROVE  DebtsKept
<1> DEFINE e == cdps[id]
           s == PaySplit(e, bucket, {})
           d == CdpPaid(e, bucket, {})
<1>1. bucket \in Nat /\ {} \in Limits /\ e \in SoundCdp /\ e.total_repay \in Nat
  BY CdpInv, CdpManagerAssumption DEF Limits, SoundCdp, Cdp
<1>2. cdps' = [cdps EXCEPT ![id] = d]
  BY DEF Repay
<1>3. e.is_stable => /\ d.total_repay = e.total_repay + s.paid /\ s.paid \in Nat
                     /\ StableDebt(d) >= StableDebt(e) - s.paid
  BY <1>1, PaidDebtKept
<1> HIDE DEF d, s
<1>4. cdps'[id] = d /\ \A i \in DOMAIN cdps \ {id} : cdps'[i] = cdps[i]
  BY <1>2
<1>5. e.is_stable => StableDebt(d) >= StableDebt(e) - (d.total_repay - e.total_repay)
  <2> SUFFICES ASSUME e.is_stable
               PROVE  StableDebt(d) >= StableDebt(e) - (d.total_repay - e.total_repay)
    OBVIOUS
  <2>1. d.total_repay - e.total_repay = s.paid
    BY <1>1, <1>3
  <2> QED
    BY <1>3, <2>1
<1> QED
  BY <1>4, <1>5, OneDebtKept

LEMMA LiquidationKeepsDebts ==
    ASSUME ManagerInv, NEW id \in DOMAIN cdps, NEW cover \in Covers, NEW bucket \in Repayments,
           Liquidation(id, cover, bucket)
    PROVE  DebtsKept
<1> DEFINE e == cdps[id]
           q == Seizure(e, CollateralValue(e), LiquidatedDebt(e, cover))
           s == PaySplit(e, bucket, {q.debt})
           paid == CdpPaid(e, bucket, {q.debt})
           d == [paid EXCEPT !.collateral_amount = @ - q.collateral]
<1>1. /\ e \in SoundCdp /\ bucket \in Nat /\ cover \in Nat /\ e.total_repay \in Nat
  BY CdpInv, CdpManagerAssumption DEF SoundCdp, Cdp
<1>2. Liquidatable(e) /\ Liquidate(id, q, bucket)
  BY DEF Liquidation, GetLiquidateDebtAndCollateral
<1>3. /\ CanPay(e, bucket, {q.debt}) /\ s.paid = q.debt /\ cdps' = [cdps EXCEPT ![id] = d]
  <2> HIDE DEF q
  <2> QED
    BY <1>2 DEF Liquidate
<1>4. q.debt \in Int /\ q.collateral \in Int
  <2> DEFINE debt == LiquidatedDebt(e, cover)
  <2>1. /\ Seizable(e, CollateralValue(e), CurrentDepositIndex(pools[e.collateral_token], epoch))
        /\ debt \in Nat /\ e.collateral_token \in Token /\ e.borrow_token \in Token
        /\ e.collateral_amount \in Int /\ ShareUnit[e.collateral_token] \in 1 .. ONE
    BY <1>1, <1>2, SeizableCdp, LiquidatedDebtNat, CdpInv, CdpFields, CdpManagerAssumption
  <2> HIDE DEF debt
  <2>2. Seizure(e, CollateralValue(e), debt).debt \in Int
        /\ Seizure(e, CollateralValue(e), debt).collateral \in Int
    BY <2>1, SeizureBounds
  <2> QED
    BY <2>2 DEF debt
<1> HIDE DEF q
<1>5. {q.debt} \in Limits
  <2>1. s.paid >= 0
    BY <1>3 DEF CanPay, PaySplit, CanRepayVariable, CanRepayStable, CanTake
  <2> QED
    BY <1>3, <1>4, <2>1 DEF Limits
<1>6. e.is_stable => /\ paid \in SoundCdp /\ paid.total_repay = e.total_repay + s.paid
                     /\ s.paid \in Nat /\ StableDebt(paid) >= StableDebt(e) - s.paid
  BY <1>1, <1>5, PaidDebtKept
<1> HIDE DEF s, paid
<1>7. e.is_stable => d.total_repay = paid.total_repay /\ StableDebt(d) = StableDebt(paid)
  <2> SUFFICES ASSUME e.is_stable
               PROVE  d.total_repay = paid.total_repay /\ StableDebt(d) = StableDebt(paid)
    OBVIOUS
  <2>1. /\ d.total_repay = paid.total_repay /\ d.borrow_amount = paid.borrow_amount
        /\ d.last_update_epoch = paid.last_update_epoch /\ d.stable_rate = paid.stable_rate
    BY <1>4, <1>6, ReleasedCdp
  <2> QED
    BY <2>1, SameStableDebt
<1> HIDE DEF d
<1>8. cdps'[id] = d /\ \A i \in DOMAIN cdps \ {id} : cdps'[i] = cdps[i]
  BY <1>3
<1>9. e.is_stable => StableDebt(d) >= StableDebt(e) - (d.total_repay - e.total_repay)
  <2> SUFFICES ASSUME e.is_stable
               PROVE  StableDebt(d) >= StableDebt(e) - (d.total_repay - e.total_repay)
    OBVIOUS
  <2>1. d.total_repay - e.total_repay = s.paid
    BY <1>1, <1>6, <1>7
  <2> QED
    BY <1>6, <1>7, <2>1
<1> QED
  BY <1>8, <1>9, OneDebtKept

LEMMA WithdrawalKeepsDebts ==
    ASSUME ManagerInv, NEW id \in DOMAIN cdps, NEW amount \in Withdrawals,
           WithdrawCollateral(id, amount)
    PROVE  DebtsKept
<1> DEFINE e == cdps[id]
           c == e.collateral_token
           n == CeilTo(DDiv(amount, CurrentDepositIndex(pools[c], epoch)), ShareUnit[c])
           d == [e EXCEPT !.collateral_amount = @ - n]
<1>1. /\ e \in SoundCdp /\ e \in Cdp /\ epoch \in Nat /\ e.last_update_epoch <= epoch
      /\ e.total_repay \in Nat
  BY CdpInv DEF SoundCdp, Cdp
<1>2. cdps' = [cdps EXCEPT ![id] = d]
  BY DEF WithdrawCollateral
<1> HIDE DEF n
<1>3. /\ d.total_repay = e.total_repay /\ d.borrow_amount = e.borrow_amount
      /\ d.last_update_epoch = e.last_update_epoch /\ d.stable_rate = e.stable_rate
  BY <1>1 DEF Cdp
<1> HIDE DEF d
<1>4. StableDebt(d) = StableDebt(e) /\ StableDebt(e) \in Nat
  BY <1>1, <1>3, SameStableDebt, StableDebtGrows
<1>5. cdps'[id] = d /\ \A i \in DOMAIN cdps \ {id} : cdps'[i] = cdps[i]
  BY <1>2
<1>6. StableDebt(d) >= StableDebt(e) - (d.total_repay - e.total_repay)
  BY <1>1, <1>3, <1>4
<1> QED
  BY <1>5, <1>6, OneDebtKept

LEMMA ExtendKeepsDebts ==
    ASSUME ManagerInv, NEW id \in DOMAIN cdps, NEW amount \in Loans, ExtendStable(id, amount)
    PROVE  DebtsKept
<1> DEFINE e == cdps[id]
           b == e.borrow_token
           p == pools[b]
           interest == StableDebt(e) - e.borrow_amount
           rate == PoolInterestRate(p, epoch, amount).stable
           average == GetWeightRate(StableDebt(e), e.stable_rate, amount, rate)
           d == UpdateCdpData(e, amount, interest, 0, 0, average)
<1>1. /\ e \in SoundCdp /\ b \in Token /\ epoch \in Nat /\ amount \in Nat
      /\ AssetPool(b, p, epoch) /\ e.last_update_epoch <= epoch
      /\ e.borrow_amount \in Nat /\ e.stable_rate \in Nat /\ e.total_repay \in Nat
  BY CdpInv, CdpFields, CdpManagerAssumption DEF SoundCdp, Cdp
<1>2. /\ cdps' = [cdps EXCEPT ![id] = d] /\ CanBorrowStable(p, epoch, amount)
      /\ StableDebt(e) + amount # 0
  BY DEF ExtendStable
<1>3. rate \in Nat
  BY <1>1, <1>2, AssetLent
<1> HIDE DEF rate
<1>4. StableDebt(e) \in Nat /\ interest \in Nat
  BY <1>1, StableDebtGrows
<1>5. average \in Nat
  BY <1>1, <1>2, <1>3, <1>4, WeightRateNat
<1>6. e.borrow_amount + amount + interest = StableDebt(e) + amount
  BY <1>1, <1>4
<1> HIDE DEF interest, average
<1>7. /\ d \in SoundCdp /\ d.total_repay = e.total_repay
      /\ d.borrow_amount = StableDebt(e) + amount /\ d.last_update_epoch <= epoch
  <2>1. /\ e \in SoundCdp /\ epoch \in Nat /\ e.last_update_epoch <= epoch
        /\ amount \in Nat /\ interest \in Nat /\ average \in Nat
        /\ 0 \in Nat /\ (e.is_stable => 0 = 0)
    BY <1>1, <1>4, <1>5
  <2>2. Extended(e, d, amount, interest, 0, 0)
    BY ONLY <2>1, ExtendedCdp
  <2> HIDE DEF d
  <2> QED
    BY <1>6, <2>2 DEF Extended
<1> HIDE DEF d
<1>8. StableDebt(d) \in Nat /\ d.borrow_amount <= StableDebt(d)
  BY <1>1, <1>7, StableDebtGrows
<1>9. cdps'[id] = d /\ \A i \in DOMAIN cdps \ {id} : cdps'[i] = cdps[i]
  BY <1>2
<1>10. StableDebt(d) >= StableDebt(e) - (d.total_repay - e.total_repay)
  BY <1>1, <1>4, <1>7, <1>8
<1> QED
  BY <1>9, <1>10, OneDebtKept

LEMMA NextDebts ==
    ASSUME ManagerInv, [Next]_vars
    PROVE  [CollateralAddition \/ DebtsKept]_vars
<1>1. ASSUME UNCHANGED cdps PROVE DebtsKept
  <2> DEFINE none == Len(cdps) + 1
  <2>1. none \notin DOMAIN cdps
    BY DEF ManagerInv, Positions
  <2>2. \A i \in DOMAIN cdps \ {none} : cdps'[i] = cdps[i]
    BY <1>1
  <2> QED
    BY <2>1, <2>2, OneDebtKept
<1>2. ASSUME NEW d, cdps' = Append(cdps, d)
      PROVE  DebtsKept
  <2>1. cdps \in Seq(SoundCdp)
    BY DEF ManagerInv, Positions
  <2>2. /\ \A i \in DOMAIN cdps \ {Len(cdps) + 1} : cdps'[i] = cdps[i]
        /\ Len(cdps) + 1 \notin DOMAIN cdps
    BY <1>2, <2>1
  <2> QED
    BY <2>2, OneDebtKept
<1>3. ASSUME NEW pair \in Pairs, NEW dx_amount \in Collaterals, NEW amount \in Loans,
             \/ OpenVariable(pair[2], dx_amount, pair[1], amount)
             \/ StableBorrowing /\ OpenStable(pair[2], dx_amount, pair[1], amount)
      PROVE  DebtsKept
  <2>1. PICK shares, rate, stable :
           cdps' = Append(cdps, NewCdp(pair[2], pair[1], amount, dx_amount, shares, rate, stable))
    BY <1>3 DEF OpenVariable, OpenStable
  <2> QED
    BY <1>2, <2>1
<1>4. ASSUME NEW id \in DOMAIN cdps, NEW amount \in Loans, ExtendVariable(id, amount)
      PROVE  DebtsKept
  <2>1. \A i \in DOMAIN cdps \ {id} : cdps'[i] = cdps[i]
    BY <1>4 DEF ExtendVariable
  <2>2. ~ cdps[id].is_stable
    BY <1>4 DEF ExtendVariable
  <2> QED
    BY <2>1, <2>2, OneDebtKept
<1>5. CASE UNCHANGED vars
  BY <1>5
<1>6. CASE Next
  <2>1. ASSUME NEW t \in Token, NEW amount \in Supplies, Supply(t, amount)
        PROVE  UNCHANGED cdps
    BY <2>1 DEF Supply
  <2>2. ASSUME NEW t \in Token, NEW shares \in Withdrawals, Withdraw(t, shares)
        PROVE  UNCHANGED cdps
    BY <2>2 DEF Withdraw
  <2>3. ASSUME NEW t \in Token, NEW amount \in FlashLoans, BorrowFlashloan(t, amount)
        PROVE  UNCHANGED cdps
    BY <2>3 DEF BorrowFlashloan
  <2>4. ASSUME NEW nft \in transient_nfts, RepayFlashloan(nft)
        PROVE  UNCHANGED cdps
    BY <2>4 DEF RepayFlashloan
  <2>5. ASSUME NEW percent \in CloseFactors, SetCloseFactor(percent)
        PROVE  UNCHANGED cdps
    BY <2>5 DEF SetCloseFactor
  <2>6. ASSUME NEW t \in Token, NEW amount \in Draws, DrawInsurance(t, amount)
        PROVE  UNCHANGED cdps
    BY <2>6 DEF DrawInsurance
  <2>7. PricesMove \/ NextEpoch => UNCHANGED cdps
    BY DEF PricesMove, NextEpoch
  <2>8. ASSUME NEW id \in DOMAIN cdps, NEW amount \in Additions,
               AddDxCollateral(id, amount) \/ AddUnderlyingCollateral(id, amount)
        PROVE  CollateralAddition
    BY <2>8 DEF CollateralAddition
  <2>9. CollateralAddition \/ DebtsKept
    BY <1>1, <1>3, <1>4, <1>6, RepayKeepsDebts, LiquidationKeepsDebts, WithdrawalKeepsDebts,
       ExtendKeepsDebts, <2>1, <2>2, <2>3, <2>4, <2>5, <2>6, <2>7, <2>8 DEF Next
  <2> QED
    BY <2>9
<1> QED
  BY <1>5, <1>6

\* No step but an addition of collateral, which restarts the interest without
\* adding it to the loan, lowers the debt of a stable position by more than it
\* pays (extend_borrow, update_cdp_after_repay, add_collateral).
THEOREM OnlyPaymentsLowerStableDebt ==
    Spec /\ []RatesKept => [][CollateralAddition \/ DebtsKept]_vars
<1>1. ManagerInv /\ [Next]_vars => [CollateralAddition \/ DebtsKept]_vars
  BY NextDebts
<1> QED
  BY <1>1, ManagerInvariant, PTL DEF Spec

\* So that where collateral is never added, nothing but a payment does.
THEOREM StableDebtsAreKept ==
    ASSUME Additions = {} PROVE Spec /\ []RatesKept => StableDebtKept
<1>1. [CollateralAddition \/ DebtsKept]_vars =>
        [\A i \in DOMAIN cdps :
            cdps[i].is_stable =>
              StableDebt(cdps'[i])
                >= StableDebt(cdps[i]) - (cdps'[i].total_repay - cdps[i].total_repay)]_vars
  BY DEF CollateralAddition, DebtsKept
<1> QED
  BY <1>1, OnlyPaymentsLowerStableDebt, PTL DEF StableDebtKept
=============================================================================
