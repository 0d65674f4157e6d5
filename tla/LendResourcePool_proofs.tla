---------------------- MODULE LendResourcePool_proofs ----------------------
(***************************************************************************)
(* Lemmas about what each method of a pool makes of a sound pool.          *)
(***************************************************************************)
EXTENDS LendResourcePool, DecimalMath_proofs

\* No curve gives a negative rate, and no stable rate is below the variable one.
LEMMA InterestRateNat ==
    ASSUME NEW ratio \in Nat, NEW model
    PROVE  LET rate == GetInterestRate(InterestParams, ratio, model, ActiveSetApy)
           IN  /\ rate \in [variable : Nat, stable : Nat]
               /\ rate.variable <= rate.stable
<1> DEFINE prm == InterestParams
<1>1. /\ prm.def_primary \in Nat /\ prm.def_quadratic \in Nat
      /\ prm.stable_coin_primary \in Nat /\ prm.stable_coin_quadratic \in Nat
      /\ ActiveSetApy \in Nat /\ ONE \in Nat
  BY RatesAssumption, DecimalAssumption
<1>2. GetDefaultVariableInterest(prm, ratio) \in Nat
  <2>1. Pow[2][ratio] \in Nat
    BY PowNat
  <2>2. /\ DMul(ratio, prm.def_primary) \in Nat
        /\ DMul(Pow[2][ratio], prm.def_quadratic) \in Nat
    BY <1>1, <2>1, DMulNat
  <2> QED
    BY <1>1, <2>2 DEF GetDefaultVariableInterest
<1>3. GetStablecoinVariableInterest(prm, ratio) \in Nat
  <2> DEFINE r2 == IF ratio > ONE THEN ONE ELSE Pow[2][ratio]
  <2>1. r2 \in Nat
    BY <1>1, PowNat
  <2> HIDE DEF r2
  <2>2. Pow[2][r2] \in Nat /\ Pow[4][r2] \in Nat
    BY <2>1, PowNat
  <2>3. /\ DMul(prm.stable_coin_primary, Pow[2][r2]) \in Nat
        /\ DMul(prm.stable_coin_quadratic, Pow[4][r2]) \in Nat
    BY <1>1, <2>2, DMulNat
  <2> QED
    BY <2>3 DEF GetStablecoinVariableInterest, r2
<1> HIDE DEF prm
<1> QED
  BY <1>1, <1>2, <1>3 DEF GetInterestRate, VariableAndStable, prm

----------------------------------------------------------------------------
(* Pools.                                                                  *)

IsPool(p) == p = [f \in PoolFields |-> p[f]]

LEMMA PoolFieldNames ==
    PoolFields =
      {"interest_model", "underlying_unit", "share_unit", "insurance_ratio",
       "flashloan_fee_ratio", "share_supply", "vault", "insurance_balance",
       "deposit_index", "loan_index", "last_update", "deposit_interest_rate",
       "variable_loan_interest_rate", "variable_loan_share_quantity",
       "stable_loan_interest_rate", "stable_loan_amount", "stable_loan_last_update",
       "bond_epochs", "bonds", "claim_nfts", "bond_amount"}
BY DEF PoolFields, NewPool

\* The bonds of a pool: finitely many epochs with finitely many claim NFTs,
\* bought below their value, and no interest without an NFT.
BondsSound(p) ==
    /\ IsFiniteSet(p.bond_epochs) /\ p.bond_epochs \subseteq DOMAIN p.bonds
    /\ \A e \in DOMAIN p.bonds :
          /\ p.bonds[e] = [interest |-> p.bonds[e].interest, nfts |-> p.bonds[e].nfts]
          /\ p.bonds[e].interest \in Nat
          /\ IsFiniteSet(p.bonds[e].nfts)
          /\ \A n \in p.bonds[e].nfts : n.claim_amount \in Nat
          /\ p.bonds[e].interest # 0 => p.bonds[e].nfts # {}

LEMMA BondsSoundSame ==
    ASSUME NEW p, BondsSound(p), NEW q, q.bonds = p.bonds, q.bond_epochs = p.bond_epochs
    PROVE  BondsSound(q)
BY Zenon DEF BondsSound

\* A pool whose amounts, rates and shares are not negative and whose indices
\* never fell below one.  (stable_loan_last_update is set once and for all.)
PoolSound(p) ==
    /\ IsPool(p)
    /\ p.underlying_unit \in Nat \ {0} /\ p.share_unit \in Nat \ {0}
    /\ p.insurance_ratio \in 0 .. ONE /\ p.flashloan_fee_ratio \in Nat
    /\ p.share_supply \in Nat /\ p.vault \in Nat
    /\ p.deposit_index \in Nat /\ p.deposit_index >= ONE
    /\ p.loan_index \in Nat /\ p.loan_index >= ONE
    /\ p.last_update \in Nat
    /\ p.deposit_interest_rate \in Nat /\ p.variable_loan_interest_rate \in Nat
    /\ p.variable_loan_share_quantity \in Nat
    /\ p.stable_loan_amount \in Nat /\ p.stable_loan_interest_rate \in Nat
    /\ p.stable_loan_last_update = 0
    /\ p.insurance_balance \in Int /\ p.bond_amount \in Int
    /\ BondsSound(p)

\* q is p but for the fields listed.
Keeps(p, q, fields) == IsPool(q) /\ \A f \in PoolFields \ fields : q[f] = p[f]

RateFields == {"deposit_interest_rate", "variable_loan_interest_rate"}

LEMMA NewPoolSound ==
    ASSUME NEW model, NEW uu \in Nat \ {0}, NEW su \in Nat \ {0}, NEW ir \in 0 .. ONE,
           NEW ff \in Nat
    PROVE  PoolSound(NewPool(model, uu, su, ir, ff))
<1> DEFINE p == NewPool(model, uu, su, ir, ff)
<1>1. IsPool(p)
  BY PoolFieldNames DEF IsPool, NewPool
<1>2. p.bond_epochs = {} /\ DOMAIN p.bonds = {}
  BY DEF NewPool
<1>3. BondsSound(p)
  BY <1>2, FS_EmptySet DEF BondsSound
<1> QED
  BY <1>1, <1>3, DecimalAssumption DEF PoolSound, NewPool

LEMMA MatureInterestNat ==
    ASSUME NEW p, NEW now, BondsSound(p)
    PROVE  MatureInterest(p, now) \in Nat
<1> DEFINE f == [e \in DOMAIN p.bonds |-> p.bonds[e].interest]
<1>1. IsFiniteSet(MatureEpochs(p, now)) /\ MatureEpochs(p, now) \subseteq DOMAIN p.bonds
  BY FS_Subset DEF MatureEpochs, BondsSound
<1>2. \A e \in MatureEpochs(p, now) : f[e] \in Nat
  BY <1>1 DEF BondsSound
<1> HIDE DEF f
<1>3. SumFunctionOnSet(f, MatureEpochs(p, now)) \in Nat
  BY <1>1, <1>2, SumNat
<1> QED
  BY <1>3 DEF f, MatureInterest

LEMMA SumClaimAmountIs ==
    ASSUME NEW nfts
    PROVE  SumClaimAmount(nfts) = SumFunctionOnSet([n \in nfts |-> n.claim_amount], nfts)
<1> DEFINE f == [n \in nfts |-> n.claim_amount]
<1>1. SumFunction(f) = SumFunctionOnSet(f, DOMAIN f)
  BY Zenon DEF SumFunction
<1>2. DOMAIN f = nfts
  OBVIOUS
<1> QED
  BY <1>1, <1>2 DEF SumClaimAmount

LEMMA SumClaimAmountNat ==
    ASSUME NEW nfts, IsFiniteSet(nfts), \A n \in nfts : n.claim_amount \in Nat
    PROVE  SumClaimAmount(nfts) \in Nat
<1> DEFINE f == [n \in nfts |-> n.claim_amount]
<1>1. \A n \in nfts : f[n] \in Nat
  OBVIOUS
<1> HIDE DEF f
<1>2. SumFunctionOnSet(f, nfts) \in Nat
  BY <1>1, SumNat
<1> QED
  BY <1>2, SumClaimAmountIs DEF f

\* The due claim NFTs are finitely many.
LEMMA MatureNftsFinite ==
    ASSUME NEW p, NEW now, BondsSound(p)
    PROVE  /\ IsFiniteSet(MatureNfts(p, now))
           /\ SumClaimAmount(MatureNfts(p, now)) \in Nat
<1> DEFINE due == MatureEpochs(p, now)
           part == [e \in due |-> p.bonds[e].nfts]
<1>1. IsFiniteSet(due) /\ due \subseteq DOMAIN p.bonds
  BY FS_Subset DEF MatureEpochs, BondsSound
<1>2. \A e \in due : IsFiniteSet(part[e])
  BY <1>1 DEF BondsSound
<1>3. MatureNfts(p, now) = UNION {part[e] : e \in due}
  BY DEF MatureNfts
<1>4. IsFiniteSet(MatureNfts(p, now))
  <2> HIDE DEF due, part
  <2> QED
    BY <1>1, <1>2, <1>3, UnionFinite
<1>5. \A n \in MatureNfts(p, now) : n.claim_amount \in Nat
  BY <1>1 DEF MatureNfts, BondsSound
<1> QED
  BY <1>4, <1>5, SumClaimAmountNat

(* Indices *)

\* What bonds add to an index: nothing that is negative.
LEMMA WithBondsNat ==
    ASSUME NEW p, PoolSound(p), NEW index \in Nat, NEW interest \in Nat,
           interest > 0 => DMul(p.share_supply, index) # 0
    PROVE  /\ WithBonds(p, index, interest) \in Nat
           /\ index <= WithBonds(p, index, interest)
<1>1. CASE interest > 0
  <2> DEFINE deposits == DMul(p.share_supply, index)
             earned == DMul(interest, ONE - p.insurance_ratio)
  <2>1. deposits \in Nat \ {0}
    BY <1>1, DMulNat DEF PoolSound
  <2>2. ONE - p.insurance_ratio \in Nat
    BY DecimalAssumption DEF PoolSound
  <2>3. earned \in Nat
    BY <2>2, DMulNat
  <2> HIDE DEF deposits, earned
  <2>4. DDiv(earned, deposits) \in Nat
    BY <2>1, <2>3, DDivNat
  <2>5. WithBonds(p, index, interest) = index + DDiv(earned, deposits)
    BY <1>1 DEF WithBonds, deposits, earned
  <2> QED
    BY <2>4, <2>5
<1>2. CASE interest = 0
  BY <1>2 DEF WithBonds
<1> QED
  BY <1>1, <1>2

LEMMA CurrentDepositIndexGrows ==
    ASSUME NEW p, PoolSound(p), NEW now \in Nat, p.last_update <= now, CanAccrue(p, now)
    PROVE  /\ CurrentDepositIndex(p, now) \in Nat
           /\ p.deposit_index <= CurrentDepositIndex(p, now)
<1>1. CASE now = p.last_update
  BY <1>1 DEF CurrentDepositIndex, PoolSound
<1>2. CASE now # p.last_update
  <2> DEFINE epochs == now - p.last_update
             index == CalcLinearInterest(p.deposit_index, p.deposit_interest_rate, epochs)
             interest == MatureInterest(p, now)
  <2>1. /\ epochs \in Nat /\ p.deposit_index \in Nat /\ p.deposit_interest_rate \in Nat
        /\ p.share_supply \in Nat /\ now > p.last_update
    BY <1>2 DEF PoolSound
  <2>2. index \in Nat /\ p.deposit_index <= index
    <3> HIDE DEF epochs
    <3> QED
      BY <2>1, LinearInterestGrows
  <2>3. interest \in Nat
    BY MatureInterestNat DEF PoolSound
  <2>4. ASSUME interest > 0 PROVE DMul(p.share_supply, index) # 0
    <3>1. DMul(p.share_supply, p.deposit_index) # 0
      BY <2>1, <2>4 DEF CanAccrue
    <3> HIDE DEF index
    <3>2. DMul(p.share_supply, p.deposit_index) <= DMul(p.share_supply, index)
      BY <2>1, <2>2, DMulMonotone
    <3>3. DMul(p.share_supply, p.deposit_index) \in Nat
      BY <2>1, DMulNat
    <3> QED
      BY <3>1, <3>2, <3>3
  <2>5. CurrentDepositIndex(p, now) = WithBonds(p, index, interest)
    BY <1>2 DEF CurrentDepositIndex
  <2> HIDE DEF index, interest
  <2>6. WithBonds(p, index, interest) \in Nat /\ index <= WithBonds(p, index, interest)
    BY <2>2, <2>3, <2>4, WithBondsNat
  <2> QED
    BY <2>1, <2>2, <2>5, <2>6
<1> QED
  BY <1>1, <1>2

LEMMA CurrentLoanIndexGrows ==
    ASSUME NEW p, PoolSound(p), NEW now \in Nat, p.last_update <= now
    PROVE  /\ CurrentLoanIndex(p, now) \in Nat
           /\ p.loan_index <= CurrentLoanIndex(p, now)
<1>1. CASE now = p.last_update
  BY <1>1 DEF CurrentLoanIndex, PoolSound
<1>2. CASE now # p.last_update
  <2> DEFINE epochs == now - p.last_update
  <2>1. epochs \in Nat /\ p.loan_index \in Nat /\ p.variable_loan_interest_rate \in Nat
    BY DEF PoolSound
  <2>2. CurrentLoanIndex(p, now)
          = CalcCompoundInterest(p.loan_index, p.variable_loan_interest_rate, epochs)
    BY <1>2 DEF CurrentLoanIndex
  <2> DEFINE index == CalcCompoundInterest(p.loan_index, p.variable_loan_interest_rate, epochs)
  <2>3. index \in Nat /\ p.loan_index <= index
    <3> HIDE DEF epochs
    <3> QED
      BY <2>1, CompoundInterestGrows
  <2> QED
    BY <2>2, <2>3
<1> QED
  BY <1>1, <1>2

\* Sharing out earnings raises the deposit index.
LEMMA ShareOutSound ==
    ASSUME NEW p, PoolSound(p), NEW earned \in Nat,
           DMul(p.share_supply, p.deposit_index) # 0
    PROVE  LET q == ShareOut(p, earned)
           IN  /\ PoolSound(q)
               /\ Keeps(p, q, {"insurance_balance", "deposit_index"})
               /\ p.deposit_index <= q.deposit_index
               /\ q.deposit_index
                    = p.deposit_index + DDiv(earned - DMul(earned, p.insurance_ratio),
                                             DMul(p.share_supply, p.deposit_index))
<1> DEFINE insurance == DMul(earned, p.insurance_ratio)
           deposits == DMul(p.share_supply, p.deposit_index)
           q == ShareOut(p, earned)
<1>1. p.insurance_ratio \in Nat /\ p.insurance_ratio <= ONE /\ ONE \in Nat
  BY DecimalAssumption DEF PoolSound
<1>2. insurance \in Nat /\ insurance <= earned
  <2>1. insurance \in Nat
    BY <1>1, DMulNat
  <2>2. insurance <= DMul(earned, ONE)
    BY <1>1, DMulMonotone
  <2>3. DMul(earned, ONE) = earned
    BY DMulOne
  <2> QED
    BY <2>1, <2>2, <2>3
<1>3. deposits \in Nat \ {0}
  BY DMulNat DEF PoolSound
<1>4. DDiv(earned - insurance, deposits) \in Nat
  <2>1. earned - insurance \in Nat
    BY <1>2
  <2> HIDE DEF insurance, deposits
  <2> QED
    BY <1>3, <2>1, DDivNat
<1>5. q = [p EXCEPT !.insurance_balance = @ + insurance,
                    !.deposit_index = @ + DDiv(earned - insurance, deposits)]
  BY DEF ShareOut
<1> HIDE DEF insurance, deposits, q
<1>6. /\ Keeps(p, q, {"insurance_balance", "deposit_index"})
      /\ q.insurance_balance = p.insurance_balance + insurance
      /\ q.deposit_index = p.deposit_index + DDiv(earned - insurance, deposits)
  BY <1>5, PoolFieldNames DEF IsPool, Keeps, PoolSound
<1>7. p.deposit_index <= q.deposit_index /\ q.deposit_index \in Nat
  BY <1>4, <1>6 DEF PoolSound
<1>8. PoolSound(q)
  BY <1>1, <1>2, <1>6, <1>7, BondsSoundSame, PoolFieldNames DEF PoolSound, Keeps
<1> QED
  BY <1>6, <1>7, <1>8 DEF q, insurance, deposits

(* Claiming and accruing *)

BookFields == {"bond_epochs", "bonds", "claim_nfts", "bond_amount", "vault"}

\* Claiming a bond takes no more off bond_amount than it cost.
LEMMA BondReleaseBounds ==
    ASSUME NEW p, BondsSound(p), NEW e \in DOMAIN p.bonds
    PROVE  /\ BondRelease(p.bonds[e]) \in Int
           /\ BondRelease(p.bonds[e]) + p.bonds[e].interest <= SumClaimAmount(p.bonds[e].nfts)
<1> DEFINE nfts == p.bonds[e].nfts
           part == [n \in nfts |-> {n.validator}]
<1>1. IsFiniteSet(nfts) /\ p.bonds[e].interest \in Nat /\ SumClaimAmount(nfts) \in Nat
  BY SumClaimAmountNat DEF BondsSound
<1>2. {n.validator : n \in nfts} = UNION {part[n] : n \in nfts}
  OBVIOUS
<1>3. \A n \in nfts : IsFiniteSet(part[n])
  BY FS_Singleton
<1>4. IsFiniteSet({n.validator : n \in nfts})
  <2>1. IsFiniteSet(UNION {part[n] : n \in nfts})
    <3> HIDE DEF nfts, part
    <3> QED
      BY ONLY <1>1, <1>3, UnionFinite
  <2> QED
    BY <1>2, <2>1
<1> DEFINE buckets == Cardinality({n.validator : n \in nfts})
           interest == p.bonds[e].interest
<1>5. buckets \in Nat
  BY <1>4, FS_CardinalityType
<1>6. interest # 0 => buckets # 0
  <2>1. nfts # {} => {n.validator : n \in nfts} # {}
    OBVIOUS
  <2>2. interest # 0 => nfts # {}
    BY DEF BondsSound
  <2> QED
    BY <1>4, <2>1, <2>2, FS_EmptySet
<1> HIDE DEF buckets
<1>7. buckets * interest \in Nat /\ interest <= buckets * interest
  <2> HIDE DEF interest
  <2>1. interest \in Nat
    BY <1>1 DEF interest
  <2>2. CASE interest = 0
    BY <1>5, <2>2
  <2>3. CASE buckets >= 1
    BY <1>5, <2>1, <2>3
  <2> QED
    BY <1>5, <1>6, <2>2, <2>3
<1>8. BondRelease(p.bonds[e]) = SumClaimAmount(nfts) - buckets * interest
  BY DEF BondRelease, buckets
<1> QED
  BY <1>1, <1>7, <1>8

LEMMA CollectedBondsSound ==
    ASSUME NEW p, BondsSound(p), IsPool(p), NEW now
    PROVE  BondsSound(Collected(p, now))
<1> DEFINE q == Collected(p, now)
           due == MatureEpochs(p, now)
<1>1. /\ q.bond_epochs = p.bond_epochs \ due
      /\ q.bonds = [e \in DOMAIN p.bonds |-> IF e \in due THEN ClearedBond ELSE p.bonds[e]]
  BY PoolFieldNames DEF IsPool, Collected
<1> HIDE DEF q, due
<1>0. IsFiniteSet(q.bond_epochs) /\ q.bond_epochs \subseteq DOMAIN q.bonds
  BY <1>1, FS_Subset DEF BondsSound
<1>2. /\ ClearedBond = [interest |-> ClearedBond.interest, nfts |-> ClearedBond.nfts]
      /\ ClearedBond.interest = 0 /\ ClearedBond.nfts = {} /\ IsFiniteSet({})
  BY FS_EmptySet DEF ClearedBond
<1>4. ASSUME NEW e \in DOMAIN q.bonds
      PROVE  /\ q.bonds[e] = [interest |-> q.bonds[e].interest, nfts |-> q.bonds[e].nfts]
             /\ q.bonds[e].interest \in Nat
             /\ IsFiniteSet(q.bonds[e].nfts)
             /\ \A n \in q.bonds[e].nfts : n.claim_amount \in Nat
             /\ q.bonds[e].interest # 0 => q.bonds[e].nfts # {}
  <2>1. e \in DOMAIN p.bonds /\ q.bonds[e] = IF e \in due THEN ClearedBond ELSE p.bonds[e]
    BY <1>1
  <2>2. CASE e \in due
    BY <1>2, <2>1, <2>2
  <2>3. CASE e \notin due
    BY <2>1, <2>3 DEF BondsSound
  <2> QED
    BY <2>2, <2>3
<1> QED
  BY <1>0, <1>4 DEF BondsSound, q

LEMMA CollectedSound ==
    ASSUME NEW p, PoolSound(p), NEW now \in Nat
    PROVE  LET q == Collected(p, now)
           IN  /\ PoolSound(q)
               /\ Keeps(p, q, BookFields)
               /\ q.vault = p.vault + SumClaimAmount(MatureNfts(p, now))
               /\ MatureInterest(q, now) = 0
<1> DEFINE q == Collected(p, now)
           due == MatureEpochs(p, now)
           release == [e \in DOMAIN p.bonds |-> BondRelease(p.bonds[e])]
           claimed == SumClaimAmount(MatureNfts(p, now))
           released == SumFunctionOnSet(release, due)
<1>1. claimed \in Nat
  BY MatureNftsFinite DEF PoolSound
<1>2. IsFiniteSet(due) /\ due \subseteq DOMAIN p.bonds
  BY FS_Subset DEF MatureEpochs, BondsSound, PoolSound
<1>3. released \in Int
  <2>1. \A e \in due : release[e] \in Int
    BY <1>2, BondReleaseBounds DEF PoolSound
  <2> HIDE DEF due, release
  <2> QED
    BY <1>2, <2>1, SumInt
<1>4. q = [p EXCEPT
             !.bond_epochs = @ \ due,
             !.bonds = [e \in DOMAIN p.bonds |-> IF e \in due THEN ClearedBond ELSE p.bonds[e]],
             !.claim_nfts = @ \ MatureNfts(p, now),
             !.bond_amount = @ - released,
             !.vault = @ + claimed]
  BY DEF Collected
<1> HIDE DEF q, due, claimed, released
<1>5. /\ Keeps(p, q, BookFields)
      /\ q.bond_epochs = p.bond_epochs \ due
      /\ q.bonds = [e \in DOMAIN p.bonds |-> IF e \in due THEN ClearedBond ELSE p.bonds[e]]
      /\ q.bond_amount = p.bond_amount - released
      /\ q.vault = p.vault + claimed
  BY <1>4, PoolFieldNames DEF IsPool, Keeps, PoolSound, BookFields
<1>6. BondsSound(q)
  BY CollectedBondsSound DEF PoolSound, q
<1>7. PoolSound(q)
  <2>1. q.vault \in Nat /\ q.bond_amount \in Int
    BY <1>1, <1>3, <1>5 DEF PoolSound
  <2> QED
    BY <1>5, <1>6, <2>1, PoolFieldNames DEF PoolSound, Keeps, BookFields
<1>8. MatureInterest(q, now) = 0
  <2>1. MatureEpochs(q, now) = {}
    BY <1>5 DEF MatureEpochs, due
  <2> QED
    BY <2>1, SumEmpty DEF MatureInterest
<1> QED
  BY <1>5, <1>7, <1>8 DEF q, claimed

\* The deposit index with the earnings of the bonds that are due.
ClaimedIndex(p, now) ==
    IF MatureInterest(p, now) > 0
    THEN p.deposit_index
           + DDiv(MatureInterest(p, now) - DMul(MatureInterest(p, now), p.insurance_ratio),
                  DMul(p.share_supply, p.deposit_index))
    ELSE p.deposit_index

LEMMA ClaimMaturedBondsSound ==
    ASSUME NEW p, PoolSound(p), NEW now \in Nat, p.last_update < now, CanAccrue(p, now)
    PROVE  LET q == ClaimMaturedBonds(p, now)
           IN  /\ PoolSound(q)
               /\ Keeps(p, q, BookFields \cup {"insurance_balance", "deposit_index"})
               /\ q.vault = p.vault + SumClaimAmount(MatureNfts(p, now))
               /\ q.deposit_index = ClaimedIndex(p, now)
               /\ p.deposit_index <= q.deposit_index
               /\ MatureInterest(q, now) = 0
               /\ q.bond_amount = Collected(p, now).bond_amount
<1> DEFINE q == ClaimMaturedBonds(p, now)
           c == Collected(p, now)
           earned == MatureInterest(p, now)
<1>1. /\ PoolSound(c)
      /\ Keeps(p, c, BookFields)
      /\ c.vault = p.vault + SumClaimAmount(MatureNfts(p, now))
      /\ MatureInterest(c, now) = 0
  BY CollectedSound
<1>2. earned \in Nat
  BY MatureInterestNat DEF PoolSound
<1>3. /\ c.share_supply = p.share_supply /\ c.deposit_index = p.deposit_index
      /\ c.insurance_ratio = p.insurance_ratio
  BY <1>1, PoolFieldNames DEF Keeps, BookFields
<1>4. CASE earned > 0
  <2>1. DMul(c.share_supply, c.deposit_index) # 0
    BY <1>3, <1>4 DEF CanAccrue, PoolSound
  <2>2. q = ShareOut(c, earned)
    BY <1>4 DEF ClaimMaturedBonds
  <2> HIDE DEF q, c, earned
  <2>3. /\ PoolSound(q)
        /\ Keeps(c, q, {"insurance_balance", "deposit_index"})
        /\ c.deposit_index <= q.deposit_index
        /\ q.deposit_index
             = c.deposit_index + DDiv(earned - DMul(earned, c.insurance_ratio),
                                      DMul(c.share_supply, c.deposit_index))
    BY <1>1, <1>2, <2>1, <2>2, ShareOutSound
  <2>4. q.deposit_index = ClaimedIndex(p, now)
    BY <1>3, <1>4, <2>3 DEF ClaimedIndex, earned
  <2>5. /\ Keeps(p, q, BookFields \cup {"insurance_balance", "deposit_index"})
        /\ q.vault = c.vault /\ q.bonds = c.bonds /\ q.bond_epochs = c.bond_epochs
        /\ q.bond_amount = c.bond_amount
    BY <1>1, <2>3, PoolFieldNames DEF Keeps, BookFields
  <2>6. MatureInterest(q, now) = MatureInterest(c, now)
    BY <2>5 DEF MatureInterest, MatureEpochs
  <2> QED
    BY <1>1, <1>3, <2>3, <2>4, <2>5, <2>6 DEF q, c
<1>5. CASE earned = 0
  <2>1. q = c
    BY <1>5 DEF ClaimMaturedBonds
  <2>2. ClaimedIndex(p, now) = p.deposit_index
    BY <1>5 DEF ClaimedIndex
  <2>3. p.deposit_index \in Int
    BY DEF PoolSound
  <2> HIDE DEF q, c, earned
  <2>4. Keeps(p, q, BookFields \cup {"insurance_balance", "deposit_index"})
    BY <1>1, <2>1 DEF Keeps
  <2> QED
    BY <1>1, <1>3, <2>1, <2>2, <2>3, <2>4 DEF q, c
<1> QED
  BY <1>2, <1>4, <1>5

AccruedFields == {"insurance_balance", "deposit_index", "loan_index", "last_update"}

LEMMA AccrueSound ==
    ASSUME NEW p, PoolSound(p), NEW now \in Nat, p.last_update <= now,
           NEW supply_index \in Nat, NEW borrow_index \in Nat,
           p.deposit_index <= supply_index, p.loan_index <= borrow_index
    PROVE  LET q == Accrue(p, now, supply_index, borrow_index)
           IN  /\ PoolSound(q)
               /\ Keeps(p, q, AccruedFields)
               /\ q.deposit_index = supply_index
               /\ q.loan_index = borrow_index
               /\ q.last_update = now
<1> DEFINE q == Accrue(p, now, supply_index, borrow_index)
           variable == DMul(p.variable_loan_share_quantity, borrow_index - p.loan_index)
           stable == CalcCompoundInterest(p.stable_loan_amount, p.stable_loan_interest_rate,
                                          now - p.last_update) - p.stable_loan_amount
           supply == DMul(p.share_supply, supply_index - p.deposit_index)
<1>1. variable \in Int /\ supply \in Int
  <2>1. borrow_index - p.loan_index \in Int /\ supply_index - p.deposit_index \in Int
    BY DEF PoolSound
  <2>2. p.variable_loan_share_quantity \in Int /\ p.share_supply \in Int
    BY DEF PoolSound
  <2> QED
    BY <2>1, <2>2, DMulInt
<1>2. stable \in Int
  <2> DEFINE epochs == now - p.last_update
  <2>1. epochs \in Nat /\ p.stable_loan_amount \in Nat /\ p.stable_loan_interest_rate \in Nat
    BY DEF PoolSound
  <2> HIDE DEF epochs
  <2>2. CalcCompoundInterest(p.stable_loan_amount, p.stable_loan_interest_rate, epochs) \in Nat
    BY <2>1, CompoundInterestGrows
  <2> QED
    BY <2>1, <2>2 DEF epochs
<1>3. q = [p EXCEPT !.insurance_balance = @ + variable + stable - supply,
                    !.deposit_index = supply_index,
                    !.loan_index = borrow_index,
                    !.last_update = now]
  BY DEF Accrue
<1> HIDE DEF q, variable, stable, supply
<1>4. /\ Keeps(p, q, AccruedFields)
      /\ q.insurance_balance = p.insurance_balance + variable + stable - supply
      /\ q.deposit_index = supply_index
      /\ q.loan_index = borrow_index
      /\ q.last_update = now
  BY <1>3, PoolFieldNames DEF IsPool, Keeps, PoolSound, AccruedFields
<1>5. /\ q.insurance_balance \in Int
      /\ q.deposit_index >= ONE /\ q.loan_index >= ONE
  BY <1>1, <1>2, <1>4, DecimalAssumption DEF PoolSound
<1>6. PoolSound(q)
  BY <1>4, <1>5, BondsSoundSame, PoolFieldNames DEF PoolSound, Keeps, AccruedFields
<1> QED
  BY <1>4, <1>6 DEF q

\* update_index: what it makes of a pool.
LEMMA UpdateIndexSound ==
    ASSUME NEW p, PoolSound(p), NEW now \in Nat, p.last_update <= now, CanAccrue(p, now)
    PROVE  LET u == UpdateIndex(p, now)
           IN  /\ PoolSound(u)
               /\ Keeps(p, u, BookFields \cup AccruedFields)
               /\ u.last_update = now
               /\ p.vault <= u.vault
               /\ p.deposit_index <= u.deposit_index
               /\ u.loan_index = CurrentLoanIndex(p, now)
               /\ u.deposit_index
                    = IF now = p.last_update THEN p.deposit_index
                      ELSE CalcLinearInterest(ClaimedIndex(p, now), p.deposit_interest_rate,
                                              now - p.last_update)
               /\ u.bond_amount = IF now = p.last_update THEN p.bond_amount
                                  ELSE Collected(p, now).bond_amount
<1> DEFINE u == UpdateIndex(p, now)
<1>1. CASE now = p.last_update
  <2>1. u = p
    BY <1>1 DEF UpdateIndex
  <2>2. CurrentLoanIndex(p, now) = p.loan_index
    BY <1>1 DEF CurrentLoanIndex
  <2>3. p.vault \in Int /\ p.deposit_index \in Int /\ IsPool(p)
    BY DEF PoolSound
  <2> QED
    BY <1>1, <2>1, <2>2, <2>3 DEF Keeps
<1>2. CASE now # p.last_update
  <2> DEFINE c == ClaimMaturedBonds(p, now)
             earned == SumClaimAmount(MatureNfts(p, now))
             supply_index == CurrentDepositIndex(c, now)
             borrow_index == CurrentLoanIndex(c, now)
  <2>1. p.last_update < now
    BY <1>2 DEF PoolSound
  <2>2. /\ PoolSound(c)
        /\ Keeps(p, c, BookFields \cup {"insurance_balance", "deposit_index"})
        /\ c.vault = p.vault + earned
        /\ c.deposit_index = ClaimedIndex(p, now)
        /\ p.deposit_index <= c.deposit_index
        /\ MatureInterest(c, now) = 0
        /\ c.bond_amount = Collected(p, now).bond_amount
    BY <2>1, ClaimMaturedBondsSound
  <2>3. earned \in Nat
    BY MatureNftsFinite DEF PoolSound
  <2>4. u = Accrue(c, now, supply_index, borrow_index)
    BY <1>2 DEF UpdateIndex
  <2> HIDE DEF c, earned, u
  <2>5. /\ c.last_update = p.last_update
        /\ c.deposit_interest_rate = p.deposit_interest_rate
        /\ c.loan_index = p.loan_index
        /\ c.variable_loan_interest_rate = p.variable_loan_interest_rate
    BY <2>2, PoolFieldNames DEF Keeps, BookFields
  <2>6. CanAccrue(c, now)
    BY <2>2 DEF CanAccrue
  <2>7. /\ supply_index \in Nat /\ c.deposit_index <= supply_index
        /\ borrow_index \in Nat /\ c.loan_index <= borrow_index
    BY <2>1, <2>2, <2>5, <2>6, CurrentDepositIndexGrows, CurrentLoanIndexGrows
  <2>8. /\ supply_index = CalcLinearInterest(ClaimedIndex(p, now), p.deposit_interest_rate,
                                             now - p.last_update)
        /\ borrow_index = CurrentLoanIndex(p, now)
    BY <1>2, <2>2, <2>5 DEF CurrentDepositIndex, CurrentLoanIndex, WithBonds
  <2> HIDE DEF supply_index, borrow_index
  <2>9. /\ PoolSound(u)
        /\ Keeps(c, u, AccruedFields)
        /\ u.deposit_index = supply_index
        /\ u.loan_index = borrow_index
        /\ u.last_update = now
    BY <2>1, <2>2, <2>4, <2>5, <2>7, AccrueSound
  <2>10. u.vault = c.vault /\ u.bond_amount = c.bond_amount
    BY <2>9, PoolFieldNames DEF Keeps, AccruedFields
  <2>11. Keeps(p, u, BookFields \cup AccruedFields)
    BY <2>2, <2>9 DEF Keeps, AccruedFields
  <2>12. p.vault <= u.vault /\ p.deposit_index <= u.deposit_index
    BY <2>2, <2>3, <2>7, <2>9, <2>10 DEF PoolSound
  <2> QED
    BY <1>2, <2>2, <2>8, <2>9, <2>10, <2>11, <2>12 DEF u
<1> QED
  BY <1>1, <1>2

\* An update of the indices collects bonds and adds none.
LEMMA UpdateIndexBonds ==
    ASSUME NEW p, PoolSound(p), NEW now \in Nat, p.last_update <= now, CanAccrue(p, now)
    PROVE  UpdateIndex(p, now).bond_epochs \subseteq p.bond_epochs
<1> DEFINE d == Collected(p, now)
           c == ClaimMaturedBonds(p, now)
           supply_index == CurrentDepositIndex(c, now)
           borrow_index == CurrentLoanIndex(c, now)
<1>1. IsPool(p) /\ "bond_epochs" \in PoolFields
  BY PoolFieldNames DEF PoolSound
<1>2. d.bond_epochs \subseteq p.bond_epochs
  BY <1>1, PoolFieldNames DEF Collected, IsPool
<1>3. IsPool(d)
  BY CollectedSound DEF PoolSound
<1> HIDE DEF d
<1>4. c = d \/ c = ShareOut(d, MatureInterest(p, now))
  BY DEF ClaimMaturedBonds, d
<1>5. IsPool(c) /\ c.bond_epochs = d.bond_epochs
  BY <1>1, <1>3, <1>4, PoolFieldNames DEF ShareOut, IsPool
<1> HIDE DEF c
<1>6. Accrue(c, now, supply_index, borrow_index).bond_epochs = c.bond_epochs
  BY <1>1, <1>5, PoolFieldNames DEF Accrue, IsPool
<1> QED
  BY <1>2, <1>5, <1>6 DEF UpdateIndex, c

\* An index the pool just updated is the one it quotes.
LEMMA IndexAtUpdate ==
    ASSUME NEW p, NEW now, p.last_update = now
    PROVE  CurrentDepositIndex(p, now) = p.deposit_index /\ CurrentLoanIndex(p, now) = p.loan_index
BY DEF CurrentDepositIndex, CurrentLoanIndex

(* Rates *)

LEMMA WithSupplyRateNat ==
    ASSUME NEW p, PoolSound(p), NEW rate \in [variable : Nat, stable : Nat],
           NEW supply \in Nat, NEW variable \in Nat, NEW stable \in Nat
    PROVE  WithSupplyRate(p, rate, supply, variable, stable)
             \in [variable : Nat, stable : Nat, supply : Nat]
<1> DEFINE debt == variable + stable
           yearly == DMul(variable, rate.variable) + DMul(stable, rate.stable)
           overall == IF debt = 0 THEN 0 ELSE DDiv(yearly, debt)
           interest == DMul(DMul(debt, overall), ONE - p.insurance_ratio)
<1>1. debt \in Nat /\ ONE - p.insurance_ratio \in Nat
  BY DecimalAssumption DEF PoolSound
<1>2. yearly \in Nat
  <2>1. DMul(variable, rate.variable) \in Nat /\ DMul(stable, rate.stable) \in Nat
    BY DMulNat
  <2> QED
    BY <2>1
<1>3. overall \in Nat
  <2> HIDE DEF debt, yearly
  <2> QED
    BY <1>1, <1>2, DDivNat
<1>4. interest \in Nat
  <2> HIDE DEF debt, overall
  <2>1. DMul(debt, overall) \in Nat
    BY <1>1, <1>3, DMulNat
  <2> QED
    BY <1>1, <2>1, DMulNat
<1>5. (IF supply = 0 THEN 0 ELSE DDiv(interest, supply)) \in Nat
  <2> HIDE DEF interest
  <2> QED
    BY <1>4, DDivNat
<1> QED
  BY <1>5 DEF WithSupplyRate

LEMMA RatesForNat ==
    ASSUME NEW p, PoolSound(p), NEW supply \in Nat, NEW variable \in Nat, NEW stable \in Nat
    PROVE  RatesFor(p, supply, variable, stable)
             \in [variable : Nat, stable : Nat, supply : Nat]
<1> DEFINE ratio == IF supply = 0 THEN 0 ELSE DDiv(variable + stable, supply)
           rate == GetInterestRate(InterestParams, ratio, p.interest_model, ActiveSetApy)
<1>1. ratio \in Nat
  <2>1. variable + stable \in Nat
    OBVIOUS
  <2> QED
    BY <2>1, DDivNat
<1> HIDE DEF ratio
<1>2. rate \in [variable : Nat, stable : Nat]
  BY <1>1, InterestRateNat
<1>3. RatesFor(p, supply, variable, stable) = WithSupplyRate(p, rate, supply, variable, stable)
  BY DEF RatesFor, ratio
<1> HIDE DEF rate
<1> QED
  BY <1>2, <1>3, WithSupplyRateNat

LEMMA PoolInterestRateNat ==
    ASSUME NEW p, PoolSound(p), NEW now \in Nat, p.last_update <= now, CanAccrue(p, now),
           NEW stable_borrow \in Nat
    PROVE  PoolInterestRate(p, now, stable_borrow)
             \in [variable : Nat, stable : Nat, supply : Nat]
<1> DEFINE supply == GetRedemptionValue(p, now, p.share_supply)
           variable == GetVariableInterest(p, now, p.variable_loan_share_quantity)
           stable == GetStableLoanValue(p, now) + stable_borrow
<1>1. supply \in Nat
  <2>1. CurrentDepositIndex(p, now) \in Nat /\ p.share_supply \in Nat
    BY CurrentDepositIndexGrows DEF PoolSound
  <2> QED
    BY <2>1, DMulNat DEF GetRedemptionValue
<1>2. variable \in Nat
  <2>1. CurrentLoanIndex(p, now) \in Nat /\ p.variable_loan_share_quantity \in Nat
    BY CurrentLoanIndexGrows DEF PoolSound
  <2> QED
    BY <2>1, DMulNat DEF GetVariableInterest
<1>3. stable \in Nat
  <2>1. /\ p.stable_loan_amount \in Nat /\ p.stable_loan_interest_rate \in Nat
        /\ now - p.stable_loan_last_update = now
    BY DEF PoolSound
  <2>2. CalcCompoundInterest(p.stable_loan_amount, p.stable_loan_interest_rate, now) \in Nat
    BY <2>1, CompoundInterestGrows
  <2> QED
    BY <2>1, <2>2 DEF GetStableLoanValue
<1>4. PoolInterestRate(p, now, stable_borrow) = RatesFor(p, supply, variable, stable)
  BY DEF PoolInterestRate
<1> HIDE DEF supply, variable, stable
<1> QED
  BY <1>1, <1>2, <1>3, <1>4, RatesForNat

\* Every call ends with the rates of the pool as it leaves it.
LEMMA AccruedRatesSound ==
    ASSUME NEW p, PoolSound(p), NEW now \in Nat, p.last_update <= now, CanAccrue(p, now)
    PROVE  LET q == UpdateInterestRate(p, now)
           IN  PoolSound(q) /\ Keeps(p, q, RateFields)
<1> DEFINE rate == PoolInterestRate(p, now, 0)
           q == UpdateInterestRate(p, now)
<1>1. rate \in [variable : Nat, stable : Nat, supply : Nat]
  BY PoolInterestRateNat
<1>2. q = [p EXCEPT !.deposit_interest_rate = rate.supply,
                    !.variable_loan_interest_rate = rate.variable]
  BY DEF UpdateInterestRate, WithRates
<1> HIDE DEF rate, q
<1>3. /\ Keeps(p, q, RateFields)
      /\ q.deposit_interest_rate = rate.supply
      /\ q.variable_loan_interest_rate = rate.variable
  BY <1>2, PoolFieldNames DEF IsPool, Keeps, PoolSound, RateFields
<1>4. PoolSound(q)
  BY <1>1, <1>3, BondsSoundSame, PoolFieldNames DEF PoolSound, Keeps, RateFields
<1> QED
  BY <1>3, <1>4 DEF q

LEMMA RatesSound ==
    ASSUME NEW p, PoolSound(p), NEW now \in Nat, p.last_update = now
    PROVE  LET q == UpdateInterestRate(p, now)
           IN  PoolSound(q) /\ Keeps(p, q, RateFields)
<1>1. CanAccrue(p, now) /\ p.last_update <= now
  BY DEF CanAccrue
<1> QED
  BY <1>1, AccruedRatesSound

(* The methods, of a pool u that update_index left at the epoch of the call *)

MovedFields(fields) == RateFields \cup fields

LEMMA MintAmountBounds ==
    ASSUME NEW u, PoolSound(u), NEW amount \in Nat
    PROVE  /\ MintAmount(u, amount) \in Nat
           /\ MintAmount(u, amount) * u.deposit_index <= amount * ONE
<1> DEFINE d == u.deposit_index
           exact == DDiv(amount, d)
           minted == MintAmount(u, amount)
<1>1. d \in Nat \ {0} /\ ONE \in Nat \ {0} /\ u.share_unit \in Nat \ {0}
  BY DecimalAssumption DEF PoolSound
<1>2. exact \in Nat /\ d * exact <= amount * ONE
  BY <1>1, DDivNat
<1>3. minted \in Nat /\ minted <= exact
  <2> DEFINE unit == u.share_unit
  <2> HIDE DEF exact
  <2>1. FloorTo(exact, unit) \in Nat /\ FloorTo(exact, unit) <= exact
    <3>1. exact \in Int /\ exact >= 0 /\ unit \in Nat \ {0}
      BY <1>1, <1>2
    <3> HIDE DEF unit
    <3> QED
      BY <3>1, FloorToBounds
  <2> QED
    BY <2>1 DEF MintAmount, exact
<1>4. minted * d <= d * exact
  <2> HIDE DEF minted, exact, d
  <2> QED
    BY <1>1, <1>2, <1>3
<1> QED
  <2> HIDE DEF minted, exact, d
  <2>1. minted * d \in Int /\ d * exact \in Int /\ amount * ONE \in Int
    BY <1>1, <1>2, <1>3
  <2>2. minted * d <= amount * ONE
    BY <1>2, <1>4, <2>1
  <2> QED
    BY <1>3, <2>2 DEF minted, d

LEMMA SupplySound ==
    ASSUME NEW u, PoolSound(u), NEW now \in Nat, u.last_update = now, NEW amount \in Nat
    PROVE  LET minted == MintAmount(u, amount)
               q == UpdateInterestRate(Supplied(u, amount, minted), now)
           IN  /\ PoolSound(q)
               /\ Keeps(u, q, MovedFields({"vault", "share_supply"}))
               /\ q.vault = u.vault + amount
               /\ q.share_supply = u.share_supply + minted
<1> DEFINE minted == MintAmount(u, amount)
           v == Supplied(u, amount, minted)
           q == UpdateInterestRate(v, now)
<1>1. minted \in Nat
  BY MintAmountBounds
<1>2. v = [u EXCEPT !.vault = @ + amount, !.share_supply = @ + minted]
  BY DEF Supplied
<1> HIDE DEF minted, v
<1>3. /\ Keeps(u, v, {"vault", "share_supply"})
      /\ v.vault = u.vault + amount
      /\ v.share_supply = u.share_supply + minted
  BY <1>2, PoolFieldNames DEF IsPool, Keeps, PoolSound
<1>4. PoolSound(v)
  BY <1>1, <1>3, BondsSoundSame, PoolFieldNames DEF PoolSound, Keeps
<1>5. v.last_update = now
  BY <1>3, PoolFieldNames DEF Keeps
<1> HIDE DEF q
<1>6. PoolSound(q) /\ Keeps(v, q, RateFields)
  BY <1>4, <1>5, RatesSound DEF q
<1> QED
  BY <1>3, <1>6, PoolFieldNames DEF Keeps, MovedFields, RateFields, q, v, minted

LEMMA WithdrawAmountBounds ==
    ASSUME NEW u, PoolSound(u), NEW now \in Nat, u.last_update = now, NEW shares \in Nat
    PROVE  /\ WithdrawAmount(u, now, shares) \in Nat
           /\ ONE * WithdrawAmount(u, now, shares) <= shares * u.deposit_index
<1> DEFINE d == u.deposit_index
           exact == DMul(shares, d)
           paid == WithdrawAmount(u, now, shares)
<1>1. d \in Nat /\ ONE \in Nat /\ u.underlying_unit \in Nat \ {0}
  BY DecimalAssumption DEF PoolSound
<1>2. exact \in Nat /\ ONE * exact <= shares * d
  BY <1>1, DMulNat
<1>3. GetRedemptionValue(u, now, shares) = exact
  BY IndexAtUpdate DEF GetRedemptionValue
<1>4. paid \in Nat /\ paid <= exact
  <2> DEFINE unit == u.underlying_unit
  <2> HIDE DEF exact
  <2>1. FloorTo(exact, unit) \in Nat /\ FloorTo(exact, unit) <= exact
    <3>1. exact \in Int /\ exact >= 0 /\ unit \in Nat \ {0}
      BY <1>1, <1>2
    <3> HIDE DEF unit
    <3> QED
      BY <3>1, FloorToBounds
  <2> QED
    BY <1>3, <2>1 DEF WithdrawAmount
<1> QED
  <2> HIDE DEF paid, exact, d
  <2>1. ONE * paid \in Int /\ ONE * exact \in Int /\ shares * d \in Int
    BY <1>1, <1>2, <1>4
  <2>2. ONE * paid <= ONE * exact
    BY <1>1, <1>2, <1>4
  <2>3. ONE * paid <= shares * d
    BY <1>2, <2>1, <2>2
  <2> QED
    BY <1>4, <2>3 DEF paid, d

LEMMA WithdrawSound ==
    ASSUME NEW u, PoolSound(u), NEW now \in Nat, u.last_update = now,
           NEW shares \in Nat, shares <= u.share_supply,
           u.vault >= WithdrawAmount(u, now, shares)
    PROVE  LET q == Withdrawn(u, now, shares)
           IN  /\ PoolSound(q)
               /\ Keeps(u, q, MovedFields({"vault", "share_supply"}))
               /\ q.vault = u.vault - WithdrawAmount(u, now, shares)
               /\ q.share_supply = u.share_supply - shares
<1> DEFINE paid == WithdrawAmount(u, now, shares)
           v == [u EXCEPT !.share_supply = @ - shares]
           w == UpdateInterestRate(v, now)
           q == Withdrawn(u, now, shares)
<1>1. paid \in Nat
  BY WithdrawAmountBounds
<1>2. Keeps(u, v, {"share_supply"}) /\ v.share_supply = u.share_supply - shares
  BY PoolFieldNames DEF IsPool, Keeps, PoolSound
<1> HIDE DEF v
<1>3. PoolSound(v)
  BY <1>2, BondsSoundSame, PoolFieldNames DEF PoolSound, Keeps
<1>4. v.last_update = now
  BY <1>2, PoolFieldNames DEF Keeps
<1> HIDE DEF w
<1>5. PoolSound(w) /\ Keeps(v, w, RateFields)
  BY <1>3, <1>4, RatesSound DEF w
<1>6. q = [w EXCEPT !.vault = @ - paid]
  BY DEF Withdrawn, v, w
<1> HIDE DEF q, paid
<1>7. Keeps(w, q, {"vault"}) /\ q.vault = w.vault - paid
  BY <1>5, <1>6, PoolFieldNames DEF IsPool, Keeps
<1>8. w.vault = u.vault /\ w.share_supply = u.share_supply - shares
  BY <1>2, <1>5, PoolFieldNames DEF Keeps, RateFields
<1>9. PoolSound(q)
  <2>1. q.vault \in Nat
    BY <1>1, <1>5, <1>7, <1>8 DEF PoolSound, paid
  <2> QED
    BY <1>5, <1>7, <2>1, BondsSoundSame, PoolFieldNames DEF PoolSound, Keeps
<1>10. Keeps(u, q, MovedFields({"vault", "share_supply"}))
  BY <1>2, <1>5, <1>7, PoolFieldNames DEF Keeps, MovedFields, RateFields
<1>11. q.share_supply = w.share_supply
  BY <1>7, PoolFieldNames DEF Keeps
<1> QED
  BY <1>7, <1>8, <1>9, <1>10, <1>11 DEF q, paid

LEMMA VariableShareNat ==
    ASSUME NEW u, PoolSound(u), NEW amount \in Nat
    PROVE  VariableShare(u, amount) \in Nat
<1> DEFINE exact == DDiv(amount, u.loan_index)
<1>1. u.loan_index \in Nat \ {0} /\ u.share_unit \in Nat \ {0}
  BY DecimalAssumption DEF PoolSound
<1>2. exact \in Nat
  BY <1>1, DDivNat
<1> DEFINE unit == u.share_unit
<1> HIDE DEF exact
<1>3. CeilTo(exact, unit) \in Int /\ exact <= CeilTo(exact, unit)
  <2>1. exact \in Int /\ unit \in Nat \ {0}
    BY <1>1, <1>2
  <2> HIDE DEF unit
  <2> QED
    BY <2>1, CeilToBounds
<1> QED
  BY <1>2, <1>3 DEF VariableShare, exact

LEMMA LentVariableSound ==
    ASSUME NEW u, PoolSound(u), NEW now \in Nat, u.last_update = now,
           NEW amount \in Nat, amount <= u.vault
    PROVE  LET q == LentVariable(u, now, amount)
           IN  /\ PoolSound(q)
               /\ Keeps(u, q, MovedFields({"vault", "variable_loan_share_quantity"}))
               /\ q.vault = u.vault - FloorTo(amount, u.underlying_unit)
               /\ q.variable_loan_share_quantity
                    = u.variable_loan_share_quantity + VariableShare(u, amount)
<1> DEFINE share == VariableShare(u, amount)
           lent == FloorTo(amount, u.underlying_unit)
           v == [u EXCEPT !.variable_loan_share_quantity = @ + share]
           w == UpdateInterestRate(v, now)
           q == LentVariable(u, now, amount)
<1>1. share \in Nat /\ lent \in Int /\ lent <= amount
  <2> DEFINE unit == u.underlying_unit
  <2>1. share \in Nat /\ unit \in Nat \ {0} /\ amount \in Int
    BY VariableShareNat DEF PoolSound
  <2> HIDE DEF unit
  <2>2. FloorTo(amount, unit) \in Int /\ FloorTo(amount, unit) <= amount
    BY <2>1, FloorToBounds
  <2> QED
    BY <2>1, <2>2 DEF unit
<1> HIDE DEF share, lent
<1>2. /\ Keeps(u, v, {"variable_loan_share_quantity"})
      /\ v.variable_loan_share_quantity = u.variable_loan_share_quantity + share
  BY PoolFieldNames DEF IsPool, Keeps, PoolSound
<1> HIDE DEF v
<1>3. PoolSound(v)
  BY <1>1, <1>2, BondsSoundSame, PoolFieldNames DEF PoolSound, Keeps
<1>4. v.last_update = now
  BY <1>2, PoolFieldNames DEF Keeps
<1> HIDE DEF w
<1>5. PoolSound(w) /\ Keeps(v, w, RateFields)
  BY <1>3, <1>4, RatesSound DEF w
<1>6. q = [w EXCEPT !.vault = @ - lent]
  BY DEF LentVariable, v, w, share, lent
<1> HIDE DEF q
<1>7. Keeps(w, q, {"vault"}) /\ q.vault = w.vault - lent
  BY <1>5, <1>6, PoolFieldNames DEF IsPool, Keeps
<1>8. /\ w.vault = u.vault
      /\ q.variable_loan_share_quantity = u.variable_loan_share_quantity + share
  BY <1>2, <1>5, <1>7, PoolFieldNames DEF Keeps, RateFields
<1>9. PoolSound(q)
  <2>1. q.vault \in Nat
    BY <1>1, <1>7, <1>8 DEF PoolSound
  <2> QED
    BY <1>5, <1>7, <2>1, BondsSoundSame, PoolFieldNames DEF PoolSound, Keeps
<1>10. Keeps(u, q, MovedFields({"vault", "variable_loan_share_quantity"}))
  BY <1>2, <1>5, <1>7, PoolFieldNames DEF Keeps, MovedFields, RateFields
<1> QED
  BY <1>7, <1>8, <1>9, <1>10 DEF q, lent, share

LEMMA MultiplesApart ==
    ASSUME NEW k \in Nat \ {0}, NEW a \in Nat, NEW b \in Nat,
           a % k = 0, b % k = 0, a < b
    PROVE  a + k <= b
<1> DEFINE x == a \div k
           y == b \div k
<1>1. x \in Int /\ a = k * x
  OBVIOUS
<1>2. y \in Int /\ b = k * y
  OBVIOUS
<1> HIDE DEF x, y
<1>3. ASSUME y <= x PROVE FALSE
  <2>1. k * y <= k * x
    BY <1>1, <1>2, <1>3
  <2> QED
    BY <1>1, <1>2, <2>1
<1>4. k * (x + 1) <= k * y
  <2>1. x + 1 <= y
    BY <1>1, <1>2, <1>3
  <2> QED
    BY <1>1, <1>2, <2>1
<1>5. k * (x + 1) = k * x + k
  BY <1>1
<1> QED
  BY <1>1, <1>2, <1>4, <1>5

LEMMA MinIs ==
    ASSUME NEW S \in SUBSET Int, NEW m \in S, \A y \in S : m <= y
    PROVE  Min(S) = m
<1> DEFINE Least(x) == \A y \in S : x <= y
<1>1. Min(S) \in S /\ Least(Min(S))
  <2>1. \E x \in S : Least(x)
    OBVIOUS
  <2>2. Min(S) = CHOOSE x \in S : Least(x)
    BY DEF Min
  <2> HIDE DEF Least
  <2> QED
    BY <2>1, <2>2
<1>2. Min(S) \in Int /\ m \in Int
  BY <1>1
<1>3. Min(S) <= m /\ m <= Min(S)
  BY <1>1
<1> QED
  BY ONLY <1>2, <1>3

\* A limit on a payment is {} or the set of one amount.
Limits == {{}} \cup {{m} : m \in Nat}

LEMMA MinWithLimit ==
    ASSUME NEW a \in Nat, NEW b \in Nat, NEW limit \in Limits
    PROVE  LET m == Min({a, b} \cup limit)
           IN  m \in Nat /\ m <= a /\ m <= b /\ \A y \in limit : m <= y
<1> DEFINE S == {a, b} \cup limit
           low == IF a <= b THEN a ELSE b
<1>1. CASE limit = {}
  <2>1. S \in SUBSET Int /\ low \in S /\ \A y \in S : low <= y
    BY <1>1
  <2>2. Min(S) = low
    <3> HIDE DEF S, low
    <3> QED
      BY <2>1, MinIs
  <2> QED
    BY <1>1, <2>2
<1>2. ASSUME NEW c \in Nat, limit = {c} PROVE Min(S) \in Nat /\ \A y \in S : Min(S) <= y
  <2> DEFINE least == IF low <= c THEN low ELSE c
  <2>1. S \in SUBSET Int /\ least \in S /\ least \in Nat /\ \A y \in S : least <= y
    BY <1>2
  <2>2. Min(S) = least
    <3> HIDE DEF S, least
    <3> QED
      BY <2>1, MinIs
  <2> QED
    BY <2>1, <2>2
<1> QED
  BY <1>1, <1>2 DEF Limits

\* A payment buys at most the shares it is made for, when it is a multiple of
\* the unit of the token.
LEMMA RepaySplitBounds ==
    ASSUME NEW u, PoolSound(u), NEW bucket \in Nat, NEW normalized \in Nat, NEW limit \in Limits,
           IsMultiple(RepayVariableSplit(u, bucket, normalized, limit).paid, u.underlying_unit)
    PROVE  LET s == RepayVariableSplit(u, bucket, normalized, limit)
           IN  /\ s.paid \in Nat /\ s.paid <= bucket /\ \A m \in limit : s.paid <= m
               /\ s.normalized \in Nat /\ s.normalized <= normalized
<1> DEFINE k == u.underlying_unit
           i == u.loan_index
           unit == u.share_unit
           owed == DMul(normalized, i)
           debt == CeilTo(owed, k)
           paid == Min({bucket, debt} \cup limit)
           bought == DDiv(paid, i)
           s == RepayVariableSplit(u, bucket, normalized, limit)
<1>1. i \in Nat \ {0} /\ k \in Nat \ {0} /\ ONE \in Nat \ {0} /\ unit \in Nat \ {0}
  BY DecimalAssumption DEF PoolSound
<1>2. s = [paid |-> paid, normalized |-> IF paid = debt THEN normalized ELSE FloorTo(bought, unit)]
  BY DEF RepayVariableSplit
<1>3. paid % k = 0
  BY <1>2 DEF IsMultiple
<1> HIDE DEF i, k, unit, s
<1>4. owed \in Nat /\ ONE * owed <= normalized * i
  BY <1>1, DMulNat
<1> HIDE DEF owed
<1>5. debt \in Nat /\ debt < owed + k /\ debt % k = 0
  <2>1. CeilTo(owed, k) \in Int /\ owed <= CeilTo(owed, k) /\ CeilTo(owed, k) < owed + k
    BY <1>1, <1>4, CeilToBounds
  <2>2. (- owed) \div k \in Int
    BY <1>1, <1>4
  <2>3. CeilTo(owed, k) = k * (- ((- owed) \div k))
    BY <1>1, <2>2 DEF CeilTo, FloorTo
  <2>4. \A m \in Int : (k * m) % k = 0
    BY <1>1
  <2>5. CeilTo(owed, k) % k = 0
    BY <2>2, <2>3, <2>4
  <2> QED
    BY <1>4, <2>1, <2>5
<1> HIDE DEF debt
<1>6. paid \in Nat /\ paid <= bucket /\ paid <= debt /\ \A m \in limit : paid <= m
  BY <1>5, MinWithLimit
<1> HIDE DEF paid
<1>7. ASSUME paid # debt PROVE FloorTo(bought, unit) \in Nat /\ FloorTo(bought, unit) <= normalized
  <2>1. paid + k <= debt
    <3>1. paid < debt
      BY <1>5, <1>6, <1>7
    <3> QED
      BY <1>1, <1>3, <1>5, <1>6, <3>1, MultiplesApart
  <2>2. paid < owed
    BY <1>1, <1>4, <1>5, <1>6, <2>1
  <2>3. paid * ONE < (normalized + 1) * i
    <3>1. paid * ONE < ONE * owed
      BY <1>1, <1>4, <1>6, <2>2
    <3>2. normalized * i <= (normalized + 1) * i
      BY <1>1
    <3>3. /\ paid * ONE \in Int /\ ONE * owed \in Int
          /\ normalized * i \in Int /\ (normalized + 1) * i \in Int
      BY <1>1, <1>4, <1>6
    <3> QED
      BY <1>4, <3>1, <3>2, <3>3
  <2>4. bought \in Nat /\ bought = (paid * ONE) \div i
    BY <1>1, <1>6, DDivNat
  <2>5. bought <= normalized
    <3>1. paid * ONE \in Int
      BY <1>1, <1>6
    <3> QED
      BY <1>1, <2>3, <2>4, <3>1, DivUpper
  <2> HIDE DEF bought
  <2>6. FloorTo(bought, unit) \in Nat /\ FloorTo(bought, unit) <= bought
    <3>1. bought \in Int /\ bought >= 0
      BY <2>4
    <3> QED
      BY <1>1, <3>1, FloorToBounds
  <2> QED
    BY <2>4, <2>5, <2>6
<1> HIDE DEF bought
<1> QED
  BY <1>2, <1>5, <1>6, <1>7 DEF s

LEMMA PaidVariableSound ==
    ASSUME NEW u, PoolSound(u), NEW now \in Nat, u.last_update = now,
           NEW s, s.paid \in Nat, s.normalized \in Nat,
           s.normalized <= u.variable_loan_share_quantity
    PROVE  LET q == PaidVariable(u, now, s)
           IN  /\ PoolSound(q)
               /\ Keeps(u, q, MovedFields({"vault", "variable_loan_share_quantity"}))
               /\ q.vault = u.vault + s.paid
               /\ q.variable_loan_share_quantity = u.variable_loan_share_quantity - s.normalized
<1> DEFINE v == [u EXCEPT !.variable_loan_share_quantity = @ - s.normalized,
                          !.vault = @ + s.paid]
           q == PaidVariable(u, now, s)
<1>1. /\ Keeps(u, v, {"vault", "variable_loan_share_quantity"})
      /\ v.vault = u.vault + s.paid
      /\ v.variable_loan_share_quantity = u.variable_loan_share_quantity - s.normalized
  BY PoolFieldNames DEF IsPool, Keeps, PoolSound
<1> HIDE DEF v
<1>2. PoolSound(v)
  <2>1. v.vault \in Nat /\ v.variable_loan_share_quantity \in Nat
    BY <1>1 DEF PoolSound
  <2> QED
    BY <1>1, <2>1, BondsSoundSame, PoolFieldNames DEF PoolSound, Keeps
<1>3. v.last_update = now
  BY <1>1, PoolFieldNames DEF Keeps
<1>4. q = UpdateInterestRate(v, now)
  BY DEF PaidVariable, v
<1> HIDE DEF q
<1>5. PoolSound(q) /\ Keeps(v, q, RateFields)
  BY <1>2, <1>3, <1>4, RatesSound
<1> QED
  BY <1>1, <1>5, PoolFieldNames DEF Keeps, MovedFields, RateFields, q

(* Stable loans.  The average rate is rounded at every loan and every payment, *)
(* so that it may fall below what is left to subtract: that it does not is a   *)
(* hypothesis.                                                                 *)

StableFields == {"stable_loan_interest_rate", "stable_loan_amount", "vault"}

LEMMA WeightRateNat ==
    ASSUME NEW a \in Nat, NEW r \in Nat, NEW b \in Nat, NEW q \in Nat, a + b # 0
    PROVE  GetWeightRate(a, r, b, q) \in Nat
<1> DEFINE yearly == DMul(a, r) + DMul(b, q)
           total == a + b
<1>1. yearly \in Nat
  <2>1. DMul(a, r) \in Nat /\ DMul(b, q) \in Nat
    BY DMulNat
  <2> QED
    BY <2>1
<1>2. total \in Nat \ {0}
  OBVIOUS
<1> HIDE DEF yearly, total
<1>3. DDiv(yearly, total) \in Nat
  BY <1>1, <1>2, DDivNat
<1> QED
  BY <1>3 DEF GetWeightRate, yearly, total

LEMMA LentStableSound ==
    ASSUME NEW u, PoolSound(u), NEW now \in Nat, u.last_update = now,
           NEW amount \in Nat, amount <= u.vault, NEW average \in Nat
    PROVE  LET q == LentStable(u, now, amount, average)
           IN  /\ PoolSound(q)
               /\ Keeps(u, q, MovedFields(StableFields))
               /\ q.vault = u.vault - FloorTo(amount, u.underlying_unit)
               /\ q.stable_loan_amount = u.stable_loan_amount + amount
               /\ q.stable_loan_interest_rate = average
<1> DEFINE lent == FloorTo(amount, u.underlying_unit)
           v == [u EXCEPT !.stable_loan_interest_rate = average,
                          !.stable_loan_amount = @ + amount]
           w == UpdateInterestRate(v, now)
           q == LentStable(u, now, amount, average)
<1>1. lent \in Int /\ lent <= amount
  <2> DEFINE unit == u.underlying_unit
  <2>1. unit \in Nat \ {0} /\ amount \in Int
    BY DEF PoolSound
  <2> HIDE DEF unit
  <2>2. FloorTo(amount, unit) \in Int /\ FloorTo(amount, unit) <= amount
    BY <2>1, FloorToBounds
  <2> QED
    BY <2>2 DEF unit
<1> HIDE DEF lent
<1>2. /\ Keeps(u, v, {"stable_loan_interest_rate", "stable_loan_amount"})
      /\ v.stable_loan_amount = u.stable_loan_amount + amount
      /\ v.stable_loan_interest_rate = average
  BY PoolFieldNames DEF IsPool, Keeps, PoolSound
<1> HIDE DEF v
<1>3. PoolSound(v)
  BY <1>2, BondsSoundSame, PoolFieldNames DEF PoolSound, Keeps
<1>4. v.last_update = now
  BY <1>2, PoolFieldNames DEF Keeps
<1> HIDE DEF w
<1>5. PoolSound(w) /\ Keeps(v, w, RateFields)
  BY <1>3, <1>4, RatesSound DEF w
<1>6. q = [w EXCEPT !.vault = @ - lent]
  BY DEF LentStable, v, w, lent
<1> HIDE DEF q
<1>7. Keeps(w, q, {"vault"}) /\ q.vault = w.vault - lent
  BY <1>5, <1>6, PoolFieldNames DEF IsPool, Keeps
<1>8. /\ w.vault = u.vault
      /\ q.stable_loan_amount = u.stable_loan_amount + amount
      /\ q.stable_loan_interest_rate = average
  BY <1>2, <1>5, <1>7, PoolFieldNames DEF Keeps, RateFields
<1>9. PoolSound(q)
  <2>1. q.vault \in Nat
    BY <1>1, <1>7, <1>8 DEF PoolSound
  <2> QED
    BY <1>5, <1>7, <2>1, BondsSoundSame, PoolFieldNames DEF PoolSound, Keeps
<1>10. Keeps(u, q, MovedFields(StableFields))
  BY <1>2, <1>5, <1>7, PoolFieldNames DEF Keeps, MovedFields, RateFields, StableFields
<1> QED
  BY <1>7, <1>8, <1>9, <1>10 DEF q, lent

\* What a bucket pays of a loan that owes interest: at most the loan and its
\* interest, of which the part "in borrow" is what exceeds the interest.
StableSplitSound(s, interest, bucket, loan_amount, limit) ==
    /\ s.paid \in Nat /\ s.paid <= bucket /\ \A m \in limit : s.paid <= m
    /\ s.interest \in Nat /\ interest \in Nat /\ interest <= s.interest
    /\ s.in_borrow = s.paid - s.interest
    /\ s.in_borrow <= loan_amount

LEMMA StableSplitBounds ==
    ASSUME NEW p, PoolSound(p), NEW now \in Nat, NEW bucket \in Nat,
           NEW loan_amount \in Nat, NEW rate \in Nat, NEW last \in Nat, last <= now,
           NEW limit \in Limits
    PROVE  StableSplitSound(RepayStableSplit(p, now, bucket, loan_amount, rate, last, limit),
                            GetStableInterest(now, loan_amount, last, rate),
                            bucket, loan_amount, limit)
<1> DEFINE epochs == now - last
           grown == CalcCompoundInterest(loan_amount, rate, epochs)
           exact == GetStableInterest(now, loan_amount, last, rate)
           unit == p.underlying_unit
           interest == IF now = last THEN 0 ELSE CeilTo(exact, unit)
           paid == Min({bucket, loan_amount + interest} \cup limit)
           s == RepayStableSplit(p, now, bucket, loan_amount, rate, last, limit)
<1>1. epochs \in Nat /\ unit \in Nat \ {0}
  BY DEF PoolSound
<1>2. exact \in Nat
  <2> HIDE DEF epochs
  <2>1. grown \in Nat /\ loan_amount <= grown
    BY <1>1, CompoundInterestGrows
  <2>2. exact = grown - loan_amount
    BY DEF GetStableInterest, epochs
  <2> HIDE DEF grown, exact
  <2> QED
    BY <2>1, <2>2
<1>3. interest \in Nat /\ exact <= interest
  <2>1. CASE now = last
    <3>1. CalcCompoundInterest(loan_amount, rate, 0) = loan_amount
      BY NoEpochNoInterest
    <3>2. exact = 0
      BY <2>1, <3>1 DEF GetStableInterest
    <3> QED
      BY <2>1, <3>2
  <2>2. CASE now # last
    <3> HIDE DEF exact, unit
    <3>1. CeilTo(exact, unit) \in Int /\ exact <= CeilTo(exact, unit)
      BY <1>1, <1>2, CeilToBounds
    <3> QED
      BY <1>2, <2>2, <3>1
  <2> QED
    BY <2>1, <2>2
<1>4. s = [paid |-> paid, in_borrow |-> paid - interest, interest |-> interest]
  BY DEF RepayStableSplit
<1> HIDE DEF exact, interest, s
<1>5. paid \in Nat /\ paid <= bucket /\ paid <= loan_amount + interest /\ \A m \in limit : paid <= m
  <2> DEFINE owed == loan_amount + interest
  <2>1. owed \in Nat
    BY <1>3
  <2> HIDE DEF owed
  <2>2. LET m == Min({bucket, owed} \cup limit)
        IN  m \in Nat /\ m <= bucket /\ m <= owed /\ \A y \in limit : m <= y
    BY <2>1, MinWithLimit
  <2> QED
    BY <2>2 DEF owed
<1> HIDE DEF paid
<1>6. StableSplitSound(s, exact, bucket, loan_amount, limit)
  BY <1>2, <1>3, <1>4, <1>5 DEF StableSplitSound
<1> QED
  BY <1>6 DEF s, exact

\* The average rate after a payment is an integer.
LEMMA PaidStableRateInt ==
    ASSUME NEW p, PoolSound(p), NEW now, NEW s, s.paid \in Nat, s.in_borrow \in Int,
           NEW rate \in Nat
    PROVE  PaidStable(p, now, s, rate).stable_loan_interest_rate \in Int
<1> DEFINE total  == p.stable_loan_amount - s.in_borrow
           yearly == DMul(p.stable_loan_amount, p.stable_loan_interest_rate)
                       - DMul(s.in_borrow, rate)
           closes == s.in_borrow >= 0 /\ total <= 0
           average == IF closes THEN 0 ELSE DDiv(yearly, total)
           v == [p EXCEPT !.stable_loan_amount = IF closes THEN 0 ELSE total,
                          !.stable_loan_interest_rate = average,
                          !.vault = @ + s.paid]
           q == PaidStable(p, now, s, rate)
<1>1. p.stable_loan_amount \in Nat /\ p.stable_loan_interest_rate \in Nat /\ IsPool(p)
  BY DEF PoolSound
<1>2. average \in Int
  <2>1. closes => average = 0
    OBVIOUS
  <2>2. ASSUME ~ closes PROVE average \in Int
    <3>1. yearly \in Int
      <4>0. rate \in Int /\ \A n \in Nat : n \in Int
        OBVIOUS
      <4>1. DMul(p.stable_loan_amount, p.stable_loan_interest_rate) \in Int
        BY <1>1, <4>0, DMulInt
      <4>2. DMul(s.in_borrow, rate) \in Int
        BY <4>0, DMulInt
      <4> QED
        BY <4>1, <4>2
    <3>2. total \in Int \ {0}
      BY <1>1, <2>2
    <3>4. average = DDiv(yearly, total)
      BY <2>2
    <3> HIDE DEF yearly, total, average
    <3>3. DDiv(yearly, total) \in Int
      BY <3>1, <3>2, DDivInt
    <3> QED
      BY <3>3, <3>4
  <2> HIDE DEF average
  <2> QED
    BY <2>1, <2>2
<1>3. q = UpdateInterestRate(v, now)
  BY DEF PaidStable
<1>4. IsPool(v) /\ v.stable_loan_interest_rate = average
  BY <1>1, PoolFieldNames DEF IsPool
<1> HIDE DEF q, v, average
<1>5. q.stable_loan_interest_rate = v.stable_loan_interest_rate
  BY <1>3, <1>4, PoolFieldNames DEF UpdateInterestRate, WithRates, IsPool
<1> QED
  BY <1>2, <1>4, <1>5 DEF q

LEMMA PaidStableSound ==
    ASSUME NEW p, PoolSound(p), NEW now \in Nat, p.last_update <= now, CanAccrue(p, now),
           NEW s, s.paid \in Nat, s.in_borrow \in Int, NEW rate \in Nat,
           PaidStable(p, now, s, rate).stable_loan_interest_rate >= 0
    PROVE  LET q == PaidStable(p, now, s, rate)
           IN  /\ PoolSound(q)
               /\ Keeps(p, q, MovedFields(StableFields))
               /\ q.vault = p.vault + s.paid
               /\ q.stable_loan_amount
                    = IF p.stable_loan_amount <= s.in_borrow THEN 0
                      ELSE p.stable_loan_amount - s.in_borrow
<1> DEFINE total  == p.stable_loan_amount - s.in_borrow
           yearly == DMul(p.stable_loan_amount, p.stable_loan_interest_rate)
                       - DMul(s.in_borrow, rate)
           closes == s.in_borrow >= 0 /\ total <= 0
           average == IF closes THEN 0 ELSE DDiv(yearly, total)
           left == IF closes THEN 0 ELSE total
           v == [p EXCEPT !.stable_loan_amount = left,
                          !.stable_loan_interest_rate = average,
                          !.vault = @ + s.paid]
           q == PaidStable(p, now, s, rate)
<1>1. p.stable_loan_amount \in Nat /\ p.vault \in Nat /\ IsPool(p)
  BY DEF PoolSound
<1>2. /\ left \in Nat
      /\ left = IF p.stable_loan_amount <= s.in_borrow THEN 0
                ELSE p.stable_loan_amount - s.in_borrow
  BY <1>1
<1>3. q = UpdateInterestRate(v, now)
  BY DEF PaidStable
<1> HIDE DEF left, average
<1>4. /\ Keeps(p, v, StableFields)
      /\ v.stable_loan_amount = left /\ v.stable_loan_interest_rate = average
      /\ v.vault = p.vault + s.paid
  BY <1>1, PoolFieldNames DEF IsPool, Keeps, StableFields
<1> HIDE DEF q, v
<1>5. average \in Nat
  <2>1. q.stable_loan_interest_rate = average
    <3>1. IsPool(v)
      BY <1>4 DEF Keeps
    <3> QED
      BY <1>3, <1>4, <3>1, PoolFieldNames DEF UpdateInterestRate, WithRates, IsPool
  <2>2. q.stable_loan_interest_rate \in Int
    BY PaidStableRateInt DEF q
  <2> QED
    BY <2>1, <2>2 DEF q
<1>6. PoolSound(v)
  BY <1>1, <1>2, <1>4, <1>5, BondsSoundSame, PoolFieldNames DEF PoolSound, Keeps, StableFields
<1>7. v.last_update <= now /\ CanAccrue(v, now)
  <2>1. /\ v.last_update = p.last_update /\ v.share_supply = p.share_supply
        /\ v.deposit_index = p.deposit_index
        /\ v.bonds = p.bonds /\ v.bond_epochs = p.bond_epochs
    BY <1>4, PoolFieldNames DEF Keeps, StableFields
  <2> QED
    BY <2>1 DEF CanAccrue, MatureInterest, MatureEpochs
<1>8. PoolSound(q) /\ Keeps(v, q, RateFields)
  BY <1>3, <1>6, <1>7, AccruedRatesSound
<1>9. Keeps(p, q, MovedFields(StableFields))
  BY <1>4, <1>8 DEF Keeps, MovedFields, RateFields, StableFields
<1>10. q.vault = v.vault /\ q.stable_loan_amount = v.stable_loan_amount
  BY <1>8, PoolFieldNames DEF Keeps, RateFields
<1> QED
  BY <1>2, <1>4, <1>8, <1>9, <1>10 DEF q

LEMMA BorrowFixedTermSound ==
    ASSUME NEW p, PoolSound(p), NEW amount \in Nat, amount <= p.vault
    PROVE  LET q == BorrowFixedTerm(p, amount)
           IN  PoolSound(q) /\ Keeps(p, q, {"vault"})
<1> DEFINE lent == FloorTo(amount, p.underlying_unit)
           q == BorrowFixedTerm(p, amount)
<1>1. lent \in Int /\ lent <= amount
  <2> DEFINE unit == p.underlying_unit
  <2>1. unit \in Nat \ {0} /\ amount \in Int
    BY DEF PoolSound
  <2> HIDE DEF unit
  <2>2. FloorTo(amount, unit) \in Int /\ FloorTo(amount, unit) <= amount
    BY <2>1, FloorToBounds
  <2> QED
    BY <2>2 DEF unit
<1>2. q = [p EXCEPT !.vault = @ - lent]
  BY DEF BorrowFixedTerm
<1> HIDE DEF q, lent
<1>3. Keeps(p, q, {"vault"}) /\ q.vault = p.vault - lent
  BY <1>2, PoolFieldNames DEF IsPool, Keeps, PoolSound
<1>4. q.vault \in Nat
  BY <1>1, <1>3 DEF PoolSound
<1> QED
  BY <1>3, <1>4, BondsSoundSame, PoolFieldNames DEF PoolSound, Keeps, q

LEMMA WithdrawInsuranceSound ==
    ASSUME NEW p, PoolSound(p), NEW amount \in Nat, amount <= p.vault
    PROVE  LET q == WithdrawInsurance(p, amount)
           IN  PoolSound(q) /\ Keeps(p, q, {"vault"})
BY BorrowFixedTermSound DEF WithdrawInsurance, BorrowFixedTerm

LEMMA FixedTermTotalNat ==
    ASSUME NEW p, PoolSound(p), NEW amount \in Nat, NEW fee \in Nat
    PROVE  FixedTermTotal(p, amount, fee) \in Nat
<1> DEFINE unit == p.underlying_unit
           sum == amount + fee
<1>1. unit \in Nat \ {0} /\ sum \in Nat
  BY DEF PoolSound
<1> HIDE DEF unit, sum
<1>2. CeilTo(sum, unit) \in Int /\ sum <= CeilTo(sum, unit)
  BY <1>1, CeilToBounds
<1> QED
  BY <1>1, <1>2 DEF FixedTermTotal, unit, sum

\* What a pool p is when a fixed-term loan has come back with its fee.
FixedTermRepaid(p, q, fee, now) ==
    /\ PoolSound(q)
    /\ q.last_update = IF fee = 0 THEN p.last_update ELSE now
    /\ q.share_supply = p.share_supply
    /\ q.variable_loan_share_quantity = p.variable_loan_share_quantity
    /\ q.stable_loan_amount = p.stable_loan_amount
    /\ q.stable_loan_interest_rate = p.stable_loan_interest_rate
    /\ q.share_unit = p.share_unit /\ q.underlying_unit = p.underlying_unit
    /\ q.bond_epochs \subseteq p.bond_epochs

\* A fixed-term loan that comes back with its fee: the fee is shared out after
\* update_index.
LEMMA RepayFixedTermSound ==
    ASSUME NEW p, PoolSound(p), NEW now \in Nat, p.last_update <= now,
           NEW bucket, NEW amount \in Nat, NEW fee \in Nat,
           CanRepayFixedTerm(p, now, bucket, amount, fee)
    PROVE  FixedTermRepaid(p, RepayFixedTerm(p, now, amount, fee), fee, now)
<1> DEFINE total == FixedTermTotal(p, amount, fee)
           paid == [p EXCEPT !.vault = @ + total]
           u == UpdateIndex(paid, now)
           v == ShareOut(u, fee)
           q == RepayFixedTerm(p, now, amount, fee)
<1>1. total \in Nat
  BY FixedTermTotalNat
<1> HIDE DEF total
<1>2. Keeps(p, paid, {"vault"}) /\ paid.vault = p.vault + total
  BY PoolFieldNames DEF IsPool, Keeps, PoolSound
<1>3. q = IF fee = 0 THEN paid ELSE UpdateInterestRate(v, now)
  BY DEF RepayFixedTerm, total
<1> HIDE DEF paid, q
<1>4. PoolSound(paid)
  <2>1. paid.vault \in Nat
    BY <1>1, <1>2 DEF PoolSound
  <2> QED
    BY <1>2, <2>1, BondsSoundSame, PoolFieldNames DEF PoolSound, Keeps
<1>5. /\ paid.last_update = p.last_update /\ paid.share_supply = p.share_supply
      /\ paid.variable_loan_share_quantity = p.variable_loan_share_quantity
      /\ paid.stable_loan_amount = p.stable_loan_amount
      /\ paid.stable_loan_interest_rate = p.stable_loan_interest_rate
      /\ paid.deposit_index = p.deposit_index
      /\ paid.deposit_interest_rate = p.deposit_interest_rate
      /\ paid.insurance_ratio = p.insurance_ratio
      /\ paid.bonds = p.bonds /\ paid.bond_epochs = p.bond_epochs
      /\ paid.share_unit = p.share_unit /\ paid.underlying_unit = p.underlying_unit
  BY <1>2, PoolFieldNames DEF Keeps
<1>6. ASSUME fee = 0 PROVE FixedTermRepaid(p, q, fee, now)
  BY <1>3, <1>4, <1>5, <1>6 DEF FixedTermRepaid
<1>7. ASSUME fee # 0 PROVE FixedTermRepaid(p, q, fee, now)
  <2>1. /\ CanAccrue(p, now)
        /\ GetRedemptionValue(UpdateIndex(p, now), now, p.share_supply) # 0
    BY <1>7 DEF CanRepayFixedTerm
  <2>2. MatureInterest(paid, now) = MatureInterest(p, now)
    BY <1>5 DEF MatureInterest, MatureEpochs
  <2>3. CanAccrue(paid, now)
    BY <1>5, <2>1, <2>2 DEF CanAccrue
  <2>4. ClaimedIndex(paid, now) = ClaimedIndex(p, now)
    BY <1>5, <2>2 DEF ClaimedIndex
  <2> DEFINE w == UpdateIndex(p, now)
             fields == BookFields \cup AccruedFields
             index(x) == IF now = x.last_update THEN x.deposit_index
                         ELSE CalcLinearInterest(ClaimedIndex(x, now), x.deposit_interest_rate,
                                                 now - x.last_update)
  <2>5. PoolSound(u) /\ Keeps(paid, u, fields) /\ u.last_update = now /\ u.deposit_index = index(paid)
    BY <1>4, <1>5, <2>3, UpdateIndexSound
  <2>6. w.last_update = now /\ w.deposit_index = index(p)
    BY <2>1, UpdateIndexSound
  <2>7. u.deposit_index = w.deposit_index
    BY <1>5, <2>4, <2>5, <2>6
  <2>8. /\ u.share_supply = p.share_supply
        /\ u.variable_loan_share_quantity = p.variable_loan_share_quantity
        /\ u.stable_loan_amount = p.stable_loan_amount
        /\ u.stable_loan_interest_rate = p.stable_loan_interest_rate
        /\ u.share_unit = p.share_unit /\ u.underlying_unit = p.underlying_unit
    BY <1>5, <2>5, PoolFieldNames DEF Keeps, BookFields, AccruedFields
  <2>15. u.bond_epochs \subseteq p.bond_epochs
    BY <1>4, <1>5, <2>3, UpdateIndexBonds
  <2>9. DMul(u.share_supply, u.deposit_index) # 0
    <3>1. CurrentDepositIndex(w, now) = w.deposit_index
      BY <2>6, IndexAtUpdate
    <3> QED
      BY <2>1, <2>7, <2>8, <3>1 DEF GetRedemptionValue
  <2> HIDE DEF u, w, v
  <2>10. PoolSound(v) /\ Keeps(u, v, {"insurance_balance", "deposit_index"})
    BY <2>5, <2>9, ShareOutSound DEF v
  <2>11. v.last_update = now
    BY <2>5, <2>10, PoolFieldNames DEF Keeps
  <2>12. q = UpdateInterestRate(v, now)
    BY <1>3, <1>7
  <2>13. PoolSound(q) /\ Keeps(v, q, RateFields)
    BY <2>10, <2>11, <2>12, RatesSound
  <2>14. /\ q.last_update = v.last_update /\ q.share_supply = u.share_supply
         /\ q.variable_loan_share_quantity = u.variable_loan_share_quantity
         /\ q.stable_loan_amount = u.stable_loan_amount
         /\ q.stable_loan_interest_rate = u.stable_loan_interest_rate
         /\ q.share_unit = u.share_unit /\ q.underlying_unit = u.underlying_unit
         /\ q.bond_epochs = u.bond_epochs
    BY <2>10, <2>13, PoolFieldNames DEF Keeps, RateFields
  <2> QED
    BY <1>7, <2>8, <2>11, <2>13, <2>14, <2>15 DEF FixedTermRepaid
<1> QED
  BY <1>6, <1>7 DEF q

-----------------------------------------------------------------------------
(* Quotes and purchases *)

\* Rounding down the depositors' part of earnings loses what rounding down the
\* insurance's part gives them, and no more.
LEMMA PartsOfEarnings ==
    ASSUME NEW earned \in Nat, NEW ratio \in 0 .. ONE
    PROVE  /\ DMul(earned, ratio) \in Nat /\ DMul(earned, ratio) <= earned
           /\ DMul(earned, ONE - ratio) <= earned - DMul(earned, ratio)
<1> DEFINE rest == ONE - ratio
           a == DMul(earned, ratio)
           b == DMul(earned, rest)
           x == earned * ratio
           y == earned * rest
           z == earned * ONE
<1>1. ONE \in Nat \ {0} /\ ratio \in Nat /\ rest \in Nat
  BY DecimalAssumption
<1>2. a \in Nat /\ ONE * a <= x
  BY <1>1, DMulNat
<1>3. b \in Nat /\ ONE * b <= y
  BY <1>1, DMulNat
<1>4. x \in Nat /\ y \in Nat /\ z \in Nat /\ x + y = z
  BY <1>1
<1>5. ONE * a + ONE * b <= ONE * earned
  <2>1. z = ONE * earned /\ ONE * a \in Nat /\ ONE * b \in Nat
    BY <1>1, <1>2, <1>3
  <2> HIDE DEF a, b, x, y, z
  <2> QED
    BY <1>2, <1>3, <1>4, <2>1
<1> HIDE DEF a, b, x, y, z
<1>6. a + b <= earned
  BY <1>1, <1>2, <1>3, <1>5
<1> QED
  BY <1>2, <1>3, <1>6 DEF a, b

\* The getter's index, which adds the bonds to the accrued index, is at most the
\* index update_index leaves, which accrues on the bonds as well.
LEMMA QuoteBelowUpdate ==
    ASSUME NEW p, PoolSound(p), NEW now \in Nat, p.last_update <= now, CanAccrue(p, now)
    PROVE  CurrentDepositIndex(p, now) <= UpdateIndex(p, now).deposit_index
<1> DEFINE index == p.deposit_index
           rate == p.deposit_interest_rate
           epochs == now - p.last_update
           earned == MatureInterest(p, now)
           grown == CalcLinearInterest(index, rate, epochs)
           claimed == ClaimedIndex(p, now)
           u == UpdateIndex(p, now)
<1>1. index \in Nat /\ rate \in Nat /\ earned \in Nat /\ p.share_supply \in Nat
  BY MatureInterestNat DEF PoolSound
<1>2. u.deposit_index = IF now = p.last_update THEN index
                        ELSE CalcLinearInterest(claimed, rate, epochs)
  BY UpdateIndexSound
<1> HIDE DEF u
<1>3. CASE now = p.last_update
  BY <1>1, <1>2, <1>3 DEF CurrentDepositIndex, u
<1>4. CASE now # p.last_update
  <2>1. epochs \in Nat /\ now > p.last_update
    BY <1>4 DEF PoolSound
  <2>2. CurrentDepositIndex(p, now) = WithBonds(p, grown, earned)
    BY <1>4 DEF CurrentDepositIndex
  <2>3. grown \in Nat /\ index <= grown
    BY <1>1, <2>1, LinearInterestGrows
  <2>4. CASE earned = 0
    <3>1. claimed = index /\ WithBonds(p, grown, earned) = grown
      BY <2>4 DEF ClaimedIndex, WithBonds
    <3> QED
      BY <1>2, <1>4, <2>2, <2>3, <3>1 DEF u
  <2>5. CASE earned > 0
    <3> DEFINE low == DMul(p.share_supply, index)
               high == DMul(p.share_supply, grown)
               quoted == DDiv(DMul(earned, ONE - p.insurance_ratio), high)
               gained == DDiv(earned - DMul(earned, p.insurance_ratio), low)
    <3>1. low \in Nat \ {0} /\ high \in Nat /\ low <= high
      <4>1. low # 0
        BY <2>1, <2>5 DEF CanAccrue
      <4>2. low \in Nat /\ high \in Nat
        <5> HIDE DEF index, grown
        <5> QED
          BY <1>1, <2>3, DMulNat
      <4>3. low <= high
        <5> HIDE DEF index, grown
        <5> QED
          BY <1>1, <2>3, DMulMonotone
      <4> QED
        BY <4>1, <4>2, <4>3
    <3>2. quoted <= gained /\ quoted \in Nat /\ gained \in Nat
      <4> DEFINE a == DMul(earned, ONE - p.insurance_ratio)
                 c == earned - DMul(earned, p.insurance_ratio)
      <4>1. p.insurance_ratio \in 0 .. ONE /\ ONE - p.insurance_ratio \in Nat
        BY DecimalAssumption DEF PoolSound
      <4>2. a \in Nat
        <5> HIDE DEF earned
        <5> QED
          BY <1>1, <4>1, DMulNat
      <4>3. c \in Nat /\ a <= c
        <5> DEFINE ratio == p.insurance_ratio
        <5> HIDE DEF earned, ratio
        <5>1. /\ DMul(earned, ratio) \in Nat /\ DMul(earned, ratio) <= earned
              /\ DMul(earned, ONE - ratio) <= earned - DMul(earned, ratio)
          BY <1>1, <4>1, PartsOfEarnings DEF ratio
        <5> QED
          BY <1>1, <5>1 DEF ratio
      <4> HIDE DEF a, c, low, high
      <4>4. DDiv(a, high) <= DDiv(c, low)
        BY <3>1, <4>2, <4>3, DDivAntitone
      <4>5. DDiv(a, high) \in Nat /\ DDiv(c, low) \in Nat
        BY <3>1, <4>2, <4>3, DDivNat, SMTT(30)
      <4> QED
        BY <4>4, <4>5 DEF a, c
    <3>3. WithBonds(p, grown, earned) = grown + quoted
      BY <2>5 DEF WithBonds
    <3>4. claimed = index + gained
      BY <2>5 DEF ClaimedIndex
    <3> HIDE DEF quoted, gained, claimed, index, rate, epochs, earned
    <3>5. grown + gained <= CalcLinearInterest(index + gained, rate, epochs)
      BY <1>1, <2>1, <3>2, LinearInterestOfMore
    <3>6. CalcLinearInterest(index + gained, rate, epochs) \in Nat
      <4> DEFINE most == index + gained
      <4>1. most \in Nat
        BY <1>1, <3>2
      <4> HIDE DEF most
      <4>2. CalcLinearInterest(most, rate, epochs) \in Nat
        BY <1>1, <2>1, <4>1, LinearInterestGrows
      <4> QED
        BY <4>2 DEF most
    <3>7. u.deposit_index = CalcLinearInterest(index + gained, rate, epochs)
      BY ONLY <1>2, <1>4, <3>4
    <3>8. CurrentDepositIndex(p, now) = grown + quoted
      BY ONLY <2>2, <3>3
    <3>9. grown + quoted <= CalcLinearInterest(index + gained, rate, epochs)
      <4> DEFINE most == CalcLinearInterest(index + gained, rate, epochs)
      <4> HIDE DEF grown, most
      <4> QED
        BY <2>3, <3>2, <3>5, <3>6 DEF most
    <3>10. CurrentDepositIndex(p, now) <= u.deposit_index
      BY ONLY <3>7, <3>8, <3>9
    <3> QED
      BY <3>10 DEF u
  <2> QED
    BY <1>1, <2>4, <2>5
<1> QED
  BY <1>3, <1>4

\* A claim NFT bought below its value.
LEMMA AddFixedTermBondsSound ==
    ASSUME NEW p, IsPool(p), BondsSound(p),
           NEW nft, nft.claim_amount \in Nat, NEW interest \in Nat
    PROVE  BondsSound(AddFixedTerm(p, nft, interest))
<1> DEFINE q == AddFixedTerm(p, nft, interest)
           at == nft.claim_epoch
           known == IF at \in DOMAIN p.bonds THEN p.bonds[at] ELSE ClearedBond
           bond == [interest |-> known.interest + interest, nfts |-> known.nfts \cup {nft}]
<1>1. known.interest \in Nat /\ IsFiniteSet(known.nfts) /\ \A n \in known.nfts : n.claim_amount \in Nat
  BY FS_EmptySet DEF BondsSound, ClearedBond
<1>2. /\ q.bond_epochs = p.bond_epochs \cup {at}
      /\ q.bonds = [e \in DOMAIN p.bonds \cup {at} |-> IF e = at THEN bond ELSE p.bonds[e]]
  BY PoolFieldNames DEF IsPool, AddFixedTerm
<1>3. /\ bond = [interest |-> bond.interest, nfts |-> bond.nfts]
      /\ bond.interest \in Nat /\ IsFiniteSet(bond.nfts) /\ bond.nfts # {}
      /\ \A n \in bond.nfts : n.claim_amount \in Nat
  BY <1>1, FS_AddElement DEF bond
<1> HIDE DEF q, known, bond
<1>4. IsFiniteSet(q.bond_epochs) /\ q.bond_epochs \subseteq DOMAIN q.bonds
  BY <1>2, FS_AddElement DEF BondsSound
<1>5. ASSUME NEW e \in DOMAIN q.bonds
      PROVE  /\ q.bonds[e] = [interest |-> q.bonds[e].interest, nfts |-> q.bonds[e].nfts]
             /\ q.bonds[e].interest \in Nat
             /\ IsFiniteSet(q.bonds[e].nfts)
             /\ \A n \in q.bonds[e].nfts : n.claim_amount \in Nat
             /\ q.bonds[e].interest # 0 => q.bonds[e].nfts # {}
  <2>1. q.bonds[e] = IF e = at THEN bond ELSE p.bonds[e]
    BY <1>2
  <2>2. CASE e = at
    BY <1>3, <2>1, <2>2
  <2>3. CASE e # at
    <3>1. e \in DOMAIN p.bonds
      BY <1>2, <2>3
    <3> QED
      BY <2>1, <2>3, <3>1 DEF BondsSound
  <2> QED
    BY <2>2, <2>3
<1> QED
  BY <1>4, <1>5 DEF BondsSound, q

LEMMA AddFixedTermSound ==
    ASSUME NEW p, PoolSound(p), NEW nft, nft.claim_amount \in Nat, NEW interest \in Nat
    PROVE  LET q == AddFixedTerm(p, nft, interest)
           IN  /\ PoolSound(q)
               /\ Keeps(p, q, {"bonds", "bond_epochs", "claim_nfts", "bond_amount"})
<1> DEFINE q == AddFixedTerm(p, nft, interest)
<1>1. IsPool(p) /\ BondsSound(p) /\ p.bond_amount \in Int
  BY DEF PoolSound
<1>2. BondsSound(q)
  BY <1>1, AddFixedTermBondsSound, SMTT(30)
<1>3. /\ Keeps(p, q, {"bonds", "bond_epochs", "claim_nfts", "bond_amount"})
      /\ q.bond_amount = p.bond_amount + nft.claim_amount - interest
  BY <1>1, PoolFieldNames DEF IsPool, Keeps, AddFixedTerm
<1> HIDE DEF q
<1>4. q.bond_amount \in Int
  BY <1>1, <1>3
<1>5. PoolSound(q)
  BY <1>2, <1>3, <1>4, PoolFieldNames DEF PoolSound, Keeps
<1> QED
  BY <1>3, <1>5 DEF q
=============================================================================
