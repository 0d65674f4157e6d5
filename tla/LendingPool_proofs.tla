------------------------- MODULE LendingPool_proofs -------------------------
(***************************************************************************)
(* Proofs about one pool, for every value of the constants and every       *)
(* length of run.                                                          *)
(*                                                                         *)
(* Of any pool: BondsTracked, MaturedCollected, and that LendingPool       *)
(* implements ClaimBook.  The argument does not depend on the arithmetic   *)
(* of amounts, rates and indices: every method does one of three things to *)
(* the fields that keep the claim NFTs, nothing (SameBook), an accrual     *)
(* (Accrued), or the purchase of one NFT, and BookInv is inductive under   *)
(* the three.                                                              *)
(*                                                                         *)
(* As long as the average stable rate is not negative (RateKept, always    *)
(* so without stable loans): TypeOK, QuoteHonoured, NoDilution,            *)
(* BondAmountCoversHeld and the total of the stable loans.  PoolInv adds   *)
(* to BookInv what the arithmetic of LendResourcePool_proofs keeps         *)
(* (PoolSound), what the bonds cost (Costed) and the stable loans          *)
(* (DebtsSound).                                                           *)
(***************************************************************************)
EXTENDS LendingPool, LendResourcePool_proofs

\* BondsTracked and the first half of MaturedCollected, of any pool.
Tracked(p) ==
    /\ \A e \in p.bond_epochs : e \in Int /\ e > p.last_update /\ e \in DOMAIN p.bonds
    /\ \A n \in p.claim_nfts :
          n.claim_epoch \in p.bond_epochs /\ n \in p.bonds[n.claim_epoch].nfts
    /\ \A e \in DOMAIN p.bonds : \A n \in p.bonds[e].nfts :
          n.claim_epoch = e /\ n \in p.claim_nfts

\* A pool whose bonds are well kept at epoch now.
Kept(p, now) ==
    IsPool(p) /\ Tracked(p) /\ p.last_update \in Int /\ p.last_update <= now

\* What the queued bonds will bring, and the part of it that is interest.
BondClaims(p) ==
    SumFunctionOnSet([e \in DOMAIN p.bonds |-> SumClaimAmount(p.bonds[e].nfts)], p.bond_epochs)

BondInterests(p) ==
    SumFunctionOnSet([e \in DOMAIN p.bonds |-> p.bonds[e].interest], p.bond_epochs)

\* bond_amount is at least what the queued bonds cost.
Costed(p) ==
    BondsSound(p) /\ p.bond_amount \in Int /\ BondClaims(p) <= p.bond_amount + BondInterests(p)

\* q keeps its claim NFTs as p does.
SameBook(p, q) ==
    /\ IsPool(q)
    /\ q.last_update = p.last_update
    /\ q.bond_epochs = p.bond_epochs /\ q.bonds = p.bonds /\ q.claim_nfts = p.claim_nfts
    /\ q.bond_amount = p.bond_amount

\* q is p after an accrual at epoch now: what was due, and nothing else, is gone.
Accrued(p, q, now) ==
    /\ Kept(q, now)
    /\ q.last_update = now
    /\ q.claim_nfts = {n \in p.claim_nfts : n.claim_epoch > now}
    /\ Costed(p) => Costed(q)

BookInv == Kept(pool, epoch) /\ epoch \in Nat

-----------------------------------------------------------------------------
(* Lemmas about the methods *)

LEMMA NewPoolKept ==
    ASSUME NEW model, NEW uu, NEW su, NEW ir, NEW ff, NEW now \in Nat
    PROVE  Kept(NewPool(model, uu, su, ir, ff), now)
<1> DEFINE p == NewPool(model, uu, su, ir, ff)
<1>1. IsPool(p)
  BY PoolFieldNames DEF IsPool, NewPool
<1>2. p.last_update = 0 /\ p.bond_epochs = {} /\ p.claim_nfts = {} /\ p.bonds = << >>
  BY DEF NewPool
<1>3. DOMAIN p.bonds = {}
  BY <1>2
<1> QED
  BY <1>1, <1>2, <1>3 DEF Kept, Tracked

LEMMA SameBookKept ==
    ASSUME NEW p, NEW q, NEW now, Kept(p, now), SameBook(p, q)
    PROVE  Kept(q, now)
BY DEF Kept, SameBook, Tracked

LEMMA SameBookCosted ==
    ASSUME NEW p, NEW q, Costed(p), SameBook(p, q)
    PROVE  Costed(q)
BY BondsSoundSame DEF SameBook, Costed, BondClaims, BondInterests

LEMMA SameBookTransitive ==
    ASSUME NEW p, NEW q, NEW r, SameBook(p, q), SameBook(q, r)
    PROVE  SameBook(p, r)
BY DEF SameBook

LEMMA AccruedSame ==
    ASSUME NEW p, NEW q, NEW r, NEW now, Accrued(p, q, now), SameBook(q, r)
    PROVE  Accrued(p, r, now)
BY SameBookKept, SameBookCosted DEF Accrued, SameBook

LEMMA RatesKeepBook ==
    ASSUME NEW p, NEW now, IsPool(p)
    PROVE  SameBook(p, UpdateInterestRate(p, now))
BY PoolFieldNames DEF IsPool, SameBook, UpdateInterestRate, WithRates

LEMMA ShareOutKeepsBook ==
    ASSUME NEW p, NEW earned, IsPool(p)
    PROVE  SameBook(p, ShareOut(p, earned))
BY PoolFieldNames DEF IsPool, SameBook, ShareOut

\* Claiming takes the due epochs off the queue and exactly their NFTs out.
LEMMA ClaimTakesTheDue ==
    ASSUME NEW p, NEW now \in Nat, Kept(p, now)
    PROVE  LET q == ClaimMaturedBonds(p, now)
           IN  /\ Kept(q, now)
               /\ q.last_update = p.last_update
               /\ \A e \in q.bond_epochs : e > now
               /\ q.claim_nfts = {n \in p.claim_nfts : n.claim_epoch > now}
<1> DEFINE q == ClaimMaturedBonds(p, now)
           r == Collected(p, now)
           due == MatureEpochs(p, now)
<1>0. /\ IsPool(r)
      /\ r.last_update = p.last_update
      /\ r.bond_epochs = p.bond_epochs \ due
      /\ r.claim_nfts = p.claim_nfts \ MatureNfts(p, now)
      /\ r.bonds = [e \in DOMAIN p.bonds |-> IF e \in due THEN ClearedBond ELSE p.bonds[e]]
  BY PoolFieldNames DEF Kept, IsPool, Collected
<1>1. /\ IsPool(q)
      /\ q.last_update = p.last_update
      /\ q.bond_epochs = p.bond_epochs \ due
      /\ q.claim_nfts = p.claim_nfts \ MatureNfts(p, now)
      /\ q.bonds = [e \in DOMAIN p.bonds |-> IF e \in due THEN ClearedBond ELSE p.bonds[e]]
  BY <1>0, ShareOutKeepsBook DEF ClaimMaturedBonds, SameBook
<1> HIDE DEF q, r
<1>2. \A e \in q.bond_epochs : e > now
  BY <1>1 DEF MatureEpochs, Kept, Tracked
<1>3. Tracked(q)
  BY <1>1 DEF MatureEpochs, MatureNfts, Kept, Tracked, ClearedBond
<1>4. q.claim_nfts = {n \in p.claim_nfts : n.claim_epoch > now}
  BY <1>1 DEF MatureEpochs, MatureNfts, Kept, Tracked
<1> QED
  BY <1>1, <1>2, <1>3, <1>4 DEF Kept, q

\* Claiming the due bonds takes no more off bond_amount than they cost: the
\* interest of a bond is deducted once for every validator, so at least once.
LEMMA ClaimStaysCosted ==
    ASSUME NEW p, NEW now \in Nat, IsPool(p), Costed(p)
    PROVE  Costed(ClaimMaturedBonds(p, now))
<1> DEFINE q == ClaimMaturedBonds(p, now)
           r == Collected(p, now)
           due == MatureEpochs(p, now)
           rest == p.bond_epochs \ due
           claims == [e \in DOMAIN p.bonds |-> SumClaimAmount(p.bonds[e].nfts)]
           interests == [e \in DOMAIN p.bonds |-> p.bonds[e].interest]
           releases == [e \in DOMAIN p.bonds |-> BondRelease(p.bonds[e])]
           sum(f, S) == SumFunctionOnSet(f, S)
<1>1. /\ IsPool(r)
      /\ r.bond_epochs = rest
      /\ r.bonds = [e \in DOMAIN p.bonds |-> IF e \in due THEN ClearedBond ELSE p.bonds[e]]
      /\ r.bond_amount = p.bond_amount - sum(releases, due)
  BY PoolFieldNames DEF IsPool, Collected
<1>2. /\ q.bond_epochs = r.bond_epochs /\ q.bonds = r.bonds /\ q.bond_amount = r.bond_amount
  BY <1>1, ShareOutKeepsBook DEF ClaimMaturedBonds, SameBook
<1>3. /\ IsFiniteSet(due) /\ IsFiniteSet(rest) /\ due \cap rest = {}
      /\ due \cup rest = p.bond_epochs /\ p.bond_epochs \subseteq DOMAIN p.bonds
      /\ \A e \in rest : e \notin due
  BY FS_Subset DEF MatureEpochs, BondsSound, Costed
<1>4. ASSUME NEW e \in DOMAIN p.bonds
      PROVE  claims[e] \in Int /\ interests[e] \in Int /\ releases[e] \in Int
  <2>1. IsFiniteSet(p.bonds[e].nfts) /\ \A n \in p.bonds[e].nfts : n.claim_amount \in Nat
    BY DEF BondsSound, Costed
  <2>2. SumClaimAmount(p.bonds[e].nfts) \in Nat
    BY <2>1, SumClaimAmountNat
  <2>3. BondRelease(p.bonds[e]) \in Int
    BY BondReleaseBounds DEF Costed
  <2>4. p.bonds[e].interest \in Nat
    BY DEF BondsSound, Costed
  <2> QED
    BY <2>2, <2>3, <2>4
<1>5. ASSUME NEW e \in due PROVE releases[e] + interests[e] <= claims[e]
  <2>1. e \in DOMAIN p.bonds
    BY <1>3
  <2>2. BondRelease(p.bonds[e]) + p.bonds[e].interest <= SumClaimAmount(p.bonds[e].nfts)
    BY <2>1, BondReleaseBounds DEF Costed
  <2> QED
    BY <2>1, <2>2
<1> HIDE DEF q, r, due, claims, interests, releases, rest
<1>6. sum(releases, due) + sum(interests, due) <= sum(claims, due)
  <2>1. \A e \in due : e \in DOMAIN p.bonds
    BY <1>3
  <2>2. \A e \in due : /\ releases[e] \in Int /\ interests[e] \in Int /\ claims[e] \in Int
                       /\ releases[e] + interests[e] <= claims[e]
    BY <1>4, <1>5, <2>1
  <2> QED
    BY ONLY <1>3, <2>2, SumsCompare
<1>7. /\ sum(claims, p.bond_epochs) = sum(claims, due) + sum(claims, rest)
      /\ sum(interests, p.bond_epochs) = sum(interests, due) + sum(interests, rest)
  <2>1. \A e \in due \cup rest : claims[e] \in Int /\ interests[e] \in Int
    BY <1>3, <1>4
  <2>2. /\ sum(claims, due \cup rest) = sum(claims, due) + sum(claims, rest)
        /\ sum(interests, due \cup rest) = sum(interests, due) + sum(interests, rest)
    BY <1>3, <2>1, SumUnion
  <2> QED
    BY <1>3, <2>2
<1>8. /\ sum(releases, due) \in Int
      /\ sum(claims, due) \in Int /\ sum(claims, rest) \in Int
      /\ sum(interests, due) \in Int /\ sum(interests, rest) \in Int
  <2>1. /\ \A e \in due : claims[e] \in Int /\ interests[e] \in Int /\ releases[e] \in Int
        /\ \A e \in rest : claims[e] \in Int /\ interests[e] \in Int
    BY <1>3, <1>4
  <2> QED
    BY <1>3, <2>1, SumInt
<1>9. BondClaims(q) = sum(claims, rest) /\ BondInterests(q) = sum(interests, rest)
  <2> DEFINE c == [e \in DOMAIN q.bonds |-> SumClaimAmount(q.bonds[e].nfts)]
             i == [e \in DOMAIN q.bonds |-> q.bonds[e].interest]
  <2>1. \A e \in rest : /\ e \in DOMAIN q.bonds /\ e \in DOMAIN p.bonds
                       /\ q.bonds[e] = p.bonds[e]
    BY <1>1, <1>2, <1>3
  <2>2. \A e \in rest : /\ claims[e] = SumClaimAmount(p.bonds[e].nfts)
                       /\ interests[e] = p.bonds[e].interest
    BY <2>1 DEF claims, interests
  <2>3. \A e \in rest : /\ claims[e] \in Int /\ claims[e] = c[e]
                       /\ interests[e] \in Int /\ interests[e] = i[e]
    BY <1>4, <2>1, <2>2
  <2> HIDE DEF c, i
  <2>4. sum(claims, rest) = sum(c, rest) /\ sum(interests, rest) = sum(i, rest)
    BY <1>3, <2>3, SumAgree
  <2> QED
    BY <1>1, <1>2, <2>4 DEF BondClaims, BondInterests, c, i
<1>10. BondsSound(q)
  <2>1. BondsSound(p)
    BY DEF Costed
  <2>2. BondsSound(r)
    BY <2>1, CollectedBondsSound DEF r
  <2> QED
    BY <1>2, <2>2, BondsSoundSame
<1>11. q.bond_amount \in Int /\ BondClaims(q) <= q.bond_amount + BondInterests(q)
  <2>1. p.bond_amount \in Int /\ sum(claims, p.bond_epochs) <= p.bond_amount + sum(interests, p.bond_epochs)
    BY DEF Costed, BondClaims, BondInterests, claims, interests
  <2> HIDE DEF sum
  <2> QED
    BY <1>1, <1>2, <1>6, <1>7, <1>8, <1>9, <2>1
<1> QED
  BY <1>10, <1>11, SMTT(40) DEF Costed, q

LEMMA UpdateIndexAccrues ==
    ASSUME NEW p, NEW now \in Nat, Kept(p, now)
    PROVE  Accrued(p, UpdateIndex(p, now), now)
<1>1. CASE now = p.last_update
  <2>1. UpdateIndex(p, now) = p
    BY <1>1 DEF UpdateIndex, Kept
  <2>2. p.claim_nfts = {n \in p.claim_nfts : n.claim_epoch > now}
    BY <1>1 DEF Kept, Tracked
  <2> QED
    BY <1>1, <2>1, <2>2 DEF Accrued
<1>2. CASE now # p.last_update
  <2> DEFINE c == ClaimMaturedBonds(p, now)
             u == UpdateIndex(p, now)
  <2>1. /\ Kept(c, now)
        /\ \A e \in c.bond_epochs : e > now
        /\ c.claim_nfts = {n \in p.claim_nfts : n.claim_epoch > now}
    BY ClaimTakesTheDue, SMTT(40)
  <2>2. /\ IsPool(u)
        /\ u.last_update = now
        /\ u.bond_epochs = c.bond_epochs /\ u.bonds = c.bonds /\ u.claim_nfts = c.claim_nfts
        /\ u.bond_amount = c.bond_amount
    <3>1. IsPool(c)
      BY <2>1 DEF Kept
    <3>2. u = Accrue(c, now, CurrentDepositIndex(c, now), CurrentLoanIndex(c, now))
      BY <1>2 DEF UpdateIndex
    <3> QED
      BY <3>1, <3>2, PoolFieldNames, ZenonT(40) DEF Accrue, IsPool
  <2> HIDE DEF c, u
  <2>3. Kept(u, now)
    BY <2>1, <2>2 DEF Kept, Tracked
  <2>4. Costed(p) => Costed(u)
    <3> SUFFICES ASSUME Costed(p) PROVE Costed(u)
      OBVIOUS
    <3>1. Costed(c)
      BY ClaimStaysCosted DEF Kept, c
    <3> QED
      BY <2>2, <3>1, BondsSoundSame DEF Costed, BondClaims, BondInterests
  <2> QED
    BY <2>1, <2>2, <2>3, <2>4 DEF Accrued, u
<1> QED
  BY <1>1, <1>2

-----------------------------------------------------------------------------
(* What each method does to the claim NFTs *)

LEMMA AddLiquityAccrues ==
    ASSUME NEW p, NEW now \in Nat, Kept(p, now), NEW amount
    PROVE  Accrued(p, AddLiquity(p, now, amount), now)
<1> DEFINE u == UpdateIndex(p, now)
           v == Supplied(u, amount, MintAmount(u, amount))
<1>1. Accrued(p, u, now)
  BY UpdateIndexAccrues
<1>2. SameBook(u, v)
  BY <1>1, PoolFieldNames DEF Accrued, Kept, IsPool, SameBook, Supplied
<1>3. SameBook(v, UpdateInterestRate(v, now))
  BY <1>2, RatesKeepBook DEF SameBook
<1> QED
  BY <1>1, <1>2, <1>3, AccruedSame DEF AddLiquity

LEMMA RemoveLiquityAccrues ==
    ASSUME NEW p, NEW now \in Nat, Kept(p, now), NEW shares
    PROVE  Accrued(p, RemoveLiquity(p, now, shares), now)
<1> DEFINE u == UpdateIndex(p, now)
           v == [u EXCEPT !.share_supply = @ - shares]
           w == UpdateInterestRate(v, now)
           z == [w EXCEPT !.vault = @ - WithdrawAmount(u, now, shares)]
<1>1. Accrued(p, u, now)
  BY UpdateIndexAccrues
<1>2. SameBook(u, v)
  BY <1>1, PoolFieldNames DEF Accrued, Kept, IsPool, SameBook
<1>3. SameBook(v, w)
  BY <1>2, RatesKeepBook DEF SameBook
<1> HIDE DEF w
<1>4. SameBook(w, z)
  BY <1>3, PoolFieldNames DEF IsPool, SameBook
<1>5. RemoveLiquity(p, now, shares) = z
  BY DEF RemoveLiquity, Withdrawn, w
<1> QED
  BY <1>1, <1>2, <1>3, <1>4, <1>5, AccruedSame

LEMMA BorrowVariableAccrues ==
    ASSUME NEW p, NEW now \in Nat, Kept(p, now), NEW amount
    PROVE  Accrued(p, BorrowVariable(p, now, amount), now)
<1> DEFINE u == UpdateIndex(p, now)
           v == [u EXCEPT !.variable_loan_share_quantity = @ + VariableShare(u, amount)]
           w == UpdateInterestRate(v, now)
           z == [w EXCEPT !.vault = @ - FloorTo(amount, u.underlying_unit)]
<1>1. Accrued(p, u, now)
  BY UpdateIndexAccrues
<1>2. SameBook(u, v)
  BY <1>1, PoolFieldNames DEF Accrued, Kept, IsPool, SameBook
<1>3. SameBook(v, w)
  BY <1>2, RatesKeepBook DEF SameBook
<1> HIDE DEF w
<1>4. SameBook(w, z)
  BY <1>3, PoolFieldNames DEF IsPool, SameBook
<1>5. BorrowVariable(p, now, amount) = z
  BY DEF BorrowVariable, LentVariable, w
<1> QED
  BY <1>1, <1>2, <1>3, <1>4, <1>5, AccruedSame, SMTT(40)

LEMMA RepayVariableAccrues ==
    ASSUME NEW p, NEW now \in Nat, Kept(p, now), NEW bucket, NEW normalized, NEW limit
    PROVE  Accrued(p, RepayVariable(p, now, bucket, normalized, limit), now)
<1> DEFINE u == UpdateIndex(p, now)
           s == RepayVariableSplit(u, bucket, normalized, limit)
           v == [u EXCEPT !.variable_loan_share_quantity = @ - s.normalized,
                          !.vault = @ + s.paid]
           w == UpdateInterestRate(v, now)
<1>1. Accrued(p, u, now)
  BY UpdateIndexAccrues
<1>2. SameBook(u, v)
  BY <1>1, PoolFieldNames DEF Accrued, Kept, IsPool, SameBook
<1>3. SameBook(v, w)
  BY <1>2, RatesKeepBook DEF SameBook
<1> QED
  BY <1>1, <1>2, <1>3, AccruedSame, SMTT(40) DEF RepayVariable, PaidVariable

LEMMA BorrowStableAccrues ==
    ASSUME NEW p, NEW now \in Nat, Kept(p, now), NEW amount, NEW rate
    PROVE  Accrued(p, BorrowStable(p, now, amount, rate), now)
<1> DEFINE u == UpdateIndex(p, now)
           average == GetWeightRate(p.stable_loan_amount, p.stable_loan_interest_rate,
                                    amount, rate)
           v == [u EXCEPT !.stable_loan_interest_rate = average,
                          !.stable_loan_amount = @ + amount]
           w == UpdateInterestRate(v, now)
           z == [w EXCEPT !.vault = @ - FloorTo(amount, u.underlying_unit)]
<1>1. Accrued(p, u, now)
  BY UpdateIndexAccrues
<1>2. SameBook(u, v)
  BY <1>1, PoolFieldNames DEF Accrued, Kept, IsPool, SameBook
<1>3. SameBook(v, w)
  BY <1>2, RatesKeepBook DEF SameBook
<1> HIDE DEF w
<1>4. SameBook(w, z)
  BY <1>3, PoolFieldNames DEF IsPool, SameBook
<1>5. BorrowStable(p, now, amount, rate) = z
  BY DEF BorrowStable, LentStable, w
<1> QED
  BY <1>1, <1>2, <1>3, <1>4, <1>5, AccruedSame

\* repay_stable does not accrue.
LEMMA RepayStableSame ==
    ASSUME NEW p, NEW now, IsPool(p),
           NEW bucket, NEW loan, NEW rate, NEW last, NEW limit
    PROVE  SameBook(p, RepayStable(p, now, bucket, loan, rate, last, limit))
<1>1. ASSUME NEW s PROVE SameBook(p, PaidStable(p, now, s, rate))
  <2> DEFINE total == p.stable_loan_amount - s.in_borrow
             yearly == DMul(p.stable_loan_amount, p.stable_loan_interest_rate)
                         - DMul(s.in_borrow, rate)
             closes == s.in_borrow >= 0 /\ total <= 0
             v == [p EXCEPT !.stable_loan_amount = IF closes THEN 0 ELSE total,
                            !.stable_loan_interest_rate =
                                IF closes THEN 0 ELSE DDiv(yearly, total),
                            !.vault = @ + s.paid]
  <2>1. SameBook(p, v)
    <3> HIDE DEF total, yearly, closes
    <3> QED
      BY PoolFieldNames DEF IsPool, SameBook
  <2>2. IsPool(v)
    BY <2>1 DEF SameBook
  <2> HIDE DEF v
  <2>3. SameBook(p, UpdateInterestRate(v, now))
    BY <2>1, <2>2, RatesKeepBook, SameBookTransitive
  <2> QED
    BY <2>3 DEF PaidStable, v
<1> QED
  BY <1>1 DEF RepayStable

LEMMA BorrowFixedTermSame ==
    ASSUME NEW p, NEW amount, IsPool(p)
    PROVE  SameBook(p, BorrowFixedTerm(p, amount))
BY PoolFieldNames DEF IsPool, SameBook, BorrowFixedTerm

LEMMA WithdrawInsuranceSame ==
    ASSUME NEW p, NEW amount, IsPool(p)
    PROVE  SameBook(p, WithdrawInsurance(p, amount))
BY PoolFieldNames DEF IsPool, SameBook, WithdrawInsurance

\* Repaying a fixed-term loan accrues when there is a fee.
LEMMA RepayFixedTermAccruesOrSame ==
    ASSUME NEW p, NEW now \in Nat, Kept(p, now), NEW amount, NEW fee
    PROVE  LET q == RepayFixedTerm(p, now, amount, fee)
           IN  SameBook(p, q) \/ Accrued(p, q, now)
<1> DEFINE paid == [p EXCEPT !.vault = @ + FixedTermTotal(p, amount, fee)]
           u == UpdateIndex(paid, now)
           v == ShareOut(u, fee)
<1>1. SameBook(p, paid)
  BY PoolFieldNames DEF Kept, IsPool, SameBook
<1>2. Accrued(paid, u, now)
  BY <1>1, SameBookKept, UpdateIndexAccrues
<1>3. SameBook(u, v)
  BY <1>2, ShareOutKeepsBook DEF Accrued, Kept
<1>4. SameBook(v, UpdateInterestRate(v, now))
  BY <1>3, RatesKeepBook DEF SameBook
<1>5. Accrued(paid, UpdateInterestRate(v, now), now)
  BY <1>2, <1>3, <1>4, AccruedSame
<1>6. Accrued(p, UpdateInterestRate(v, now), now)
  BY <1>1, <1>5, SameBookCosted DEF Accrued, SameBook
<1>7. RepayFixedTerm(p, now, amount, fee) = IF fee <= 0 THEN paid ELSE UpdateInterestRate(v, now)
  BY DEF RepayFixedTerm
<1> QED
  BY <1>1, <1>6, <1>7

LEMMA AddFixedTermLists ==
    ASSUME NEW p, NEW now \in Nat, Kept(p, now), NEW nft, NEW interest,
           nft.claim_epoch \in Int, nft.claim_epoch > now
    PROVE  LET q == AddFixedTerm(p, nft, interest)
           IN  /\ Kept(q, now)
               /\ q.last_update = p.last_update
               /\ q.claim_nfts = p.claim_nfts \cup {nft}
<1> DEFINE q == AddFixedTerm(p, nft, interest)
           epoch_at == nft.claim_epoch
           known == IF epoch_at \in DOMAIN p.bonds THEN p.bonds[epoch_at] ELSE ClearedBond
<1>1. /\ IsPool(q)
      /\ q.last_update = p.last_update
      /\ q.bond_epochs = p.bond_epochs \cup {epoch_at}
      /\ q.claim_nfts = p.claim_nfts \cup {nft}
      /\ q.bonds = [e \in DOMAIN p.bonds \cup {epoch_at} |->
                       IF e = epoch_at
                       THEN [interest |-> known.interest + interest,
                             nfts |-> known.nfts \cup {nft}]
                       ELSE p.bonds[e]]
  BY PoolFieldNames DEF Kept, IsPool, AddFixedTerm
<1>2. known.nfts = IF epoch_at \in DOMAIN p.bonds THEN p.bonds[epoch_at].nfts ELSE {}
  BY DEF ClearedBond
<1> HIDE DEF q, known
<1>3. /\ DOMAIN q.bonds = DOMAIN p.bonds \cup {epoch_at}
      /\ q.bonds[epoch_at].nfts = known.nfts \cup {nft}
      /\ \A e \in DOMAIN p.bonds : e # epoch_at => q.bonds[e].nfts = p.bonds[e].nfts
  BY <1>1
<1>4. Tracked(q)
  BY <1>1, <1>2, <1>3 DEF Kept, Tracked
<1> QED
  BY <1>1, <1>4 DEF Kept, q

\* An NFT that is new to the pool raises bond_amount by what it cost.
LEMMA AddFixedTermCosted ==
    ASSUME NEW p, NEW now \in Nat, Kept(p, now), Costed(p),
           NEW nft, nft \notin p.claim_nfts, nft.claim_amount \in Nat, NEW interest \in Nat
    PROVE  Costed(AddFixedTerm(p, nft, interest))
<1> DEFINE q == AddFixedTerm(p, nft, interest)
           at == nft.claim_epoch
           amount == nft.claim_amount
           E == p.bond_epochs
           known == IF at \in DOMAIN p.bonds THEN p.bonds[at] ELSE ClearedBond
           bond == [interest |-> known.interest + interest, nfts |-> known.nfts \cup {nft}]
           claims == [e \in DOMAIN p.bonds |-> SumClaimAmount(p.bonds[e].nfts)]
           interests == [e \in DOMAIN p.bonds |-> p.bonds[e].interest]
           claims2 == [e \in DOMAIN q.bonds |-> SumClaimAmount(q.bonds[e].nfts)]
           interests2 == [e \in DOMAIN q.bonds |-> q.bonds[e].interest]
           sum(f, S) == SumFunctionOnSet(f, S)
<1>1. /\ q.bond_epochs = E \cup {at}
      /\ q.bonds = [e \in DOMAIN p.bonds \cup {at} |-> IF e = at THEN bond ELSE p.bonds[e]]
      /\ q.bond_amount = p.bond_amount + amount - interest
  BY PoolFieldNames DEF Kept, IsPool, AddFixedTerm
<1>2. BondsSound(p) /\ IsFiniteSet(E) /\ E \subseteq DOMAIN p.bonds /\ p.bond_amount \in Int
  BY DEF Costed, BondsSound
<1>3. BondsSound(q)
  BY <1>2, AddFixedTermBondsSound DEF Kept
<1>4. /\ IsFiniteSet(known.nfts) /\ \A n \in known.nfts : n.claim_amount \in Nat
      /\ known.interest \in Nat
  BY <1>2, FS_EmptySet DEF BondsSound, ClearedBond
<1>5. nft \notin known.nfts
  BY DEF Kept, Tracked, ClearedBond
<1>6. SumClaimAmount(bond.nfts) = SumClaimAmount(known.nfts) + amount
  <2> DEFINE f == [n \in bond.nfts |-> n.claim_amount]
             g == [n \in known.nfts |-> n.claim_amount]
  <2>1. bond.nfts = known.nfts \cup {nft}
    OBVIOUS
  <2>2. f[nft] = amount /\ \A n \in known.nfts : f[n] = g[n] /\ f[n] \in Int
    BY <1>4, <2>1
  <2>3. SumClaimAmount(bond.nfts) = sum(f, bond.nfts) /\ SumClaimAmount(known.nfts) = sum(g, known.nfts)
    BY SumClaimAmountIs
  <2> HIDE DEF f, g, known, bond
  <2>4. sum(f, known.nfts) = sum(g, known.nfts)
    BY <1>4, <2>2, SumAgree
  <2>5. f[nft] \in Int /\ \A n \in known.nfts : f[n] \in Int
    BY <2>2
  <2>6. sum(f, known.nfts \cup {nft}) = f[nft] + sum(f, known.nfts)
    BY ONLY <1>4, <1>5, <2>5, SumAdd
  <2>7. sum(g, known.nfts) \in Int
    BY <1>4, <2>2, <2>4, SumInt
  <2> QED
    BY <2>1, <2>2, <2>3, <2>4, <2>6, <2>7
<1>7. SumClaimAmount(known.nfts) \in Int
  BY <1>4, SumClaimAmountNat
<1> HIDE DEF q, known, bond
<1>8. ASSUME NEW e \in DOMAIN p.bonds, e # at
      PROVE  /\ claims[e] \in Int /\ claims2[e] = claims[e]
             /\ interests[e] \in Int /\ interests2[e] = interests[e]
  <2>1. SumClaimAmount(p.bonds[e].nfts) \in Nat /\ p.bonds[e].interest \in Nat
    BY <1>2, SumClaimAmountNat DEF BondsSound
  <2>2. q.bonds[e] = p.bonds[e] /\ e \in DOMAIN q.bonds
    BY <1>1, <1>8
  <2> QED
    BY <2>1, <2>2
<1>9. /\ claims2[at] = SumClaimAmount(known.nfts) + amount
      /\ interests2[at] = known.interest + interest
  BY <1>1, <1>6 DEF bond
<1>10. BondClaims(q) = sum(claims2, E \cup {at}) /\ BondInterests(q) = sum(interests2, E \cup {at})
  BY <1>1 DEF BondClaims, BondInterests
<1>11. BondClaims(p) = sum(claims, E) /\ BondInterests(p) = sum(interests, E)
  BY DEF BondClaims, BondInterests
<1>12. /\ sum(claims2, E \cup {at}) = sum(claims, E) + amount
       /\ sum(interests2, E \cup {at}) = sum(interests, E) + interest
       /\ sum(claims, E) \in Int /\ sum(interests, E) \in Int
  <2>1. CASE at \in E
    <3>1. at \in DOMAIN p.bonds /\ E \cup {at} = E
      BY <1>2, <2>1
    <3>2. claims[at] = SumClaimAmount(known.nfts) /\ interests[at] = known.interest
      BY <3>1 DEF known
    <3> HIDE DEF claims, claims2, interests, interests2
    <3>3. \A e \in E : /\ claims[e] \in Int /\ claims2[e] \in Int
                       /\ interests[e] \in Int /\ interests2[e] \in Int
      BY <1>2, <1>4, <1>7, <1>8, <1>9, <3>2
    <3>4. \A e \in E \ {at} : claims[e] = claims2[e] /\ interests[e] = interests2[e]
      BY <1>2, <1>8
    <3>5. /\ sum(claims2, E) = sum(claims, E) - claims[at] + claims2[at]
          /\ sum(interests2, E) = sum(interests, E) - interests[at] + interests2[at]
      BY <1>2, <2>1, <3>3, <3>4, SumChanged
    <3>6. sum(claims, E) \in Int /\ sum(interests, E) \in Int
      BY <1>2, <3>3, SumInt
    <3>7. /\ sum(claims2, E) = sum(claims, E) + amount
          /\ sum(interests2, E) = sum(interests, E) + interest
      <4> DEFINE was == SumClaimAmount(known.nfts)
      <4>1. was \in Int /\ amount \in Int /\ known.interest \in Int /\ interest \in Int
        BY <1>4, <1>7
      <4>2. /\ sum(claims2, E) = sum(claims, E) - was + (was + amount)
            /\ sum(interests2, E)
                 = sum(interests, E) - known.interest + (known.interest + interest)
        BY <1>9, <3>2, <3>5
      <4> HIDE DEF was, sum, amount
      <4> QED
        BY <3>6, <4>1, <4>2
    <3> QED
      BY <3>1, <3>6, <3>7
  <2>2. CASE at \notin E
    <3>1. known.nfts = {} /\ known.interest = 0
      <4>1. ASSUME at \in DOMAIN p.bonds PROVE p.bonds[at].nfts = {}
        BY <2>2, <4>1 DEF Kept, Tracked
      <4> QED
        BY <1>2, <4>1 DEF known, ClearedBond, BondsSound
    <3>2. SumClaimAmount(known.nfts) = 0
      BY <3>1, SumClaimAmountIs, SumEmpty
    <3>3. claims2[at] = amount /\ interests2[at] = interest
      BY <1>9, <3>1, <3>2
    <3> HIDE DEF claims, claims2, interests, interests2
    <3>4. \A e \in E : /\ claims[e] \in Int /\ claims[e] = claims2[e]
                       /\ interests[e] \in Int /\ interests[e] = interests2[e]
      BY <1>2, <1>8, <2>2
    <3>5. sum(claims, E) = sum(claims2, E) /\ sum(interests, E) = sum(interests2, E)
      BY <1>2, <3>4, SumAgree
    <3>6. \A e \in E : claims2[e] \in Int /\ interests2[e] \in Int
      BY <3>4
    <3>7. claims2[at] \in Int /\ interests2[at] \in Int
      BY <3>3
    <3>8. /\ sum(claims2, E \cup {at}) = claims2[at] + sum(claims2, E)
          /\ sum(interests2, E \cup {at}) = interests2[at] + sum(interests2, E)
      BY <1>2, <2>2, <3>6, <3>7, SumAdd
    <3>9. sum(claims, E) \in Int /\ sum(interests, E) \in Int
      BY <1>2, <3>4, SumInt
    <3> QED
      BY <3>3, <3>5, <3>8, <3>9
  <2> QED
    BY <2>1, <2>2
<1>13. q.bond_amount \in Int /\ BondClaims(q) <= q.bond_amount + BondInterests(q)
  <2>1. BondClaims(p) <= p.bond_amount + BondInterests(p)
    BY DEF Costed
  <2> HIDE DEF sum
  <2> QED
    BY <1>1, <1>2, <1>10, <1>11, <1>12, <2>1
<1> QED
  BY <1>3, <1>13 DEF Costed, q

-----------------------------------------------------------------------------
(* Steps *)

\* The three things a step may do to the claim NFTs, or time passes.
BookStep ==
    \/ SameBook(pool, pool') /\ epoch' = epoch
    \/ Accrued(pool, pool', epoch) /\ epoch' = epoch
    \/ /\ Kept(pool', epoch) /\ epoch' = epoch
       /\ pool'.last_update = pool.last_update
       /\ \E nft : /\ nft.claim_epoch > epoch
                   /\ pool'.claim_nfts = pool.claim_nfts \cup {nft}
    \/ pool' = pool /\ epoch' = epoch + 1

LEMMA OfferedNotDue ==
    ASSUME epoch \in Nat, NEW nft \in OfferedNfts
    PROVE  nft.claim_epoch \in Int /\ nft.claim_epoch > epoch
BY LendingPoolAssumption DEF OfferedNfts

LEMMA EveryStepIsABookStep ==
    ASSUME BookInv, [Next]_vars
    PROVE  BookStep \/ UNCHANGED <<pool, epoch>>
<1> USE DEF BookInv
<1>0. IsPool(pool)
  BY DEF Kept
<1>1. ASSUME NEW amount \in Deposits, Supply(amount) PROVE BookStep
  BY <1>1, AddLiquityAccrues DEF Supply, BookStep
<1>2. ASSUME NEW shares \in Parts(pool.share_supply), Withdraw(shares) PROVE BookStep
  BY <1>2, RemoveLiquityAccrues DEF Withdraw, BookStep
<1>3. ASSUME NEW amount \in Loans, TakeVariable(amount) PROVE BookStep
  BY <1>3, BorrowVariableAccrues DEF TakeVariable, BookStep
<1>4. ASSUME NEW bucket \in Repayments,
             NEW normalized \in Parts(pool.variable_loan_share_quantity),
             PayVariable(bucket, normalized)
      PROVE  BookStep
  BY <1>4, RepayVariableAccrues DEF PayVariable, BookStep
<1>5. ASSUME NEW b \in Borrower, NEW amount \in StableLoans, TakeStable(b, amount)
      PROVE  BookStep
  BY <1>5, BorrowStableAccrues DEF TakeStable, BookStep
<1>6. ASSUME NEW b \in Borrower, NEW bucket \in Repayments, PayStable(b, bucket)
      PROVE  BookStep
  BY <1>0, <1>6, RepayStableSame DEF PayStable, BookStep
<1>7. ASSUME NEW amount \in FlashLoans, TakeFlash(amount) PROVE BookStep
  BY <1>0, <1>7, BorrowFixedTermSame DEF TakeFlash, BookStep
<1>8. ASSUME PayFlash PROVE BookStep
  BY <1>8, RepayFixedTermAccruesOrSame DEF PayFlash, BookStep
<1>9. ASSUME NEW nft \in OfferedNfts, SellClaim(nft) PROVE BookStep
  <2> DEFINE interest == DiscountedInterest(nft)
             lent == BorrowFixedTerm(pool, nft.claim_amount - interest)
  <2>1. SameBook(pool, lent)
    BY <1>0, BorrowFixedTermSame
  <2>2. Kept(lent, epoch)
    BY <2>1, SameBookKept
  <2>3. nft.claim_epoch \in Int /\ nft.claim_epoch > epoch
    BY OfferedNotDue
  <2>4. pool' = AddFixedTerm(lent, nft, interest) /\ epoch' = epoch
    BY <1>9 DEF SellClaim
  <2> HIDE DEF lent, interest
  <2>5. /\ Kept(pool', epoch)
        /\ pool'.last_update = lent.last_update
        /\ pool'.claim_nfts = lent.claim_nfts \cup {nft}
    BY <2>2, <2>3, <2>4, AddFixedTermLists
  <2> QED
    BY <2>1, <2>3, <2>4, <2>5 DEF BookStep, SameBook
<1>10. ASSUME NEW amount \in Parts(pool.insurance_balance - 1), DrawInsurance(amount)
       PROVE  BookStep
  BY <1>0, <1>10, WithdrawInsuranceSame DEF DrawInsurance, BookStep
<1>11. ASSUME NextEpoch PROVE BookStep
  BY <1>11 DEF NextEpoch, BookStep
<1>12. ASSUME UNCHANGED vars PROVE UNCHANGED <<pool, epoch>>
  BY <1>12 DEF vars
<1> QED
  BY <1>1, <1>2, <1>3, <1>4, <1>5, <1>6, <1>7, <1>8, <1>9, <1>10, <1>11, <1>12 DEF Next

LEMMA BookInvInit == Init => BookInv
BY NewPoolKept, LendingPoolAssumption DEF Init, BookInv

LEMMA BookInvStep == BookInv /\ [Next]_vars => BookInv'
<1> SUFFICES ASSUME BookInv, [Next]_vars PROVE BookInv'
  OBVIOUS
<1>1. CASE BookStep
  <2>1. CASE SameBook(pool, pool') /\ epoch' = epoch
    BY <2>1, SameBookKept DEF BookInv
  <2>2. CASE Accrued(pool, pool', epoch) /\ epoch' = epoch
    BY <2>2 DEF Accrued, BookInv
  <2>3. CASE Kept(pool', epoch) /\ epoch' = epoch
    BY <2>3 DEF BookInv
  <2>4. CASE pool' = pool /\ epoch' = epoch + 1
    BY <2>4 DEF BookInv, Kept
  <2> QED
    BY <1>1, <2>1, <2>2, <2>3, <2>4 DEF BookStep
<1>2. CASE UNCHANGED <<pool, epoch>>
  BY <1>2 DEF BookInv
<1> QED
  BY <1>1, <1>2, EveryStepIsABookStep

-----------------------------------------------------------------------------
(* Theorems *)

LEMMA BookInvariant == Spec => []BookInv
<1>1. Init => BookInv
  BY BookInvInit
<1>2. BookInv /\ [Next]_vars => BookInv'
  BY BookInvStep
<1> QED
  BY <1>1, <1>2, PTL DEF Spec

\* No claim NFT is ever lost to the pool: each one in the vaults is listed in the
\* bond of its claim epoch, which is queued (add_fixed_term, claim_matured_bonds).
THEOREM NoClaimStranded == Spec => []BondsTracked
<1>1. BookInv => BondsTracked
  BY DEF BookInv, Kept, Tracked, BondsTracked
<1> QED
  BY <1>1, BookInvariant, PTL

\* No accrual leaves a due bond behind: every queued epoch is after last_update,
\* which is never in the future (update_index, claim_matured_bonds).
THEOREM DueClaimsCollected == Spec => []MaturedCollected
<1>1. BookInv => MaturedCollected
  BY DEF BookInv, Kept, Tracked, MaturedCollected
<1> QED
  BY <1>1, BookInvariant, PTL

\* Whatever the calls and their order, the claim NFTs of a pool behave as a
\* ClaimBook: they come in before they are due and leave, all that are due and
\* only those, with an accrual.
THEOREM PoolImplementsClaimBook == Spec => ImplementsClaimBook
<1>1. Init => Book!Init
  BY LendingPoolAssumption DEF Init, NewPool, Book!Init
<1>2. BookInv /\ [Next]_vars => [Book!Next]_Book!bookVars
  <2> SUFFICES ASSUME BookInv, [Next]_vars PROVE [Book!Next]_Book!bookVars
    OBVIOUS
  <2>1. CASE SameBook(pool, pool') /\ epoch' = epoch
    BY <2>1 DEF SameBook, Book!bookVars
  <2>2. CASE Accrued(pool, pool', epoch) /\ epoch' = epoch
    BY <2>2 DEF Accrued, Book!Next, Book!Accrue
  <2>3. CASE /\ epoch' = epoch /\ pool'.last_update = pool.last_update
             /\ \E nft : /\ nft.claim_epoch > epoch
                         /\ pool'.claim_nfts = pool.claim_nfts \cup {nft}
    <3>1. PICK nft : /\ nft.claim_epoch > epoch
                     /\ pool'.claim_nfts = pool.claim_nfts \cup {nft}
      BY <2>3
    <3>2. CASE nft \in pool.claim_nfts
      BY <2>3, <3>1, <3>2 DEF Book!bookVars
    <3>3. CASE nft \notin pool.claim_nfts
      BY <2>3, <3>1, <3>3 DEF Book!Next, Book!Lend
    <3> QED
      BY <3>2, <3>3
  <2>4. CASE pool' = pool /\ epoch' = epoch + 1
    BY <2>4 DEF BookInv, Book!Next, Book!Tick
  <2>5. CASE UNCHANGED <<pool, epoch>>
    BY <2>5 DEF Book!bookVars
  <2> QED
    BY <2>1, <2>2, <2>3, <2>4, <2>5, EveryStepIsABookStep DEF BookStep
<1> QED
  BY <1>1, <1>2, BookInvariant, PTL DEF Spec, Book!Spec, ImplementsClaimBook

-----------------------------------------------------------------------------
(* The amounts, rates and indices, as long as the average of the rates of  *)
(* the stable loans does not fall below zero (RateKept).  It is rounded at *)
(* every loan and every payment and what is left of it may be negative,    *)
(* and every rate and index with it.  Without stable loans it is zero.     *)

RateKept == pool.stable_loan_interest_rate >= 0

\* The stable loans: their amounts and rates are not negative, none is from the
\* future, and the pool counts their sum.
DebtsSound ==
    /\ stable_debts \in [Borrower -> [amount : Nat, rate : Nat, last : Nat]]
    /\ \A b \in Borrower : stable_debts[b].last <= epoch
    /\ StableTotalMatches

PoolInv ==
    /\ BookInv
    /\ PoolSound(pool)
    /\ Costed(pool)
    /\ pool.claim_nfts \subseteq ClaimNft
    /\ epoch \in StartEpoch .. MaxEpoch
    /\ DebtsSound
    /\ flash \in [amount : Nat, fee : Nat]
    /\ insurance_draws \in 0 .. MaxInsuranceDraws
    /\ calls \in 0 .. MaxCalls

LEMMA EpochNat ==
    ASSUME PoolInv
    PROVE  /\ epoch \in Nat /\ pool.last_update \in Nat /\ pool.last_update <= epoch
           /\ PoolSound(pool)
BY LendingPoolAssumption DEF PoolInv, BookInv, Kept, PoolSound

\* The surplus of a pool over its deposits.
Surplus(p) == ONE * p.vault - p.share_supply * p.deposit_index

\* What a step may do to a pool.
SoundStep ==
    /\ PoolSound(pool')
    /\ pool'.share_supply # pool.share_supply =>
          Surplus(UpdateIndex(pool, epoch)) <= Surplus(pool')

\* A step that leaves the stable loans alone.
CalmStep ==
    /\ SoundStep
    /\ pool'.stable_loan_amount = pool.stable_loan_amount

LEMMA PartsBounds ==
    ASSUME NEW quantity \in Int, NEW part \in Parts(quantity)
    PROVE  part \in Nat /\ part <= quantity
BY DEF Parts

LEMMA UpdatedPool ==
    ASSUME PoolInv, CanAccrue(pool, epoch)
    PROVE  LET u == UpdateIndex(pool, epoch)
           IN  /\ PoolSound(u) /\ u.last_update = epoch
               /\ u.share_supply = pool.share_supply
               /\ u.variable_loan_share_quantity = pool.variable_loan_share_quantity
               /\ u.stable_loan_amount = pool.stable_loan_amount
               /\ u.underlying_unit = pool.underlying_unit
               /\ pool.vault <= u.vault
<1>1. /\ epoch \in Nat /\ pool.last_update <= epoch /\ PoolSound(pool)
  BY EpochNat
<1> QED
  BY <1>1, UpdateIndexSound, PoolFieldNames DEF Keeps, BookFields, AccruedFields

LEMMA SupplyStep ==
    ASSUME PoolInv, NEW amount \in Deposits, Supply(amount)
    PROVE  CalmStep
<1> DEFINE u == UpdateIndex(pool, epoch)
           minted == MintAmount(u, amount)
<1>1. amount \in Nat /\ epoch \in Nat
  BY EpochNat, LendingPoolAssumption
<1>2. /\ PoolSound(u) /\ u.last_update = epoch /\ u.share_supply = pool.share_supply
      /\ u.stable_loan_amount = pool.stable_loan_amount
  BY UpdatedPool DEF Supply, CanAddLiquity
<1>3. pool' = UpdateInterestRate(Supplied(u, amount, minted), epoch)
  BY DEF Supply, AddLiquity
<1> HIDE DEF u, minted
<1>4. /\ PoolSound(pool')
      /\ Keeps(u, pool', MovedFields({"vault", "share_supply"}))
      /\ pool'.vault = u.vault + amount
      /\ pool'.share_supply = u.share_supply + minted
  BY <1>1, <1>2, <1>3, SupplySound DEF minted
<1>5. /\ pool'.deposit_index = u.deposit_index
      /\ pool'.stable_loan_amount = u.stable_loan_amount
  BY <1>4, PoolFieldNames DEF Keeps, MovedFields, RateFields
<1>6. minted \in Nat /\ minted * u.deposit_index <= amount * ONE
  BY <1>1, <1>2, MintAmountBounds DEF minted
<1>7. Surplus(u) <= Surplus(pool')
  <2> DEFINE di == u.deposit_index
             v == u.vault
             s == u.share_supply
  <2>1. ONE \in Nat /\ di \in Nat /\ v \in Nat /\ s \in Nat
    BY <1>2, DecimalAssumption DEF PoolSound
  <2>2. Surplus(u) = ONE * v - s * di /\ Surplus(pool') = ONE * (v + amount) - (s + minted) * di
    BY <1>4, <1>5 DEF Surplus
  <2> HIDE DEF di, v, s
  <2>3. ONE * (v + amount) = ONE * v + amount * ONE /\ (s + minted) * di = s * di + minted * di
    BY <1>1, <1>6, <2>1
  <2>4. minted * di <= amount * ONE
    BY <1>6 DEF di
  <2>5. ONE * v \in Int /\ amount * ONE \in Int /\ s * di \in Int /\ minted * di \in Int
    BY <1>1, <1>6, <2>1
  <2> QED
    BY <2>2, <2>3, <2>4, <2>5
<1> QED
  BY <1>2, <1>4, <1>5, <1>7 DEF CalmStep, SoundStep, u

LEMMA WithdrawStep ==
    ASSUME PoolInv, NEW shares \in Parts(pool.share_supply), Withdraw(shares)
    PROVE  CalmStep
<1> DEFINE u == UpdateIndex(pool, epoch)
           paid == WithdrawAmount(u, epoch, shares)
<1>1. shares \in Nat /\ shares <= pool.share_supply /\ epoch \in Nat
  BY EpochNat, PartsBounds DEF PoolInv, PoolSound
<1>2. /\ PoolSound(u) /\ u.last_update = epoch /\ u.share_supply = pool.share_supply
      /\ u.stable_loan_amount = pool.stable_loan_amount
  BY UpdatedPool DEF Withdraw, CanRemoveLiquity
<1>3. pool' = Withdrawn(u, epoch, shares) /\ u.vault >= paid
  BY DEF Withdraw, RemoveLiquity, CanRemoveLiquity
<1> HIDE DEF u, paid
<1>4. paid \in Nat /\ ONE * paid <= shares * u.deposit_index
  BY <1>1, <1>2, WithdrawAmountBounds DEF paid
<1>5. /\ PoolSound(pool')
      /\ Keeps(u, pool', MovedFields({"vault", "share_supply"}))
      /\ pool'.vault = u.vault - paid
      /\ pool'.share_supply = u.share_supply - shares
  BY <1>1, <1>2, <1>3, <1>4, WithdrawSound DEF paid
<1>6. /\ pool'.deposit_index = u.deposit_index
      /\ pool'.stable_loan_amount = u.stable_loan_amount
  BY <1>5, PoolFieldNames DEF Keeps, MovedFields, RateFields
<1>7. Surplus(u) <= Surplus(pool')
  <2> DEFINE di == u.deposit_index
             v == u.vault
             s == u.share_supply
  <2>1. ONE \in Nat /\ di \in Nat /\ v \in Nat /\ s \in Nat
    BY <1>2, DecimalAssumption DEF PoolSound
  <2>2. Surplus(u) = ONE * v - s * di /\ Surplus(pool') = ONE * (v - paid) - (s - shares) * di
    BY <1>5, <1>6 DEF Surplus
  <2> HIDE DEF di, v, s
  <2>3. ONE * (v - paid) = ONE * v - ONE * paid /\ (s - shares) * di = s * di - shares * di
    BY <1>1, <1>4, <2>1
  <2>4. ONE * paid <= shares * di
    BY <1>4 DEF di
  <2>5. ONE * v \in Int /\ ONE * paid \in Int /\ s * di \in Int /\ shares * di \in Int
    BY <1>1, <1>4, <2>1
  <2> QED
    BY <2>2, <2>3, <2>4, <2>5
<1> QED
  BY <1>2, <1>5, <1>6, <1>7 DEF CalmStep, SoundStep, u

LEMMA TakeVariableStep ==
    ASSUME PoolInv, NEW amount \in Loans, TakeVariable(amount)
    PROVE  CalmStep
<1> DEFINE u == UpdateIndex(pool, epoch)
<1>1. amount \in Nat /\ epoch \in Nat
  BY EpochNat, LendingPoolAssumption
<1>2. /\ PoolSound(u) /\ u.last_update = epoch /\ u.share_supply = pool.share_supply
      /\ u.stable_loan_amount = pool.stable_loan_amount
      /\ pool.vault <= u.vault
  BY UpdatedPool DEF TakeVariable, CanBorrowVariable
<1>3. pool' = LentVariable(u, epoch, amount) /\ amount <= pool.vault
  BY DEF TakeVariable, BorrowVariable, CanBorrowVariable
<1>4. pool.vault \in Int
  BY EpochNat DEF PoolSound
<1> HIDE DEF u
<1>5. amount <= u.vault
  BY <1>1, <1>2, <1>3, <1>4 DEF PoolSound
<1>6. /\ PoolSound(pool')
      /\ Keeps(u, pool', MovedFields({"vault", "variable_loan_share_quantity"}))
  BY <1>1, <1>2, <1>3, <1>5, LentVariableSound
<1>7. /\ pool'.share_supply = u.share_supply
      /\ pool'.stable_loan_amount = u.stable_loan_amount
  BY <1>6, PoolFieldNames DEF Keeps, MovedFields, RateFields
<1> QED
  BY <1>2, <1>6, <1>7 DEF CalmStep, SoundStep

LEMMA PayVariableStep ==
    ASSUME PoolInv, NEW bucket \in Repayments,
           NEW normalized \in Parts(pool.variable_loan_share_quantity),
           PayVariable(bucket, normalized)
    PROVE  CalmStep
<1> DEFINE u == UpdateIndex(pool, epoch)
           s == RepayVariableSplit(u, bucket, normalized, {})
<1>1. /\ bucket \in Nat /\ epoch \in Nat /\ normalized \in Nat
      /\ normalized <= pool.variable_loan_share_quantity
  BY EpochNat, PartsBounds, LendingPoolAssumption DEF PoolInv, PoolSound
<1>2. /\ PoolSound(u) /\ u.last_update = epoch /\ u.share_supply = pool.share_supply
      /\ u.stable_loan_amount = pool.stable_loan_amount
      /\ u.variable_loan_share_quantity = pool.variable_loan_share_quantity
      /\ u.underlying_unit = pool.underlying_unit
  BY UpdatedPool DEF PayVariable, CanRepayVariable
<1>3. pool' = PaidVariable(u, epoch, s) /\ IsMultiple(s.paid, pool.underlying_unit)
  BY DEF PayVariable, RepayVariable, CanRepayVariable, CanTake
<1> HIDE DEF u
<1>4. s.paid \in Nat /\ s.normalized \in Nat /\ s.normalized <= normalized
  <2>1. {} \in Limits
    BY DEF Limits
  <2> QED
    BY <1>1, <1>2, <1>3, <2>1, RepaySplitBounds
<1> HIDE DEF s
<1>5. s.normalized <= u.variable_loan_share_quantity
  BY <1>1, <1>2, <1>4 DEF PoolSound
<1>6. /\ PoolSound(pool')
      /\ Keeps(u, pool', MovedFields({"vault", "variable_loan_share_quantity"}))
  BY <1>1, <1>2, <1>3, <1>4, <1>5, PaidVariableSound
<1>7. /\ pool'.share_supply = u.share_supply
      /\ pool'.stable_loan_amount = u.stable_loan_amount
  BY <1>6, PoolFieldNames DEF Keeps, MovedFields, RateFields
<1> QED
  BY <1>2, <1>6, <1>7 DEF CalmStep, SoundStep

LEMMA TakeFlashStep ==
    ASSUME PoolInv, NEW amount \in FlashLoans, TakeFlash(amount)
    PROVE  CalmStep /\ flash' \in [amount : Nat, fee : Nat]
<1>1. amount \in Nat /\ PoolSound(pool) /\ amount <= pool.vault
  BY EpochNat, LendingPoolAssumption DEF TakeFlash, CanBorrowFixedTerm
<1>2. PoolSound(pool') /\ Keeps(pool, pool', {"vault"})
  BY <1>1, BorrowFixedTermSound DEF TakeFlash
<1> DEFINE lent == FloorTo(amount, pool.underlying_unit)
<1>3. lent \in Nat
  <2> DEFINE unit == pool.underlying_unit
  <2>1. unit \in Nat \ {0} /\ amount \in Int /\ amount >= 0
    BY <1>1 DEF PoolSound
  <2> HIDE DEF unit
  <2>2. FloorTo(amount, unit) \in Int /\ FloorTo(amount, unit) >= 0
    BY <2>1, FloorToBounds
  <2> QED
    BY <2>2 DEF unit
<1>4. flash' = [amount |-> lent, fee |-> DMul(lent, pool.flashloan_fee_ratio)]
  BY DEF TakeFlash
<1> HIDE DEF lent
<1>5. DMul(lent, pool.flashloan_fee_ratio) \in Nat
  BY <1>1, <1>3, DMulNat DEF PoolSound
<1>6. CalmStep
  BY <1>1, <1>2, PoolFieldNames DEF CalmStep, SoundStep, Keeps, TakeFlash
<1> QED
  BY <1>3, <1>4, <1>5, <1>6

LEMMA PayFlashStep ==
    ASSUME PoolInv, PayFlash
    PROVE  CalmStep
<1>1. /\ epoch \in Nat /\ pool.last_update <= epoch /\ PoolSound(pool)
      /\ flash.amount \in Nat /\ flash.fee \in Nat
  BY EpochNat DEF PoolInv
<1> DEFINE q == RepayFixedTerm(pool, epoch, flash.amount, flash.fee)
           bucket == FixedTermTotal(pool, flash.amount, flash.fee)
<1>2. CanRepayFixedTerm(pool, epoch, bucket, flash.amount, flash.fee) /\ pool' = q
  BY DEF PayFlash
<1>3. FixedTermRepaid(pool, q, flash.fee, epoch)
  BY <1>1, <1>2, RepayFixedTermSound
<1> HIDE DEF q
<1> QED
  BY <1>2, <1>3 DEF CalmStep, SoundStep, FixedTermRepaid

\* The price of a claim NFT is between nothing and its value.
LEMMA ClaimPrice ==
    ASSUME PoolInv, NEW nft \in OfferedNfts, SellClaim(nft)
    PROVE  /\ nft.claim_amount \in Nat /\ DiscountedInterest(nft) \in Nat
           /\ nft.claim_amount - DiscountedInterest(nft) \in Nat
<1> DEFINE amount == nft.claim_amount
           rate == PoolInterestRate(pool, epoch, amount).stable
           wait == nft.claim_epoch - epoch
<1>1. /\ epoch \in Nat /\ pool.last_update <= epoch /\ PoolSound(pool)
      /\ CanAccrue(pool, epoch)
  BY EpochNat DEF SellClaim
<1>2. amount \in Nat /\ wait \in Nat
  <2>1. amount \in ClaimAmounts
    BY DEF OfferedNfts
  <2>2. nft.claim_epoch \in Int /\ nft.claim_epoch > epoch
    BY <1>1, OfferedNotDue
  <2> QED
    BY <1>1, <2>1, <2>2, LendingPoolAssumption
<1> HIDE DEF amount
<1>3. rate \in Nat
  BY <1>1, <1>2, PoolInterestRateNat
<1> HIDE DEF rate, wait
<1>4. CalcPrincipal(amount, rate, wait) \in Nat /\ CalcPrincipal(amount, rate, wait) <= amount
  BY <1>2, <1>3, PrincipalBelowAmount
<1>5. DiscountedInterest(nft) = amount - CalcPrincipal(amount, rate, wait)
  BY DEF DiscountedInterest, amount, rate, wait
<1> DEFINE principal == CalcPrincipal(amount, rate, wait)
<1> HIDE DEF principal
<1>6. principal \in Nat /\ principal <= amount /\ DiscountedInterest(nft) = amount - principal
  BY <1>4, <1>5 DEF principal
<1> QED
  BY <1>2, <1>6 DEF amount

LEMMA SellClaimStep ==
    ASSUME PoolInv, NEW nft \in OfferedNfts, SellClaim(nft)
    PROVE  CalmStep /\ Costed(pool')
<1> DEFINE interest == DiscountedInterest(nft)
           price == nft.claim_amount - interest
           lent == BorrowFixedTerm(pool, price)
<1>1. nft.claim_amount \in Nat /\ interest \in Nat /\ price \in Nat
  BY ClaimPrice
<1>2. pool' = AddFixedTerm(lent, nft, interest) /\ price <= pool.vault /\ nft \notin pool.claim_nfts
  BY DEF SellClaim, CanBorrowFixedTerm
<1> HIDE DEF interest, price
<1>3. PoolSound(lent) /\ Keeps(pool, lent, {"vault"})
  BY <1>1, <1>2, EpochNat, BorrowFixedTermSound
<1>4. SameBook(pool, lent) /\ Kept(lent, epoch) /\ Costed(lent)
  <2>1. SameBook(pool, lent)
    BY BorrowFixedTermSame DEF PoolInv, PoolSound
  <2> HIDE DEF lent
  <2> QED
    BY <2>1, SameBookKept, SameBookCosted DEF PoolInv, BookInv
<1> HIDE DEF lent
<1>5. /\ PoolSound(pool')
      /\ Keeps(lent, pool', {"bonds", "bond_epochs", "claim_nfts", "bond_amount"})
  BY <1>1, <1>2, <1>3, AddFixedTermSound
<1>6. /\ pool'.share_supply = pool.share_supply
      /\ pool'.stable_loan_amount = pool.stable_loan_amount
  BY <1>3, <1>5, PoolFieldNames DEF Keeps
<1>7. Costed(pool')
  <2>1. nft \notin lent.claim_nfts
    BY <1>2, <1>4 DEF SameBook
  <2> QED
    BY <1>1, <1>2, <1>4, <2>1, EpochNat, AddFixedTermCosted
<1> QED
  BY <1>5, <1>6, <1>7 DEF CalmStep, SoundStep

LEMMA DrawInsuranceStep ==
    ASSUME PoolInv, NEW amount \in Parts(pool.insurance_balance - 1), DrawInsurance(amount)
    PROVE  CalmStep
<1>1. PoolSound(pool)
  BY EpochNat
<1>2. amount \in Nat
  BY <1>1, PartsBounds DEF PoolSound
<1>3. amount <= pool.vault
  BY DEF DrawInsurance, CanWithdrawInsurance
<1>4. PoolSound(pool') /\ Keeps(pool, pool', {"vault"})
  BY <1>1, <1>2, <1>3, WithdrawInsuranceSound DEF DrawInsurance
<1> QED
  BY <1>4, PoolFieldNames DEF CalmStep, SoundStep, Keeps

\* The pool holds MaxNfts claim NFTs at most, so that an identifier is free, and
\* what is offered under it is a claim NFT.
LEMMA OfferedIsClaimNft ==
    ASSUME PoolInv, NEW nft \in OfferedNfts
    PROVE  nft \in ClaimNft
<1> DEFINE Free(i) == \A n \in pool.claim_nfts : n.id # i
           Taken(i) == \E n \in pool.claim_nfts : n.id = i
           F == {i \in 1 .. (MaxNfts + 1) : Free(i)}
<1>1. F # {} /\ F \in SUBSET Nat
  <2>1. MaxNfts + 1 \in 1 .. (MaxNfts + 1)
    BY LendingPoolAssumption
  <2>2. Free(MaxNfts + 1)
    <3> SUFFICES ASSUME NEW n \in pool.claim_nfts PROVE n.id # MaxNfts + 1
      OBVIOUS
    <3>1. n.id \in 1 .. MaxNfts
      BY DEF PoolInv, ClaimNft
    <3> QED
      BY <3>1, LendingPoolAssumption
  <2> QED
    BY <2>1, <2>2
<1>2. PICK i \in F : \A j \in F : i <= j
  <2> HIDE DEF F
  <2> QED
    BY <1>1, LeastNatural
<1>3. \A j \in 1 .. (i - 1) : Taken(j)
  <2> SUFFICES ASSUME NEW j \in 1 .. (i - 1) PROVE Taken(j)
    OBVIOUS
  <2>1. j \in 1 .. (MaxNfts + 1) /\ ~ (i <= j)
    BY LendingPoolAssumption
  <2> QED
    BY <1>2, <2>1
<1>4. FreeNftId \in 1 .. (MaxNfts + 1)
  BY <1>2, <1>3 DEF FreeNftId
<1>5. /\ nft \in [id : {FreeNftId}, validator : Validator,
                  claim_epoch : (epoch + 1) .. (epoch + UnbondEpochs), claim_amount : ClaimAmounts]
      /\ nft.id <= MaxNfts
  BY DEF OfferedNfts
<1>6. nft.id \in 1 .. MaxNfts
  BY <1>4, <1>5, LendingPoolAssumption
<1>7. nft.claim_epoch \in StartEpoch .. (MaxEpoch + UnbondEpochs)
  <2>1. /\ epoch \in StartEpoch .. MaxEpoch
        /\ nft.claim_epoch \in (epoch + 1) .. (epoch + UnbondEpochs)
    BY <1>5 DEF PoolInv
  <2> QED
    BY <2>1, LendingPoolAssumption
<1> QED
  BY <1>5, <1>6, <1>7 DEF ClaimNft

(* Stable loans *)

Amounts(debts) == [b \in Borrower |-> debts[b].amount]

\* The total is a sum over the borrowers; one loan is part of it.
LEMMA StableTotal ==
    ASSUME DebtsSound
    PROVE  /\ StableTotalMatches
                <=> pool.stable_loan_amount = SumFunctionOnSet(Amounts(stable_debts), Borrower)
           /\ \A b \in Borrower : Amounts(stable_debts)[b] \in Nat
           /\ \A b \in Borrower : stable_debts[b].amount <= pool.stable_loan_amount
<1> DEFINE f == Amounts(stable_debts)
<1>1. SumFunction(f) = SumFunctionOnSet(f, DOMAIN f)
  BY Zenon DEF SumFunction
<1>2. DOMAIN f = Borrower /\ IsFiniteSet(Borrower)
  BY LendingPoolAssumption DEF Amounts
<1>3. \A b \in Borrower : f[b] \in Nat /\ f[b] = stable_debts[b].amount
  BY DEF DebtsSound, Amounts
<1>4. StableTotalMatches <=> pool.stable_loan_amount = SumFunctionOnSet(f, Borrower)
  BY <1>1, <1>2 DEF StableTotalMatches, Amounts
<1>5. \A b \in Borrower : f[b] <= SumFunctionOnSet(f, Borrower)
  <2> HIDE DEF f
  <2> QED
    BY <1>2, <1>3, SumMember
<1> QED
  BY <1>3, <1>4, <1>5 DEF DebtsSound

\* One loan changes, and the total by as much.
LEMMA OneDebtChanged ==
    ASSUME DebtsSound, NEW b \in Borrower, NEW d \in [amount : Nat, rate : Nat, last : Nat],
           d.last <= epoch, epoch' = epoch,
           stable_debts' = [stable_debts EXCEPT ![b] = d],
           pool'.stable_loan_amount
             = pool.stable_loan_amount - stable_debts[b].amount + d.amount
    PROVE  DebtsSound'
<1> DEFINE f == Amounts(stable_debts)
           g == Amounts(stable_debts')
<1>1. /\ pool.stable_loan_amount = SumFunctionOnSet(f, Borrower)
      /\ \A c \in Borrower : f[c] \in Nat /\ f[c] = stable_debts[c].amount
  BY StableTotal DEF DebtsSound, Amounts
<1>2. /\ stable_debts' \in [Borrower -> [amount : Nat, rate : Nat, last : Nat]]
      /\ \A c \in Borrower : stable_debts'[c] = IF c = b THEN d ELSE stable_debts[c]
  BY DEF DebtsSound
<1>3. \A c \in Borrower : g[c] = IF c = b THEN d.amount ELSE f[c]
  BY <1>1, <1>2 DEF Amounts
<1>4. SumFunctionOnSet(g, Borrower) = SumFunctionOnSet(f, Borrower) - f[b] + g[b]
  <2>1. /\ \A c \in Borrower : f[c] \in Int /\ g[c] \in Int
        /\ \A c \in Borrower \ {b} : f[c] = g[c]
    <3>1. d.amount \in Int /\ \A c \in Borrower : f[c] \in Int
      BY <1>1
    <3> HIDE DEF f, g
    <3> QED
      BY <1>3, <3>1
  <2> HIDE DEF f, g
  <2> QED
    BY <2>1, SumChanged, LendingPoolAssumption
<1>5. pool'.stable_loan_amount = SumFunctionOnSet(g, Borrower)
  BY <1>1, <1>3, <1>4
<1>6. SumFunction(g) = SumFunctionOnSet(g, DOMAIN g)
  BY Zenon DEF SumFunction
<1>7. DOMAIN g = Borrower
  BY DEF Amounts
<1>8. StableTotalMatches'
  BY <1>5, <1>6, <1>7 DEF StableTotalMatches, Amounts
<1>9. \A c \in Borrower : stable_debts'[c].last <= epoch'
  BY <1>2 DEF DebtsSound
<1> QED
  BY <1>2, <1>8, <1>9 DEF DebtsSound

LEMMA TakeStableStep ==
    ASSUME PoolInv, NEW b \in Borrower, NEW amount \in StableLoans, TakeStable(b, amount)
    PROVE  SoundStep /\ DebtsSound'
<1> DEFINE u == UpdateIndex(pool, epoch)
           rate == PoolInterestRate(pool, epoch, amount).stable
           average == GetWeightRate(pool.stable_loan_amount, pool.stable_loan_interest_rate,
                                    amount, rate)
           d == [amount |-> amount, rate |-> rate, last |-> epoch]
<1>1. amount \in Nat /\ epoch \in Nat /\ pool.last_update <= epoch /\ PoolSound(pool)
  BY EpochNat, LendingPoolAssumption
<1>2. CanBorrowStable(pool, epoch, amount)
  BY DEF TakeStable
<1>3. /\ PoolSound(u) /\ u.last_update = epoch /\ u.share_supply = pool.share_supply
      /\ u.stable_loan_amount = pool.stable_loan_amount
      /\ pool.vault <= u.vault
  BY <1>2, UpdatedPool DEF CanBorrowStable
<1>4. rate \in Nat
  BY <1>1, <1>2, PoolInterestRateNat DEF CanBorrowStable
<1>5. /\ pool' = LentStable(u, epoch, amount, average)
      /\ stable_debts[b] = NoDebt
      /\ stable_debts' = [stable_debts EXCEPT ![b] = d]
      /\ epoch' = epoch
  BY DEF TakeStable, BorrowStable
<1> HIDE DEF u, rate
<1>6. average \in Nat
  <2>1. /\ pool.stable_loan_amount \in Nat /\ pool.stable_loan_interest_rate \in Nat
        /\ pool.stable_loan_amount + amount # 0
    BY <1>1, <1>2 DEF PoolSound, CanBorrowStable
  <2> QED
    BY <1>1, <1>4, <2>1, WeightRateNat
<1> HIDE DEF average
<1>7. amount <= u.vault
  <2>1. amount <= pool.vault
    BY <1>2 DEF CanBorrowStable
  <2>2. pool.vault \in Int /\ u.vault \in Int
    BY <1>1, <1>3 DEF PoolSound
  <2> QED
    BY <1>1, <1>3, <2>1, <2>2
<1>8. /\ PoolSound(pool')
      /\ Keeps(u, pool', MovedFields(StableFields))
      /\ pool'.stable_loan_amount = u.stable_loan_amount + amount
  BY <1>1, <1>3, <1>5, <1>6, <1>7, LentStableSound
<1>9. pool'.share_supply = u.share_supply
  BY <1>8, PoolFieldNames DEF Keeps, MovedFields, RateFields, StableFields
<1>10. DebtsSound'
  <2>1. d \in [amount : Nat, rate : Nat, last : Nat] /\ d.last <= epoch
    BY <1>1, <1>4
  <2>2. pool'.stable_loan_amount = pool.stable_loan_amount - stable_debts[b].amount + d.amount
    <3>1. pool.stable_loan_amount \in Int /\ stable_debts[b].amount = 0
      BY <1>1, <1>5 DEF PoolSound, NoDebt
    <3> QED
      BY <1>1, <1>3, <1>8, <3>1
  <2> HIDE DEF d
  <2> QED
    BY <1>5, <2>1, <2>2, OneDebtChanged DEF PoolInv
<1> QED
  BY <1>3, <1>8, <1>9, <1>10 DEF SoundStep

LEMMA PayStableStep ==
    ASSUME PoolInv, NEW b \in Borrower, NEW bucket \in Repayments, PayStable(b, bucket),
           RateKept'
    PROVE  SoundStep /\ DebtsSound'
<1> DEFINE d == stable_debts[b]
           s == RepayStableSplit(pool, epoch, bucket, d.amount, d.rate, d.last, {})
           e == IF s.in_borrow = 0 THEN d
                ELSE IF s.in_borrow = d.amount THEN NoDebt
                ELSE [d EXCEPT !.amount = @ - s.in_borrow, !.last = epoch]
<1>1. /\ bucket \in Nat /\ epoch \in Nat /\ pool.last_update <= epoch /\ PoolSound(pool)
      /\ pool.stable_loan_amount \in Nat
  BY EpochNat, LendingPoolAssumption DEF PoolSound
<1>2. /\ d \in [amount : Nat, rate : Nat, last : Nat] /\ d.last <= epoch
      /\ d.amount <= pool.stable_loan_amount
  BY StableTotal DEF PoolInv, DebtsSound
<1>3. /\ CanAccrue(pool, epoch)
      /\ pool' = PaidStable(pool, epoch, s, d.rate)
      /\ stable_debts' = [stable_debts EXCEPT ![b] = e]
      /\ epoch' = epoch
  BY DEF PayStable, RepayStable, CanRepayStable
<1>4. /\ s.paid \in Nat /\ s.interest \in Nat
      /\ s.in_borrow = s.paid - s.interest /\ s.in_borrow <= d.amount
  <2>1. {} \in Limits
    BY DEF Limits
  <2>2. d.amount \in Nat /\ d.rate \in Nat /\ d.last \in Nat
    BY <1>2
  <2> DEFINE interest == GetStableInterest(epoch, d.amount, d.last, d.rate)
  <2> HIDE DEF d
  <2>3. StableSplitSound(s, interest, bucket, d.amount, {})
    BY <1>1, <1>2, <2>1, <2>2, StableSplitBounds
  <2> QED
    BY <2>3 DEF StableSplitSound
<1> HIDE DEF s
<1>5. s.in_borrow \in Int
  BY <1>4
<1>6. /\ PoolSound(pool')
      /\ Keeps(pool, pool', MovedFields(StableFields))
      /\ pool'.stable_loan_amount
           = IF pool.stable_loan_amount <= s.in_borrow THEN 0
             ELSE pool.stable_loan_amount - s.in_borrow
  <2>1. PaidStable(pool, epoch, s, d.rate).stable_loan_interest_rate >= 0
    BY <1>3 DEF RateKept
  <2>2. d.rate \in Nat
    BY <1>2
  <2> HIDE DEF d
  <2> QED
    BY <1>1, <1>3, <1>4, <1>5, <2>1, <2>2, PaidStableSound
<1>7. pool'.stable_loan_amount = pool.stable_loan_amount - s.in_borrow
  <2> HIDE DEF d
  <2>1. d.amount \in Nat
    BY <1>2
  <2> QED
    BY <1>1, <1>2, <1>4, <1>5, <1>6, <2>1
<1>8. pool'.share_supply = pool.share_supply
  BY <1>6, PoolFieldNames DEF Keeps, MovedFields, RateFields, StableFields
<1>9. DebtsSound'
  <2>1. /\ e \in [amount : Nat, rate : Nat, last : Nat] /\ e.last <= epoch
        /\ e.amount = d.amount - s.in_borrow
    <3> HIDE DEF d
    <3>1. CASE s.in_borrow = 0
      BY <1>2, <3>1
    <3>2. CASE s.in_borrow # 0 /\ s.in_borrow = d.amount
      BY <1>1, <1>2, <3>2 DEF NoDebt
    <3>3. CASE s.in_borrow # 0 /\ s.in_borrow # d.amount
      <4>1. d.amount - s.in_borrow \in Nat
        BY <1>2, <1>4, <1>5
      <4>2. e = [d EXCEPT !.amount = @ - s.in_borrow, !.last = epoch]
        BY <3>3
      <4> HIDE DEF e
      <4>3. e = [amount |-> d.amount - s.in_borrow, rate |-> d.rate, last |-> epoch]
        BY <1>2, <4>2
      <4> QED
        BY <1>1, <1>2, <4>1, <4>3
    <3> QED
      BY <3>1, <3>2, <3>3
  <2>2. pool'.stable_loan_amount = pool.stable_loan_amount - d.amount + e.amount
    <3> HIDE DEF d, e
    <3>1. d.amount \in Nat
      BY <1>2
    <3> QED
      BY <1>1, <1>5, <1>7, <2>1, <3>1
  <2> HIDE DEF e
  <2> QED
    BY <1>3, <2>1, <2>2, OneDebtChanged DEF PoolInv
<1> QED
  BY <1>6, <1>8, <1>9 DEF SoundStep

-----------------------------------------------------------------------------
(* The invariant *)

LEMMA PoolInvInit == Init => PoolInv
<1> SUFFICES ASSUME Init PROVE PoolInv
  OBVIOUS
<1>1. BookInv
  BY BookInvInit
<1>2. PoolSound(pool)
  BY NewPoolSound, LendingPoolAssumption DEF Init
<1>3. pool.claim_nfts = {} /\ pool.bond_epochs = {} /\ pool.bond_amount = 0
  BY DEF Init, NewPool
<1>4. Costed(pool)
  <2>1. BondClaims(pool) = 0 /\ BondInterests(pool) = 0
    BY <1>3, SumEmpty DEF BondClaims, BondInterests
  <2> QED
    BY <1>2, <1>3, <2>1 DEF Costed, PoolSound
<1>5. /\ epoch \in StartEpoch .. MaxEpoch
      /\ insurance_draws \in 0 .. MaxInsuranceDraws /\ calls \in 0 .. MaxCalls
  BY LendingPoolAssumption DEF Init
<1>6. flash \in [amount : Nat, fee : Nat]
  BY DEF Init, NoFlash
<1>7. DebtsSound
  <2> DEFINE f == [b \in Borrower |-> stable_debts[b].amount]
  <2>1. /\ stable_debts \in [Borrower -> [amount : Nat, rate : Nat, last : Nat]]
        /\ \A b \in Borrower : stable_debts[b].last <= epoch /\ stable_debts[b].amount = 0
    BY LendingPoolAssumption DEF Init, NoDebt
  <2>2. DOMAIN f = Borrower /\ \A b \in Borrower : f[b] = 0
    BY <2>1
  <2>3. SumFunction(f) = SumFunctionOnSet(f, DOMAIN f)
    BY Zenon DEF SumFunction
  <2> HIDE DEF f
  <2>4. SumFunction(f) = 0
    BY <2>2, <2>3, SumZero, LendingPoolAssumption
  <2>5. pool.stable_loan_amount = 0
    BY DEF Init, NewPool
  <2> QED
    BY <2>1, <2>4, <2>5 DEF DebtsSound, StableTotalMatches, f
<1> QED
  BY <1>1, <1>2, <1>3, <1>4, <1>5, <1>6, <1>7 DEF PoolInv

\* A calm step keeps the stable loans as they are.
LEMMA CalmDebts ==
    ASSUME PoolInv, CalmStep, stable_debts' = stable_debts, epoch' \in Int, epoch <= epoch'
    PROVE  DebtsSound'
<1>1. \A b \in Borrower : stable_debts'[b].last <= epoch'
  <2> SUFFICES ASSUME NEW b \in Borrower PROVE stable_debts[b].last <= epoch'
    OBVIOUS
  <2>1. stable_debts[b].last \in Nat /\ stable_debts[b].last <= epoch
    BY DEF PoolInv, DebtsSound
  <2> QED
    BY <2>1, EpochNat
<1>2. StableTotalMatches'
  BY DEF CalmStep, PoolInv, DebtsSound, StableTotalMatches
<1> QED
  BY <1>1, <1>2 DEF PoolInv, DebtsSound

\* One step per action: the arithmetic is kept, the dx tokens are not diluted,
\* and the bonds stay costed.
LEMMA EveryStepIsSound ==
    ASSUME PoolInv, Next, Borrower = {} \/ RateKept'
    PROVE  /\ SoundStep
           /\ Costed(pool')
           /\ pool'.claim_nfts \subseteq ClaimNft
           /\ flash' \in [amount : Nat, fee : Nat]
           /\ DebtsSound'
           /\ epoch' \in StartEpoch .. MaxEpoch
           /\ insurance_draws' \in 0 .. MaxInsuranceDraws
           /\ calls' \in 0 .. MaxCalls
<1> DEFINE Bookkept == SameBook(pool, pool') \/ Accrued(pool, pool', epoch)
           Rest == /\ flash' \in [amount : Nat, fee : Nat]
                   /\ epoch' \in StartEpoch .. MaxEpoch
                   /\ insurance_draws' \in 0 .. MaxInsuranceDraws
                   /\ calls' \in 0 .. MaxCalls
           Goal == /\ SoundStep /\ Costed(pool') /\ pool'.claim_nfts \subseteq ClaimNft
                   /\ DebtsSound' /\ Rest
<1>1. Kept(pool, epoch) /\ IsPool(pool) /\ epoch \in Nat /\ Costed(pool)
  BY DEF PoolInv, BookInv, Kept
<1>0. ASSUME Bookkept PROVE Costed(pool') /\ pool'.claim_nfts \subseteq ClaimNft
  <2>1. CASE SameBook(pool, pool')
    BY <1>1, <2>1, SameBookCosted DEF SameBook, PoolInv
  <2>2. CASE Accrued(pool, pool', epoch)
    BY <1>1, <2>2 DEF Accrued, PoolInv
  <2> QED
    BY <1>0, <2>1, <2>2
<1>2. ASSUME Bookkept, CalmStep, Rest, UNCHANGED <<epoch, stable_debts>> PROVE Goal
  BY <1>0, <1>1, <1>2, CalmDebts DEF CalmStep
<1>3. calls \in 0 .. MaxCalls /\ (Call => calls' \in 0 .. MaxCalls)
  BY LendingPoolAssumption DEF PoolInv, Call
<1>4. ASSUME UNCHANGED <<epoch, stable_debts, flash, insurance_draws>>, Call PROVE Rest
  BY <1>3, <1>4 DEF PoolInv
<1>5. ASSUME NEW amount \in Deposits, Supply(amount) PROVE Goal
  <2>1. Bookkept /\ UNCHANGED <<epoch, stable_debts, flash, insurance_draws>> /\ Call
    BY <1>1, <1>5, AddLiquityAccrues DEF Supply
  <2> QED
    BY <1>2, <1>4, <1>5, <2>1, SupplyStep
<1>6. ASSUME NEW shares \in Parts(pool.share_supply), Withdraw(shares) PROVE Goal
  <2>1. Bookkept /\ UNCHANGED <<epoch, stable_debts, flash, insurance_draws>> /\ Call
    BY <1>1, <1>6, RemoveLiquityAccrues DEF Withdraw
  <2> QED
    BY <1>2, <1>4, <1>6, <2>1, WithdrawStep
<1>7. ASSUME NEW amount \in Loans, TakeVariable(amount) PROVE Goal
  <2>1. Bookkept /\ UNCHANGED <<epoch, stable_debts, flash, insurance_draws>> /\ Call
    BY <1>1, <1>7, BorrowVariableAccrues DEF TakeVariable
  <2> QED
    BY <1>2, <1>4, <1>7, <2>1, TakeVariableStep
<1>8. ASSUME NEW bucket \in Repayments,
             NEW normalized \in Parts(pool.variable_loan_share_quantity),
             PayVariable(bucket, normalized)
      PROVE  Goal
  <2>1. Bookkept /\ UNCHANGED <<epoch, stable_debts, flash, insurance_draws>> /\ Call
    BY <1>1, <1>8, RepayVariableAccrues DEF PayVariable
  <2> QED
    BY <1>2, <1>4, <1>8, <2>1, PayVariableStep
<1>9. ASSUME NEW amount \in FlashLoans, TakeFlash(amount) PROVE Goal
  <2>1. Bookkept /\ UNCHANGED <<epoch, stable_debts, insurance_draws>> /\ Call
    BY <1>1, <1>9, BorrowFixedTermSame DEF TakeFlash
  <2>2. CalmStep /\ flash' \in [amount : Nat, fee : Nat]
    BY <1>9, TakeFlashStep
  <2>3. Rest
    BY <1>3, <2>1, <2>2 DEF PoolInv
  <2> QED
    BY <1>2, <2>1, <2>2, <2>3
<1>10. ASSUME PayFlash PROVE Goal
  <2>1. Bookkept /\ UNCHANGED <<epoch, stable_debts>>
    BY <1>1, <1>10, RepayFixedTermAccruesOrSame DEF PayFlash
  <2>2. Rest
    BY <1>3, <1>10 DEF PayFlash, NoFlash, PoolInv
  <2> QED
    BY <1>2, <1>10, <2>1, <2>2, PayFlashStep
<1>11. ASSUME NEW nft \in OfferedNfts, SellClaim(nft) PROVE Goal
  <2>1. CalmStep /\ Costed(pool')
    BY <1>11, SellClaimStep
  <2>2. Rest /\ UNCHANGED <<epoch, stable_debts>>
    BY <1>4, <1>11 DEF SellClaim
  <2>3. pool'.claim_nfts = pool.claim_nfts \cup {nft}
    <3> DEFINE interest == DiscountedInterest(nft)
               lent == BorrowFixedTerm(pool, nft.claim_amount - interest)
    <3>1. SameBook(pool, lent)
      BY <1>1, BorrowFixedTermSame
    <3>2. pool' = AddFixedTerm(lent, nft, interest)
      BY <1>11 DEF SellClaim
    <3> HIDE DEF lent, interest
    <3> QED
      BY <3>1, <3>2, PoolFieldNames DEF SameBook, IsPool, AddFixedTerm
  <2>4. pool'.claim_nfts \subseteq ClaimNft
    BY <2>3, OfferedIsClaimNft DEF PoolInv
  <2> QED
    BY <1>1, <2>1, <2>2, <2>4, CalmDebts DEF CalmStep
<1>12. ASSUME NEW amount \in Parts(pool.insurance_balance - 1), DrawInsurance(amount)
       PROVE  Goal
  <2>1. Bookkept /\ UNCHANGED <<epoch, stable_debts>>
    BY <1>1, <1>12, WithdrawInsuranceSame DEF DrawInsurance
  <2>2. Rest
    BY <1>3, <1>12, LendingPoolAssumption DEF DrawInsurance, PoolInv
  <2> QED
    BY <1>2, <1>12, <2>1, <2>2, DrawInsuranceStep
<1>13. ASSUME NextEpoch PROVE Goal
  <2>1. pool' = pool /\ stable_debts' = stable_debts /\ epoch' = epoch + 1 /\ Rest
    BY <1>1, <1>13, LendingPoolAssumption DEF NextEpoch, PoolInv
  <2>2. CalmStep
    BY <2>1 DEF CalmStep, SoundStep, PoolInv
  <2>3. DebtsSound'
    BY <1>1, <2>1, <2>2, CalmDebts
  <2> QED
    BY <2>1, <2>2, <2>3 DEF CalmStep, PoolInv
<1>14. ASSUME NEW b \in Borrower, NEW amount \in StableLoans, TakeStable(b, amount) PROVE Goal
  <2>1. Bookkept
    BY <1>1, <1>14, BorrowStableAccrues DEF TakeStable
  <2>2. Rest
    BY <1>3, <1>14 DEF TakeStable, PoolInv
  <2> QED
    BY <1>0, <1>14, <2>1, <2>2, TakeStableStep
<1>15. ASSUME NEW b \in Borrower, NEW bucket \in Repayments, PayStable(b, bucket) PROVE Goal
  <2>1. Bookkept
    BY <1>1, <1>15, RepayStableSame DEF PayStable
  <2>2. Rest
    BY <1>3, <1>15 DEF PayStable, PoolInv
  <2> QED
    BY <1>0, <1>15, <2>1, <2>2, PayStableStep
<1> HIDE DEF Goal, Bookkept
<1>16. Goal
  BY <1>5, <1>6, <1>7, <1>8, <1>9, <1>10, <1>11, <1>12, <1>13, <1>14, <1>15 DEF Next
<1> QED
  BY <1>16 DEF Goal

LEMMA PoolInvStep ==
    ASSUME PoolInv, [Next]_vars, Borrower = {} \/ RateKept'
    PROVE  PoolInv'
<1>1. BookInv'
  BY BookInvStep DEF PoolInv
<1>2. CASE Next
  BY <1>1, <1>2, EveryStepIsSound DEF PoolInv, SoundStep
<1>3. CASE UNCHANGED vars
  BY <1>1, <1>3 DEF PoolInv, DebtsSound, StableTotalMatches, vars
<1> QED
  BY <1>2, <1>3

LEMMA PoolInvariant == Spec /\ []RateKept => []PoolInv
<1>1. Init => PoolInv
  BY PoolInvInit
<1>2. PoolInv /\ [Next]_vars /\ RateKept' => PoolInv'
  BY PoolInvStep
<1> QED
  BY <1>1, <1>2, PTL DEF Spec

\* A pool that makes no stable loans is one whose average rate stays zero: of such
\* a pool what follows holds without a hypothesis.
THEOREM RateKeptWithoutStableLoans == ASSUME Borrower = {} PROVE Spec => []RateKept
<1>1. Init => PoolInv
  BY PoolInvInit
<1>2. PoolInv /\ [Next]_vars => PoolInv'
  BY PoolInvStep
<1>3. PoolInv => RateKept
  BY DEF PoolInv, PoolSound, RateKept
<1> QED
  BY <1>1, <1>2, <1>3, PTL DEF Spec

\* No amount, rate or share of a pool ever goes negative and no index ever falls
\* below one, whatever the calls (lending.rs, all methods), before the average
\* stable rate does; the lists of bonds keep their shapes.
THEOREM PoolTypes == Spec /\ []RateKept => []TypeOK
<1>1. PoolInv => TypeOK
  <2> SUFFICES ASSUME PoolInv PROVE TypeOK
    OBVIOUS
  <2>1. PoolSound(pool) /\ Kept(pool, epoch)
    BY DEF PoolInv, BookInv
  <2>2. DOMAIN pool = PoolFields
    BY <2>1 DEF PoolSound, IsPool
  <2>3. ASSUME NEW e \in DOMAIN pool.bonds PROVE pool.bonds[e] \in Bond
    <3>1. /\ pool.bonds[e] = [interest |-> pool.bonds[e].interest, nfts |-> pool.bonds[e].nfts]
          /\ pool.bonds[e].interest \in Int
      BY <2>1 DEF PoolSound, BondsSound
    <3>2. pool.bonds[e].nfts \subseteq ClaimNft
      BY <2>1 DEF Kept, Tracked, PoolInv
    <3> QED
      BY <3>1, <3>2 DEF Bond
  <2>4. pool.bond_epochs \subseteq DOMAIN pool.bonds
    BY <2>1 DEF PoolSound, BondsSound
  <2>5. /\ \A f \in {"share_supply", "vault", "variable_loan_share_quantity",
                     "stable_loan_amount", "stable_loan_interest_rate",
                     "deposit_interest_rate", "variable_loan_interest_rate", "last_update"} :
                pool[f] \in Nat
        /\ pool.deposit_index >= ONE /\ pool.loan_index >= ONE
        /\ pool.insurance_balance \in Int /\ pool.bond_amount \in Int
    BY <2>1 DEF PoolSound
  <2> QED
    BY <2>2, <2>3, <2>4, <2>5 DEF TypeOK, PoolInv, DebtsSound
<1> QED
  BY <1>1, PoolInvariant, PTL

\* The total of the stable loans is the sum of the loans the positions record,
\* however they were borrowed, paid in part, or grew by unpaid interest
\* (borrow_stable, repay_stable).
THEOREM StableTotalIsSum == Spec /\ []RateKept => []StableTotalMatches
<1>1. PoolInv => StableTotalMatches
  BY DEF PoolInv, DebtsSound
<1> QED
  BY <1>1, PoolInvariant, PTL

\* What get_current_index promises for a dx token the withdrawal of the same
\* epoch pays: update_index, which claims the due bonds first and accrues the
\* rate after, never leaves a lower index than the getter's.
THEOREM QuotesAreHonoured == Spec /\ []RateKept => []QuoteHonoured
<1>1. PoolInv => QuoteHonoured
  BY EpochNat, QuoteBelowUpdate DEF QuoteHonoured
<1> QED
  BY <1>1, PoolInvariant, PTL

\* Nobody buys dx tokens below their worth or redeems them above it: a deposit
\* or a withdrawal, after its accrual, leaves the pool's surplus over the
\* deposits where it was or higher (add_liquity, remove_liquity).
THEOREM DepositorsUndiluted == Spec /\ []RateKept => NoDilution
<1>1. ASSUME PoolInv, [Next]_vars, RateKept'
      PROVE  [pool'.share_supply # pool.share_supply =>
                LET u == UpdateIndex(pool, epoch)
                IN  ONE * pool'.vault - pool'.share_supply * pool'.deposit_index
                      >= ONE * u.vault - u.share_supply * u.deposit_index]_vars
  <2>1. CASE Next
    <3> DEFINE u == UpdateIndex(pool, epoch)
    <3>1. /\ PoolSound(pool')
          /\ pool'.share_supply # pool.share_supply => Surplus(u) <= Surplus(pool')
      BY <1>1, <2>1, EveryStepIsSound DEF SoundStep
    <3> HIDE DEF u
    <3> QED
      BY <3>1 DEF Surplus, u
  <2>2. CASE UNCHANGED vars
    BY <2>2
  <2> QED
    BY <1>1, <2>1, <2>2
<1> QED
  BY <1>1, PoolInvariant, PTL DEF Spec, NoDilution

\* The claim NFTs in the vaults are those of the queued bonds, each in one of
\* them.
LEMMA HeldClaims ==
    ASSUME NEW p, NEW now, Kept(p, now), BondsSound(p)
    PROVE  SumClaimAmount(p.claim_nfts) = BondClaims(p)
<1> DEFINE E == p.bond_epochs
           part == [e \in E |-> p.bonds[e].nfts]
           held == p.claim_nfts
           f == [n \in held |-> n.claim_amount]
           claims == [e \in DOMAIN p.bonds |-> SumClaimAmount(p.bonds[e].nfts)]
<1>1. IsFiniteSet(E) /\ E \subseteq DOMAIN p.bonds
  BY DEF BondsSound
<1>2. held = UNION {part[e] : e \in E}
  <2>1. \A n \in held : n.claim_epoch \in E /\ n \in part[n.claim_epoch]
    BY DEF Kept, Tracked
  <2>2. \A e \in E : \A n \in part[e] : n \in held
    BY <1>1 DEF Kept, Tracked
  <2> HIDE DEF held, E, part
  <2> QED
    BY <2>1, <2>2
<1>3. \A d, e \in E : d # e => part[d] \cap part[e] = {}
  BY <1>1 DEF Kept, Tracked
<1>4. ASSUME NEW e \in E
      PROVE  /\ IsFiniteSet(part[e])
             /\ \A n \in part[e] : f[n] \in Int
             /\ claims[e] = SumFunctionOnSet(f, part[e])
  <2> DEFINE nfts == p.bonds[e].nfts
             g == [n \in nfts |-> n.claim_amount]
  <2>1. /\ IsFiniteSet(nfts) /\ part[e] = nfts
        /\ \A n \in nfts : n \in held /\ n.claim_amount \in Nat
    BY <1>1 DEF BondsSound, Kept, Tracked
  <2>2. \A n \in nfts : f[n] \in Int /\ f[n] = g[n]
    BY <2>1
  <2>3. claims[e] = SumFunctionOnSet(g, nfts)
    BY <1>1, SumClaimAmountIs
  <2> HIDE DEF f, g, nfts
  <2>4. SumFunctionOnSet(f, nfts) = SumFunctionOnSet(g, nfts)
    BY <2>1, <2>2, SumAgree
  <2> QED
    BY <2>1, <2>2, <2>3, <2>4
<1>5. SumFunctionOnSet(f, held) = SumFunctionOnSet(claims, E)
  <2>1. Partition(E, part, held)
    <3> HIDE DEF E, part, held, f, claims
    <3> QED
      BY <1>1, <1>2, <1>3, <1>4 DEF Partition
  <2>2. SumsOfParts(E, part, f, claims)
    <3> HIDE DEF E, part, f, claims
    <3> QED
      BY <1>4 DEF SumsOfParts
  <2> HIDE DEF E, part, f, claims, held
  <2> QED
    BY ONLY <2>1, <2>2, SumOfPartition
<1>6. SumClaimAmount(held) = SumFunctionOnSet(f, held)
  BY SumClaimAmountIs
<1> QED
  BY <1>2, <1>5, <1>6 DEF BondClaims

\* bond_amount never understates what the held claim NFTs cost, whatever was
\* bought, for how long, and claimed together (add_fixed_term,
\* claim_matured_bonds).
THEOREM BondAmountCovers == Spec /\ []RateKept => []BondAmountCoversHeld
<1>1. PoolInv => BondAmountCoversHeld
  <2> SUFFICES ASSUME PoolInv PROVE BondAmountCoversHeld
    OBVIOUS
  <2>1. SumClaimAmount(pool.claim_nfts) = BondClaims(pool)
    BY HeldClaims DEF PoolInv, BookInv, Costed
  <2>2. BondPrincipal = BondClaims(pool) - BondInterests(pool)
    BY <2>1 DEF BondPrincipal, BondInterests
  <2>3. /\ pool.bond_amount \in Int
        /\ BondClaims(pool) <= pool.bond_amount + BondInterests(pool)
    BY DEF PoolInv, Costed
  <2>4. BondClaims(pool) \in Int /\ BondInterests(pool) \in Int
    <3> DEFINE claims == [e \in DOMAIN pool.bonds |-> SumClaimAmount(pool.bonds[e].nfts)]
               interests == [e \in DOMAIN pool.bonds |-> pool.bonds[e].interest]
               E == pool.bond_epochs
    <3>1. BondsSound(pool) /\ IsFiniteSet(E) /\ E \subseteq DOMAIN pool.bonds
      BY DEF PoolInv, Costed, BondsSound
    <3>2. ASSUME NEW e \in E PROVE claims[e] \in Int /\ interests[e] \in Int
      <4>1. e \in DOMAIN pool.bonds
        BY <3>1
      <4>2. SumClaimAmount(pool.bonds[e].nfts) \in Nat /\ pool.bonds[e].interest \in Nat
        BY <3>1, <4>1, SumClaimAmountNat DEF BondsSound
      <4> QED
        BY <4>1, <4>2
    <3> HIDE DEF claims, interests, E
    <3>3. SumFunctionOnSet(claims, E) \in Int /\ SumFunctionOnSet(interests, E) \in Int
      BY <3>1, <3>2, SumInt
    <3> QED
      BY <3>3 DEF BondClaims, BondInterests, claims, interests, E
  <2> QED
    BY <2>2, <2>3, <2>4 DEF BondAmountCoversHeld
<1> QED
  BY <1>1, PoolInvariant, PTL
=============================================================================
