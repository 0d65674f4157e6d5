--------------------------- MODULE StakingEarning ---------------------------
(***************************************************************************)
(* The StakingEarning component of protocol/src/earning.rs between the     *)
(* staking pool it owns and the XRD lending pool, which buys claim NFTs    *)
(* that are not due yet (CollateralDebtManager::staking_borrow).  Stakers  *)
(* join and leave, now or in time; validators earn rewards; the admin      *)
(* rebalances; a lender's deposit makes the lending pool collect what is   *)
(* due.  An action is one call.                                            *)
(***************************************************************************)
EXTENDS LendResourcePool, StakingPool

CONSTANTS
    Validator,
    InitialStake,     \* per validator: LSUs and XRD at the start; users hold the LSUs
    Deposit,          \* what lenders supply at the start and then at a time
    InsuranceRatio,
    Joins,            \* amounts that join the staking pool
    Rebalances,       \* pairs <<LSUs unstaked, XRD staked>>
    Rewards,          \* what an XRD staked with a validator may earn in an epoch
    UnbondEpochs,     \* epochs between unstaking and the claim
    StartEpoch, MaxEpoch, MaxCalls, MaxNfts

\* An LSU is worth at least the XRD it was minted for: validators are not slashed.
ASSUME StakingEarningAssumption ==
    /\ IsFiniteSet(Validator)
    /\ InitialStake \in [Validator -> [lsu : Nat, xrd : Nat]]
    /\ \A v \in Validator : /\ InitialStake[v].lsu <= InitialStake[v].xrd
                            /\ InitialStake[v].lsu = 0 => InitialStake[v].xrd = 0
    /\ Deposit \in Nat /\ InsuranceRatio \in 0 .. ONE
    /\ Joins \subseteq Nat /\ Rebalances \subseteq Nat \X Nat /\ Rewards \subseteq Nat
    /\ RebalanceDust \in Nat
    /\ UnbondEpochs \in Nat \ {0}
    /\ StartEpoch \in Nat /\ MaxEpoch \in Nat /\ StartEpoch <= MaxEpoch
    /\ MaxCalls \in Nat /\ MaxNfts \in Nat

VARIABLES
    staking,      \* the staking pool and the validators, see StakingPool
    lsu_wallet,   \* per validator, the LSUs users hold
    claims,       \* the claim NFTs users hold
    pool,         \* the XRD lending pool, see LendResourcePool
    minted,       \* claim NFTs minted so far
    epoch, calls

vars == <<staking, lsu_wallet, claims, pool, minted, epoch, calls>>

ClaimNft == [id : 1 .. MaxNfts, validator : Validator,
             claim_epoch : StartEpoch .. (MaxEpoch + UnbondEpochs), claim_amount : Nat]

\* Types: no vault, wallet or supply is ever negative.
TypeOK ==
    /\ staking.dse_supply \in Nat
    /\ DOMAIN staking.lsu_map \subseteq Validator
    /\ \A v \in DOMAIN staking.lsu_map : staking.lsu_map[v] \in Nat
    /\ staking.validators \in [Validator -> [lsu : Nat, xrd : Nat]]
    /\ lsu_wallet \in [Validator -> Nat]
    /\ claims \subseteq ClaimNft /\ pool.claim_nfts \subseteq ClaimNft
    /\ DOMAIN pool = PoolFields /\ pool.vault \in Nat
    /\ minted \in 0 .. MaxNfts /\ epoch \in StartEpoch .. MaxEpoch /\ calls \in 0 .. MaxCalls

Init ==
    /\ staking = [lsu_map |-> << >>, dse_supply |-> 0, validators |-> InitialStake]
    /\ lsu_wallet = [v \in Validator |-> InitialStake[v].lsu]
    /\ claims = {}
    /\ pool = AddLiquity(NewPool("XrdStaking", 1, 1, InsuranceRatio, 0), StartEpoch, Deposit)
    /\ minted = 0
    /\ epoch = StartEpoch
    /\ calls = 0

Call == calls < MaxCalls /\ calls' = calls + 1

----------------------------------------------------------------------------
(* claim_xrd *)

\* Mutant: the discount is computed at the rate of variable loans.
DiscountRateVariable(p, now, amount) == PoolInterestRate(p, now, amount).variable

\* The rate a claim is discounted at, for so many XRD bought in the call.
DiscountRate(p, now, amount) == PoolInterestRate(p, now, amount).stable

\* Which NFTs of a list are not due yet.
Unmatured(nfts) == {i \in DOMAIN nfts : nfts[i].claim_epoch > epoch}

\* The interest kept on the i-th of the NFTs: the rate grows with the amounts
\* bought before it in the same call.
InterestOn(nfts, i) ==
    LET bought == SumFunctionOnSet([j \in DOMAIN nfts |-> nfts[j].claim_amount],
                                   {j \in Unmatured(nfts) : j <= i})
    IN  nfts[i].claim_amount
          - CalcPrincipal(nfts[i].claim_amount, DiscountRate(pool, epoch, bought),
                          nfts[i].claim_epoch - epoch)

PriceOf(nfts) ==
    SumFunctionOnSet([i \in DOMAIN nfts |-> nfts[i].claim_amount - InterestOn(nfts, i)],
                     Unmatured(nfts))

\* NFTs that are due are claimed from their validators, the others are sold to
\* the lending pool in one staking_borrow; when these are worth nothing at all there is no
\* staking_borrow, and the transaction fails for what becomes of their buckets.
CanClaimXrd(nfts) ==
    Unmatured(nfts) # {} =>
        /\ CanAccrue(pool, epoch)
        /\ SumFunctionOnSet([i \in DOMAIN nfts |-> nfts[i].claim_amount], Unmatured(nfts)) > 0
        /\ CanBorrowFixedTerm(pool, PriceOf(nfts))

Sell(p, nfts, i) ==
    IF i \in Unmatured(nfts) THEN AddFixedTerm(p, nfts[i], InterestOn(nfts, i)) ELSE p

PoolAfterClaim(nfts) ==
    IF Unmatured(nfts) = {} THEN pool
    ELSE FoldLeftDomain(LAMBDA p, i : Sell(p, nfts, i), BorrowFixedTerm(pool, PriceOf(nfts)), nfts)

----------------------------------------------------------------------------
(* The calls *)

Join(v, amount) ==
    /\ Call
    /\ CanContribute(staking, v, amount)
    /\ staking' = Contribute(staking, v, amount)
    /\ UNCHANGED <<lsu_wallet, claims, pool, minted, epoch>>

\* The claim NFTs validators mint for a sequence of unstakes.
Minted(unstakes) ==
    [i \in DOMAIN unstakes |->
        [id |-> minted + i, validator |-> unstakes[i].validator,
         claim_epoch |-> epoch + UnbondEpochs, claim_amount |-> unstakes[i].amount]]

\* redeem hands the NFTs to the user, or sells them at once when faster.
Leave(unstakes, faster) ==
    LET nfts == Minted(unstakes)
    IN  /\ minted + Len(nfts) <= MaxNfts
        /\ minted' = minted + Len(nfts)
        /\ IF faster
           THEN CanClaimXrd(nfts) /\ pool' = PoolAfterClaim(nfts) /\ UNCHANGED claims
           ELSE claims' = claims \cup Range(nfts) /\ UNCHANGED pool

RedeemDse(vs, amount, faster) ==
    /\ Call
    /\ amount <= staking.dse_supply
    /\ CanRedeem(staking, vs, amount)
    /\ Leave(RedeemClaims(staking, vs, amount), faster)
    /\ staking' = Redeem(staking, vs, amount)
    /\ UNCHANGED <<lsu_wallet, epoch>>

RedeemLsu(v, lsu, faster) ==
    /\ Call
    /\ lsu <= lsu_wallet[v]
    /\ Leave(<<[validator |-> v, amount |-> ValueOfLsu(staking.validators[v], lsu)]>>, faster)
    /\ staking' = Unstake(staking, v, lsu)
    /\ lsu_wallet' = [lsu_wallet EXCEPT ![v] = @ - lsu]
    /\ UNCHANGED epoch

ClaimXrd(nfts) ==
    /\ Call
    /\ CanClaimXrd(nfts)
    /\ pool' = PoolAfterClaim(nfts)
    /\ claims' = claims \ Range(nfts)
    /\ UNCHANGED <<staking, lsu_wallet, minted, epoch>>

AdminRebalance(v, lsu_amount, w, stake) ==
    /\ Call
    /\ CanRebalance(staking, v, lsu_amount, w, stake)
    /\ staking' = Rebalance(staking, v, lsu_amount, w, stake)
    /\ UNCHANGED <<lsu_wallet, claims, pool, minted, epoch>>

\* A lender's call: the lending pool collects the claims that are due.
Lend ==
    /\ Call
    /\ CanAddLiquity(pool, epoch)
    /\ pool' = AddLiquity(pool, epoch, Deposit)
    /\ UNCHANGED <<staking, lsu_wallet, claims, minted, epoch>>

Earned(val, rate) == [val EXCEPT !.xrd = @ + DMul(@, rate)]

NextEpoch ==
    /\ epoch < MaxEpoch
    /\ epoch' = epoch + 1
    /\ \E earned \in [Validator -> Rewards] :
          staking' = [staking EXCEPT !.validators =
                         [v \in Validator |-> Earned(staking.validators[v], earned[v])]]
    /\ UNCHANGED <<lsu_wallet, claims, pool, minted, calls>>

Parts(quantity) == {part \in {quantity, quantity \div 2} : part > 0}

\* Lists of one or two of a set.
Lists(S) == {<<x>> : x \in S} \cup {<<p[1], p[2]>> : p \in {q \in S \X S : q[1] # q[2]}}

Next ==
    \/ \E v \in Validator, amount \in Joins : Join(v, amount)
    \/ \E vs \in Lists(Validator), amount \in Parts(staking.dse_supply), faster \in BOOLEAN :
          RedeemDse(vs, amount, faster)
    \/ \E v \in Validator, faster \in BOOLEAN : \E lsu \in Parts(lsu_wallet[v]) :
          RedeemLsu(v, lsu, faster)
    \/ \E nfts \in Lists(claims) : ClaimXrd(nfts)
    \/ \E v, w \in Validator, r \in Rebalances : AdminRebalance(v, r[1], w, r[2])
    \/ Lend
    \/ NextEpoch

Spec == Init /\ [][Next]_vars

----------------------------------------------------------------------------
(* Properties *)

\* The XRD a stake unit is worth, in whole attos for an atto.
LsuPrice(val) == IF val.lsu = 0 THEN 0 ELSE val.xrd \div val.lsu

\* What the truncations of a join or a redemption may shift between the one who
\* makes it and the others: of the units of each validator, of the price of a
\* dseXRD, and of the price redeem divides a part of the stake by.
RedeemDust ==
    SumFunction([v \in Validator |-> LsuPrice(staking.validators[v]) + 2])
      + SumCurrentStaked(staking) \div ONE + ValuePerUnit(staking) \div ONE + 1

\* Whoever joins or leaves pays and takes the price of the moment: what the
\* other dseXRD are worth neither falls nor rises by it, whichever validators the
\* LSUs are taken from, in whatever order, beyond the truncations; and a join
\* makes it fall by nothing at all.
DseValueKept ==
    [][staking'.dse_supply # staking.dse_supply =>
          LET total  == ONE * SumCurrentStaked(staking')
              supply == staking.dse_supply
              value  == staking'.dse_supply * ValuePerUnit(staking)
          IN  /\ value <= total + ONE * RedeemDust
              /\ staking'.dse_supply > supply => value <= total
              /\ supply > 0 => total <= value + supply + ONE * RedeemDust]_vars

\* "diff exceed 1": a rebalance costs the stakers less than 1 XRD, but for the
\* LSUs it takes along with a whole vault and the truncations.
RebalanceKeepsValue ==
    [][staking'.dse_supply = staking.dse_supply /\ staking'.lsu_map # staking.lsu_map =>
          SumCurrentStaked(staking')
            > SumCurrentStaked(staking) - ONE - 4
                - SumFunction([v \in Validator |->
                      (RebalanceDust + 1) * (LsuPrice(staking.validators[v]) + 1)])]_vars

\* Claims sold together, or one after the other, are never bought for more than
\* their value discounted at what the validators pay: the lending pool earns at
\* least as much as staking the XRD would have.
PoolBuysAtDiscount ==
    [][LET bought == pool'.claim_nfts \ pool.claim_nfts
       IN  bought # {} =>
             pool.vault - pool'.vault
               <= SumFunction([n \in bought |->
                      CalcPrincipal(n.claim_amount, ActiveSetApy, n.claim_epoch - epoch)])]_vars

\* The stakers can always leave: some list of validators redeems all dseXRD up
\* to the truncations, also after others have emptied validators' vaults.
StakersCanLeave ==
    LET dust     == 2 * Cardinality(Validator) + SumCurrentStaked(staking) \div ONE
        attempts == {a \in (staking.dse_supply - dust) .. staking.dse_supply : a > 0}
    IN  attempts # {} =>
          \E vs \in Lists(Validator), amount \in attempts : CanRedeem(staking, vs, amount)
=============================================================================
