----------------------------- MODULE CdpManager -----------------------------
(***************************************************************************)
(* The CollateralDebtManager of protocol/src/cdp.rs over the pools it      *)
(* owns.  A collateralized debt position (CDP) borrows one token against   *)
(* the dx token of another one; the manager keeps the dx tokens of all     *)
(* positions in one vault per token and the terms of a position in its     *)
(* NFT, and calls the pools.  An action is a method called by a user's     *)
(* manifest, with everything the pools do in it.                           *)
(*                                                                         *)
(* Prices are the signed quotes of the price service: quote[t] is the      *)
(* price of t in XRD, any of Quotes and free to move between transactions. *)
(* A token stands for its resource address; dx tokens go by the name of    *)
(* their underlying token.                                                 *)
(***************************************************************************)
EXTENDS LendResourcePool, Sequences

CONSTANTS
    Token, Xrd,
    AssetStates,       \* per token: interest_model, ltv, liquidation_threshold, liquidation_bonus
    Unit, ShareUnit,   \* per token: the units of the token and of its dx token
    InsuranceRatio, FlashloanFeeRatio,
    Quotes,            \* the prices that occur
    Seed,              \* per token: the deposit the pool starts with
    CloseFactors,      \* percentages set_close_factor is called with
    Pairs,             \* the pairs <<borrowed, collateral>> of the positions
    Supplies, Collaterals, Loans, Repayments, Withdrawals, Additions,
    Covers, FlashLoans, Draws,   \* the amounts the calls are made with
    StableBorrowing,   \* whether positions are opened at a stable rate
    StartEpoch, MaxEpoch, MaxCdps, MaxCalls

\* A dx token has 18 digits or those of its underlying token, so that a collateral
\* that arrives in a bucket is a multiple of its unit.
ASSUME CdpManagerAssumption ==
    /\ Xrd \in Token /\ Pairs \subseteq Token \X Token
    /\ Quotes \subseteq [Token -> Nat \ {0}] /\ \A q \in Quotes : q[Xrd] = ONE
    /\ \A t \in Token : /\ AssetStates[t].ltv \in Nat \ {0}
                        /\ AssetStates[t].liquidation_threshold \in Nat
                        /\ AssetStates[t].liquidation_bonus \in Nat
    /\ Unit \in [Token -> Nat \ {0}] /\ ShareUnit \in [Token -> 1 .. ONE]
    /\ InsuranceRatio \in 0 .. ONE /\ FlashloanFeeRatio \in Nat
    /\ Seed \in [Token -> Nat] /\ CloseFactors \subseteq Nat
    /\ (Supplies \cup Collaterals \cup Loans \cup Repayments \cup Withdrawals
          \cup Additions \cup Covers \cup FlashLoans \cup Draws) \subseteq Nat
    /\ \A t \in Token, dx_amount \in Collaterals \cup Additions :
          IsMultiple(dx_amount, ShareUnit[t])
    /\ StableBorrowing \in BOOLEAN
    /\ StartEpoch \in Nat /\ MaxEpoch \in Nat /\ StartEpoch <= MaxEpoch
    /\ MaxCdps \in Nat /\ MaxCalls \in Nat

VARIABLES
    pools,                 \* per token, the state of its LendResourcePool
    cdps,                  \* the positions; the n-th minted one has id n
    collateral_vaults,     \* per token, the dx tokens held as collateral
    dx_wallets,            \* per token, the dx tokens in users' accounts
    close_factor_percent,
    transient_nfts,        \* open flash loans: id, res_addr, amount, fee
    quote, epoch,
    calls                  \* calls so far

vars == <<pools, cdps, collateral_vaults, dx_wallets, close_factor_percent,
          transient_nfts, quote, epoch, calls>>

Cdp == [borrow_token : Token, collateral_token : Token, is_stable : BOOLEAN,
        total_borrow : Nat, total_repay : Nat, normalized_borrow : Nat,
        borrow_amount : Nat, collateral_amount : Int, last_update_epoch : Nat,
        stable_rate : Nat]

\* Types; no debt, total or vault is ever negative.
TypeOK ==
    /\ DOMAIN pools = Token
    /\ \A t \in Token :
          /\ DOMAIN pools[t] = PoolFields
          /\ \A f \in {"vault", "share_supply", "variable_loan_share_quantity",
                       "stable_loan_amount", "stable_loan_interest_rate"} :
                pools[t][f] \in Nat
    /\ cdps \in Seq(Cdp) /\ Len(cdps) <= MaxCdps
    /\ collateral_vaults \in [Token -> Nat] /\ dx_wallets \in [Token -> Nat]
    /\ quote \in Quotes
    /\ epoch \in StartEpoch .. MaxEpoch /\ calls \in 0 .. MaxCalls

\* The manager as deployed, the pools opened by new_pool and funded by lenders.
NewAssetPool(t) ==
    NewPool(AssetStates[t].interest_model, Unit[t], ShareUnit[t],
            InsuranceRatio, FlashloanFeeRatio)

Init ==
    /\ pools = [t \in Token |-> AddLiquity(NewAssetPool(t), StartEpoch, Seed[t])]
    /\ cdps = << >>
    /\ collateral_vaults = [t \in Token |-> 0]
    /\ dx_wallets = [t \in Token |-> pools[t].share_supply]
    /\ close_factor_percent = 50 * ONE
    /\ transient_nfts = {}
    /\ quote \in Quotes
    /\ epoch = StartEpoch
    /\ calls = 0

Call == calls < MaxCalls /\ calls' = calls + 1

----------------------------------------------------------------------------
(* Values *)

\* get_price_in_xrd knows the prices of the pair b, c (and asks pools that can
\* quote their indices): a loan of XRD against XRD has no price.
Priced(b, c) ==
    /\ ~ (b = Xrd /\ c = Xrd)
    /\ CanAccrue(pools[b], epoch) /\ CanAccrue(pools[c], epoch)

\* Mutants (here and below): the full value of the collateral may be borrowed.
GetMaxLoanAmountUnweighted(c, dx_amount, b, remove_amount) ==
    LET amount == GetRedemptionValue(pools[c], epoch, dx_amount) - remove_amount
    IN  FloorTo(DDiv(DMul(quote[c], amount), quote[b]), Unit[b])

\* The most that may be owed in b against dx_amount of c less remove_amount of
\* the underlying.
GetMaxLoanAmount(c, dx_amount, b, remove_amount) ==
    LET amount == GetRedemptionValue(pools[c], epoch, dx_amount) - remove_amount
    IN  FloorTo(DDiv(DMul(DMul(quote[c], amount), AssetStates[c].ltv), quote[b]), Unit[b])

VariableDebt(d) == GetVariableInterest(pools[d.borrow_token], epoch, d.normalized_borrow)

StableDebt(d) ==
    d.borrow_amount
      + GetStableInterest(epoch, d.borrow_amount, d.last_update_epoch, d.stable_rate)

\* What a liquidation counts as the debt: of a stable loan, the interest alone.
LiquidationDebt(d) ==
    IF d.is_stable THEN StableDebt(d) - d.borrow_amount ELSE VariableDebt(d)

CollateralValue(d) ==
    GetRedemptionValue(pools[d.collateral_token], epoch, d.collateral_amount)

\* The divisions of get_liquidate_debt_and_collateral are defined and the
\* position is not healthy.
Liquidatable(d) ==
    LET c == d.collateral_token
        debt_value == DMul(LiquidationDebt(d), quote[d.borrow_token])
    IN  /\ d.collateral_amount # 0
        /\ DDiv(CollateralValue(d), d.collateral_amount) # 0
        /\ debt_value # 0
        /\ DDiv(DMul(DMul(CollateralValue(d), quote[c]), AssetStates[c].liquidation_threshold),
                debt_value) <= ONE

\* The debt that is repaid: a part of what is owed, or what the liquidator covers.
LiquidatedDebt(d, debt_to_cover) ==
    LET max_debt == PrecentMul(LiquidationDebt(d), close_factor_percent)
    IN  IF debt_to_cover > 0 THEN Min({max_debt, debt_to_cover}) ELSE max_debt

WithBonus(d, amount) == DMul(amount, ONE + AssetStates[d.collateral_token].liquidation_bonus)

\* Mutant: the collateral is not capped.
SeizureUncapped(d, value, debt) ==
    [debt |-> debt,
     collateral |-> DDiv(DDiv(WithBonus(d, DMul(debt, quote[d.borrow_token])),
                              quote[d.collateral_token]),
                         DDiv(value, d.collateral_amount))]

\* The dx tokens released for a debt, of a position whose collateral has a value:
\* no more than that, or a smaller debt is repaid.
Seizure(d, value, debt) ==
    LET b == d.borrow_token
        c == d.collateral_token
        seized == DDiv(WithBonus(d, DMul(debt, quote[b])), quote[c])
        index  == DDiv(value, d.collateral_amount)
    IN  IF seized > value
        THEN [debt |-> DDiv(DMul(value, quote[c]), WithBonus(d, quote[b])),
              collateral |-> DDiv(value, index)]
        ELSE [debt |-> debt, collateral |-> DDiv(seized, index)]

GetLiquidateDebtAndCollateral(d, debt_to_cover) ==
    Seizure(d, CollateralValue(d), LiquidatedDebt(d, debt_to_cover))

----------------------------------------------------------------------------
(* The data of a position *)

\* Mutant: the amount is recorded as debt shares.
NewCdpOfAmount(c, b, amount, dx_amount, normalized, rate, is_stable) ==
    [borrow_token |-> b, collateral_token |-> c, is_stable |-> is_stable,
     total_borrow |-> amount, total_repay |-> 0, normalized_borrow |-> amount,
     borrow_amount |-> amount, collateral_amount |-> dx_amount,
     last_update_epoch |-> IF is_stable THEN epoch ELSE 0, stable_rate |-> rate]

NewCdp(c, b, amount, dx_amount, normalized, rate, is_stable) ==
    [borrow_token |-> b, collateral_token |-> c, is_stable |-> is_stable,
     total_borrow |-> amount, total_repay |-> 0, normalized_borrow |-> normalized,
     borrow_amount |-> amount, collateral_amount |-> dx_amount,
     last_update_epoch |-> IF is_stable THEN epoch ELSE 0, stable_rate |-> rate]

\* Mutant: the interest so far is dropped.
UpdateCdpDataNoInterest(d, delta_borrow, interest, delta_collateral, delta_normalized, avg_rate) ==
    [d EXCEPT !.total_borrow = @ + delta_borrow,
              !.borrow_amount = @ + delta_borrow,
              !.normalized_borrow = @ + delta_normalized,
              !.collateral_amount = @ + delta_collateral,
              !.stable_rate = IF d.is_stable THEN avg_rate ELSE @,
              !.last_update_epoch = IF d.is_stable THEN epoch ELSE @]

\* update_cdp_data.  Of a stable position the rate and the epoch are always
\* replaced.
UpdateCdpData(d, delta_borrow, interest, delta_collateral, delta_normalized, avg_rate) ==
    [d EXCEPT !.total_borrow = @ + delta_borrow,
              !.borrow_amount = @ + delta_borrow + interest,
              !.normalized_borrow = @ + delta_normalized,
              !.collateral_amount = @ + delta_collateral,
              !.stable_rate = IF d.is_stable THEN avg_rate ELSE @,
              !.last_update_epoch = IF d.is_stable THEN epoch ELSE @]

\* Mutant: the whole payment is taken off the loan and off the debt shares.
UpdateCdpAfterRepayWhole(d, repay_amount, delta_borrow, delta_normalized) ==
    LET changed == d.is_stable /\ delta_borrow # 0
    IN  [d EXCEPT !.total_repay = @ + repay_amount,
                  !.normalized_borrow = IF d.is_stable THEN @ ELSE @ - repay_amount,
                  !.borrow_amount = IF changed THEN @ - repay_amount ELSE @,
                  !.stable_rate = IF changed /\ d.borrow_amount = delta_borrow THEN 0 ELSE @,
                  !.last_update_epoch = IF changed THEN epoch ELSE @]

\* update_cdp_after_repay.  A stable position whose loan does not change keeps
\* its epoch, and with it the interest that was just paid.
UpdateCdpAfterRepay(d, repay_amount, delta_borrow, delta_normalized) ==
    LET changed == d.is_stable /\ delta_borrow # 0
    IN  [d EXCEPT !.total_repay = @ + repay_amount,
                  !.normalized_borrow = IF d.is_stable THEN @ ELSE @ - delta_normalized,
                  !.borrow_amount = IF changed THEN @ - delta_borrow ELSE @,
                  !.stable_rate = IF changed /\ d.borrow_amount = delta_borrow THEN 0 ELSE @,
                  !.last_update_epoch = IF changed THEN epoch ELSE @]

\* A payment of a position, as its pool takes it: possible, the pool after it,
\* and the position after it.
CanPay(d, bucket, limit) ==
    LET p == pools[d.borrow_token]
    IN  IF d.is_stable
        THEN CanRepayStable(p, epoch, bucket, d.borrow_amount, d.stable_rate,
                            d.last_update_epoch, limit)
        ELSE CanRepayVariable(p, epoch, bucket, d.normalized_borrow, limit)

PaySplit(d, bucket, limit) ==
    LET p == pools[d.borrow_token]
    IN  IF d.is_stable
        THEN RepayStableSplit(p, epoch, bucket, d.borrow_amount, d.stable_rate,
                              d.last_update_epoch, limit)
        ELSE RepayVariableSplit(UpdateIndex(p, epoch), bucket, d.normalized_borrow, limit)

PoolPaid(d, bucket, limit) ==
    LET p == pools[d.borrow_token]
    IN  IF d.is_stable
        THEN RepayStable(p, epoch, bucket, d.borrow_amount, d.stable_rate,
                         d.last_update_epoch, limit)
        ELSE RepayVariable(p, epoch, bucket, d.normalized_borrow, limit)

CdpAfter(d, s) ==
    IF d.is_stable THEN UpdateCdpAfterRepay(d, s.paid, s.in_borrow, 0)
                   ELSE UpdateCdpAfterRepay(d, s.paid, 0, s.normalized)

CdpPaid(d, bucket, limit) == CdpAfter(d, PaySplit(d, bucket, limit))

----------------------------------------------------------------------------
(* Lenders *)

Supply(t, amount) ==
    /\ Call
    /\ CanAddLiquity(pools[t], epoch)
    /\ pools' = [pools EXCEPT ![t] = AddLiquity(@, epoch, amount)]
    /\ dx_wallets' = [dx_wallets EXCEPT ![t] = @ + MintAmount(UpdateIndex(pools[t], epoch), amount)]
    /\ UNCHANGED <<cdps, collateral_vaults, close_factor_percent, transient_nfts, quote, epoch>>

Withdraw(t, shares) ==
    /\ Call
    /\ shares <= dx_wallets[t]
    /\ CanRemoveLiquity(pools[t], epoch, shares)
    /\ pools' = [pools EXCEPT ![t] = RemoveLiquity(@, epoch, shares)]
    /\ dx_wallets' = [dx_wallets EXCEPT ![t] = @ - shares]
    /\ UNCHANGED <<cdps, collateral_vaults, close_factor_percent, transient_nfts, quote, epoch>>

(* Opening and extending a position *)

OpenVariable(c, dx_amount, b, amount) ==
    /\ Call
    /\ Len(cdps) < MaxCdps
    /\ dx_amount <= dx_wallets[c]
    /\ Priced(b, c)
    /\ amount <= GetMaxLoanAmount(c, dx_amount, b, 0)
    /\ CanBorrowVariable(pools[b], epoch, amount)
    /\ pools' = [pools EXCEPT ![b] = BorrowVariable(@, epoch, amount)]
    /\ cdps' = Append(cdps, NewCdp(c, b, amount, dx_amount,
                                   VariableShare(UpdateIndex(pools[b], epoch), amount), 0, FALSE))
    /\ dx_wallets' = [dx_wallets EXCEPT ![c] = @ - dx_amount]
    /\ collateral_vaults' = [collateral_vaults EXCEPT ![c] = @ + dx_amount]
    /\ UNCHANGED <<close_factor_percent, transient_nfts, quote, epoch>>

OpenStable(c, dx_amount, b, amount) ==
    LET stable_rate == PoolInterestRate(pools[b], epoch, amount).stable
    IN  /\ Call
        /\ Len(cdps) < MaxCdps
        /\ dx_amount <= dx_wallets[c]
        /\ Priced(b, c)
        /\ amount <= GetMaxLoanAmount(c, dx_amount, b, 0)
        /\ CanBorrowStable(pools[b], epoch, amount)
        /\ pools' = [pools EXCEPT ![b] = BorrowStable(@, epoch, amount, stable_rate)]
        /\ cdps' = Append(cdps, NewCdp(c, b, amount, dx_amount, 0, stable_rate, TRUE))
        /\ dx_wallets' = [dx_wallets EXCEPT ![c] = @ - dx_amount]
        /\ collateral_vaults' = [collateral_vaults EXCEPT ![c] = @ + dx_amount]
        /\ UNCHANGED <<close_factor_percent, transient_nfts, quote, epoch>>

\* extend_borrow of a variable position.
ExtendVariable(id, amount) ==
    LET d == cdps[id]
        b == d.borrow_token
    IN  /\ Call
        /\ ~ d.is_stable
        /\ Priced(b, d.collateral_token)
        /\ VariableDebt(d) + amount
             < GetMaxLoanAmount(d.collateral_token, d.collateral_amount, b, 0)
        /\ CanBorrowVariable(pools[b], epoch, amount)
        /\ pools' = [pools EXCEPT ![b] = BorrowVariable(@, epoch, amount)]
        /\ cdps' = [cdps EXCEPT ![id] =
                       UpdateCdpData(d, amount, 0, 0,
                                     VariableShare(UpdateIndex(pools[b], epoch), amount), 0)]
        /\ UNCHANGED <<collateral_vaults, dx_wallets, close_factor_percent,
                       transient_nfts, quote, epoch>>

\* extend_borrow of a stable position: the interest so far joins the loan in the
\* position, the pool lends the amount.
ExtendStable(id, amount) ==
    LET d == cdps[id]
        b == d.borrow_token
        interest == StableDebt(d) - d.borrow_amount
        stable_rate == PoolInterestRate(pools[b], epoch, amount).stable
    IN  /\ Call
        /\ d.is_stable
        /\ Priced(b, d.collateral_token)
        /\ StableDebt(d) + amount
             < GetMaxLoanAmount(d.collateral_token, d.collateral_amount, b, 0)
        /\ CanBorrowStable(pools[b], epoch, amount)
        /\ StableDebt(d) + amount # 0
        /\ pools' = [pools EXCEPT ![b] = BorrowStable(@, epoch, amount, stable_rate)]
        /\ cdps' = [cdps EXCEPT ![id] =
                       UpdateCdpData(d, amount, interest, 0, 0,
                                     GetWeightRate(StableDebt(d), d.stable_rate,
                                                   amount, stable_rate))]
        /\ UNCHANGED <<collateral_vaults, dx_wallets, close_factor_percent,
                       transient_nfts, quote, epoch>>

(* Collateral *)

\* Mutant: checks the collateral as it is before the withdrawal.
CollateralSufficesBefore(d, amount) ==
    GetMaxLoanAmount(d.collateral_token, d.collateral_amount, d.borrow_token, 0)
      >= VariableDebt(d)

\* validate_withdraw_collateral: the debt it knows is the variable one.
CollateralSuffices(d, amount) ==
    GetMaxLoanAmount(d.collateral_token, d.collateral_amount, d.borrow_token, amount)
      >= VariableDebt(d)

\* The dx tokens taken from the vault are rounded down, what the position loses
\* is rounded up.
WithdrawCollateral(id, amount) ==
    LET d == cdps[id]
        c == d.collateral_token
        shares == DDiv(amount, CurrentDepositIndex(pools[c], epoch))
        taken  == FloorTo(shares, ShareUnit[c])
    IN  /\ Call
        /\ Priced(d.borrow_token, c)
        /\ CollateralSuffices(d, amount)
        /\ taken <= collateral_vaults[c]
        /\ CanRemoveLiquity(pools[c], epoch, taken)
        /\ pools' = [pools EXCEPT ![c] = RemoveLiquity(@, epoch, taken)]
        /\ collateral_vaults' = [collateral_vaults EXCEPT ![c] = @ - taken]
        /\ cdps' = [cdps EXCEPT ![id].collateral_amount = @ - CeilTo(shares, ShareUnit[c])]
        /\ UNCHANGED <<dx_wallets, close_factor_percent, transient_nfts, quote, epoch>>

\* addition_collateral with dx tokens.
AddDxCollateral(id, dx_amount) ==
    LET d == cdps[id]
        c == d.collateral_token
    IN  /\ Call
        /\ dx_amount <= dx_wallets[c]
        /\ cdps' = [cdps EXCEPT ![id] = UpdateCdpData(d, 0, 0, dx_amount, 0, 0)]
        /\ dx_wallets' = [dx_wallets EXCEPT ![c] = @ - dx_amount]
        /\ collateral_vaults' = [collateral_vaults EXCEPT ![c] = @ + dx_amount]
        /\ UNCHANGED <<pools, close_factor_percent, transient_nfts, quote, epoch>>

\* addition_collateral with the underlying token, which is supplied first.
AddUnderlyingCollateral(id, amount) ==
    LET d == cdps[id]
        c == d.collateral_token
        minted == MintAmount(UpdateIndex(pools[c], epoch), amount)
    IN  /\ Call
        /\ CanAddLiquity(pools[c], epoch)
        /\ pools' = [pools EXCEPT ![c] = AddLiquity(@, epoch, amount)]
        /\ cdps' = [cdps EXCEPT ![id] = UpdateCdpData(d, 0, 0, minted, 0, 0)]
        /\ collateral_vaults' = [collateral_vaults EXCEPT ![c] = @ + minted]
        /\ UNCHANGED <<dx_wallets, close_factor_percent, transient_nfts, quote, epoch>>

(* Repaying and liquidating *)

Repay(id, bucket) ==
    LET d == cdps[id]
    IN  /\ Call
        /\ CanPay(d, bucket, {})
        /\ pools' = [pools EXCEPT ![d.borrow_token] = PoolPaid(d, bucket, {})]
        /\ cdps' = [cdps EXCEPT ![id] = CdpPaid(d, bucket, {})]
        /\ UNCHANGED <<collateral_vaults, dx_wallets, close_factor_percent,
                       transient_nfts, quote, epoch>>

\* The dx tokens that leave the collateral vault are redeemed from the pool as it
\* is after the payment.
RedeemSeized(c, taken, paid_pools) ==
    /\ 0 <= taken /\ taken <= collateral_vaults[c]
    /\ CanRemoveLiquity(paid_pools[c], epoch, taken)
    /\ pools' = [paid_pools EXCEPT ![c] = RemoveLiquity(@, epoch, taken)]
    /\ collateral_vaults' = [collateral_vaults EXCEPT ![c] = @ - taken]

\* A liquidation that repays q.debt from a bucket and releases q.collateral.
Liquidate(id, q, bucket) ==
    LET d == cdps[id]
        c == d.collateral_token
    IN  /\ bucket >= q.debt
        /\ CanPay(d, bucket, {q.debt})
        /\ PaySplit(d, bucket, {q.debt}).paid = q.debt
        /\ RedeemSeized(c, TruncTo(q.collateral, ShareUnit[c]),
                        [pools EXCEPT ![d.borrow_token] = PoolPaid(d, bucket, {q.debt})])
        /\ cdps' = [cdps EXCEPT ![id] =
                       [CdpPaid(d, bucket, {q.debt}) EXCEPT
                           !.collateral_amount = @ - q.collateral]]

Liquidation(id, debt_to_cover, bucket) ==
    LET d == cdps[id]
    IN  /\ Call
        /\ Priced(d.borrow_token, d.collateral_token)
        /\ Liquidatable(d)
        /\ Liquidate(id, GetLiquidateDebtAndCollateral(d, debt_to_cover), bucket)
        /\ UNCHANGED <<dx_wallets, close_factor_percent, transient_nfts, quote, epoch>>

(* Flash loans: the NFT cannot be deposited, so that the transaction that   *)
(* mints it must repay it.                                                  *)

BorrowFlashloan(t, amount) ==
    LET lent == FloorTo(amount, Unit[t])
    IN  /\ Call
        /\ CanBorrowFixedTerm(pools[t], amount)
        /\ pools' = [pools EXCEPT ![t] = BorrowFixedTerm(@, amount)]
        /\ transient_nfts' = transient_nfts \cup
              {[id |-> calls, res_addr |-> t, amount |-> lent,
                fee |-> DMul(lent, pools[t].flashloan_fee_ratio)]}
        /\ UNCHANGED <<cdps, collateral_vaults, dx_wallets, close_factor_percent, quote, epoch>>

RepayFlashloan(nft) ==
    LET p == pools[nft.res_addr]
    IN  /\ CanRepayFixedTerm(p, epoch, FixedTermTotal(p, nft.amount, nft.fee),
                             nft.amount, nft.fee)
        /\ pools' = [pools EXCEPT ![nft.res_addr] = RepayFixedTerm(@, epoch, nft.amount, nft.fee)]
        /\ transient_nfts' = transient_nfts \ {nft}
        /\ UNCHANGED <<cdps, collateral_vaults, dx_wallets, close_factor_percent,
                       quote, epoch, calls>>

(* The operator *)

SetCloseFactor(percent) ==
    /\ Call
    /\ close_factor_percent' = percent
    /\ UNCHANGED <<pools, cdps, collateral_vaults, dx_wallets, transient_nfts, quote, epoch>>

DrawInsurance(t, amount) ==
    /\ Call
    /\ CanWithdrawInsurance(pools[t], amount)
    /\ pools' = [pools EXCEPT ![t] = WithdrawInsurance(@, amount)]
    /\ UNCHANGED <<cdps, collateral_vaults, dx_wallets, close_factor_percent,
                   transient_nfts, quote, epoch>>

\* Between transactions prices move and epochs pass.
PricesMove ==
    /\ transient_nfts = {}
    /\ quote' \in Quotes \ {quote}
    /\ UNCHANGED <<pools, cdps, collateral_vaults, dx_wallets, close_factor_percent,
                   transient_nfts, epoch, calls>>

NextEpoch ==
    /\ transient_nfts = {}
    /\ epoch < MaxEpoch
    /\ epoch' = epoch + 1
    /\ UNCHANGED <<pools, cdps, collateral_vaults, dx_wallets, close_factor_percent,
                   transient_nfts, quote, calls>>

Next ==
    \/ \E t \in Token, amount \in Supplies : Supply(t, amount)
    \/ \E t \in Token, shares \in Withdrawals : Withdraw(t, shares)
    \/ \E pair \in Pairs, dx_amount \in Collaterals, amount \in Loans :
          \/ OpenVariable(pair[2], dx_amount, pair[1], amount)
          \/ StableBorrowing /\ OpenStable(pair[2], dx_amount, pair[1], amount)
    \/ \E id \in DOMAIN cdps :
          \/ \E amount \in Loans : ExtendVariable(id, amount) \/ ExtendStable(id, amount)
          \/ \E amount \in Withdrawals : WithdrawCollateral(id, amount)
          \/ \E amount \in Additions :
                AddDxCollateral(id, amount) \/ AddUnderlyingCollateral(id, amount)
          \/ \E bucket \in Repayments : Repay(id, bucket)
          \/ \E cover \in Covers, bucket \in Repayments : Liquidation(id, cover, bucket)
    \/ \E t \in Token, amount \in FlashLoans : BorrowFlashloan(t, amount)
    \/ \E nft \in transient_nfts : RepayFlashloan(nft)
    \/ \E percent \in CloseFactors : SetCloseFactor(percent)
    \/ \E t \in Token, amount \in Draws : DrawInsurance(t, amount)
    \/ PricesMove
    \/ NextEpoch

Spec == Init /\ [][Next]_vars

----------------------------------------------------------------------------
(* Safety *)

CdpsOf(t, is_stable) ==
    {i \in DOMAIN cdps : cdps[i].borrow_token = t /\ cdps[i].is_stable = is_stable}

\* The pool's variable debt is that of the positions, share by share, through
\* every rounding of borrowing, repaying and liquidating: a share the pool
\* counts and no position owes would earn interest nobody pays.
VariableBookMatches ==
    \A t \in Token :
        pools[t].variable_loan_share_quantity
          = SumFunctionOnSet([i \in DOMAIN cdps |-> cdps[i].normalized_borrow],
                             CdpsOf(t, FALSE))

\* The stable positions owe at least what the pool counts, although the pool
\* does not see interest that joins a loan when the position is extended.
StableBookBacked ==
    \A t \in Token :
        pools[t].stable_loan_amount
          <= SumFunctionOnSet([i \in DOMAIN cdps |-> cdps[i].borrow_amount],
                              CdpsOf(t, TRUE))

CollateralizedBy(t) == {i \in DOMAIN cdps : cdps[i].collateral_token = t}

\* The vault holds the collateral of all positions together: withdrawals and
\* liquidations, which round down what leaves and up what is booked, never take
\* collateral of another position.
CollateralBacked ==
    \A t \in Token :
        SumFunctionOnSet([i \in DOMAIN cdps |-> cdps[i].collateral_amount],
                         CollateralizedBy(t))
          <= collateral_vaults[t]

\* What each pool holds, lends within the transaction and has lent covers its
\* deposits, up to the debt share each loan may record too few: flash loans,
\* supplies and repayments interleave within a transaction.
PoolsSolvent ==
    \A t \in Token :
        LET p == pools[t]
            flash == MapThenSumSet(LAMBDA nft : nft.amount,
                                   {nft \in transient_nfts : nft.res_addr = t})
        IN  p.share_supply * p.deposit_index
              <= ONE * (p.vault + flash + p.stable_loan_amount)
                   + (p.variable_loan_share_quantity + calls) * p.loan_index

----------------------------------------------------------------------------
(* Action properties *)

DebtOf(d) == IF d.is_stable THEN StableDebt(d) ELSE VariableDebt(d)

\* A step leaves a position within the LTV of its collateral, at the prices and
\* in the epoch of the step, up to one share of the debt and one dx token share,
\* the roundings of what is booked.
CoveredAfter(i) ==
    LET d == cdps'[i]
        b == d.borrow_token
        c == d.collateral_token
        debt  == IF d.is_stable THEN d.borrow_amount
                 ELSE GetVariableInterest(pools'[b], epoch, d.normalized_borrow - ShareUnit[b])
        value == GetRedemptionValue(pools'[c], epoch, d.collateral_amount + ShareUnit[c])
    IN  debt <= CeilTo(DDiv(DMul(DMul(quote[c], value), AssetStates[c].ltv), quote[b]), Unit[b])

\* Borrowing never leaves a position owing more than the LTV of its collateral
\* allows: the limit is computed with indices read before the pool updates them
\* and the debt is recorded in rounded shares after it.
LoansStayWithinLtv ==
    [][\A i \in DOMAIN cdps' :
          (i \notin DOMAIN cdps \/ cdps'[i].total_borrow > cdps[i].total_borrow)
             => CoveredAfter(i)]_vars

\* Taking collateral out leaves a variable position within its LTV.
WithdrawalsKeepCover ==
    [][\A id \in DOMAIN cdps, amount \in Withdrawals :
          WithdrawCollateral(id, amount) /\ ~ cdps[id].is_stable => CoveredAfter(id)]_vars

\* The index a seizure divides by is the collateral's value over its amount,
\* truncated twice: a seizure of all the collateral may book this much more than
\* the position has.
SeizureDust(d) == d.collateral_amount \div ONE

\* What the dx tokens of a seizure are worth beyond the value it was computed
\* from, and what the debt of a capped seizure rounds off.
GainDust(d) ==
    LET c == d.collateral_token
    IN  DMul(2 + (2 * d.collateral_amount) \div ONE, quote[c])
          + (WithBonus(d, quote[d.borrow_token]) + AssetStates[c].liquidation_bonus) \div ONE
          + 3

\* What a liquidator gains is bounded by the debt repaid and the bonus, at the
\* prices of the step, but for the roundings: also when the collateral does not
\* suffice, which leaves it at most its dust below zero.
LiquidatorGainBounded ==
    [][\A i \in DOMAIN cdps :
          cdps'[i].total_repay > cdps[i].total_repay
            /\ cdps'[i].collateral_amount < cdps[i].collateral_amount =>
            LET d == cdps[i]
                c == d.collateral_token
                seized == GetRedemptionValue(pools[c], epoch,
                                             d.collateral_amount - cdps'[i].collateral_amount)
                repaid == cdps'[i].total_repay - d.total_repay
            IN  /\ cdps'[i].collateral_amount >= -SeizureDust(d)
                /\ DMul(seized, quote[c])
                     <= WithBonus(d, DMul(repaid, quote[d.borrow_token])) + GainDust(d)]_vars

\* Nothing but a payment lowers the debt of a stable position.
StableDebtKept ==
    [][\A i \in DOMAIN cdps :
          cdps[i].is_stable =>
            StableDebt(cdps'[i])
              >= StableDebt(cdps[i]) - (cdps'[i].total_repay - cdps[i].total_repay)]_vars

\* "Insufficient remaining collateral.": no withdrawal of collateral leaves a
\* position, of either kind, owing more than what remains allows.
RemainingCollateralSuffices ==
    [][\A i \in DOMAIN cdps :
          cdps'[i].collateral_amount < cdps[i].collateral_amount
            /\ cdps'[i].total_repay = cdps[i].total_repay
             => CoveredAfter(i)]_vars
=============================================================================
