---------------------------- MODULE LendingPool ----------------------------
(***************************************************************************)
(* One LendResourcePool under the calls its two callers make: the          *)
(* CollateralDebtManager (deposits, loans, flash loans, insurance) and,    *)
(* through its staking_borrow, StakingEarning (claim NFTs).  An action is  *)
(* one call, so that calls of different users and of one user's manifest   *)
(* interleave in every order; a call that would panic is disabled.         *)
(*                                                                         *)
(* Of the callers the module keeps only what they hand back to the pool:   *)
(* the stable loans (as the CDPs record them) and the open flash loan.     *)
(***************************************************************************)
EXTENDS LendResourcePool

CONSTANTS
    PoolModel, UnderlyingUnit, ShareUnit, InsuranceRatio, FlashloanFeeRatio,
    Borrower,          \* CDPs with a stable loan; {} leaves stable loans out
    Validator,         \* validators whose claim NFTs exist
    Deposits,          \* amounts supplied
    Loans,             \* amounts borrowed at the variable rate
    StableLoans,       \* amounts borrowed at a stable rate
    Repayments,        \* amounts in the buckets that repay
    FlashLoans,        \* amounts borrowed within a transaction
    ClaimAmounts,      \* amounts of the claim NFTs
    UnbondEpochs,      \* the longest a claim NFT has to wait
    MaxNfts,           \* claim NFTs the pool holds at a time
    StartEpoch, MaxEpoch,   \* the network's epochs the model covers
    MaxCalls,          \* calls per epoch
    MaxSupply,         \* dx tokens in circulation
    MaxInsuranceDraws  \* withdrawals of insurance

ASSUME LendingPoolAssumption ==
    /\ InsuranceRatio \in 0 .. ONE
    /\ FlashloanFeeRatio \in Nat
    /\ UnderlyingUnit \in Nat \ {0} /\ ShareUnit \in Nat \ {0}
    /\ Deposits \cup Loans \cup StableLoans \cup Repayments \cup FlashLoans \cup ClaimAmounts
          \subseteq Nat
    /\ IsFiniteSet(Borrower)
    /\ StartEpoch \in Nat /\ MaxEpoch \in Nat /\ StartEpoch <= MaxEpoch
    /\ UnbondEpochs \in Nat /\ MaxNfts \in Nat /\ MaxCalls \in Nat
    /\ MaxSupply \in Nat /\ MaxInsuranceDraws \in Nat

VARIABLES
    pool,             \* the component's state, see NewPool
    epoch,            \* Runtime::current_epoch()
    stable_debts,     \* per borrower: amount, rate and last_update_epoch of its CDP
    flash,            \* the flash loan of the running transaction: amount and fee
    insurance_draws,  \* withdraw_insurance calls so far
    calls             \* calls in this epoch

vars == <<pool, epoch, stable_debts, flash, insurance_draws, calls>>

NoDebt == [amount |-> 0, rate |-> 0, last |-> 0]
NoFlash == [amount |-> 0, fee |-> 0]

ClaimNft == [id : 1 .. MaxNfts, validator : Validator,
             claim_epoch : StartEpoch .. (MaxEpoch + UnbondEpochs), claim_amount : ClaimAmounts]

Bond == [interest : Int, nfts : SUBSET ClaimNft]

\* Types, and the shapes the bookkeeping of bonds must keep.
TypeOK ==
    /\ DOMAIN pool = PoolFields
    /\ \A f \in {"share_supply", "vault", "variable_loan_share_quantity",
                 "stable_loan_amount", "stable_loan_interest_rate",
                 "deposit_interest_rate", "variable_loan_interest_rate", "last_update"} :
            pool[f] \in Nat
    /\ pool.deposit_index >= ONE /\ pool.loan_index >= ONE
    /\ pool.insurance_balance \in Int /\ pool.bond_amount \in Int
    /\ pool.claim_nfts \subseteq ClaimNft
    /\ pool.bond_epochs \subseteq DOMAIN pool.bonds
    /\ \A e \in DOMAIN pool.bonds : pool.bonds[e] \in Bond
    /\ epoch \in StartEpoch .. MaxEpoch
    /\ stable_debts \in [Borrower -> [amount : Nat, rate : Nat, last : Nat]]
    /\ flash \in [amount : Nat, fee : Nat]
    /\ insurance_draws \in 0 .. MaxInsuranceDraws
    /\ calls \in 0 .. MaxCalls

Init ==
    /\ pool = NewPool(PoolModel, UnderlyingUnit, ShareUnit, InsuranceRatio, FlashloanFeeRatio)
    /\ epoch = StartEpoch
    /\ stable_debts = [b \in Borrower |-> NoDebt]
    /\ flash = NoFlash
    /\ insurance_draws = 0
    /\ calls = 0

\* One more call of the pool, within the bound of the epoch.
Call == calls < MaxCalls /\ calls' = calls + 1

----------------------------------------------------------------------------
(* Deposits *)

Supply(amount) ==
    /\ Call
    /\ CanAddLiquity(pool, epoch)
    /\ pool.share_supply + MintAmount(UpdateIndex(pool, epoch), amount) <= MaxSupply
    /\ pool' = AddLiquity(pool, epoch, amount)
    /\ UNCHANGED <<epoch, stable_debts, flash, insurance_draws>>

Withdraw(shares) ==
    /\ Call
    /\ CanRemoveLiquity(pool, epoch, shares)
    /\ pool' = RemoveLiquity(pool, epoch, shares)
    /\ UNCHANGED <<epoch, stable_debts, flash, insurance_draws>>

(* Variable loans: the debts that are repaid are part of the pool's total. *)

TakeVariable(amount) ==
    /\ Call
    /\ CanBorrowVariable(pool, epoch, amount)
    /\ pool' = BorrowVariable(pool, epoch, amount)
    /\ UNCHANGED <<epoch, stable_debts, flash, insurance_draws>>

PayVariable(bucket, normalized) ==
    /\ Call
    /\ CanRepayVariable(pool, epoch, bucket, normalized, {})
    /\ pool' = RepayVariable(pool, epoch, bucket, normalized, {})
    /\ UNCHANGED <<epoch, stable_debts, flash, insurance_draws>>

(* Stable loans, one per borrower. *)

TakeStable(b, amount) ==
    LET rate == PoolInterestRate(pool, epoch, amount).stable
    IN  /\ Call
        /\ stable_debts[b] = NoDebt
        /\ CanBorrowStable(pool, epoch, amount)
        /\ pool' = BorrowStable(pool, epoch, amount, rate)
        /\ stable_debts' = [stable_debts EXCEPT
                                ![b] = [amount |-> amount, rate |-> rate, last |-> epoch]]
        /\ UNCHANGED <<epoch, flash, insurance_draws>>

\* The CDP follows the payment as update_cdp_after_repay does: not at all when
\* the payment is exactly the interest.
PayStable(b, bucket) ==
    LET d == stable_debts[b]
        s == RepayStableSplit(pool, epoch, bucket, d.amount, d.rate, d.last, {})
    IN  /\ Call
        /\ d # NoDebt
        /\ CanRepayStable(pool, epoch, bucket, d.amount, d.rate, d.last, {})
        /\ pool' = RepayStable(pool, epoch, bucket, d.amount, d.rate, d.last, {})
        /\ stable_debts' =
              [stable_debts EXCEPT
                  ![b] = IF s.in_borrow = 0 THEN d
                         ELSE IF s.in_borrow = d.amount THEN NoDebt
                         ELSE [d EXCEPT !.amount = @ - s.in_borrow, !.last = epoch]]
        /\ UNCHANGED <<epoch, flash, insurance_draws>>

(* Flash loans: borrowed and repaid in one transaction, with any calls of   *)
(* the same manifest in between.                                            *)

TakeFlash(amount) ==
    LET lent == FloorTo(amount, pool.underlying_unit)
    IN  /\ Call
        /\ flash = NoFlash
        /\ CanBorrowFixedTerm(pool, amount)
        /\ pool' = BorrowFixedTerm(pool, amount)
        /\ flash' = [amount |-> lent, fee |-> DMul(lent, pool.flashloan_fee_ratio)]
        /\ UNCHANGED <<epoch, stable_debts, insurance_draws>>

PayFlash ==
    /\ flash # NoFlash
    /\ CanRepayFixedTerm(pool, epoch, FixedTermTotal(pool, flash.amount, flash.fee),
                         flash.amount, flash.fee)
    /\ pool' = RepayFixedTerm(pool, epoch, flash.amount, flash.fee)
    /\ flash' = NoFlash
    /\ UNCHANGED <<epoch, stable_debts, insurance_draws, calls>>

(* Claim NFTs: staking_borrow with one NFT that is not due, bought for its  *)
(* value discounted at the stable rate (StakingEarning::claim_xrd).         *)

DiscountedInterest(nft) ==
    LET rate == PoolInterestRate(pool, epoch, nft.claim_amount).stable
    IN  nft.claim_amount - CalcPrincipal(nft.claim_amount, rate, nft.claim_epoch - epoch)

SellClaim(nft) ==
    LET interest == DiscountedInterest(nft)
        price    == nft.claim_amount - interest
    IN  /\ Call
        /\ nft.claim_epoch > epoch
        /\ \A held \in pool.claim_nfts : held.id # nft.id
        /\ CanAccrue(pool, epoch)
        /\ CanBorrowFixedTerm(pool, price)
        /\ pool' = AddFixedTerm(BorrowFixedTerm(pool, price), nft, interest)
        /\ UNCHANGED <<epoch, stable_debts, flash, insurance_draws>>

(* The operator takes insurance out. *)

DrawInsurance(amount) ==
    /\ Call
    /\ insurance_draws < MaxInsuranceDraws
    /\ CanWithdrawInsurance(pool, amount)
    /\ pool' = WithdrawInsurance(pool, amount)
    /\ insurance_draws' = insurance_draws + 1
    /\ UNCHANGED <<epoch, stable_debts, flash>>

\* Time passes between transactions.
NextEpoch ==
    /\ flash = NoFlash
    /\ epoch < MaxEpoch
    /\ epoch' = epoch + 1
    /\ calls' = 0
    /\ UNCHANGED <<pool, stable_debts, flash, insurance_draws>>

----------------------------------------------------------------------------
(* The inputs the model enumerates. *)

\* All of a quantity or half of it.
Parts(quantity) == {part \in {quantity, quantity \div 2} : part > 0}

\* The lowest identifier the pool does not hold.
FreeNftId == CHOOSE i \in 1 .. (MaxNfts + 1) :
                /\ \A n \in pool.claim_nfts : n.id # i
                /\ \A j \in 1 .. (i - 1) : \E n \in pool.claim_nfts : n.id = j

OfferedNfts ==
    {n \in [id : {FreeNftId}, validator : Validator,
            claim_epoch : (epoch + 1) .. (epoch + UnbondEpochs), claim_amount : ClaimAmounts] :
        n.id <= MaxNfts}

Next ==
    \/ \E amount \in Deposits : Supply(amount)
    \/ \E shares \in Parts(pool.share_supply) : Withdraw(shares)
    \/ \E amount \in Loans : TakeVariable(amount)
    \/ \E bucket \in Repayments, normalized \in Parts(pool.variable_loan_share_quantity) :
            PayVariable(bucket, normalized)
    \/ \E b \in Borrower, amount \in StableLoans : TakeStable(b, amount)
    \/ \E b \in Borrower, bucket \in Repayments : PayStable(b, bucket)
    \/ \E amount \in FlashLoans : TakeFlash(amount)
    \/ PayFlash
    \/ \E nft \in OfferedNfts : SellClaim(nft)
    \/ \E amount \in Parts(pool.insurance_balance - 1) : DrawInsurance(amount)
    \/ NextEpoch

Spec == Init /\ [][Next]_vars

----------------------------------------------------------------------------
(* Safety *)

\* What the discounted claim NFTs cost the pool and will bring back.
BondPrincipal ==
    SumClaimAmount(pool.claim_nfts)
      - SumFunctionOnSet([e \in DOMAIN pool.bonds |-> pool.bonds[e].interest],
                         pool.bond_epochs)

\* What the pool owns, times ONE: the vault, the open flash loan, the variable
\* debt at its index and the claim NFTs at cost.
Assets ==
    ONE * (pool.vault + flash.amount + BondPrincipal)
      + pool.variable_loan_share_quantity * pool.loan_index

\* borrow_variable divides before it rounds up, so that at full divisibility the
\* quotient is already truncated: each call may record one debt share too few.
RoundingDust == MaxCalls * (MaxEpoch - StartEpoch + 1) * pool.loan_index

\* The deposits are always covered: after any history of accruals, fees, bond
\* claims, repayments and one withdrawal of insurance, what the dx tokens are
\* worth at deposit_index is what the pool owns, up to the dust of its roundings.
Solvent == pool.share_supply * pool.deposit_index <= Assets + RoundingDust

\* The spread between what borrowers pay and what depositors earn, which
\* update_index books as insurance, is never negative: insurance_balance does
\* not go below zero, by whatever path the rates and the total debts moved.
SpreadCovered == pool.insurance_balance >= 0

\* A quote given by get_current_index (which the CDP manager uses to value
\* collateral) is honoured by the next withdrawal of the same epoch: update_index
\* claims bonds first and accrues the rate after, the getter does the opposite,
\* and the getter never promises more than the withdrawal pays.
QuoteHonoured ==
    CanAccrue(pool, epoch) =>
        CurrentDepositIndex(pool, epoch) <= UpdateIndex(pool, epoch).deposit_index

\* Every claim NFT in the vaults is listed in the bond of its claim epoch, and
\* that epoch is queued in bond_epochs; nothing is listed that the vaults do
\* not hold.  A claim NFT outside the list would never be claimed again.
BondsTracked ==
    /\ \A n \in pool.claim_nfts :
          n.claim_epoch \in pool.bond_epochs /\ n \in pool.bonds[n.claim_epoch].nfts
    /\ \A e \in DOMAIN pool.bonds : \A n \in pool.bonds[e].nfts :
          n.claim_epoch = e /\ n \in pool.claim_nfts

\* The pool never holds a matured bond across an accrual: every queued epoch is
\* after last_update.  Earnings of a bond skipped by an accrual would be
\* distributed to whoever holds dx tokens later.
MaturedCollected ==
    /\ \A e \in pool.bond_epochs : e > pool.last_update
    /\ pool.last_update <= epoch

\* bond_amount never understates what the held claim NFTs cost.  (It overstates
\* it once the NFTs of two validators were due in one epoch: the interest of
\* the bond is taken off once for each of them.)
BondAmountCoversHeld == pool.bond_amount >= BondPrincipal

\* Each call may truncate two yearly interests by one atto and the rate by one.
RateDust == MaxCalls * (MaxEpoch - StartEpoch + 1) * (2 * ONE + pool.stable_loan_amount)

\* The total of the stable loans is their sum.
StableTotalMatches ==
    pool.stable_loan_amount = SumFunction([b \in Borrower |-> stable_debts[b].amount])

\* The pool's stable book is that of the single loans, through borrowing, partial
\* repayments and unpaid interest that adds to a loan: the total is their sum, and
\* the average rate that of the loans weighted by their amounts, up to truncations.
StableBookMatches ==
    LET yearly == SumFunction([b \in Borrower |-> stable_debts[b].amount * stable_debts[b].rate])
        total  == pool.stable_loan_amount * pool.stable_loan_interest_rate
    IN  StableTotalMatches /\ Magnitude(total - yearly) <= RateDust

----------------------------------------------------------------------------
(* The claim NFTs of the pool behave as a ClaimBook: every call that accrues    *)
(* claims exactly the NFTs that are due, and no other call claims any.          *)

Book == INSTANCE ClaimBook WITH held <- pool.claim_nfts, accrued <- pool.last_update

ImplementsClaimBook == Book!Spec

----------------------------------------------------------------------------
(* What comments and assertions of lending.rs say, and the code does not do *)

\* "It is impossible for `interest` to be positive when `deposit_funds` is zero":
\* whenever bonds with interest are due there are deposits to credit it to, so
\* that no method that updates the index panics (borrow_fixed_term and withdraw_insurance
\* do not update it).
ReturnsHaveDepositors == CanAccrue(pool, epoch)

\* withdraw_insurance asserts that the amount is below insurance_balance: what
\* the operator takes out, over any number of withdrawals, is insurance, and the
\* deposits stay covered.
DrawsSpareDeposits == Solvent

----------------------------------------------------------------------------
(* Action properties *)

\* Buying into the pool or leaving it does not dilute the others: the pool's
\* surplus over the deposits, accrued to the same epoch, does not fall.
NoDilution ==
    [][pool'.share_supply # pool.share_supply =>
          LET u == UpdateIndex(pool, epoch)
          IN  ONE * pool'.vault - pool'.share_supply * pool'.deposit_index
                >= ONE * u.vault - u.share_supply * u.deposit_index]_vars
=============================================================================
