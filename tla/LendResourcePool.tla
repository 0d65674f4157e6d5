-------------------------- MODULE LendResourcePool --------------------------
(***************************************************************************)
(* The methods of protocol/src/pool/lending.rs as functions on the state   *)
(* of one pool: a record with the fields of the component, plus            *)
(*   share_supply     total supply of the pool's dx token (kept by its     *)
(*                    resource manager, minted and burned only here),      *)
(*   underlying_unit  the unit of the underlying token,                    *)
(*   share_unit       the unit of the dx token.                            *)
(* now is Runtime::current_epoch().  A transaction that panics has no      *)
(* effect, so every method M comes with CanM, true when none of the        *)
(* assertions, unwraps, vault withdrawals and divisions of M fails.        *)
(*                                                                         *)
(* bond_epochs, a sorted vector without duplicates, is a set; the list of  *)
(* claim NFTs of a bond is a set; a claim NFT is a record                  *)
(*   [id, validator, claim_epoch, claim_amount],                           *)
(* one NFT resource per validator.                                         *)
(***************************************************************************)
EXTENDS InterestModel, FiniteSets, FiniteSetsExt, Functions

CONSTANTS InterestParams,   \* the parameters of DefInterestModel
          ActiveSetApy      \* what ValidatorKeeper reports

\* The curves as they are deployed and the growth of the stakes are not negative
\* (set_params does not check it).
ASSUME RatesAssumption ==
    /\ InterestParams \in [def_primary : Nat, def_quadratic : Nat,
                           stable_coin_primary : Nat, stable_coin_quadratic : Nat]
    /\ ActiveSetApy \in Nat

NewPool(model, underlying_unit, share_unit, insurance_ratio, flashloan_fee_ratio) ==
    [ interest_model |-> model,
      underlying_unit |-> underlying_unit, share_unit |-> share_unit,
      insurance_ratio |-> insurance_ratio, flashloan_fee_ratio |-> flashloan_fee_ratio,
      share_supply |-> 0, vault |-> 0, insurance_balance |-> 0,
      deposit_index |-> ONE, loan_index |-> ONE, last_update |-> 0,
      deposit_interest_rate |-> 0, variable_loan_interest_rate |-> 0,
      variable_loan_share_quantity |-> 0,
      stable_loan_interest_rate |-> 0, stable_loan_amount |-> 0,
      stable_loan_last_update |-> 0,
      bond_epochs |-> {}, bonds |-> << >>, claim_nfts |-> {}, bond_amount |-> 0 ]

PoolFields == DOMAIN NewPool("Default", 1, 1, 0, 0)

----------------------------------------------------------------------------
(* Bonds: claim NFTs bought at a discount, collected when they mature.     *)

SumClaimAmount(nfts) == SumFunction([n \in nfts |-> n.claim_amount])

\* Mutants (here and below): a bond claimed one epoch late, or early.
MatureEpochsLate(p, now) == {e \in p.bond_epochs : e < now}
MatureEpochsEarly(p, now) == {e \in p.bond_epochs : e <= now + 1}

MatureEpochs(p, now) == {e \in p.bond_epochs : e <= now}

MatureNfts(p, now) == UNION {p.bonds[e].nfts : e \in MatureEpochs(p, now)}

MatureInterest(p, now) ==
    SumFunctionOnSet([e \in DOMAIN p.bonds |-> p.bonds[e].interest], MatureEpochs(p, now))

ClearedBond == [interest |-> 0, nfts |-> {}]

\* Mutant: the interest is not given back to bond_amount.
BondReleaseWhole(bond) == SumClaimAmount(bond.nfts)

\* What claiming the bond of one epoch takes off bond_amount: the interest of
\* the whole bond is deducted from the claim of every validator's bucket.
BondRelease(bond) ==
    SumClaimAmount(bond.nfts)
      - Cardinality({n.validator : n \in bond.nfts}) * bond.interest

\* Earnings are shared out: a part to the insurance, the rest to the deposits.
ShareOut(p, earned) ==
    LET insurance == DMul(earned, p.insurance_ratio)
    IN  [p EXCEPT !.insurance_balance = @ + insurance,
                  !.deposit_index = @ + DDiv(earned - insurance, DMul(p.share_supply, @))]

Collected(p, now) ==
    LET matured == MatureEpochs(p, now)
    IN  [p EXCEPT
            !.bond_epochs = @ \ matured,
            !.bonds = [e \in DOMAIN p.bonds |->
                           IF e \in matured THEN ClearedBond ELSE p.bonds[e]],
            !.claim_nfts = @ \ MatureNfts(p, now),
            !.bond_amount = @ - SumFunctionOnSet(
                                   [e \in DOMAIN p.bonds |-> BondRelease(p.bonds[e])],
                                   matured),
            !.vault = @ + SumClaimAmount(MatureNfts(p, now))]

ClaimMaturedBonds(p, now) ==
    IF MatureInterest(p, now) > 0
    THEN ShareOut(Collected(p, now), MatureInterest(p, now))
    ELSE Collected(p, now)

----------------------------------------------------------------------------
(* Indices: what a dx token and a share of the variable debt are worth.    *)

\* Mutant: the getter forgets the insurance's part of the bonds' interest.
WithBondsGross(p, index, interest) ==
    IF interest > 0 THEN index + DDiv(interest, DMul(p.share_supply, index)) ELSE index

\* A deposit index raised by the interest of the bonds that are due.
WithBonds(p, index, interest) ==
    IF interest > 0
    THEN index + DDiv(DMul(interest, ONE - p.insurance_ratio), DMul(p.share_supply, index))
    ELSE index

CurrentDepositIndex(p, now) ==
    IF now = p.last_update THEN p.deposit_index
    ELSE WithBonds(p, CalcLinearInterest(p.deposit_index, p.deposit_interest_rate,
                                         now - p.last_update),
                   MatureInterest(p, now))

CurrentLoanIndex(p, now) ==
    IF now = p.last_update THEN p.loan_index
    ELSE CalcCompoundInterest(p.loan_index, p.variable_loan_interest_rate,
                              now - p.last_update)

\* get_current_index and update_index divide by the value of all deposits when
\* a bond with interest is due: without deposits they panic.
CanAccrue(p, now) ==
    now > p.last_update /\ MatureInterest(p, now) > 0
        => DMul(p.share_supply, p.deposit_index) # 0

\* The new indices; the spread between the interest of the loans and of the
\* deposits goes to the insurance.
Accrue(c, now, supply_index, borrow_index) ==
    LET variable_interest ==
            DMul(c.variable_loan_share_quantity, borrow_index - c.loan_index)
        stable_interest ==
            CalcCompoundInterest(c.stable_loan_amount, c.stable_loan_interest_rate,
                                 now - c.last_update) - c.stable_loan_amount
        supply_interest == DMul(c.share_supply, supply_index - c.deposit_index)
    IN  [c EXCEPT
            !.insurance_balance =
                @ + variable_interest + stable_interest - supply_interest,
            !.deposit_index = supply_index,
            !.loan_index = borrow_index,
            !.last_update = now]

UpdateIndex(p, now) ==
    LET c == ClaimMaturedBonds(p, now)
    IN  IF now = p.last_update THEN p
        ELSE Accrue(c, now, CurrentDepositIndex(c, now), CurrentLoanIndex(c, now))

----------------------------------------------------------------------------
(* Rates.  The interest model ignores the stable and the bond ratio, which *)
(* are left out.                                                           *)

\* Stable debt with interest since stable_loan_last_update.
GetStableLoanValue(p, now) ==
    CalcCompoundInterest(p.stable_loan_amount, p.stable_loan_interest_rate,
                         now - p.stable_loan_last_update)

GetRedemptionValue(p, now, units) == DMul(units, CurrentDepositIndex(p, now))
GetVariableInterest(p, now, shares) == DMul(shares, CurrentLoanIndex(p, now))
GetStableInterest(now, amount, last_epoch, rate) ==
    CalcCompoundInterest(amount, rate, now - last_epoch) - amount

\* The rate of the deposits: what the debts pay, less the insurance's part.
WithSupplyRate(p, rate, supply, variable, stable) ==
    LET debt     == variable + stable
        overall  == IF debt = 0 THEN 0
                    ELSE DDiv(DMul(variable, rate.variable) + DMul(stable, rate.stable), debt)
        interest == DMul(DMul(debt, overall), ONE - p.insurance_ratio)
    IN  [variable |-> rate.variable, stable |-> rate.stable,
         supply |-> IF supply = 0 THEN 0 ELSE DDiv(interest, supply)]

RatesFor(p, supply, variable, stable) ==
    WithSupplyRate(p, GetInterestRate(InterestParams,
                                      IF supply = 0 THEN 0 ELSE DDiv(variable + stable, supply),
                                      p.interest_model, ActiveSetApy),
                   supply, variable, stable)

\* What the pool would charge and pay with stable_borrow more stable debt.
PoolInterestRate(p, now, stable_borrow) ==
    RatesFor(p, GetRedemptionValue(p, now, p.share_supply),
             GetVariableInterest(p, now, p.variable_loan_share_quantity),
             GetStableLoanValue(p, now) + stable_borrow)

WithRates(p, rate) ==
    [p EXCEPT !.deposit_interest_rate = rate.supply,
              !.variable_loan_interest_rate = rate.variable]

UpdateInterestRate(p, now) == WithRates(p, PoolInterestRate(p, now, 0))

----------------------------------------------------------------------------
(* The methods.  In what follows u is the pool after update_index in the    *)
(* same call.  Deposits:                                                    *)

MintAmount(u, amount) == FloorTo(DDiv(amount, u.deposit_index), u.share_unit)

CanAddLiquity(p, now) == CanAccrue(p, now)

Supplied(u, amount, minted) ==
    [u EXCEPT !.vault = @ + amount, !.share_supply = @ + minted]

\* Mutants: dx tokens are minted at the index of the last update; the rates of
\* the smaller pool stay in force.
AddLiquityStaleIndex(p, now, amount) ==
    UpdateInterestRate(Supplied(UpdateIndex(p, now), amount, MintAmount(p, amount)), now)

AddLiquityOldRates(p, now, amount) ==
    LET u == UpdateIndex(p, now) IN Supplied(u, amount, MintAmount(u, amount))

AddLiquity(p, now, amount) ==
    LET u == UpdateIndex(p, now)
    IN  UpdateInterestRate(Supplied(u, amount, MintAmount(u, amount)), now)

WithdrawAmount(u, now, shares) ==
    FloorTo(GetRedemptionValue(u, now, shares), u.underlying_unit)

CanRemoveLiquity(p, now, shares) ==
    /\ CanAccrue(p, now)
    /\ LET u == UpdateIndex(p, now) IN u.vault >= WithdrawAmount(u, now, shares)

\* The rates are updated before the withdrawal leaves the vault.
Withdrawn(u, now, shares) ==
    [UpdateInterestRate([u EXCEPT !.share_supply = @ - shares], now) EXCEPT
        !.vault = @ - WithdrawAmount(u, now, shares)]

RemoveLiquity(p, now, shares) == Withdrawn(UpdateIndex(p, now), now, shares)

----------------------------------------------------------------------------
(* Variable loans.                                                         *)

VariableShare(u, amount) == CeilTo(DDiv(amount, u.loan_index), u.share_unit)

\* Mutant: borrows without looking at the vault.
CanBorrowVariableUnchecked(p, now, amount) == CanAccrue(p, now)

\* The vault is checked before update_index collects the bonds that are due.
CanBorrowVariable(p, now, amount) == p.vault >= amount /\ CanAccrue(p, now)

LentVariable(u, now, amount) ==
    [UpdateInterestRate([u EXCEPT !.variable_loan_share_quantity =
                                      @ + VariableShare(u, amount)], now) EXCEPT
        !.vault = @ - FloorTo(amount, u.underlying_unit)]

BorrowVariable(p, now, amount) == LentVariable(UpdateIndex(p, now), now, amount)

\* A bucket of the underlying pays at most the debt of normalized shares, and
\* at most the limit when there is one (limit is {} or a singleton).  Paying it
\* all clears the shares; otherwise as many whole shares as the payment buys.
RepayVariableSplit(u, bucket, normalized, limit) ==
    LET debt == CeilTo(DMul(normalized, u.loan_index), u.underlying_unit)
        paid == Min({bucket, debt} \cup limit)
    IN  [paid |-> paid,
         normalized |-> IF paid = debt THEN normalized
                        ELSE FloorTo(DDiv(paid, u.loan_index), u.share_unit)]

\* What a bucket can be asked for.
CanTake(p, amount) == amount >= 0 /\ IsMultiple(amount, p.underlying_unit)

CanRepayVariable(p, now, bucket, normalized, limit) ==
    /\ CanAccrue(p, now)
    /\ CanTake(p, RepayVariableSplit(UpdateIndex(p, now), bucket, normalized, limit).paid)

PaidVariable(u, now, s) ==
    UpdateInterestRate([u EXCEPT !.variable_loan_share_quantity = @ - s.normalized,
                                 !.vault = @ + s.paid], now)

RepayVariable(p, now, bucket, normalized, limit) ==
    LET u == UpdateIndex(p, now)
    IN  PaidVariable(u, now, RepayVariableSplit(u, bucket, normalized, limit))

----------------------------------------------------------------------------
(* Stable loans.                                                           *)

\* get_weight_rate divides by the total with the loan.
CanBorrowStable(p, now, amount) ==
    p.vault >= amount /\ p.stable_loan_amount + amount # 0 /\ CanAccrue(p, now)

LentStable(u, now, amount, average) ==
    [UpdateInterestRate([u EXCEPT !.stable_loan_interest_rate = average,
                                  !.stable_loan_amount = @ + amount], now) EXCEPT
        !.vault = @ - FloorTo(amount, u.underlying_unit)]

\* The average rate is weighted with the total before the loan (update_index
\* changes neither).
BorrowStable(p, now, amount, stable_rate) ==
    LentStable(UpdateIndex(p, now), now, amount,
               GetWeightRate(p.stable_loan_amount, p.stable_loan_interest_rate,
                             amount, stable_rate))

\* What a bucket pays of a loan: the interest first, then the loan.  A payment
\* short of the interest leaves a negative part "in borrow": the loan grows.
RepayStableSplit(p, now, bucket, loan_amount, rate, last_epoch_at, limit) ==
    LET interest == IF now = last_epoch_at THEN 0
                    ELSE CeilTo(GetStableInterest(now, loan_amount, last_epoch_at, rate),
                                p.underlying_unit)
        paid     == Min({bucket, loan_amount + interest} \cup limit)
    IN  [paid |-> paid, in_borrow |-> paid - interest, interest |-> interest]

CanRepayStable(p, now, bucket, loan_amount, rate, last_epoch_at, limit) ==
    /\ CanAccrue(p, now)
    /\ CanTake(p, RepayStableSplit(p, now, bucket, loan_amount, rate, last_epoch_at, limit).paid)

\* The total follows the loan and the average rate is re-weighted; the indices
\* are not updated, the rates are.
PaidStable(p, now, s, rate) ==
    LET total  == p.stable_loan_amount - s.in_borrow
        yearly == DMul(p.stable_loan_amount, p.stable_loan_interest_rate)
                    - DMul(s.in_borrow, rate)
        closes == s.in_borrow >= 0 /\ total <= 0
    IN  UpdateInterestRate(
            [p EXCEPT !.stable_loan_amount = IF closes THEN 0 ELSE total,
                      !.stable_loan_interest_rate =
                          IF closes THEN 0 ELSE DDiv(yearly, total),
                      !.vault = @ + s.paid], now)

\* Mutant: the interest paid reduces the total as well.
RepayStableWhole(p, now, bucket, loan_amount, rate, last_epoch_at, limit) ==
    PaidStable(p, now,
               [RepayStableSplit(p, now, bucket, loan_amount, rate, last_epoch_at, limit)
                    EXCEPT !.in_borrow = bucket], rate)

RepayStable(p, now, bucket, loan_amount, rate, last_epoch_at, limit) ==
    PaidStable(p, now,
               RepayStableSplit(p, now, bucket, loan_amount, rate, last_epoch_at, limit), rate)

----------------------------------------------------------------------------
(* Fixed-term loans: flash loans and discounted claim NFTs.                *)

CanBorrowFixedTerm(p, amount) == p.vault >= amount

BorrowFixedTerm(p, amount) == [p EXCEPT !.vault = @ - FloorTo(amount, p.underlying_unit)]

\* Mutant: the fee is credited and not collected.
FixedTermTotalNoFee(p, amount, fee) == CeilTo(amount, p.underlying_unit)

FixedTermTotal(p, amount, fee) == CeilTo(amount + fee, p.underlying_unit)

\* The fee is shared out over the deposits: there must be some.
CanRepayFixedTerm(p, now, bucket, amount, fee) ==
    /\ bucket >= FixedTermTotal(p, amount, fee)
    /\ fee > 0 => /\ CanAccrue(p, now)
                  /\ GetRedemptionValue(UpdateIndex(p, now), now, p.share_supply) # 0

RepayFixedTerm(p, now, amount, fee) ==
    LET paid == [p EXCEPT !.vault = @ + FixedTermTotal(p, amount, fee)]
    IN  IF fee <= 0 THEN paid
        ELSE UpdateInterestRate(ShareOut(UpdateIndex(paid, now), fee), now)

\* Mutant: an epoch's earlier NFTs are lost.
AddFixedTermReplaces(p, nft, interest) ==
    LET epoch_at == nft.claim_epoch
    IN  [p EXCEPT
            !.bond_epochs = @ \cup {epoch_at},
            !.bonds = [e \in DOMAIN p.bonds \cup {epoch_at} |->
                          IF e = epoch_at THEN [interest |-> interest, nfts |-> {nft}]
                          ELSE p.bonds[e]],
            !.claim_nfts = @ \cup {nft},
            !.bond_amount = @ + nft.claim_amount - interest]

AddFixedTerm(p, nft, interest) ==
    LET epoch_at == nft.claim_epoch
        known    == IF epoch_at \in DOMAIN p.bonds THEN p.bonds[epoch_at] ELSE ClearedBond
    IN  [p EXCEPT
            !.bond_epochs = @ \cup {epoch_at},
            !.bonds = [e \in DOMAIN p.bonds \cup {epoch_at} |->
                          IF e = epoch_at
                          THEN [interest |-> known.interest + interest,
                                nfts |-> known.nfts \cup {nft}]
                          ELSE p.bonds[e]],
            !.claim_nfts = @ \cup {nft},
            !.bond_amount = @ + nft.claim_amount - interest]

----------------------------------------------------------------------------
(* Insurance.                                                              *)

CanWithdrawInsurance(p, amount) ==
    /\ amount < p.insurance_balance
    /\ amount <= p.vault

\* Pays from the vault and leaves insurance_balance as it is.
WithdrawInsurance(p, amount) == [p EXCEPT !.vault = @ - FloorTo(amount, p.underlying_unit)]
=============================================================================
