# DeXian Protocol: formal specification

TLA+ models of the DeXian lending and staking-earning protocol (Scrypto blueprints
on the Radix network), the TLC configurations that check them, and proofs for TLAPS.

A Radix transaction is atomic: a manifest calls methods of components one after
the other, and a panic anywhere undoes everything. So a call is one action, a call
that would panic is a disabled action, and the interleavings that matter are the
orders of calls: by different users, by the calls of one manifest (in particular
within a flash loan), and by the epochs that pass between transactions.

## 1. Inventory

| Component | Source | State | Operations | Hard part |
|---|---|---|---|---|
| Lending pool (`LendResourcePool`) | `protocol/src/pool/lending.rs` | vault, two indices and rates, variable shares, stable total and average rate, bonds (claim NFTs bought at a discount, queued by epoch), insurance balance | add/remove liquidity, borrow and repay (variable, stable, fixed term), add_fixed_term, withdraw_insurance; those that move deposits or variable loans, take stable loans, or bring a fee accrue and claim what is due first | order of accrual, claim and rate update; truncation; what depositors earn against what borrowers pay |
| CDP manager (`CollateralDebtManager`) | `protocol/src/cdp.rs` | pools, positions (NFTs), vaults of dx tokens, close factor, open flash loans | supply, withdraw, borrow, extend, collateral in and out, repay, liquidate, flash loan, staking_borrow | two books of one debt (pool and position); prices that move; rounding on both sides |
| Staking earning | `protocol/src/earning.rs` | the staking pool it owns | join, redeem, claim_xrd | several claim NFTs in a call, some due and some sold to the lending pool |
| Staking pool (`StakingResourePool`) | `protocol/src/pool/staking.rs` | a vault of stake units per validator, supply of dseXRD | contribute, redeem over a list of validators, rebalance | unit value while stakers enter and leave; emptied vaults |
| Validator keeper | `keeper/src/validator_keeper.rs` | weekly stake history per validator | fill, insert, log, get_active_set_apy | week boundaries, missed weeks, the length of a history |
| Interest model | `interest/src/interest_model.rs` | four curve parameters | get_interest_rate, set_params | rate floor from the keeper |
| Price oracle | `oracle/src/oracle_price.rs` | unsigned quotes, public key, last validation epoch and timestamp | set_*, get_price_quote_in_xrd, get_valid_price_in_xrd | signed prices delivered late or out of order |
| Common | `common/src/*.rs` | lists, vault maps | rounding and interest formulas | truncation |
| Faucet | `faucet/src/lib.rs` | mint amounts | free_tokens, admin_mint_token | test network only |
| Deployment | `deploy/1_deploy_protocol.py`, `gateway.py`, `manifests.py`, `common/build.rs` | a JSON file of addresses and its release copy; environment of the builds | create badges, packages, components and pools step by step, skipping what is recorded | interrupted or killed between submission, receipt and save; addresses compiled into packages |
| Operators' scripts | `deploy/2_*.py`, `3_*.py`, `4T_basic.py`, `deploy/utils/*.py`, `tools/accounts.py` | `accounts.json`, the config file and its release copy; variables registered on the ledger, owner badges | set up, fill and try a deployment; create tokens, upgrade the exchange and the token wrapper, register, transfer, run a typed manifest | several of them at once on files nobody locks; transactions decided after their run has ended |
| Deployment tools | `deploy/tools/gateway.py`, `manifests.py` | none of their own | submit, poll, search a receipt; build manifests | answers that are not read, polls without an end |

How they interact. A user's manifest calls the CDP manager or staking earning. The
manager calls its pools and, for prices, the oracle; it holds dx tokens, which are
claims on another pool. A pool asks the interest model for rates, which for XRD asks
the keeper for the validators' return. Staking earning owns the staking pool, stakes
with the network's validators, and sells claim NFTs that are not due to the XRD pool
through the manager (`staking_borrow`); the pool claims them from the validators in
the first accrual after they are due. There are no callbacks; the flash loan is the
one place where a component's promise (the vault is whole) is open between calls.
Around the components are scripts: `1_deploy_protocol.py` creates everything, the others
maintain it. They share a checkout's files and the network, and nothing else orders them.
The oracle is called by users (through the manager), by the trial script's loans and by
administrators; the price it is given was signed by a server at some earlier time.

What makes each correct:

* Lending pool: the deposits are covered by what the pool owns; insurance is never
  negative; what the getters quote is honoured; every claim NFT is collected in the first
  accrual after it is due; entering or leaving dilutes nobody.
* CDP manager: the positions' debts are the pools' debts; no loan or withdrawal leaves
  a position over its limit; a liquidation releases no more than the position's
  collateral and gains no more than the bonus; only payments lower a debt.
* Staking: a unit of dseXRD keeps its value when others come and go; stakers can
  leave; claims are sold at no more than their discounted value.
* Keeper: one entry per week, never rewritten; the return is the growth of the stake
  unit's price over the period it is divided by.
* Oracle: no accepted price is as much as `max_diff` older than one accepted before in its epoch.
* Operators' scripts: what is recorded, claimed and registered exists and is what it is
  called; the files hold what the runs would leave one after the other unless two of them
  overlap; the registered exchange is never replaced by an older one; a run ends.
* Deployment: however often the script was interrupted and run again, the recorded
  components and packages are built from the recorded addresses; nothing saved is lost.

## 2. Modules

| Module | Models | Kind |
|---|---|---|
| `DecimalMath` | `common/src/utils.rs`, the engine's Decimal | operators |
| `InterestModel` | the curves of `interest_model.rs` | operators |
| `LendResourcePool` | every method of `lending.rs`, as functions of the pool's record (`M` with its precondition `CanM`) | operators |
| `LendingPool` | one pool under the calls of its callers | state machine |
| `ClaimBook` | what a pool promises about claim NFTs | abstract specification |
| `CdpManager` | every method of `cdp.rs` except `staking_borrow`, over two pools | state machine |
| `StakingPool` | every method of `staking.rs`, and the network's Validator (external) | operators |
| `StakingEarning` | `earning.rs` over `StakingPool` and the XRD `LendResourcePool`, with `staking_borrow` | state machine |
| `ValidatorKeeper` | `validator_keeper.rs` | state machine |
| `Deployment` | `1_deploy_protocol.py` as a script that is rerun until it completes, and the network deciding its transactions | state machine |
| `DeploymentSteps` | the steps of its `main`: keys tested and recorded, addresses named, compiled and exported | operators |
| `PriceOracle` | every method of `oracle_price.rs`, as functions of its record | operators |
| `OperationSteps` | the operators' scripts: entries looked up, transactions submitted, files saved | operators |
| `Operations` | the engine those scripts share (`accounts.py`, `gateway.py`, their `main`), run side by side; the network deciding their transactions, users and administrators calling the oracle | state machine |
| `DecimalMath_proofs` | what truncation, roundings, powers and sums over finite sets preserve and bound | lemmas |
| `LendResourcePool_proofs` | what each operator of `LendResourcePool` keeps of a pool's numbers | lemmas |
| `LendingPool_proofs`, `CdpManager_proofs` | theorems about `LendingPool` and `CdpManager`, over the lemmas of the former | proofs |
| `StakingEarning_proofs` | theorems about `StakingEarning`, over the lemmas about the pool that buys its claims | proofs |
| `Deployment_proofs`, `ValidatorKeeper_proofs` | theorems about `Deployment` and `ValidatorKeeper` | proofs |
| `Operations_proofs` | theorems about `Operations`: where a run is and which transactions are its own, then the registry, the oracle and the files | proofs |
| `MC*` | model values | model checking |

`LendResourcePool` is used by three state machines, so that the pool the manager and
staking earning call is, line by line, the pool that is checked on its own.

Correspondence. A record has the fields of the component, under their names; a vault
is its amount, a resource is named by its token, an NFT vault is a set of records.
`bond_epochs` (a sorted vector without duplicates) and the NFT list of a bond are
sets. Decimals are integers scaled by `ONE`; multiplication and division truncate as
the engine does, powers are computed by the same squarings. The divisibility of a
token is its unit (10 for a token with one digit less): an amount given to a vault is
rounded down to it, towards zero where it may be negative (`TruncTo`), and `take` panics when
the amount is negative or no multiple of it (`CanTake`). `now` is the current epoch.
The pool treats validators alike and they differ in name only, so `pool_core` declares
them symmetric. `ClaimMaturedBonds` is written as
`Collected` (the NFTs of the queued bonds that are due) followed by `ShareOut` (their
amount and the interest still to accrue), both of the pool `u` after accrual.

In `Deployment` an address is the number of the transaction that created the entity,
so that two creations of one entity are told apart. A step of `main` is a record; the
engine (`Submit`, `Record`, `Skip`) is the code every step repeats. `build` starts with
`clean`, so the constants a package compiles in are those of the current environment,
and an absent one is `build.rs`'s dummy. The folder of the release copy is named by the hour;
all runs share one, the worst case. Left out: funding the account, queries that only
read, the environment of the shell the script is started from.

In `Operations` a script is a record (`Script`): how many accounts it makes sure of, the
entries it looks up at once, whether it waits for funds, its transactions, the files it
saves. A transaction says what its manifest proves, reads and calls. An address is again
the transaction that created the entity, here the run and the step. A run is the engine's
steps in the order of `main`: `LoadAccount`, `ReadAccounts`, `OpenAccounts`, `StoreAccounts`
(`load_account`, and the three steps of `new_account` another run can come between),
`ReadConfig`, `Funded`, then per transaction `Skip`, `CannotBuild`, `FetchPrice`, `Submit`,
`Receive` or `NoAddresses`, and `OpenFile`, `WriteFile` for each file saved, or `Finish`. The answer
to a submission is not read by the code, so `Submit` cannot fail; a pending transaction is
decided at any time later, also when its run is over. The signed price of `get_price_signature` is
that of the present time; users present any price signed so far.

Mutated definitions used to test the properties stand before the definition they
replace, under a "Mutant:" comment.

Abstractions: events, logs, royalties, roles and metadata are left out (who may call
what is not modelled: an operator's call is an action like any other); resource
checks (`assert_resource`) hold by construction of the actions' arguments. In `CdpManager`
a quote is any price of `Quotes`, free to move between transactions; which signed prices
the oracle accepts is modelled in `PriceOracle` and `Operations`, where the amount of a price does not
matter. Signing is modelled by what verifies (key, token, epoch, timestamp).
Of the scripts' transactions only what decides whether they commit for a reason of theirs is
modelled (badges, the authority, the signed price); a failure for any other
reason (a balance, a limit of a loan) counts as a stop. The exchange and the environment registry
they call are not in the repository: `withdraw_authority` is taken to hand out only what the
exchange holds, `set_variables` to register what it is given. The engine is taken to let `rebalance` remove
an emptied vault from `lsu_map` (staking.rs:131), which it may refuse: then such a rebalance fails and leaves
everything as it was, which the model allows too, as no call has to happen. The stable and bond ratios passed to the interest model are left out
because the model ignores them.

## 3. Runs

All constants are small on purpose: with `ONE = 1000` and `EPOCH_OF_YEAR = 4` one
epoch accrues visible interest and every product truncates, which at 18 digits only
shows after long histories. The curves are those of the deployment (0.2, 0.5, 0.55,
0.45), as are LTV 0.85, threshold 0.87, bonus 0.02 and insurance 0.10. Histories start
at epoch 4, because nothing in the code starts at epoch 0. Every run bounds calls and
epochs; at the bounds the model stops, so deadlock is not checked (no call of the code
waits for another one).

| Run | Bounds | Shows |
|---|---|---|
| `pool_core` | 3 calls per epoch, 3 epochs, 2 validators, 2 NFTs, 1 insurance withdrawal | the deposits stay covered, insurance non-negative, quotes honoured, bonds tracked and collected, `bond_amount` not understated, no dilution, and the pool implements `ClaimBook` |
| `pool_stable` | 2 borrowers, 4 epochs, payments below, at and above the interest | the pool's stable total and average rate are those of the loans (`StableBookMatches`, both at once) |
| `pool_no_depositors` | violation | the last depositor can leave while claim NFTs are held; then every call that updates the index panics |
| `pool_insurance_draws` | violation | insurance can be withdrawn again and again |
| `cdp_variable` | 2 positions on any pair, lenders, flash loans, liquidations in part and in full, 4 calls, 3 epochs, 2 prices | the two books of variable debt agree; the pools cover their deposits, the vaults all positions' collateral; loans and withdrawals of collateral respect the LTV; liquidations release only the position's collateral, up to the dust of their roundings, and gain at most the bonus |
| `cdp_stable` | 2 stable positions, 4 epochs, no additions of collateral | the positions back the pools' stable total; only payments lower a stable debt |
| `cdp_stable_withdrawal` | violation | all collateral of a stable position can be withdrawn |
| `staking` | 2 validators, 4 calls, 2 epochs, lists of one or two validators or NFTs | a dseXRD keeps its value; stakers can leave; rebalances cost less than 1 XRD; claims are bought at a discount |
| `keeper` | 2 validators, weeks of 2 epochs, histories up to 3 entries | histories are ordered and not rewritten; the return is the growth of the price |
| `deployment` | both networks, all steps of `main`, one kill, exception or failed transaction, and any expiry | recorded addresses fit together; nothing is forgotten or needlessly repeated; rerun, the script completes |
| `operations` | 10 plans of one or two scripts at once, 2 states of the config file, with and without accounts, one stop or unforeseen failure, any expiry; for the trial and the change of `max_diff` also 3 times over 1 to 3 epochs and users' calls | nothing invented is recorded or registered; files hold what the runs would leave one after the other unless they overlap; accepted prices are fresh; the registered exchange never goes back; runs end |
| `keeper_log` | violation | with three weeks of history the weekly log panics |

Why these bounds are enough for what the runs claim: every hazard needs at most an
accrual, a change of totals and another accrual (three epochs), the roundings of at
most three calls in one of them, and two parties (positions, borrowers, validators)
to be confused with each other; each property is shown to fail for a mutant of the
code within the same bounds. The tolerance of a property is a named operator
(`RoundingDust`, `SeizureDust`, `GainDust`, `RateDust`, `RedeemDust`, `PriceDust`) with the rounding it stands for.

Two runs at once show every hazard of the operators' scripts that has two parties (a third
only repeats the second); the plans pair the scripts that write the same file, register
the same variable, or need the same badges (`Badges = 5`: enough for one of the scripts that prove
four, not for one after `transfer_own.py` has taken three). Three times are an older, a
present and a newer price, within an epoch or across two, with `MaxDiff = 2` between the
two later periods `{1, 3}`. Time and users matter to the oracle alone, so they are in the plans
(`TimedPlans`) that use it. The
first two files are what a deployment leaves when it stops before the manager and when it completes,
with the entries no script of this commit records, which operators write by hand; the tokens of
`create_tokens.py` are in the second only. Without its tokens an upgrade ends at once, unless
`CreateTokens` has run; without the manager a script that calls it ends when it looks it up.
The safety theorems hold for any runs, scripts, files and numbers.

Of the deployment, whose steps differ only in their data, one stop at every
point of every step shows each resumption; its safety theorems hold for any number.

Fairness: for the protocol none is assumed and no liveness is claimed. It never acts
by itself; nothing makes a user, an operator or a liquidator call. The deployment has
`FairSpec`: weak fairness of the script (its process is scheduled, and the operator, who
wants a deployment, starts it again when a run has ended) and of the network (every
transaction has a last epoch, so it is committed, fails or expires). Nothing says that a
transaction succeeds; failures, exceptions and kills are bounded by `MaxStops`, an
expiry is not. `EventuallyDeployed` excludes by name the three places the script does not get out of:
`get_new_addresses` polls forever for an expired transaction, a kill in the write
leaves a truncated file that no run can read, and on mainnet nobody but the operator
records the two dollar tokens. At these the model stops, as the script does.
`Operations` has a `FairSpec` too: weak fairness of every run that is on (`Run(r)`) and of the network.
The operator's starting and stopping a run, the funding of its account, users and time have none,
as nothing makes them happen. `EveryRunEnds` is about every place a run can be at but that wait for funds:
before it, a run gets to it or ends; after it, a run ends, as none waits for funds twice, unless it polls for
an expired transaction (`Hanging`). So nothing after the wait is excused by nobody's having funded the account, and
a mutant that breaks only the loop over tokens that are there already is found.

### Disagreements between the code and what it says

Each is a run that violates the property (see PROJECT.json for the lines):

1. `claim_matured_bonds` calls a positive interest with zero deposits impossible; it is not.
2. `withdraw_insurance` checks `insurance_balance` and never lowers it.
3. `validate_withdraw_collateral` counts no stable debt.
4. The keeper's trim to `RESERVE_WEEKS` compares the capacity of the vector and removes at `capacity - 1`, which panics from the third week on.

Observed while modelling, kept in the models, without a run: `stable_loan_last_update`
is never written, so that with a stable loan the deposit rate counts interest since
epoch 0 and `insurance_balance` can become negative (`pool_core`, which checks
`SpreadCovered`, has no stable loans for this reason); the index rises by interest /
(shares * index) where interest / shares would distribute it all; the interest of a bond is
subtracted from `bond_amount` once per validator; a stable payment of exactly the
interest leaves `last_update_epoch`; the liquidation of a stable position counts its
interest only; `addition_collateral` sets the rate of a stable position to zero and its epoch to the
current one, and thereby erases its interest (`cdp_stable`, which checks `StableDebtKept`, has no
additions for this reason); `get_price_quote_in_xrd` returns zero always; `3_fill_keeper.py` passes
stake and supply in the opposite order of `StakeData`, and five entries, and overwrites the
manifest with `set_verify_public_key` before it is sent; `create_tokens.py` registers its tokens
again in each run, loses the address of the first when the second fails (there is no `finally`),
and, as the upgrades, only prints the status of its registration; two new accounts made at
once leave one key in `accounts.json` (`SavesSerialize` shows that it takes two runs at once or a kill in the
write, and exempts the file from then on), and `new_account` takes a truncated file for a missing one; a pool transaction that commits after the run that submitted it
was killed is repeated by the next run, and whichever commits last stays in the
manager's `pools` (`new_pool` inserts over the first), while the file has the awaited one.
A full liquidation releases a quotient of a truncated value, which can be a little more than the
position has: its `collateral_amount` then ends below zero by that dust (`SeizureDust`). And
the average rate of stable loans is truncated when a loan enters and again when one leaves, against
totals of very different size: with loans of 1 and of 30000 attos at `ONE = 1000`, repaying the
large one leaves a total of 1 and a `stable_loan_interest_rate` of -30000, and what follows from
it is no longer bounded by zero. So the theorems below about amounts are stated for the behaviours
in which that average stays at or above zero (`RateKept`, `RatesKept`).

## 4. Proofs

`LendingPool_proofs` proves, for all values of the constants that satisfy the named
assumptions (`DecimalAssumption`, `RatesAssumption`, `LendingPoolAssumption`):

* `NoClaimStranded`: `Spec => []BondsTracked`,
* `DueClaimsCollected`: `Spec => []MaturedCollected`,
* `PoolImplementsClaimBook`: `Spec => ImplementsClaimBook`,

and, for any number of borrowers at variable and at stable rates, of the behaviours in which the average
stable rate does not fall below zero:

* `PoolTypes`: `Spec /\ []RateKept => []TypeOK`,
* `QuotesAreHonoured`: `Spec /\ []RateKept => []QuoteHonoured`,
* `DepositorsUndiluted`: `Spec /\ []RateKept => NoDilution`,
* `BondAmountCovers`: `Spec /\ []RateKept => []BondAmountCoversHeld`,
* `StableTotalIsSum`: `Spec /\ []RateKept => []StableTotalMatches`, the first half of `StableBookMatches`.

`RateKept` is one number of the pool, `stable_loan_interest_rate >= 0`. It cannot be left out: `pool_stable` reaches
states without it, by a repayment that leaves a small rest of a large total (section 3). It is a hypothesis about the whole behaviour and
not a bound on the constants, because what the truncations leave depends on the ratio of loans that
come and go. Where nobody borrows at a stable rate (`Borrower = {}`, as in `pool_core`) it always holds:
`RateKeptWithoutStableLoans`: `Spec => []RateKept`.

`RatesAssumption` says that the parameters of the curves and the return of the validators are not
negative. The deployed curves are (0.2, 0.5, 0.55, 0.45) and a unit of stake never falls in
price; `set_params` itself checks nothing, so a negative parameter is outside of what is proved.

The argument for the first three. Only three functions touch the bonds: `ClaimMaturedBonds`, called by
`UpdateIndex` alone, `AddFixedTerm`, and `NewPool`. The properties are not inductive by
themselves: that an accrual clears every due NFT needs that every NFT is in the bond
of its epoch, that this epoch is queued, and that a cleared bond lists no NFT that is
still held; and that nothing queued is behind `last_update` needs `last_update <= epoch`.
The inductive invariant `BookInv` is their conjunction with the little typing the
steps use (the epochs are naturals, the bonds' lists contain NFTs of their own
epoch). One lemma per operator says what it does to the book (most leave it alone:
`SameBook`), one step per action follows, and temporal logic is used at the end only.
The refinement maps `held` to `claim_nfts` and `accrued` to `last_update`: a call that accrues
is `Accrue`, `SellClaim` is `Lend`, `NextEpoch` is `Tick`, everything else stutters.

The argument for the others. `PoolSound` (in `LendResourcePool_proofs`, with one lemma per
operator) has every number of a pool in its range: indices of at least one, rates, vault, supply and
debt shares not negative. It rests on the roundings (`DMul`, `DDiv`, `FloorTo`,
`CeilTo` of what is not negative), on powers of at least one, and on the curves' being sums of terms
that are not negative. A getter adds the interest of the due bonds to the index it has accrued, and divides by
deposits that have grown already; `UpdateIndex` shares it out first and accrues on it as well, which is
never less (`QuoteBelowUpdate`). A deposit mints and a withdrawal pays the floor of what the index
says, hence `NoDilution`. Of `bond_amount` the inductive fact is `Costed`: what the
bonds' NFTs claim is at most `bond_amount` and the interest the bonds are still expected to pay; a claim
deducts the interest of its bond, once per validator, from the former while the whole bond leaves the
latter. Of the stable loans it is that each is not negative and none is from the future, and that the
pool's total is their sum (`DebtsSound`): a payment short of the interest makes both grow alike, and one that
would take the total below zero cannot, as it is at most the loan it pays. The step of `RepayStable` alone uses
`RateKept'`. `PoolInv` is the conjunction of these and `BookInv`. `SpreadCovered` and
`Solvent` are not implied by it and stay with TLC (below).

`CdpManager_proofs` proves, for all prices, ratios, divisibilities, amounts, numbers of tokens
and positions, variable and stable, that satisfy `CdpManagerAssumption`, of the behaviours in which no pool's
average stable rate falls below zero (`RatesKept`):

* `ManagerTypes`: `Spec /\ []RatesKept => []TypeOK`,
* `VariableBooksAgree`: `Spec /\ []RatesKept => []VariableBookMatches`,
* `StableBookIsBacked`: `Spec /\ []RatesKept => []StableBookBacked`,
* `CollateralIsBacked`: `Spec /\ []RatesKept => []CollateralBacked`,
* `WithdrawalsStayCovered`: `Spec /\ []RatesKept => WithdrawalsKeepCover`,
* `LoansStayCovered`: `Spec /\ []RatesKept => LoansStayWithinLtv`,
* `LiquidatorGains`: `Spec /\ []RatesKept => LiquidatorGainBounded`,
* `OnlyPaymentsLowerStableDebt`: `Spec /\ []RatesKept => [][CollateralAddition \/ DebtsKept]_vars`, and from it
  `StableDebtsAreKept`, where collateral is never added (`Additions = {}`, as in `cdp_stable`):
  `Spec /\ []RatesKept => StableDebtKept`.

Without stable positions (`StableBorrowing = FALSE`, as in `cdp_variable`) the hypothesis always holds
(`RatesKeptWithoutStableLoans`: `Spec => []RatesKept`), and TLC finds it true of all states of `cdp_stable` as well, so
that neither run is outside of the theorems.

`CdpManagerAssumption` has positive prices with that of XRD one, and bonuses, thresholds, fees and
arguments that are not negative; that a dx token is at least as fine as its whole unit; and that the dx
tokens a user hands in are multiples of the unit, as every bucket of the engine is.

The argument. `ManagerInv` says of each token (`TokenBook`) that its pool is sound and has no
bonds, that the supply of its dx token is what users and the vault have together, that the pool's
debt shares are the sum of those of the positions (`Owed`), that its stable loans are at most the sum of the
stable positions' (`Lent`; not equal to it, as the interest that `extend_borrow` adds to the loan of a
position is not added to the pool's total), and that the sum of
the positions' collateral, each rounded up to the dx token's unit (`Held`), is at most what is
in the vault. The last is stronger than `CollateralBacked`, which is not inductive: a withdrawal
takes from the vault the floor of what the position loses the ceiling of, and that the difference is
never owed to another position is visible only when each counts in whole units (`CeilToOfSum`,
`SeizureLeaves`; after a full liquidation a position counts with zero or its negative dust). One
step changes one position; `SumChanged` says what that does to the sums and `CdpMovedKeeps` that
the invariant follows from what the step does to one pool, one vault and one position
(`PoolsMoved`, `VaultsMoved`). In a liquidation the pool that is paid and the one that redeems
may be the same (`PaidAndRedeemed`). Again only payments of stable loans use the hypothesis (`PositionPaid`): a loan's
own rate is an average of rates that are not negative, and the pool's falls below zero only when
loans leave it.
For the limit, the manager computes debt and collateral value with the getters' indices, before its
pools accrue. Without bonds these are the indices the pools are updated to
in the step (`AssetUpdated`), so the limit and the position afterwards are measured alike; the debt shares
are rounded up by less than one unit, which is what `CoveredAfter` takes off again
(`BorrowedDebt`, `WithdrawnValue`), and the rest is that every rounding of the formula is monotone
(`DMulLe`, `DDivLe`, `CoverFollows`). No other step can make a `total_borrow` grow (`SameLoans`,
`NoLoans`).
A liquidation computes the value of the debt with the bonus and divides by the collateral's price and by the value of a dx
token; where the collateral does not suffice it divides the collateral's value by the debt's with the bonus instead. Seven
truncations, one of them of a divisor (the value of a dx token). `GainDust` is what they amount to: two
units and two more per whole dx token of the collateral, at its price; the bonus on one unit of debt; and three attos.
The debt of a stable position starts anew from its loan with every loan and payment, in the same call that puts the
interest so far into the loan (`ExtendKeepsDebts`), or takes it off the payment first, rounded up (`PaidDebtKept`); a
payment of exactly the interest changes neither. An addition of collateral is the one step that does the first without the second.

`StakingEarning_proofs` proves, for any validators, stakes, rewards, amounts and numbers of calls that satisfy
`StakingEarningAssumption`:

* `StakingInvariant`: `Spec => []StakingInv`, and from it `Typed`: `Spec => []TypeOK`,
* `SettledAtPrice`: `Spec => DseValueKept`,
* `RebalancedAtValue`: `Spec => RebalanceKeepsValue`,
* `BoughtAtDiscount`: `Spec => PoolBuysAtDiscount`.

The assumption says that the validators start with at least one XRD per unit of stake and that rewards are not negative:
the network does not slash. A redemption names one validator or two, as in `Next`.

The argument. `StakingInv` adds to the types that a validator's units are those in the pool's vault and
those in users' wallets together (`StakingSound`): a vault can then never hold more than the validator
issued, so what it is worth is at most the validator's stake. It adds that a unit is worth at least
one XRD, or staking could mint more units than XRD were paid; that the lending pool's numbers are
sound (`PoolSound`, from the pool's own proofs) and it has not accrued beyond the present; and that an NFT is held in
one place, so that a claim is sold once. The value of a dseXRD is the staked sum over the supply. A call changes the
sum at one validator or two; `SumChanged` and the division lemmas (`QuotSum`) say by how
much, in terms of the units' prices. Redeeming divides the part of the amount a validator is to pay by a truncated price per
unit, takes that many units and pays what they are worth: at each validator the two differ by at most a unit's price and two
attos, and `RedeemDust` adds to these the truncations of the price of a dseXRD. In a redemption over two
validators the second takes what the first left of the amount (folds over lists of one or
two are unrolled), so the two errors add up.
For `BoughtAtDiscount` the rate `claim_xrd` asks for grows with what was bought
before in the call (`get_interest_rate` at `unmatured_claim_amount`), is never below the validators' own return, and `calc_principal` falls when the
rate rises; so the price of each NFT is at most its value at that return.

`Deployment_proofs` proves, for any list of steps that satisfies `DeploymentAssumption`
and any number of stops (TLC evaluates the assumption on the script's own steps):

* `DeploymentWired`: `Spec => []Wired`,
* `DeploymentComplete`: `Spec => []CompleteIsWhole`,
* `DeploymentRemembers`: `Spec => NothingForgotten`,
* `DeploymentOnce`: `Spec => []NothingTwice`,
* `DeploymentType`: `Spec => []TypeOK`.

The argument. A step records all its keys at once and tests some of them, and no other
step or operator writes them; so when the guard is missing none of the keys is recorded
(`DictionaryInv`), and a dictionary is only ever extended. The environment holds
exactly the recorded exports of the steps passed (`ProgressInv`), so a package that
imports from earlier steps only is compiled with recorded addresses, and the awaited
transaction fits the dictionary it will be recorded in (`AwaitInv`). The release copy and
the file are truncated one after the other, and what is on disk is part of what is in
memory while a run is on (`SaveInv`). `IInv` is the conjunction of these and `TxsInv`;
`Wired` alone is not inductive, because `Record` could attach an address of anything.
`NothingTwice` counts the transactions of a step, which `CountInv` bounds by the stops and
one more if what the step created is held: recorded (in memory or, between runs, on disk) or
awaited and not failed. A step is submitted only when it is not held, and only a stop or a failure,
which counts as a stop, takes it away. `EventuallyDeployed` and `EveryRunEnds` stay with TLC:
liveness is beyond this prover.

Of `Operations`, for any set of runs, any plans of scripts and all its other constants that
satisfy `OperationsAssumption`:

* `OperationsTrace`: `Spec => []NothingInvented`,
* `OperationsRegistry`: `Spec => RegistryNeverGoesBack`,
* `OracleFresh`: `Spec => []AcceptedAreFresh`,
* `OperationsSaves`: `Spec => []SavesSerialize`,
* `OperationsType`: `Spec => []TypeOK`.

The assumption says of a script what all of them do: a run that saves has read the config
file, an entry registered is among those looked up, and a script upgrades the exchange at most once,
without a test that could skip it, and registers an exchange only after it has. TLC evaluates it on
the scripts of `OperationSteps`.

The argument. `ControlInv` (one lemma per step of a run) says where a run can be and that the
transactions named after it are those of the steps it has reached. On it rest three
chains, none of whose properties is inductive by itself.
`TraceInv`: every dictionary, in a file, in memory, in a pending transaction or on the ledger,
maps an entry to an entity created for it; a run enters one only when its transaction has committed.
`RegistryInv`: an upgrade must name the exchange that holds the authority, so the exchanges form a
chain (`ExchangesInv`). Another run's exchange is known only from a file, which a run writes after its
last step (`SeenInv`); so every exchange but the last was made by a run past its steps
(`OldInv`). A registration that is still pending is of a run that is, or stopped, at that step, and it
registers the exchange this run made itself (`OwnInv`): the last one.
`OracleInv`: the timestamp the oracle keeps is the greatest it has accepted in its epoch, and a
pending price is signed before now.
`SerialInv`: unless there was an overlap, the file is the `ideal` one, and what the one run that holds
it will write is the ideal file and what it has created since.

`ValidatorKeeper_proofs` proves, for any validators, stakes, rewards, lengths of week and of
history that satisfy `ValidatorKeeperAssumption` (positive weeks and stakes, no negative rewards):

* `KeeperOrdered`: `Spec => []HistoryOrdered`,
* `KeeperPast`: `Spec => PastKept`,
* `KeeperType`: `Spec => []TypeOK`,
* `KeeperGrowth`: `Spec => []ApyIsGrowth`.

The argument. Of `get_week_index` two facts are needed: it does not fall when time passes and
falls by one when a week's epochs are taken away (`WeekMonotone`, `WeekBefore`). `KeeperInv` adds to
`HistoryOrdered` that stakes are positive (or issuing units would divide by zero) and that no
entry is in the future: a log overwrites the first entry when it is not of an earlier
week, and only then is it of the current one, so that no past week is lost.
The growth needs `PricesKept`: an entry says what a unit was worth at the end of its epoch. It is
not what the code writes down: the operator's call may come before the delegators' stakes of that epoch,
which change both numbers of an entry that has been made. They stake at the price of the moment,
so the price recorded is that of the end of the epoch up to one rounding, which weighs the less the more units there are
(`PriceAfterStaking`; `PriceDust` is that rounding). The rate by the year is then
the difference of two such prices over the same number of epochs (`ReportedGrowth`), and the mean over the active set lies between its
least and its greatest (`MeanBetween`), truncation included.

Model-checked only, and why:

* `Solvent`: claiming a bond raises the deposit index while the rates of the period before are still applied to
  it, so the excess of deposits over assets depends on the interest of the bonds that were due, which no
  relation between two states bounds by the tolerance of the run.
* `PoolsSolvent`: the yearly rate is truncated when divided by the epochs of a year; what each accrual
  loses is a unit per whole share and epoch, so the tolerance the run checks (one unit per call) is that of
  its amounts and is false for large ones.
* `SpreadCovered`: it compares what borrowers and depositors accrue, and the truncations of both scale with the shares; with a small
  `InsuranceRatio` their difference can be negative by such an amount.
* The second half of `StableBookMatches`, that the average rate is that of the loans: each loan and payment
  truncates it, so that the difference the run bounds by `RateDust` grows with their number and amounts; and the
  theorems above of behaviours in which the average goes negative, see the observations.
* `StakersCanLeave`: it is about what the precondition of a redemption allows for some list
  of validators; with more than two validators, and lists of two, it need not hold.
* `EventuallyDeployed` and `EveryRunEnds`: liveness is beyond this prover.

Sums over a set are no obstacle: a fact about a sum for every finite set is proved by taking a
least counterexample in the order of strict subsets, as `DecimalMath_proofs` does; only what a
recursive definition computes for every input stays out of reach.

## 5. Not modelled

* Interest model's `set_params`: planned; the parameters are constants so far.
* Faucet: mints test tokens, no invariant beyond one assignment.
* Scripts that only display: `history.py`, `get_details_*.py`, `get_referral_details.py`,
  `get_variables.py`, `pair_ids.py`, `permssions.py`, `price_feeds.py`, `prices.py`, `show_account.py`,
  `test_preview.py`; so are the gateway's queries they use. `mock_oracle.py` asks for streamed prices and
  `sign-util.py` signs a message; neither keeps state here.
* Scripts that cannot do what they are for: `mint_test_btc.py` imports a function `manifests.py` does not
  have, `mint_referral.py` has an empty `receiver_account`, `process_request.py` needs an
  `ACCOUNT_COMPONENT` that no script records. `upgrade.py` (74-85) and `upgrade_token_wrapper.py` (74-86)
  begin with `cargo clean` in directories of packages, most of which are not in this commit, and end there with
  `FileNotFoundError`; these two are modelled all the same, from `load_account` on, as they run where the packages
  are. That allows more than this commit does, and of it the properties hold as well.
* The manifests and shell scripts of `notes/`, for use by hand.
* What the upgrades do beside their transactions and files (the request to the network's faucet,
  the builds), and an operator's editing the config file between two runs.
* `common/src/list.rs`, `vaults.rs`, `nft_vaults.rs`: containers, represented by sets and amounts.

## 6. Plan

1. (done) decimals, interest curves, lending pool, claim book and its proofs, CDP manager, staking, keeper,
   deployment and its proofs, price oracle and operators' scripts and their proofs, proofs about the keeper,
   proofs about the pool's amounts, the manager and staking.
2. Price oracle composed with the CDP manager: the amounts of accepted prices across positions.
3. Interest model with `set_params`; the keeper's return as its floor, composed.
4. `staking_borrow` with several NFTs of several validators against `bond_amount`.
5. Proofs: (done) the lending pool's numbers, the manager's books, its limits and its liquidations, all with stable
   loans, staking, the keeper's return. Left: a bound on loans and payments under which the average rate stays
   at or above zero, in place of the hypothesis that it does.
