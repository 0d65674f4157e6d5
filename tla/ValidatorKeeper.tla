--------------------------- MODULE ValidatorKeeper ---------------------------
(***************************************************************************)
(* The ValidatorKeeper of keeper/src/validator_keeper.rs: a history of     *)
(* every validator's stake, newest entry first and one entry per week,     *)
(* from which the yearly return of the active set is computed.  It is the  *)
(* floor of the XrdStaking model's stable rate (InterestModel).            *)
(*                                                                         *)
(* The histories are vectors that a call decodes, with no spare capacity,  *)
(* and encodes again.  Of the network's validators the module keeps the    *)
(* stake units issued (lsu) and the XRD staked, epoch by epoch.            *)
(***************************************************************************)
EXTENDS DecimalMath, Sequences, SequencesExt, FiniteSetsExt, Functions

CONSTANTS
    Validator,
    A_WEEK_EPOCHS, RESERVE_WEEKS, BABYLON_START_EPOCH,
    InitialStake,            \* per validator
    Rewards,                 \* what an XRD staked may earn in an epoch
    Stakes,                  \* amounts delegators add to a validator
    FillLengths,             \* how many weeks fill_validator_staking brings
    MaxInserted,             \* how long insert_validator_staking makes a history
    StartEpoch, MaxEpoch

\* Epochs are counted from 0, what is staked and filled is positive, and the
\* network has finitely many validators.
ASSUME ValidatorKeeperAssumption ==
    /\ A_WEEK_EPOCHS \in Nat \ {0}
    /\ BABYLON_START_EPOCH \in Nat /\ StartEpoch \in Nat /\ MaxEpoch \in Nat
    /\ MaxInserted \in Nat /\ IsFiniteSet(Validator)
    /\ BABYLON_START_EPOCH <= StartEpoch /\ StartEpoch <= MaxEpoch
    /\ \A v \in Validator : /\ InitialStake[v].lsu \in Nat \ {0} /\ InitialStake[v].xrd \in Nat
                            /\ InitialStake[v].xrd >= InitialStake[v].lsu
    /\ Rewards \subseteq Nat /\ Stakes \subseteq Nat /\ FillLengths \subseteq Nat \ {0}

VARIABLES
    validator_map,    \* the histories of the validators that are logged
    stake_at,         \* per epoch so far, the stakes of the validators
    epoch,
    stakes            \* whether delegators staked in this epoch

vars == <<validator_map, stake_at, epoch, stakes>>

stake == stake_at[epoch]

StakeData == [last_lsu : Nat, last_staked : Nat, epoch_at : BABYLON_START_EPOCH .. MaxEpoch]

\* Types; a logged validator has an entry.
TypeOK ==
    /\ DOMAIN validator_map \subseteq Validator
    /\ \A v \in DOMAIN validator_map :
          validator_map[v] \in Seq(StakeData) /\ validator_map[v] # << >>
    /\ epoch \in StartEpoch .. MaxEpoch
    /\ DOMAIN stake_at = BABYLON_START_EPOCH .. epoch
    /\ \A e \in DOMAIN stake_at : stake_at[e] \in [Validator -> [lsu : Nat, xrd : Nat]]
    /\ stakes \in BOOLEAN

\* The network has run for a while when the keeper is created.
Init ==
    /\ validator_map = << >>
    /\ stake_at = [e \in BABYLON_START_EPOCH .. StartEpoch |->
                      [v \in Validator |->
                          [lsu |-> InitialStake[v].lsu,
                           xrd |-> InitialStake[v].xrd + (e - BABYLON_START_EPOCH)]]]
    /\ epoch = StartEpoch
    /\ stakes = FALSE

----------------------------------------------------------------------------
(* get_week_index rounds up: an epoch that starts a week belongs to the    *)
(* week before.                                                            *)

GetWeekIndex(epoch_at) ==
    LET elapsed == epoch_at - BABYLON_START_EPOCH
    IN  elapsed \div A_WEEK_EPOCHS + (IF elapsed % A_WEEK_EPOCHS # 0 THEN 1 ELSE 0)

\* Mutant: dated at the end of the epoch.
NewStakeDataNext(v, e) ==
    [last_lsu |-> stake_at[e][v].lsu, last_staked |-> stake_at[e][v].xrd, epoch_at |-> e + 1]

NewStakeData(v, e) ==
    [last_lsu |-> stake_at[e][v].lsu, last_staked |-> stake_at[e][v].xrd, epoch_at |-> e]

\* A full vector grows to at least twice its length, and at least to 4.
GrownCapacity(length) == Max({4, 2 * length, length + 1})

\* The loop that trims to RESERVE_WEEKS removes at capacity - 1, where there is
\* an element only when the vector is full, and a removal does not shrink the
\* capacity: it never ends but by a panic.
CanPush(length) == GrownCapacity(length) <= RESERVE_WEEKS

NewWeek(history) == GetWeekIndex(epoch) > GetWeekIndex(history[1].epoch_at)

\* Mutants: every log inserts; an entry of this week keeps its epoch.
LoggedAlways(v, history) == <<NewStakeData(v, epoch)>> \o history

LoggedStaleEpoch(v, history) ==
    IF NewWeek(history) THEN <<NewStakeData(v, epoch)>> \o history
    ELSE [history EXCEPT ![1].last_lsu = stake[v].lsu, ![1].last_staked = stake[v].xrd]

Logged(v, history) ==
    IF NewWeek(history) THEN <<NewStakeData(v, epoch)>> \o history
    ELSE [history EXCEPT ![1] = NewStakeData(v, epoch)]

----------------------------------------------------------------------------
(* The admin's calls *)

CanLog(remaining) ==
    \A v \in remaining : NewWeek(validator_map[v]) => CanPush(Len(validator_map[v]))

\* log_validator_staking: removed validators go first, the remaining ones are
\* logged, and added ones that are not known start a history.
LogValidatorStaking(add, remove) ==
    LET remaining == DOMAIN validator_map \ remove
    IN  /\ CanLog(remaining)
        /\ validator_map' = [v \in remaining \cup add |->
                                IF v \in remaining THEN Logged(v, validator_map[v])
                                ELSE <<NewStakeData(v, epoch)>>]
        /\ UNCHANGED <<stake_at, epoch, stakes>>

\* Mutant: a history that is known is replaced.
FilledAnew(v, history) ==
    [w \in DOMAIN validator_map \cup {v} |-> IF w = v THEN history ELSE validator_map[w]]

\* or_insert: a history that is known is kept.
Filled(v, history) ==
    IF v \in DOMAIN validator_map THEN validator_map
    ELSE [w \in DOMAIN validator_map \cup {v} |->
             IF w = v THEN history ELSE validator_map[w]]

\* fill_validator_staking; the operator reads the stakes of the last n weeks off
\* the ledger.
FillValidatorStaking(v, n) ==
    /\ epoch - (n - 1) * A_WEEK_EPOCHS >= BABYLON_START_EPOCH
    /\ validator_map' =
          Filled(v, [i \in 1 .. n |-> NewStakeData(v, epoch - (i - 1) * A_WEEK_EPOCHS)])
    /\ UNCHANGED <<stake_at, epoch, stakes>>

\* insert_validator_staking of the stake at epoch e behind the first index entries.
InsertValidatorStaking(v, index, e) ==
    /\ v \in DOMAIN validator_map
    /\ index <= Len(validator_map[v])
    /\ validator_map' = [validator_map EXCEPT ![v] = InsertAt(@, index + 1, NewStakeData(v, e))]
    /\ UNCHANGED <<stake_at, epoch, stakes>>

\* The code trusts the operator to insert a week that is missing, at its place.
Fits(history, index, e) ==
    \A i \in DOMAIN history :
        IF i <= index THEN GetWeekIndex(history[i].epoch_at) > GetWeekIndex(e)
                      ELSE GetWeekIndex(history[i].epoch_at) < GetWeekIndex(e)

(* The network: delegators stake, once in an epoch, and rewards are paid.  *)

DelegatorsStake(v, amount) ==
    LET lsu == TruncDiv(amount * stake[v].lsu, stake[v].xrd)
    IN  /\ ~ stakes
        /\ stakes' = TRUE
        /\ stake_at' = [stake_at EXCEPT ![epoch][v] =
                           [lsu |-> @.lsu + lsu, xrd |-> @.xrd + amount]]
        /\ UNCHANGED <<validator_map, epoch>>

NextEpoch(reward) ==
    /\ epoch < MaxEpoch
    /\ epoch' = epoch + 1
    /\ stake_at' = [e \in BABYLON_START_EPOCH .. (epoch + 1) |->
                       IF e <= epoch THEN stake_at[e]
                       ELSE [v \in Validator |->
                                [stake[v] EXCEPT !.xrd = @ + DMul(@, reward)]]]
    /\ stakes' = FALSE
    /\ UNCHANGED validator_map

Next ==
    \/ \E add, remove \in SUBSET Validator : LogValidatorStaking(add, remove)
    \/ \E v \in Validator, n \in FillLengths : FillValidatorStaking(v, n)
    \/ \E v \in DOMAIN validator_map, e \in DOMAIN stake_at, index \in 0 .. (MaxInserted - 1) :
          /\ Fits(validator_map[v], index, e)
          /\ Len(validator_map[v]) < MaxInserted
          /\ InsertValidatorStaking(v, index, e)
    \/ \E v \in Validator, amount \in Stakes : DelegatorsStake(v, amount)
    \/ \E reward \in Rewards : NextEpoch(reward)

Spec == Init /\ [][Next]_vars

----------------------------------------------------------------------------
(* What the keeper reports *)

Price(data) == DDiv(data.xrd, data.lsu)

\* get_validator_apy: the growth of the LSU price since the second entry, by the
\* year.  The newest entry may be minutes old and is skipped.
HasApy(v) == Len(validator_map[v]) >= 2 /\ stake[v].lsu # 0

GetValidatorApy(v) ==
    LET previous == validator_map[v][2]
        growth == Price(stake[v]) - DDiv(previous.last_staked, previous.last_lsu)
    IN  TruncDiv(growth * EPOCH_OF_YEAR, epoch - previous.epoch_at)

\* get_active_set_apy
GetActiveSetApy ==
    LET counted == {v \in DOMAIN validator_map : HasApy(v)}
    IN  IF counted = {} THEN 0
        ELSE TruncDiv(SumFunction([v \in counted |-> GetValidatorApy(v)]), Cardinality(counted))

----------------------------------------------------------------------------
(* Safety *)

\* A history has one entry a week, newest first, none in the future: the period
\* get_validator_apy divides by is never zero, however often and however late
\* the keeper is called.
HistoryOrdered ==
    \A v \in DOMAIN validator_map :
        LET h == validator_map[v]
        IN  /\ h[1].epoch_at <= epoch
            /\ \A i \in 1 .. (Len(h) - 1) :
                  GetWeekIndex(h[i].epoch_at) > GetWeekIndex(h[i + 1].epoch_at)

\* Staking rounds the LSUs down: a price recorded in an epoch is below the price
\* at its end by no more than this.
PriceDust(v, e) == 1 + Price(stake_at[e][v]) \div InitialStake[v].lsu

\* The return reported for a validator is what an LSU has earned since the
\* epoch of the entry it is computed from, by the year, whatever delegators
\* staked since, and whether the entry was filled, inserted, logged or
\* overwritten.  That of the active set lies between those of the validators
\* that have one: a validator without a history does not weigh on it.
ApyIsGrowth ==
    LET reported == {v \in DOMAIN validator_map : HasApy(v)}
        apys     == {GetValidatorApy(v) : v \in reported}
    IN  /\ \A v \in reported :
              LET since  == validator_map[v][2].epoch_at
                  earned == (Price(stake[v]) - Price(stake_at[since][v])) * EPOCH_OF_YEAR
              IN  Magnitude(GetValidatorApy(v) * (epoch - since) - earned)
                    <= EPOCH_OF_YEAR * PriceDust(v, since) + (epoch - since)
        /\ apys # {} => Min(apys) <= GetActiveSetApy /\ GetActiveSetApy <= Max(apys)

\* "Update staking information for existing validators": the weekly call can be
\* made for the validators the keeper knows.
LogPossible == CanLog(DOMAIN validator_map)

----------------------------------------------------------------------------
(* Action properties *)

\* The weeks before the current one are never rewritten, by a log, by a fill of
\* a validator that is known or by an insertion; only a validator that is removed
\* and added in one call starts anew.
PastKept ==
    [][\A v \in DOMAIN validator_map \cap DOMAIN validator_map' :
          \/ validator_map'[v] = <<NewStakeData(v, epoch)>>
          \/ \A d \in Range(validator_map[v]) :
                GetWeekIndex(d.epoch_at) < GetWeekIndex(epoch)
                  => d \in Range(validator_map'[v])]_vars
=============================================================================
