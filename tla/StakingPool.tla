----------------------------- MODULE StakingPool -----------------------------
(***************************************************************************)
(* The StakingResourePool of protocol/src/pool/staking.rs as functions on  *)
(* a record s:                                                             *)
(*   lsu_map     the stake units (LSU) held, per validator with a vault    *)
(*   dse_supply  the supply of the pool's own unit, dseXRD                 *)
(*   validators  the network's validators: LSUs issued and XRD staked      *)
(* An unstake turns LSUs into a claim NFT; what it is worth is fixed then. *)
(***************************************************************************)
EXTENDS DecimalMath, Sequences, SequencesExt, Functions

CONSTANT RebalanceDust   \* 0.000001

----------------------------------------------------------------------------
(* The Validator component of the network.                                 *)

ValueOfLsu(val, lsu) == IF val.lsu = 0 THEN 0 ELSE TruncDiv(lsu * val.xrd, val.lsu)

LsuForStake(val, amount) == IF val.xrd = 0 THEN amount ELSE TruncDiv(amount * val.lsu, val.xrd)

Stake(s, v, amount) ==
    [s EXCEPT !.validators[v] = [lsu |-> @.lsu + LsuForStake(@, amount), xrd |-> @.xrd + amount]]

Unstake(s, v, lsu) ==
    [s EXCEPT !.validators[v] = [lsu |-> @.lsu - lsu, xrd |-> @.xrd - ValueOfLsu(@, lsu)]]

----------------------------------------------------------------------------
(* Values                                                                  *)

SumCurrentStaked(s) ==
    SumFunction([v \in DOMAIN s.lsu_map |-> ValueOfLsu(s.validators[v], s.lsu_map[v])])

\* get_values: what one dseXRD is worth.
ValuePerUnit(s) ==
    IF s.dse_supply = 0 THEN ONE ELSE DDiv(SumCurrentStaked(s), s.dse_supply)

PutLsu(s, v, lsu) ==
    [s EXCEPT !.lsu_map = [w \in DOMAIN @ \cup {v} |->
                              (IF w \in DOMAIN @ THEN @[w] ELSE 0) + (IF w = v THEN lsu ELSE 0)]]

----------------------------------------------------------------------------
(* contribute                                                              *)

\* Mutant: values the pool after it has received the new LSUs.
ContributeLate(s, v, amount) ==
    LET lsu    == LsuForStake(s.validators[v], amount)
        staked == PutLsu(Stake(s, v, amount), v, lsu)
    IN  [staked EXCEPT !.dse_supply =
            @ + DDiv(ValueOfLsu(staked.validators[v], lsu), ValuePerUnit(staked))]

CanContribute(s, v, amount) ==
    LsuForStake(s.validators[v], amount) > 0 /\ ValuePerUnit(s) > 0

Contribute(s, v, amount) ==
    LET lsu    == LsuForStake(s.validators[v], amount)
        staked == Stake(s, v, amount)
    IN  [PutLsu(staked, v, lsu) EXCEPT !.dse_supply =
            @ + DDiv(ValueOfLsu(staked.validators[v], lsu), ValuePerUnit(s))]

----------------------------------------------------------------------------
(* redeem: the validators in the order the caller lists them.  r is the    *)
(* loop's state: the pool, what is left to redeem, the claims so far, and  *)
(* whether no step has panicked.                                           *)

\* Mutant: always by the index, also when the whole vault is due.
LsuTakenByIndex(part, value, held) == DDiv(part, DDiv(value, held))

LsuTaken(part, value, held) == IF part = value THEN held ELSE DDiv(part, DDiv(value, held))

Stopped(r) == ~ r.ok \/ (r.left <= 0 /\ r.claims # << >>)

RedeemFrom(r, v) ==
    LET held  == IF v \in DOMAIN r.s.lsu_map THEN r.s.lsu_map[v] ELSE 0
        value == ValueOfLsu(r.s.validators[v], held)
        part  == IF r.left <= value THEN r.left ELSE value
        lsu   == LsuTaken(part, value, held)
        claim == [validator |-> v, amount |-> ValueOfLsu(r.s.validators[v], lsu)]
    IN  IF Stopped(r) THEN r
        ELSE IF held = 0 \/ lsu > held THEN [r EXCEPT !.ok = FALSE]
        ELSE [s |-> [Unstake(r.s, v, lsu) EXCEPT !.lsu_map[v] = held - lsu],
              left |-> r.left - part, claims |-> Append(r.claims, claim), ok |-> TRUE]

Redeemed(s, vs, amount) ==
    FoldLeft(RedeemFrom,
             [s |-> s, left |-> DMul(amount, ValuePerUnit(s)), claims |-> << >>, ok |-> TRUE], vs)

\* An unknown or emptied validator in the list, LSUs short by a rounding, or a
\* list that is not worth the amount.
CanRedeem(s, vs, amount) ==
    LET r == Redeemed(s, vs, amount) IN r.ok /\ r.left = 0

Redeem(s, vs, amount) == [Redeemed(s, vs, amount).s EXCEPT !.dse_supply = @ - amount]

RedeemClaims(s, vs, amount) == Redeemed(s, vs, amount).claims

----------------------------------------------------------------------------
(* rebalance: the admin swaps LSUs of one validator, which it gets as a    *)
(* claim NFT, for LSUs of another one bought with its own XRD.  When all   *)
(* are taken the code removes the empty vault from the component's map,    *)
(* which the engine may refuse (a vault that is stored stays stored); here *)
(* it is taken to succeed.                                                 *)

TakesAll(s, v, lsu_amount) == Magnitude(s.lsu_map[v] - lsu_amount) <= RebalanceDust

RebalancedLsu(s, v, lsu_amount) ==
    IF TakesAll(s, v, lsu_amount) THEN s.lsu_map[v] ELSE lsu_amount

\* Mutant: neither the difference nor the vault is checked.
CanRebalanceUnchecked(s, v, lsu_amount, w, stake) ==
    v \in DOMAIN s.lsu_map /\ lsu_amount <= s.validators[v].lsu

CanRebalance(s, v, lsu_amount, w, stake) ==
    /\ v \in DOMAIN s.lsu_map
    /\ lsu_amount <= s.validators[v].lsu
    /\ Magnitude(ValueOfLsu(s.validators[v], lsu_amount) - stake) < ONE
    /\ RebalancedLsu(s, v, lsu_amount) <= s.lsu_map[v]

Rebalance(s, v, lsu_amount, w, stake) ==
    LET lsu   == RebalancedLsu(s, v, lsu_amount)
        kept  == IF TakesAll(s, v, lsu_amount) THEN DOMAIN s.lsu_map \ {v} ELSE DOMAIN s.lsu_map
        taken == [Unstake(s, v, lsu) EXCEPT
                     !.lsu_map = [x \in kept |-> IF x = v THEN @[x] - lsu ELSE @[x]]]
    IN  PutLsu(Stake(taken, w, stake), w, LsuForStake(taken.validators[w], stake))
=============================================================================
