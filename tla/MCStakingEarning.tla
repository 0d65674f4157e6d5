-------------------------- MODULE MCStakingEarning --------------------------
(* Model values of the run of StakingEarning. *)
EXTENDS StakingEarning

\* One validator has earned already.
MCInitialStake ==
    [v \in Validator |-> [lsu |-> 1000,
                          xrd |-> IF v = CHOOSE w \in Validator : TRUE THEN 1000 ELSE 1057]]
MCRebalances == {<<600, 1200>>, <<2000, 1000>>}
MCInterestParams == [def_primary |-> ONE \div 5, def_quadratic |-> ONE \div 2,
                     stable_coin_primary |-> (55 * ONE) \div 100,
                     stable_coin_quadratic |-> (45 * ONE) \div 100]
=============================================================================
