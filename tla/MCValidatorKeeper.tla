------------------------- MODULE MCValidatorKeeper -------------------------
(* Model values of the runs of ValidatorKeeper. *)
EXTENDS ValidatorKeeper

MCInitialStake ==
    [v \in Validator |-> [lsu |-> IF v = CHOOSE w \in Validator : TRUE THEN 1000 ELSE 700,
                          xrd |-> 1000]]
=============================================================================
