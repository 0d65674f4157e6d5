--------------------------- MODULE InterestModel ---------------------------
(***************************************************************************)
(* The rate curves of interest/src/interest_model.rs as operators.  The    *)
(* curve parameters are an argument; the component that keeps them, and    *)
(* its set_params, are not modelled: the parameters are constants.         *)
(***************************************************************************)
EXTENDS DecimalMath

Model == {"Default", "StableCoin", "XrdStaking"}

GetDefaultVariableInterest(prm, borrow_ratio) ==
    IF borrow_ratio > ONE
    THEN prm.def_primary + prm.def_quadratic
    ELSE DMul(borrow_ratio, prm.def_primary)
           + DMul(Pow[2][borrow_ratio], prm.def_quadratic)

GetStablecoinVariableInterest(prm, borrow_ratio) ==
    LET r2 == IF borrow_ratio > ONE THEN ONE ELSE Pow[2][borrow_ratio]
    IN  DMul(prm.stable_coin_primary, Pow[2][r2])
          + DMul(prm.stable_coin_quadratic, Pow[4][r2])

\* Only the staking model tells the stable rate from the variable one: no
\* stable loan is cheaper than what the active validators pay (validator_apy,
\* ValidatorKeeper::get_active_set_apy).
VariableAndStable(rate, model, validator_apy) ==
    [variable |-> rate,
     stable   |-> IF model = "XrdStaking" /\ rate <= validator_apy
                  THEN validator_apy ELSE rate]

\* The variable and the stable rate at a borrow ratio.
GetInterestRate(prm, borrow_ratio, model, validator_apy) ==
    VariableAndStable(IF model = "StableCoin"
                      THEN GetStablecoinVariableInterest(prm, borrow_ratio)
                      ELSE GetDefaultVariableInterest(prm, borrow_ratio),
                      model, validator_apy)
=============================================================================
