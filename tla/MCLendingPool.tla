--------------------------- MODULE MCLendingPool ---------------------------
(* Model values and rate parameters shared by the runs of LendingPool. *)
EXTENDS LendingPool, TLC
\* The deployed curve: 0.2, 0.5, 0.55, 0.45.
MCInterestParams == [def_primary |-> ONE \div 5, def_quadratic |-> ONE \div 2,
                     stable_coin_primary |-> (55 * ONE) \div 100,
                     stable_coin_quadratic |-> (45 * ONE) \div 100]

\* The pool treats the validators alike.
ValidatorSymmetry == Permutations(Validator)
=============================================================================
