---------------------------- MODULE MCCdpManager ----------------------------
(* Two assets, as the protocol is deployed: XRD with the staking model and a *)
(* stable coin of lower divisibility.                                        *)
EXTENDS CdpManager
CONSTANT Usd

\* 1 Usd is worth 2 XRD, or 0.8.
MCQuotes == {[t \in Token |-> IF t = Xrd THEN ONE ELSE p] : p \in {2 * ONE, (8 * ONE) \div 10}}

MCAssetStates ==
    [t \in Token |->
        [interest_model |-> IF t = Xrd THEN "XrdStaking" ELSE "StableCoin",
         ltv |-> (85 * ONE) \div 100,
         liquidation_threshold |-> (87 * ONE) \div 100,
         liquidation_bonus |-> (2 * ONE) \div 100]]

MCUnit == [t \in Token |-> IF t = Xrd THEN 1 ELSE 10]
MCShareUnit == [t \in Token |-> IF t = Xrd THEN 1 ELSE 10]
MCSeed == [t \in Token |-> 4 * ONE]

AllPairs == Token \X Token
XrdOnUsd == {<<Xrd, Usd>>}
UsdOnXrd == {<<Usd, Xrd>>}

MCInterestParams == [def_primary |-> ONE \div 5, def_quadratic |-> ONE \div 2,
                     stable_coin_primary |-> (55 * ONE) \div 100,
                     stable_coin_quadratic |-> (45 * ONE) \div 100]
=============================================================================
