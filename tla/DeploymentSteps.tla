-------------------------- MODULE DeploymentSteps --------------------------
(* The steps of 1_deploy_protocol.py. *)
EXTENDS Sequences

Step(guard, keys, needs, imports, exports) ==
    [guard |-> guard, keys |-> keys, needs |-> needs, imports |-> imports, exports |-> exports]

\* The common step: one entity, whose key is tested, recorded and exported.
Entity(key, needs, imports) == Step({key}, {key}, needs, imports, {key})

\* Of the constants of common/build.rs, those the sources of most packages use.
Badges == {"AUTHORITY_RESOURCE", "BASE_AUTHORITY_RESOURCE"}

\* The manifest of a badge names no other entity, that of the base token its owner's badge
\* and the authority that may mint it.
MintedBadge(key) == Entity(key, {}, {})
BaseResource == Entity("BASE_RESOURCE", {"OWNER_RESOURCE", "BASE_AUTHORITY_RESOURCE"}, {})

BadgeSteps == <<
    MintedBadge("OWNER_RESOURCE"),
    MintedBadge("AUTHORITY_RESOURCE"),
    MintedBadge("BASE_AUTHORITY_RESOURCE"),
    BaseResource >>

\* On stokenet only; the test tokens come with the faucet.
FaucetSteps == <<
    Step({"FAUCET_PACKAGE"}, {"FAUCET_PACKAGE"}, {}, {}, {}),
    Step({"FAUCET_COMPONENT"},
         {"FAUCET_COMPONENT", "FAUCET_OWNER_RESOURCE", "USDC_RESOURCE", "USDT_RESOURCE"},
         {"FAUCET_PACKAGE"}, {}, {}) >>

\* A component is instantiated from its package with a proof of the authority badge.
Instance(package) == {"OWNER_RESOURCE", "AUTHORITY_RESOURCE", package}

KeeperSteps == <<
    Entity("KEEPER_PACKAGE", {"OWNER_RESOURCE"}, Badges),
    Entity("KEEPER_COMPONENT", Instance("KEEPER_PACKAGE"), {}) >>

InterestSteps == <<
    Entity("INTEREST_PACKAGE", {"OWNER_RESOURCE"},
           {"AUTHORITY_RESOURCE", "KEEPER_PACKAGE", "KEEPER_COMPONENT"}),
    Entity("INTEREST_COMPONENT", Instance("INTEREST_PACKAGE"), {}) >>

OracleSteps == <<
    Entity("ORACLE_PACKAGE", {"OWNER_RESOURCE"}, Badges),
    Entity("ORACLE_COMPONENT", Instance("ORACLE_PACKAGE"), {}) >>

ProtocolSteps == <<
    Entity("PROTOCOL_PACKAGE", {"OWNER_RESOURCE"},
           Badges \cup {"INTEREST_PACKAGE", "INTEREST_COMPONENT",
                        "ORACLE_PACKAGE", "ORACLE_COMPONENT"}),
    Step({"EARNING_COMPONENT"}, {"EARNING_COMPONENT", "STAKING_POOL", "DSE_RESOURCE"},
         Instance("PROTOCOL_PACKAGE"), {}, {"EARNING_COMPONENT", "STAKING_POOL"}),
    Entity("CDP_COMPONENT", Instance("PROTOCOL_PACKAGE") \cup {"EARNING_COMPONENT"}, {}) >>

\* new_pool of the manager; both keys are tested.
Pool(pool, dx, tokens) ==
    Step({pool, dx}, {pool, dx},
         {"OWNER_RESOURCE", "AUTHORITY_RESOURCE", "CDP_COMPONENT"} \cup tokens, {}, {dx})

PoolSteps == <<
    Pool("USDC_POOL", "DX_USDC", {"USDC_RESOURCE"}),
    Pool("USDT_POOL", "DX_USDT", {"USDT_RESOURCE"}),
    Pool("XRD_POOL", "DX_XRD", {}) >>

ComponentSteps == KeeperSteps \o InterestSteps \o OracleSteps \o ProtocolSteps \o PoolSteps

AllSteps == [stokenet |-> BadgeSteps \o FaucetSteps \o ComponentSteps,
             mainnet |-> BadgeSteps \o ComponentSteps]

\* On mainnet no step creates the tokens of the two dollar pools.
TokensToWrite == [stokenet |-> {}, mainnet |-> {"USDC_RESOURCE", "USDT_RESOURCE"}]
=============================================================================
