---------------------------- MODULE MCOperations ----------------------------
(* Which scripts are run side by side, and what the config file has at first. *)
EXTENDS Operations, OperationSteps

MCPlans ==
    {<<UpgradeExchange, UpgradeExchange>>,
     <<CreateTokens, UpgradeExchange>>,
     <<CreateTokens, CreateTokens>>,
     <<UpgradeTokenWrapper, DappDefinition>>,
     <<BasicTrial>>,
     <<RunManifest("set_validity_period")>>,
     <<RunManifest("set_verify_public_key"), FillKeeper>>,
     <<TransferOwn, EnvRegisterUsdc>>,
     <<EnvRegisterLsuPool, Transfer>>,
     <<TransferTreasury, UpdatePairs>>}

MCTimedPlans == {<<BasicTrial>>, <<RunManifest("set_validity_period")>>}

\* What 1_deploy_protocol.py records: until the manager, and all of it.
UntilManager ==
    {"OWNER_RESOURCE", "AUTHORITY_RESOURCE", "BASE_AUTHORITY_RESOURCE", "BASE_RESOURCE",
     "FAUCET_COMPONENT", "USDC_RESOURCE", "USDT_RESOURCE", "KEEPER_COMPONENT",
     "KEEPER_PACKAGE", "INTEREST_PACKAGE", "INTEREST_COMPONENT", "ORACLE_PACKAGE",
     "ORACLE_COMPONENT", "PROTOCOL_PACKAGE", "STAKING_POOL", "EARNING_COMPONENT",
     "DSE_RESOURCE"}
Deployed == UntilManager \cup {"CDP_COMPONENT", "DX_USDC", "DX_USDT", "DX_XRD"}

\* What no script of this commit records, so that operators write it into the file.
Written ==
    {"EXCHANGE_COMPONENT", "LSU_POOL_COMPONENT", "TOKEN_WRAPPER_PACKAGE",
     "TOKEN_WRAPPER_COMPONENT"} \cup UpgradeNeeds

\* The tokens are those of create_tokens.py.
Tokens == {"REFERRAL_RESOURCE", "RECOVERY_KEY_RESOURCE"}

MCConfigFiles == {(UntilManager \cup Written) \ Tokens, Deployed \cup Written}
=============================================================================
