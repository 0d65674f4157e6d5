--------------------------- MODULE OperationSteps ---------------------------
(***************************************************************************)
(* The scripts under src/deploy that operators run after the deployment:   *)
(* 2_dapp_definition.py, 3_fill_keeper.py, 4T_basic.py and utils/*.py.     *)
(*                                                                         *)
(* A script makes sure of `accounts` keys, reads the config file if it     *)
(* `configures`, looks up the entries `needs`, waits for XRD if it `waits`,*)
(* submits the transactions `steps` one after the other, awaiting each,    *)
(* and at its end writes its dictionary to the files `saves`.              *)
(***************************************************************************)
EXTENDS Integers, Sequences

Script(needs, steps, saves) ==
    [accounts |-> 1, configures |-> TRUE, needs |-> needs, waits |-> TRUE,
     steps |-> steps, saves |-> saves]

(***************************************************************************)
(* A step submits a transaction unless the entries `skip` are there; it is *)
(* built from the entries `reads` and makes the call.  The deployer must   *)
(* sign it if `owner`: it proves (or withdraws) `proof` owner badges, or   *)
(* proves one of the authority.  Its receipt is searched for the address   *)
(* of the new entity to record under `keys`, or if there are none, for the *)
(* status.  `sets` is the entry set_variables registers for each variable, *)
(* `quote` is the token whose signed price the call takes, and `env` says  *)
(* that the step needs the shell's `validator`.                            *)
(***************************************************************************)
NoVariables == [v \in {} |-> ""]

Call(call, reads, proof) ==
    [skip |-> {}, keys |-> {}, reads |-> reads, sets |-> NoVariables,
     proof |-> proof, owner |-> proof > 0, call |-> call, quote |-> "", env |-> FALSE]

Creation(key, reads) == [Call("create", reads, 0) EXCEPT !.keys = {key}]

Registration(variables) ==
    [Call("set_variables",
          {"OWNER_RESOURCE", "ENV_REGISTRY_COMPONENT"} \cup {variables[v] : v \in DOMAIN variables},
          4)
        EXCEPT !.sets = variables]

-----------------------------------------------------------------------------
(* The numbered scripts *)

\* The dApp definition claims the deployed packages and components.
ClaimedEntities ==
    {"ORACLE_PACKAGE", "ORACLE_COMPONENT", "KEEPER_PACKAGE", "KEEPER_COMPONENT",
     "INTEREST_PACKAGE", "INTEREST_COMPONENT", "PROTOCOL_PACKAGE", "STAKING_POOL",
     "EARNING_COMPONENT", "CDP_COMPONENT"}

DappDefinition ==
    Script({"OWNER_RESOURCE"},
           <<Call("claim_entities", {"OWNER_RESOURCE"} \cup ClaimedEntities, 4)>>, << >>)

\* The manifest with set_verify_public_key is overwritten before it is sent.
FillKeeper ==
    Script({},
           <<[Call("fill_validator_staking",
                   {"OWNER_RESOURCE", "AUTHORITY_RESOURCE", "BASE_AUTHORITY_RESOURCE",
                    "KEEPER_COMPONENT", "USDC_RESOURCE", "USDT_RESOURCE"}, 0)
                 EXCEPT !.owner = TRUE, !.env = TRUE],
             [Call("set_price_quote_in_xrd",
                   {"BASE_AUTHORITY_RESOURCE", "ORACLE_COMPONENT",
                    "USDC_RESOURCE", "USDT_RESOURCE"}, 0)
                 EXCEPT !.owner = TRUE]>>, << >>)

FaucetTokens == Call("free_tokens", {"FAUCET_COMPONENT"}, 0)
Supply(tokens) == Call("supply", {"CDP_COMPONENT"} \cup tokens, 0)

\* The price of XRD in the quote is asked for before the transaction is built.
Borrow(quote, reads) ==
    [Call("borrow_variable", {"CDP_COMPONENT"} \cup reads, 0) EXCEPT !.quote = quote]
DseJoin == [Call("join", {"EARNING_COMPONENT"}, 0) EXCEPT !.env = TRUE]
DseRedeem == Call("redeem", {"EARNING_COMPONENT", "CDP_COMPONENT", "DSE_RESOURCE"}, 0)

\* 4T_basic.py; the dx tokens are looked up before the first loan.
BasicTrial ==
    [Script({"FAUCET_COMPONENT", "USDC_RESOURCE", "USDT_RESOURCE", "DSE_RESOURCE"},
            <<FaucetTokens, FaucetTokens, FaucetTokens,
              Supply({}), Supply({}), Supply({"USDC_RESOURCE"}), Supply({"USDT_RESOURCE"}),
              Borrow("USDC_RESOURCE", {"DX_XRD", "DX_USDC", "USDC_RESOURCE"}),
              Borrow("USDT_RESOURCE", {"DX_XRD", "USDT_RESOURCE"}),
              Borrow("USDC_RESOURCE", {"DX_USDC"}),
              DseJoin, DseRedeem, DseRedeem>>, << >>)
        EXCEPT !.accounts = 4]
-----------------------------------------------------------------------------
(* The utilities that change the config file *)

\* A token the file has is not created again.  It is owned by whoever proves owner badges,
\* has roles for the authority, and is created without a supply.
NewToken(key) ==
    [Creation(key, {"OWNER_RESOURCE", "AUTHORITY_RESOURCE"}) EXCEPT !.skip = {key}]
Referral == NewToken("REFERRAL_RESOURCE")
RecoveryKey == NewToken("RECOVERY_KEY_RESOURCE")

\* Both are registered (again).
CreateTokens ==
    Script({"OWNER_RESOURCE", "AUTHORITY_RESOURCE", "ENV_REGISTRY_COMPONENT"},
           <<Referral, RecoveryKey,
             Registration([referral_resource |-> "REFERRAL_RESOURCE",
                           recovery_key_resource |-> "RECOVERY_KEY_RESOURCE"])>>,
           <<"config">>)

\* The addresses an upgrade compiles into its package and the components it calls.
UpgradeNeeds ==
    {"OWNER_RESOURCE", "AUTHORITY_RESOURCE", "BASE_AUTHORITY_RESOURCE", "BASE_RESOURCE",
     "LP_RESOURCE", "REFERRAL_RESOURCE", "RECOVERY_KEY_RESOURCE", "PROTOCOL_RESOURCE",
     "KEEPER_REWARD_RESOURCE", "FEE_OATH_RESOURCE", "CONFIG_PACKAGE", "ACCOUNT_PACKAGE",
     "POOL_PACKAGE", "REFERRAL_GENERATOR_PACKAGE", "PERMISSION_REGISTRY_PACKAGE",
     "ORACLE_PACKAGE", "FEE_DISTRIBUTOR_PACKAGE", "FEE_DELEGATOR_PACKAGE",
     "ORACLE_COMPONENT", "CONFIG_COMPONENT", "POOL_COMPONENT",
     "REFERRAL_GENERATOR_COMPONENT", "FEE_DISTRIBUTOR_COMPONENT",
     "FEE_DELEGATOR_COMPONENT", "PERMISSION_REGISTRY_COMPONENT", "ENV_REGISTRY_COMPONENT"}

\* One transaction takes the authority from the old exchange and creates the new one with it.
NewExchange ==
    [Call("upgrade", {"OWNER_RESOURCE", "AUTHORITY_RESOURCE",
                      "EXCHANGE_PACKAGE", "EXCHANGE_COMPONENT"}, 4)
        EXCEPT !.keys = {"EXCHANGE_COMPONENT"}]

\* An upgrade asks the network's faucet for XRD instead of waiting for it.
UpgradeScript(needs, steps) ==
    [Script(needs, steps, <<"release", "config">>) EXCEPT !.waits = FALSE]

UpgradeExchange ==
    UpgradeScript(UpgradeNeeds \cup {"EXCHANGE_COMPONENT"},
                  <<Creation("EXCHANGE_PACKAGE", {"OWNER_RESOURCE"}), NewExchange,
                    Registration([exchange_component |-> "EXCHANGE_COMPONENT"])>>)

UpgradeTokenWrapper ==
    UpgradeScript(UpgradeNeeds \cup {"TOKEN_WRAPPER_PACKAGE", "TOKEN_WRAPPER_COMPONENT"},
                  <<Creation("TOKEN_WRAPPER_2_PACKAGE", {"OWNER_RESOURCE"}),
                    Creation("TOKEN_WRAPPER_2_COMPONENT",
                             {"OWNER_RESOURCE", "TOKEN_WRAPPER_2_PACKAGE"}),
                    Registration([token_wrapper_component |-> "TOKEN_WRAPPER_2_COMPONENT"])>>)

-----------------------------------------------------------------------------
(* The utilities that submit one transaction *)

OneCall(needs, step) == Script(needs, <<step>>, << >>)

EnvRegisterLsuPool ==
    OneCall({"OWNER_RESOURCE", "LSU_POOL_COMPONENT", "ENV_REGISTRY_COMPONENT"},
            Registration([lsu_pool_component |-> "LSU_POOL_COMPONENT"]))

EnvRegisterUsdc ==
    OneCall({"OWNER_RESOURCE", "USDC_RESOURCE", "ENV_REGISTRY_COMPONENT"},
            Registration([xusdc_resource |-> "USDC_RESOURCE"]))

\* Three of the owner badges leave for a fixed account.
TransferOwn == OneCall({}, Call("withdraw_badges", {"OWNER_RESOURCE"}, 3))

\* What transfer.py moves is typed in by the operator, who does not move the badges.
Transfer == OneCall({}, Call("withdraw", {}, 0))

TransferTreasury ==
    OneCall({"OWNER_RESOURCE", "EXCHANGE_COMPONENT"},
            Call("collect_treasury", {"OWNER_RESOURCE", "EXCHANGE_COMPONENT"}, 4))

UpdatePairs ==
    OneCall({"OWNER_RESOURCE", "EXCHANGE_COMPONENT"},
            Call("update_pairs", {"EXCHANGE_COMPONENT"}, 0))

\* run_manifest.py submits the manifest the operator types in, here a call of an
\* administrator, and reads no configuration.
RunManifest(call) ==
    [OneCall({}, [Call(call, {}, 0) EXCEPT !.owner = TRUE]) EXCEPT !.configures = FALSE]
=============================================================================
