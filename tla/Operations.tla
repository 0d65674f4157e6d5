----------------------------- MODULE Operations -----------------------------
(***************************************************************************)
(* The scripts of OperationSteps run side by side by the operators, on     *)
(* one checkout (accounts.json, the config file and its release copy), one *)
(* network and the deployed components.                                    *)
(*                                                                         *)
(* The files are not locked: one is read whole, and written by truncating  *)
(* it first.  A transaction is submitted once, its answer is not read, and *)
(* the network decides it at any later time, also after its run has ended. *)
(* None of these scripts has a finally block: what a run has not saved     *)
(* when it stops is lost.                                                  *)
(*                                                                         *)
(* A transaction is named by the run and the step that submitted it, the   *)
(* address of an entity is the transaction that created it; Given is that  *)
(* of an entity that was there before.  An account is its key, named by    *)
(* the run that made it.                                                   *)
(***************************************************************************)
EXTENDS PriceOracle, Sequences

CONSTANTS
    Runs,              \* the processes
    Plans,             \* which scripts they run: functions from some of Runs
    TimedPlans,        \* the plans in which time passes and users call
    ConfigFiles,       \* the entries the config file may have at first
    Badges,            \* owner badges of the deployer
    MaxDiff, Periods,  \* max_diff of the deployment, and values set later
    MaxTime, MaxStops

Exchange == "EXCHANGE_COMPONENT"

\* A script that has read the config file may save to it and to its copy; what it registers
\* it has looked up.
IsScript(s) ==
    /\ Len(s.steps) \in Nat /\ s.saves \in Seq({"release", "config"})
    /\ s.saves # << >> => s.configures
    /\ \A i \in 1 .. Len(s.steps) :
          /\ s.steps[i].proof \in Nat
          /\ \A v \in DOMAIN s.steps[i].sets : s.steps[i].sets[v] \in s.steps[i].reads

\* A script upgrades the exchange once, never skips it, and registers no exchange before.
UpgradesOnce(s) ==
    \A i \in 1 .. Len(s.steps) :
        /\ Exchange \in s.steps[i].keys => s.steps[i].call = "upgrade"
        /\ s.steps[i].call = "upgrade" =>
              /\ s.steps[i].keys = {Exchange} /\ s.steps[i].skip = {}
              /\ Exchange \in s.steps[i].reads
              /\ \A j \in 1 .. Len(s.steps) : s.steps[j].call = "upgrade" => j = i
        /\ "exchange_component" \in DOMAIN s.steps[i].sets =>
              /\ s.steps[i].sets["exchange_component"] = Exchange
              /\ \E j \in 1 .. (i - 1) : s.steps[j].call = "upgrade"

ASSUME OperationsAssumption ==
    /\ Badges \in Nat /\ MaxDiff \in Int /\ Periods \subseteq Int /\ MaxStops \in Nat
    /\ \A p \in Plans : /\ DOMAIN p \subseteq Runs
                        /\ \A r \in DOMAIN p : IsScript(p[r]) /\ UpgradesOnce(p[r])

VARIABLES
    plan,
    files,      \* accounts.json, the config file, and its copy in the release of the hour
    pc, at,     \* per process: where it is, and at which step
    keys,       \* the accounts it has loaded or made
    data,       \* accounts.json as it will write it
    config,     \* config_data and the local variables named after its entries
    price,      \* the signed price it has fetched
    txs,        \* the transactions submitted so far
    exchanges,  \* the exchanges that have held the authority, the holder last
    ledger,     \* registered variables, owner badges, what the dApp claims
    oracle,     \* the PriceOracle
    clock,      \* the epoch of each time so far; the price server signs at each
    accepted,   \* history: the timestamps the oracle has accepted in its last epoch,
                \* the latest of these calls and its max_diff
    ideal,      \* history: the files had every run read and written in one step
    overlap,    \* history: files two runs held at once, or a stop left truncated
    stops       \* interrupts, exceptions, kills, and transactions that fail for no
                \* reason of the model's

process == <<pc, at, keys, data, config, price>>
network == <<txs, exchanges, ledger, oracle, accepted>>
vars == <<plan, files, process, network, clock, ideal, overlap, stops>>

Given == <<0, 0>>
Owner == <<0, 1>>
Signer == "price server"
PricedTokens == {"USDC_RESOURCE", "USDT_RESOURCE"}

Empty == [k \in {} |-> Given]
Updated(f, g) == [k \in DOMAIN f \cup DOMAIN g |-> IF k \in DOMAIN g THEN g[k] ELSE f[k]]
Whole(e) == [whole |-> TRUE, entries |-> e]
Truncated(e) == [whole |-> FALSE, entries |-> e]     \* e is what an exception handler makes of it
NoPrice == [quote |-> "", epoch |-> 0, timestamp |-> 0, key |-> ""]

epoch == clock[Len(clock)]
Steps(r) == plan[r].steps
Step(r) == Steps(r)[at[r]]
StepOf(a) == Steps(a[1])[a[2]]
Current(r) == <<r, at[r]>>

\* The deployment has been made by the owner, and the tokens may have been given prices;
\* the checkout has the owner's key or is a fresh one.
Init ==
    /\ plan \in Plans
    /\ \E f \in ConfigFiles, a \in {<< >>, <<Owner>>} :
          /\ files = [accounts |-> IF a = << >> THEN Truncated(a) ELSE Whole(a),
                      config |-> Whole([k \in f |-> Given]),
                      release |-> Truncated(Empty)]
          /\ ideal = [accounts |-> a, config |-> [k \in f |-> Given]]
    /\ pc = [r \in Runs |-> "off"] /\ at = [r \in Runs |-> 1]
    /\ keys = [r \in Runs |-> << >>] /\ data = [r \in Runs |-> << >>]
    /\ config = [r \in Runs |-> Empty] /\ price = [r \in Runs |-> NoPrice]
    /\ txs = [a \in {} |-> Given]
    /\ exchanges = <<Given>>
    /\ ledger = [registry |-> [v \in {"exchange_component"} |-> Given],
                 badges |-> Badges, claimed |-> Empty]
    /\ \E priced \in IF plan \in TimedPlans THEN {{}, PricedTokens} ELSE {{}} :
          oracle = [Instantiate(Signer, MaxDiff) EXCEPT !.price_map = priced]
    /\ clock = <<1>>
    /\ accepted = [epoch |-> 0, times |-> {}, last |-> 0, max_diff |-> MaxDiff]
    /\ overlap = {}
    /\ stops = 0

Goes(r, where) == pc' = [pc EXCEPT ![r] = where]

-----------------------------------------------------------------------------
(* Accounts: load_account, and new_account when there is none. *)

AfterConfig(r) == IF plan[r].waits THEN "funding" ELSE "running"
AfterAccounts(r) == IF plan[r].configures THEN "configuring" ELSE AfterConfig(r)

HasAccount(r, key) ==
    /\ keys' = [keys EXCEPT ![r] = Append(@, key)]
    /\ Goes(r, IF Len(keys[r]) + 1 < plan[r].accounts THEN "account" ELSE AfterAccounts(r))

Start(r) ==
    /\ r \in DOMAIN plan /\ pc[r] = "off"
    /\ Goes(r, "account")
    /\ UNCHANGED <<files, at, keys, data, config, price, txs, ideal>>

\* A file that cannot be read, or has too few keys, gives None.
LoadAccount(r) ==
    /\ pc[r] = "account"
    /\ IF Len(keys[r]) < Len(files.accounts.entries)
       THEN HasAccount(r, files.accounts.entries[Len(keys[r]) + 1])
       ELSE Goes(r, "creating") /\ UNCHANGED keys
    /\ UNCHANGED <<files, at, data, config, price, txs, ideal>>

\* Mutant: the file is written anew, with the new account only.
ReadNoAccounts(r) ==
    /\ pc[r] = "creating"
    /\ data' = [data EXCEPT ![r] = <<<<r, Len(keys[r]) + 1>>>>]
    /\ Goes(r, "opening")
    /\ UNCHANGED <<files, at, keys, config, price, txs, ideal>>

\* new_account takes any file it cannot read for a missing one.
ReadAccounts(r) ==
    /\ pc[r] = "creating"
    /\ data' = [data EXCEPT ![r] = Append(files.accounts.entries, <<r, Len(keys[r]) + 1>>)]
    /\ Goes(r, "opening")
    /\ UNCHANGED <<files, at, keys, config, price, txs, ideal>>

OpenAccounts(r) ==
    /\ pc[r] = "opening"
    /\ files' = [files EXCEPT !.accounts = Truncated(<< >>)]
    /\ Goes(r, "storing")
    /\ UNCHANGED <<at, keys, data, config, price, txs, ideal>>

StoreAccounts(r) ==
    /\ pc[r] = "storing"
    /\ files' = [files EXCEPT !.accounts = Whole(data[r])]
    /\ HasAccount(r, <<r, Len(keys[r]) + 1>>)
    /\ ideal' = [ideal EXCEPT !.accounts = Append(@, <<r, Len(keys[r]) + 1>>)]
    /\ UNCHANGED <<at, data, config, price, txs>>

-----------------------------------------------------------------------------
(* The config file, and the balance of the account *)

\* Without a file, with one that cannot be decoded and without an entry main looks up at
\* once the run ends with an exception.
ReadConfig(r) ==
    /\ pc[r] = "configuring"
    /\ IF files.config.whole /\ plan[r].needs \subseteq DOMAIN files.config.entries
       THEN /\ config' = [config EXCEPT ![r] = files.config.entries]
            /\ Goes(r, AfterConfig(r))
       ELSE Goes(r, "ended") /\ UNCHANGED config
    /\ UNCHANGED <<files, at, keys, data, price, txs, ideal>>

\* The operator sends XRD to the account, sooner or later or never.
Funded(r) ==
    /\ pc[r] = "funding"
    /\ Goes(r, "running")
    /\ UNCHANGED <<files, at, keys, data, config, price, txs, ideal>>

-----------------------------------------------------------------------------
(* The transactions *)

Stepping(r) == pc[r] = "running" /\ at[r] <= Len(Steps(r))
Skipped(r) == Step(r).skip # {} /\ Step(r).skip \subseteq DOMAIN config[r]

Passes(r) ==
    /\ at' = [at EXCEPT ![r] = @ + 1]
    /\ Goes(r, "running")

\* Mutant: the loop does not get past a token the file has.
SkipInPlace(r) ==
    /\ Stepping(r) /\ Skipped(r)
    /\ UNCHANGED <<files, pc, at, keys, data, config, price, txs, ideal>>

\* The token is recorded in the file.
Skip(r) ==
    /\ Stepping(r) /\ Skipped(r)
    /\ Passes(r)
    /\ UNCHANGED <<files, keys, data, config, price, txs, ideal>>

\* An entry that is looked up for the step is missing (KeyError), or `validator` is not
\* in the environment.
CannotBuild(r) ==
    /\ Stepping(r) /\ ~ Skipped(r)
    /\ Step(r).env \/ ~ Step(r).reads \subseteq DOMAIN config[r]
    /\ Goes(r, "ended")
    /\ UNCHANGED <<files, at, keys, data, config, price, txs, ideal>>

\* The prices the server has signed so far, and those of now.
SignedAt(t) ==
    {[quote |-> q, epoch |-> clock[t], timestamp |-> t, key |-> Signer] :
        q \in PricedTokens}
Signed == UNION {SignedAt(t) : t \in DOMAIN clock}

\* get_price_signature
FetchPrice(r) ==
    /\ Stepping(r) /\ Step(r).quote # "" /\ price[r] = NoPrice
    /\ \E p \in SignedAt(Len(clock)) :
          p.quote = Step(r).quote /\ price' = [price EXCEPT ![r] = p]
    /\ UNCHANGED <<files, pc, at, keys, data, config, txs, ideal>>

\* Mutant: the transaction is built and not submitted.
SubmitNothing(r) ==
    /\ Stepping(r) /\ ~ Skipped(r)
    /\ Step(r).reads \subseteq DOMAIN config[r]
    /\ price[r].quote = Step(r).quote
    /\ Goes(r, "awaiting")
    /\ UNCHANGED <<files, at, keys, data, config, price, txs, ideal>>

\* build_transaction and submit_transaction.  The signer is the first account; the steps
\* that others sign need no badge.
Submit(r) ==
    /\ Stepping(r) /\ ~ Skipped(r)
    /\ Step(r).reads \subseteq DOMAIN config[r]
    /\ price[r].quote = Step(r).quote
    /\ txs' = Updated(txs, [a \in {Current(r)} |->
                  [signer |-> keys[r][1], price |-> price[r], status |-> "pending",
                   uses |-> [k \in Step(r).reads |-> config[r][k]]]])
    /\ Goes(r, "awaiting")
    /\ price' = [price EXCEPT ![r] = NoPrice]
    /\ UNCHANGED <<files, at, keys, data, config, ideal>>

Decided(r) == txs[Current(r)].status

ReceiveIf(r, answered) ==
    /\ pc[r] = "awaiting" /\ answered
    /\ config' = [config EXCEPT ![r] = Updated(@, [k \in Step(r).keys |-> Current(r)])]
    /\ Passes(r)
    /\ UNCHANGED <<files, keys, data, price, txs, ideal>>

\* Mutants: a failed creation passes for one that was committed; the status of a transaction
\* that creates nothing is not waited for; it is waited for until it is good.
ReceiveFailed(r) == ReceiveIf(r, Decided(r) \in {"committed", "failed"})
ReceiveEarly(r) == ReceiveIf(r, Decided(r) = "committed" \/ Step(r).keys = {})
ReceiveCommitted(r) == ReceiveIf(r, Decided(r) = "committed")

\* get_new_addresses of a transaction that has created its entity, or
\* get_transaction_status, whose answer is only printed.
Receive(r) ==
    ReceiveIf(r, Decided(r) = "committed" \/ (Decided(r) = "failed" /\ Step(r).keys = {}))

\* A failed transaction has no new addresses: IndexError.
NoAddresses(r) ==
    /\ pc[r] = "awaiting"
    /\ Decided(r) = "failed" /\ Step(r).keys # {}
    /\ Goes(r, "ended")
    /\ UNCHANGED <<files, at, keys, data, config, price, txs, ideal>>

-----------------------------------------------------------------------------
(* The end of a run: the dictionary is dumped into one file after the other. *)

Saves(r) == plan[r].saves
Last(r) == Len(Steps(r)) + Len(Saves(r))
SavedFile(r) == Saves(r)[at[r] - Len(Steps(r))]

Finish(r) ==
    /\ pc[r] = "running" /\ at[r] > Last(r)
    /\ Goes(r, "ended")
    /\ UNCHANGED <<files, at, keys, data, config, price, txs, ideal>>

OpenFile(r) ==
    /\ pc[r] = "running" /\ at[r] \in (Len(Steps(r)) + 1) .. Last(r)
    /\ files' = [files EXCEPT ![SavedFile(r)] = Truncated(Empty)]
    /\ Goes(r, "writing")
    /\ UNCHANGED <<at, keys, data, config, price, txs, ideal>>

\* The entries run r has created.
Own(r) == {k \in DOMAIN config[r] : config[r][k][1] = r}

WriteFile(r) ==
    /\ pc[r] = "writing"
    /\ files' = [files EXCEPT ![SavedFile(r)] = Whole(config[r])]
    /\ ideal' = IF SavedFile(r) = "config"
                THEN [ideal EXCEPT !.config = Updated(@, [k \in Own(r) |-> config[r][k]])]
                ELSE ideal
    /\ IF at[r] = Last(r) THEN Goes(r, "ended") /\ UNCHANGED at ELSE Passes(r)
    /\ UNCHANGED <<keys, data, config, price, txs>>

\* The operator interrupts the run, it is killed, or a request to the gateway raises.
Stop(r) ==
    /\ pc[r] \notin {"off", "ended"} /\ stops < MaxStops
    /\ stops' = stops + 1
    /\ Goes(r, "ended")
    /\ UNCHANGED <<files, at, keys, data, config, price, txs, ideal>>

-----------------------------------------------------------------------------
(* The network *)

\* The oracle takes a signed price at the present epoch.
CanTake(p) == CanGetValidPriceInXrd(oracle, epoch, p)
Take(p) ==
    /\ oracle' = GetValidPriceInXrd(oracle, epoch, p)
    /\ accepted' =
          [epoch |-> epoch,
           times |-> {p.timestamp} \cup (IF accepted.epoch = epoch THEN accepted.times ELSE {}),
           last |-> p.timestamp, max_diff |-> oracle.max_diff]

\* The oracle after an administrator's call.
AfterCall(call) ==
    CASE call = "set_price_quote_in_xrd" ->
            {SetPriceQuoteInXrd(SetPriceQuoteInXrd(oracle, "USDT_RESOURCE"), "USDC_RESOURCE")}
      [] call = "set_validity_period" -> {SetValidityPeriod(oracle, d) : d \in Periods}
      [] call = "set_verify_public_key" -> {SetVerifyPublicKey(oracle, "another key")}
      [] OTHER -> {oracle}

\* The badges are the owner's; the exchange upgraded from hands out the authority if it
\* holds it (its blueprint is external).
CanCommit(a) ==
    LET s == StepOf(a)
    IN  /\ s.owner => txs[a].signer = Owner
        /\ s.proof <= ledger.badges
        /\ s.call = "upgrade" => txs[a].uses[Exchange] = exchanges[Len(exchanges)]
        /\ s.quote # "" => CanTake(txs[a].price)

Decide(a, status) ==
    /\ txs[a].status = "pending"
    /\ txs' = [txs EXCEPT ![a].status = status, ![a].price = NoPrice]

Commit(a) ==
    LET s == StepOf(a)
    IN  /\ CanCommit(a)
        /\ Decide(a, "committed")
        /\ exchanges' = IF s.call = "upgrade" THEN Append(exchanges, a) ELSE exchanges
        /\ ledger' =
              [registry |-> Updated(ledger.registry,
                                    [v \in DOMAIN s.sets |-> txs[a].uses[s.sets[v]]]),
               badges |-> IF s.call = "withdraw_badges" THEN ledger.badges - s.proof
                          ELSE ledger.badges,
               claimed |-> IF s.call = "claim_entities" THEN txs[a].uses ELSE ledger.claimed]
        /\ IF s.quote # ""
           THEN Take(txs[a].price)
           ELSE oracle' \in AfterCall(s.call) /\ UNCHANGED accepted
        /\ UNCHANGED stops

\* It fails because it must, or for any other reason (a balance, a limit of a loan).
Fail(a) ==
    /\ Decide(a, "failed")
    /\ IF CanCommit(a) THEN stops < MaxStops /\ stops' = stops + 1 ELSE UNCHANGED stops
    /\ UNCHANGED <<exchanges, ledger, oracle, accepted>>

Expire(a) ==
    /\ Decide(a, "expired")
    /\ UNCHANGED <<exchanges, ledger, oracle, accepted, stops>>

\* Users call the manager with signed prices of any age; a call with two is as good as two
\* calls to the oracle.
UserCall(p) ==
    /\ plan \in TimedPlans
    /\ CanTake(p) /\ Take(p)

Tick ==
    /\ plan \in TimedPlans /\ Len(clock) < MaxTime
    /\ \E e \in {epoch, epoch + 1} : clock' = Append(clock, e)

-----------------------------------------------------------------------------
Writing(r, f) ==
    \/ f = "accounts" /\ pc[r] = "storing"
    \/ pc[r] = "writing" /\ f = SavedFile(r)

\* Run r is between reading file f and having written it.
Holds(r, f) ==
    \/ f = "accounts" /\ pc[r] \in {"opening", "storing"}
    \/ /\ f = "config"
       /\ pc[r] \in {"funding", "running", "awaiting", "writing"}
       /\ plan[r].saves # << >>

Noted ==
    overlap' = overlap \cup
        {f \in {"accounts", "config"} :
            \/ \E r, s \in Runs : r # s /\ Holds(r, f)' /\ Holds(s, f)'
            \/ \E r \in Runs : Writing(r, f) /\ pc'[r] = "ended" /\ ~ files'[f].whole}

Process(r) ==
    \/ LoadAccount(r) \/ ReadAccounts(r) \/ OpenAccounts(r) \/ StoreAccounts(r)
    \/ ReadConfig(r)
    \/ Skip(r) \/ CannotBuild(r) \/ FetchPrice(r) \/ Submit(r) \/ Receive(r) \/ NoAddresses(r)
    \/ Finish(r) \/ OpenFile(r) \/ WriteFile(r)

Run(r) ==
    /\ UNCHANGED <<plan, exchanges, ledger, oracle, clock, accepted, stops>>
    /\ Process(r) /\ Noted

Network ==
    /\ \E a \in DOMAIN txs : Commit(a) \/ Fail(a) \/ Expire(a)
    /\ UNCHANGED <<plan, files, process, clock, ideal, overlap>>

Operator ==
    \E r \in Runs :
        /\ UNCHANGED <<plan, exchanges, ledger, oracle, clock, accepted>>
        /\ \/ (Start(r) \/ Funded(r)) /\ UNCHANGED stops
           \/ Stop(r)
        /\ Noted

Users ==
    /\ \E p \in Signed : UserCall(p)
    /\ UNCHANGED <<plan, files, process, txs, exchanges, ledger, clock, ideal, overlap, stops>>

Time == Tick /\ UNCHANGED <<plan, files, process, network, ideal, overlap, stops>>

Next == (\E r \in Runs : Run(r)) \/ Network \/ Operator \/ Users \/ Time

Spec == Init /\ [][Next]_vars

\* A process that is on is scheduled, and every transaction has a last epoch.
FairSpec == Spec /\ (\A r \in Runs : WF_vars(Run(r))) /\ WF_vars(Network)
-----------------------------------------------------------------------------
(* Properties *)

Statuses == {"pending", "committed", "failed", "expired"}
Places == {"off", "account", "creating", "opening", "storing", "configuring", "funding",
           "running", "awaiting", "writing", "ended"}
Dictionary(f) == \A k \in DOMAIN f : f[k] \in {Given} \cup DOMAIN txs

TypeOK ==
    /\ plan \in Plans /\ DOMAIN plan \subseteq Runs
    /\ \A f \in {"accounts", "config", "release"} : files[f].whole \in BOOLEAN
    /\ Dictionary(files.config.entries) /\ Dictionary(files.release.entries)
    /\ \A r \in Runs :
          /\ pc[r] \in Places /\ (pc[r] # "off" => r \in DOMAIN plan)
          /\ at[r] \in Nat \ {0} /\ Dictionary(config[r])
          /\ pc[r] = "awaiting" => Current(r) \in DOMAIN txs
    /\ \A a \in DOMAIN txs :
          /\ a[1] \in DOMAIN plan /\ a[2] \in DOMAIN Steps(a[1])
          /\ txs[a].status \in Statuses /\ Dictionary(txs[a].uses)
    /\ Dictionary(ledger.registry) /\ Dictionary(ledger.claimed)
    /\ ledger.badges \in 0 .. Badges
    /\ overlap \subseteq {"accounts", "config"} /\ stops \in 0 .. MaxStops

Created(x) == x # Given => x \in DOMAIN txs /\ txs[x].status = "committed"
CreatedAs(k, x) == Created(x) /\ (x # Given => k \in StepOf(x).keys)

(***************************************************************************)
(* What is recorded in a file under an entry, or claimed by the dApp, is   *)
(* the address of an entity that exists and that was created for this      *)
(* entry, and what is registered for the other components exists, although *)
(* the answer of a submission is not read, and a failure is only printed.  *)
(***************************************************************************)
NothingInvented ==
    /\ \A f \in {files.config.entries, files.release.entries, ledger.claimed} :
          \A k \in DOMAIN f : CreatedAs(k, f[k])
    /\ \A v \in DOMAIN ledger.registry : Created(ledger.registry[v])

(***************************************************************************)
(* What a file holds is what the runs would have left had each read and    *)
(* written it in one step, as long as no two runs held it at once and none *)
(* was stopped while it was truncated.  (Both happen, and then keys of     *)
(* accounts and addresses of entities are lost.)                           *)
(***************************************************************************)
SavesSerialize ==
    \A f \in {"accounts", "config"} \ overlap :
        files[f].whole => files[f].entries = ideal[f]

(***************************************************************************)
(* Signed prices are delivered late, repeatedly and in any order, by the   *)
(* trial's loans and by users.  No accepted one is as much as max_diff     *)
(* older than one accepted before in its epoch: prices cannot be walked    *)
(* back in steps shorter than max_diff.                                    *)
(***************************************************************************)
AcceptedAreFresh ==
    \A t \in accepted.times : t > accepted.last => t - accepted.last < accepted.max_diff

(***************************************************************************)
(* The exchange registered for the other components is never replaced by   *)
(* an older one: not by a registration decided late, one of a stopped run, *)
(* nor by a run that started from a file another has overwritten.          *)
(***************************************************************************)
RegistryNeverGoesBack ==
    [][\A i \in DOMAIN exchanges, j \in DOMAIN exchanges' :
          /\ exchanges[i] = ledger.registry["exchange_component"]
          /\ exchanges'[j] = ledger'.registry["exchange_component"]
          => i <= j]_vars

Hanging(r) == pc[r] = "awaiting" /\ Decided(r) = "expired"

\* A run neither waits for the operator nor is over.
UnderWay(r) == pc[r] \notin {"off", "funding", "ended"}

(***************************************************************************)
(* A run under way comes to its end or to the one wait for funds, which it *)
(* never comes to twice: once funded, it ends, with tokens that are there  *)
(* already, transactions that fail, and whatever the other run does to the *)
(* files.  The exception is the poll for a transaction that has expired,   *)
(* which goes on for ever.                                                 *)
(***************************************************************************)
EveryRunEnds ==
    \A r \in Runs : UnderWay(r) ~> (pc[r] \in {"funding", "ended"} \/ Hanging(r))
=============================================================================
