-------------------------- MODULE Operations_proofs --------------------------
(***************************************************************************)
(* Theorems about Operations, for every set of scripts that satisfies      *)
(* OperationsAssumption: accepted prices are not walked back               *)
(* (AcceptedAreFresh); what runs record, claim and register exists         *)
(* (NothingInvented); the exchange registered for the other components is  *)
(* never replaced by an older one (RegistryNeverGoesBack); and the files   *)
(* hold what runs one after the other would have left (SavesSerialize).    *)
(* They rest on where the runs are and what they have submitted            *)
(* (ControlInv).                                                           *)
(***************************************************************************)
EXTENDS Operations, SequenceTheorems, TLAPS

-----------------------------------------------------------------------------
(* Where the runs are and what they have submitted go together.  Then the  *)
(* oracle, however late and in whatever order prices are delivered, and    *)
(* whichever periods are set meanwhile.                                    *)

\* Until it takes its first step a run is in one of these.
Early == {"off", "account", "creating", "opening", "storing", "configuring", "funding"}

ProcessInv ==
    /\ pc \in [Runs -> Places] /\ at \in [Runs -> Nat \ {0}]
    /\ \A r \in Runs :
          /\ pc[r] # "off" => r \in DOMAIN plan
          /\ pc[r] \in Early => at[r] = 1
          /\ pc[r] = "awaiting" => Current(r) \in DOMAIN txs
          /\ pc[r] = "writing" => at[r] \in (Len(Steps(r)) + 1) .. Last(r)

\* A transaction is one of a step its run has come to, and decided if the run went on.
NamesInv ==
    /\ DOMAIN txs \subseteq Runs \X (Nat \ {0})
    /\ \A r \in Runs, i \in Nat \ {0} : <<r, i>> \in DOMAIN txs =>
          /\ r \in DOMAIN plan /\ i \in 1 .. Len(Steps(r)) /\ i <= at[r]
          /\ i = at[r] => pc[r] \in {"awaiting", "ended"}
          /\ txs[<<r, i>>].status = "pending" => i = at[r]
    /\ \A a \in DOMAIN txs : txs[a].status \in Statuses

\* The transactions are records with the fields the actions update.
RecordsInv ==
    /\ txs = [a \in DOMAIN txs |-> txs[a]]
    /\ \A a \in DOMAIN txs :
          txs[a] = [signer |-> txs[a].signer, price |-> txs[a].price,
                    status |-> txs[a].status, uses |-> txs[a].uses]

ControlInv == plan \in Plans /\ ProcessInv /\ NamesInv /\ RecordsInv

-----------------------------------------------------------------------------
(* What a decision and a submission do to the transactions *)

DecidedTx(a, status) ==
    [signer |-> txs[a].signer, price |-> NoPrice, status |-> status, uses |-> txs[a].uses]

\* A decision changes the status of one transaction, and forgets its price.
LEMMA DecideTxs ==
    ASSUME RecordsInv, NEW a \in DOMAIN txs, NEW status, Decide(a, status)
    PROVE  /\ RecordsInv' /\ DOMAIN txs' = DOMAIN txs
           /\ txs'[a] = DecidedTx(a, status)
           /\ \A b \in DOMAIN txs : b # a => txs'[b] = txs[b]
<1> DEFINE Signers == {txs[b].signer : b \in DOMAIN txs}
           Fetched == {NoPrice} \cup {txs[b].price : b \in DOMAIN txs}
           Answers == {status} \cup {txs[b].status : b \in DOMAIN txs}
           Used == {txs[b].uses : b \in DOMAIN txs}
           Tx == [signer : Signers, price : Fetched, status : Answers, uses : Used]
<1>1. \A b \in DOMAIN txs : txs[b] \in Tx
  <2> TAKE b \in DOMAIN txs
  <2>1. /\ txs[b].signer \in Signers /\ txs[b].price \in Fetched
        /\ txs[b].status \in Answers /\ txs[b].uses \in Used
      OBVIOUS
  <2> HIDE DEF Signers, Fetched, Answers, Used
  <2> QED BY <2>1 DEF RecordsInv
<1>2. txs \in [DOMAIN txs -> Tx]
    BY <1>1 DEF RecordsInv
<1>3. status \in Answers /\ NoPrice \in Fetched
    OBVIOUS
<1> HIDE DEF Signers, Fetched, Answers, Used
<1>4. txs' = [txs EXCEPT ![a].status = status, ![a].price = NoPrice]
    BY DEF Decide
<1>5. /\ txs' \in [DOMAIN txs -> Tx]
      /\ txs'[a] = [signer |-> txs[a].signer, price |-> NoPrice,
                    status |-> status, uses |-> txs[a].uses]
      /\ \A b \in DOMAIN txs : b # a => txs'[b] = txs[b]
    BY <1>2, <1>3, <1>4
<1> QED BY <1>5 DEF RecordsInv, DecidedTx

NewTx(r) == [signer |-> keys[r][1], price |-> price[r], status |-> "pending",
             uses |-> [k \in Step(r).reads |-> config[r][k]]]

\* A submission adds one pending transaction, or names one again.
LEMMA SubmitTxs ==
    ASSUME RecordsInv, NEW r \in Runs, Submit(r)
    PROVE  /\ RecordsInv' /\ DOMAIN txs' = DOMAIN txs \cup {Current(r)}
           /\ txs'[Current(r)] = NewTx(r)
           /\ \A b \in DOMAIN txs : b # Current(r) => txs'[b] = txs[b]
<1> DEFINE t == NewTx(r)
<1>1. txs' = Updated(txs, [a \in {Current(r)} |-> t])
    BY DEF Submit, NewTx
<1>2. t = [signer |-> t.signer, price |-> t.price, status |-> t.status, uses |-> t.uses]
    BY DEF NewTx
<1> HIDE DEF t
<1>3. txs' = [b \in DOMAIN txs \cup {Current(r)} |-> IF b = Current(r) THEN t ELSE txs[b]]
    BY <1>1 DEF Updated
<1>4. RecordsInv'
    BY <1>2, <1>3 DEF RecordsInv
<1> QED BY <1>3, <1>4 DEF t

-----------------------------------------------------------------------------
(* The control invariant *)

LEMMA ControlInit == Init => ControlInv
<1> SUFFICES ASSUME Init PROVE ControlInv
    OBVIOUS
<1>1. ProcessInv
    BY DEF Init, ProcessInv, Places
<1>2. NamesInv /\ RecordsInv
    BY DEF Init, NamesInv, RecordsInv
<1> QED BY <1>1, <1>2 DEF Init, ControlInv

\* A run moves itself only.
LEMMA OthersStay ==
    ASSUME ControlInv, NEW r \in Runs, Process(r)
    PROVE  /\ pc' = [pc EXCEPT ![r] = pc'[r]] /\ pc'[r] \in Places
           /\ at' \in {at, [at EXCEPT ![r] = @ + 1]}
<1> USE DEF ControlInv, ProcessInv
<1>1. CASE LoadAccount(r) \/ StoreAccounts(r)
    BY <1>1 DEF LoadAccount, StoreAccounts, HasAccount, Goes, AfterAccounts, AfterConfig, Places
<1>2. CASE ReadAccounts(r) \/ OpenAccounts(r)
    BY <1>2 DEF ReadAccounts, OpenAccounts, Goes, Places
<1>3. CASE ReadConfig(r)
    BY <1>3 DEF ReadConfig, Goes, AfterConfig, Places
<1>4. CASE CannotBuild(r) \/ NoAddresses(r) \/ Finish(r)
    BY <1>4 DEF CannotBuild, NoAddresses, Finish, Goes, Places
<1>5. CASE Skip(r) \/ Receive(r)
    BY <1>5 DEF Skip, Receive, ReceiveIf, Passes, Goes, Places
<1>6. CASE FetchPrice(r)
    BY <1>6 DEF FetchPrice
<1>7. CASE Submit(r) \/ OpenFile(r)
    BY <1>7 DEF Submit, OpenFile, Goes, Places
<1>8. CASE WriteFile(r)
    BY <1>8 DEF WriteFile, Passes, Goes, Places
<1> QED BY <1>1, <1>2, <1>3, <1>4, <1>5, <1>6, <1>7, <1>8 DEF Process

\* What a run does without a transaction: it stays at its step.
Moves(r) ==
    /\ UNCHANGED <<at, txs>> /\ pc[r] # "off" /\ pc[r] # "ended"
    /\ pc[r] = "awaiting" => pc'[r] = "ended"
    /\ pc'[r] \notin {"off", "awaiting"}
    /\ pc'[r] \in Early => pc[r] \in Early
    /\ pc'[r] = "writing" => at[r] \in (Len(Steps(r)) + 1) .. Last(r)

\* What a run does when its step is done with.
Advances(r) ==
    /\ UNCHANGED txs /\ at' = [at EXCEPT ![r] = @ + 1]
    /\ pc[r] \in {"running", "awaiting", "writing"} /\ pc'[r] = "running"
    /\ pc[r] = "awaiting" => txs[Current(r)].status # "pending"

\* Every action of a run is of one of four kinds.
LEMMA Kinds ==
    ASSUME ControlInv, NEW r \in Runs, Process(r)
    PROVE  \/ Moves(r) \/ Advances(r)
           \/ UNCHANGED <<pc, at, txs>>
           \/ Submit(r) /\ pc[r] = "running" /\ pc'[r] = "awaiting" /\ UNCHANGED at
<1> USE DEF ControlInv, ProcessInv
<1>1. CASE LoadAccount(r) \/ StoreAccounts(r)
    BY <1>1 DEF LoadAccount, StoreAccounts, HasAccount, Goes, AfterAccounts, AfterConfig, Moves,
                Early
<1>2. CASE ReadAccounts(r) \/ OpenAccounts(r)
    BY <1>2 DEF ReadAccounts, OpenAccounts, Goes, Moves, Early
<1>3. CASE ReadConfig(r)
    BY <1>3 DEF ReadConfig, Goes, AfterConfig, Moves, Early
<1>4. CASE CannotBuild(r) \/ NoAddresses(r) \/ Finish(r)
    BY <1>4 DEF CannotBuild, NoAddresses, Finish, Goes, Stepping, Moves, Early
<1>5. CASE Skip(r) \/ Receive(r)
    BY <1>5 DEF Skip, Receive, ReceiveIf, Passes, Goes, Stepping, Advances, Decided
<1>6. CASE FetchPrice(r)
    BY <1>6 DEF FetchPrice
<1>7. CASE Submit(r)
    BY <1>7 DEF Submit, Goes, Stepping
<1>8. CASE OpenFile(r)
    BY <1>8 DEF OpenFile, Goes, Moves, Early
<1>9. CASE WriteFile(r)
    BY <1>9 DEF WriteFile, Passes, Goes, Moves, Advances, Early
<1> QED BY <1>1, <1>2, <1>3, <1>4, <1>5, <1>6, <1>7, <1>8, <1>9 DEF Process

\* The scripts do not change.
LEMMA SamePlan ==
    ASSUME UNCHANGED plan
    PROVE  /\ \A r : Steps(r)' = Steps(r) /\ Saves(r)' = Saves(r) /\ Last(r)' = Last(r)
           /\ \A a : StepOf(a)' = StepOf(a)
    BY DEF Steps, Saves, Last, StepOf

\* Each kind preserves the invariant.  One that stays at its step submits nothing.
LEMMA MovesControl ==
    ASSUME ControlInv, NEW r \in Runs, pc' = [pc EXCEPT ![r] = pc'[r]], pc'[r] \in Places,
           Moves(r), UNCHANGED plan
    PROVE  ControlInv'
<1> USE DEF ControlInv
<1>1. ProcessInv'
    BY SamePlan DEF ProcessInv, Moves, Current
<1>2. NamesInv'
    BY SamePlan DEF ProcessInv, NamesInv, Moves
<1>3. RecordsInv'
    BY DEF RecordsInv, Moves
<1> QED BY <1>1, <1>2, <1>3

\* One that advances leaves only decided transactions behind.
LEMMA AdvancesControl ==
    ASSUME ControlInv, NEW r \in Runs, pc' = [pc EXCEPT ![r] = pc'[r]], pc'[r] \in Places,
           Advances(r), UNCHANGED plan
    PROVE  ControlInv'
<1> USE DEF ControlInv
<1>1. ProcessInv'
    BY SamePlan DEF ProcessInv, Advances, Current, Early
<1>2. NamesInv'
  <2>1. \A q \in Runs, i \in Nat \ {0} : <<q, i>> \in DOMAIN txs' =>
          /\ q \in DOMAIN plan' /\ i \in 1 .. Len(Steps(q)') /\ i <= at'[q]
          /\ i = at'[q] => pc'[q] \in {"awaiting", "ended"}
          /\ txs'[<<q, i>>].status = "pending" => i = at'[q]
    <3> SUFFICES ASSUME NEW q \in Runs, NEW i \in Nat \ {0}, <<q, i>> \in DOMAIN txs
                 PROVE  /\ q \in DOMAIN plan /\ i \in 1 .. Len(Steps(q)) /\ i <= at'[q]
                        /\ i = at'[q] => pc'[q] \in {"awaiting", "ended"}
                        /\ txs[<<q, i>>].status = "pending" => i = at'[q]
        BY SamePlan DEF Advances
    <3>1. CASE q = r
      <4>1. at'[r] = at[r] + 1 /\ at[r] \in Nat /\ pc'[r] = "running"
          BY DEF ProcessInv, Advances
      <4>2. q \in DOMAIN plan /\ i \in 1 .. Len(Steps(q)) /\ i <= at[q]
          BY DEF NamesInv
      <4>3. txs[<<q, i>>].status # "pending"
        <5>1. CASE i = at[r]
            BY <3>1, <5>1 DEF NamesInv, Advances, Current
        <5>2. CASE i # at[r]
            BY <3>1, <5>2 DEF NamesInv
        <5> QED BY <5>1, <5>2
      <4> QED BY <3>1, <4>1, <4>2, <4>3
    <3>2. CASE q # r
        BY <3>2 DEF ProcessInv, NamesInv, Advances
    <3> QED BY <3>1, <3>2
  <2> QED BY <2>1 DEF NamesInv, Advances
<1>3. RecordsInv'
    BY DEF RecordsInv, Advances
<1> QED BY <1>1, <1>2, <1>3

\* A submission is the first one of its step.
LEMMA SubmitControl ==
    ASSUME ControlInv, NEW r \in Runs, pc' = [pc EXCEPT ![r] = "awaiting"],
           Submit(r), pc[r] = "running", UNCHANGED <<at, plan>>
    PROVE  ControlInv'
<1> USE DEF ControlInv
<1>1. /\ RecordsInv' /\ DOMAIN txs' = DOMAIN txs \cup {Current(r)}
      /\ txs'[Current(r)] = NewTx(r)
      /\ \A b \in DOMAIN txs : b # Current(r) => txs'[b] = txs[b]
    BY SubmitTxs
<1>2. r \in DOMAIN plan /\ at[r] \in 1 .. Len(Steps(r))
    BY DEF ProcessInv, Submit, Stepping
<1>3. ProcessInv'
    BY <1>1, SamePlan DEF ProcessInv, Current, Early, Places
<1>4. txs'[Current(r)].status = "pending"
    BY <1>1 DEF NewTx
<1>5. NamesInv'
  <2>1. DOMAIN txs' \subseteq Runs \X (Nat \ {0})
      BY <1>1, <1>2 DEF NamesInv, ProcessInv, Current
  <2>2. \A q \in Runs, i \in Nat \ {0} : <<q, i>> \in DOMAIN txs' =>
          /\ q \in DOMAIN plan /\ i \in 1 .. Len(Steps(q)) /\ i <= at[q]
          /\ i = at[q] => pc'[q] \in {"awaiting", "ended"}
          /\ txs'[<<q, i>>].status = "pending" => i = at[q]
    <3> TAKE q \in Runs, i \in Nat \ {0}
    <3>1. CASE <<q, i>> = Current(r)
        BY <1>2, <3>1 DEF ProcessInv, Current
    <3>2. CASE <<q, i>> # Current(r) /\ <<q, i>> \in DOMAIN txs
        BY <1>1, <3>2 DEF ProcessInv, NamesInv, Current
    <3> QED BY <1>1, <3>1, <3>2
  <2>3. \A a \in DOMAIN txs' : txs'[a].status \in Statuses
      BY <1>1, <1>4 DEF NamesInv, Statuses
  <2> QED BY <2>1, <2>2, <2>3, SamePlan DEF NamesInv
<1> QED BY <1>1, <1>3, <1>5

\* Whatever a run does preserves the invariant.
LEMMA ProcessControl ==
    ASSUME ControlInv, NEW r \in Runs, Process(r), UNCHANGED plan PROVE ControlInv'
<1>1. CASE UNCHANGED <<pc, at, txs>>
    BY <1>1, SamePlan DEF ControlInv, ProcessInv, NamesInv, RecordsInv, Current
<1>2. pc' = [pc EXCEPT ![r] = pc'[r]] /\ pc'[r] \in Places
    BY OthersStay
<1> QED BY <1>1, <1>2, Kinds, MovesControl, AdvancesControl, SubmitControl

\* Whatever the network decides preserves it.
LEMMA DecideControl ==
    ASSUME ControlInv, NEW a \in DOMAIN txs, NEW status \in Statuses \ {"pending"},
           Decide(a, status), UNCHANGED <<plan, pc, at>>
    PROVE  ControlInv'
<1> USE DEF ControlInv
<1>1. /\ RecordsInv' /\ DOMAIN txs' = DOMAIN txs
      /\ txs'[a] = DecidedTx(a, status)
      /\ \A b \in DOMAIN txs : b # a => txs'[b] = txs[b]
    BY DecideTxs
<1>2. txs'[a].status = status
    BY <1>1 DEF DecidedTx
<1>3. ProcessInv'
    BY <1>1, SamePlan DEF ProcessInv, Current
<1>4. NamesInv'
    BY <1>1, <1>2, SamePlan DEF NamesInv
<1> QED BY <1>1, <1>3, <1>4

\* So does the operator, who starts, funds and stops runs.
LEMMA OperatorControl ==
    ASSUME ControlInv, Operator PROVE ControlInv'
<1>1. PICK r \in Runs : (Start(r) \/ Funded(r) \/ Stop(r)) /\ UNCHANGED plan
    BY DEF Operator
<1>2. pc' = [pc EXCEPT ![r] = pc'[r]] /\ pc'[r] \in Places /\ UNCHANGED <<at, txs>>
    BY <1>1 DEF Start, Funded, Stop, Goes, Places, ControlInv, ProcessInv
<1>3. CASE Start(r)
    BY <1>1, <1>2, <1>3, SamePlan
    DEF Start, Goes, ControlInv, ProcessInv, NamesInv, RecordsInv, Current, Early
<1>4. CASE Funded(r) \/ Stop(r)
  <2>1. Moves(r)
      BY <1>2, <1>4 DEF Funded, Stop, Goes, Moves, ControlInv, ProcessInv, Early
  <2> QED BY <1>1, <1>2, <2>1, MovesControl
<1> QED BY <1>1, <1>3, <1>4

\* The control invariant is inductive.
LEMMA ControlStep == ControlInv /\ [Next]_vars => ControlInv'
<1> SUFFICES ASSUME ControlInv, [Next]_vars PROVE ControlInv'
    OBVIOUS
<1>1. CASE \E r \in Runs : Run(r)
    BY <1>1, ProcessControl DEF Run
<1>2. CASE Network
  <2>1. PICK a \in DOMAIN txs, status \in {"committed", "failed", "expired"} :
            Decide(a, status) /\ UNCHANGED <<plan, pc, at>>
      BY <1>2 DEF Network, Commit, Fail, Expire, process
  <2> QED BY <2>1, DecideControl DEF Statuses
<1>3. CASE Operator
    BY <1>3, OperatorControl
<1>4. CASE UNCHANGED <<plan, pc, at, txs>>
    BY <1>4, SamePlan DEF ControlInv, ProcessInv, NamesInv, RecordsInv, Current
<1> QED BY <1>1, <1>2, <1>3, <1>4 DEF Next, Users, Time, vars, process, network

-----------------------------------------------------------------------------
(* The prices of the oracle *)

Prices == [quote : {""} \cup PricedTokens, epoch : Nat, timestamp : Nat, key : {"", Signer}]
Keys == {Signer, "another key"}
Oracles == [price_map : SUBSET PricedTokens, pk_str : Keys,
            last_validation_epoch : Nat, last_validation_timestamp : Nat, max_diff : Int]
Histories == [epoch : Nat, times : SUBSET Nat, last : Nat, max_diff : Int]

\* Every price that is under way says when it was signed.
PricesInv ==
    /\ clock \in Seq(Nat) /\ Len(clock) > 0
    /\ price \in [Runs -> Prices]
    /\ RecordsInv
    /\ \A a \in DOMAIN txs : txs[a].price \in Prices

\* The timestamp kept is the latest accepted in the epoch kept.
OracleInv ==
    /\ oracle \in Oracles /\ accepted \in Histories
    /\ oracle.last_validation_epoch <= epoch
    /\ accepted.epoch = oracle.last_validation_epoch
    /\ \A t \in accepted.times : t <= oracle.last_validation_timestamp

\* The present epoch is a number.
LEMMA EpochNat == PricesInv => epoch \in Nat
    BY DEF PricesInv, epoch

\* What a run has before it asks is a price, too.
LEMMA NoPriceIsOne == NoPrice \in Prices
    BY DEF Prices, NoPrice

\* The server signs prices with a timestamp of the past or of now.
LEMMA SignedPrices ==
    ASSUME PricesInv, NEW t \in DOMAIN clock, NEW p \in SignedAt(t) PROVE p \in Prices
<1>1. clock[t] \in Nat /\ t \in Nat
    BY DEF PricesInv
<1>2. PICK q \in PricedTokens :
          p = [quote |-> q, epoch |-> clock[t], timestamp |-> t, key |-> Signer]
    BY DEF SignedAt
<1> QED BY <1>1, <1>2 DEF Prices

\* The oracle comes to the present epoch and keeps the latest timestamp of it.
LEMMA GetPrice ==
    ASSUME NEW o \in Oracles, NEW e \in Nat, NEW p \in Prices, o.last_validation_epoch <= e,
           NEW n, n = GetValidPriceInXrd(o, e, p)
    PROVE  /\ n \in Oracles /\ n.last_validation_epoch = e
           /\ p.timestamp <= n.last_validation_timestamp
           /\ o.last_validation_epoch = e
                 => o.last_validation_timestamp <= n.last_validation_timestamp
<1>1. p.timestamp \in Nat
    BY DEF Prices
<1>2. CASE o.last_validation_epoch < e
  <2>1. n = [o EXCEPT !.last_validation_epoch = e, !.last_validation_timestamp = p.timestamp]
      BY <1>2 DEF GetValidPriceInXrd
  <2> DEFINE m == [o EXCEPT !.last_validation_epoch = e]
  <2>2. m \in Oracles /\ m.last_validation_epoch = e
      BY DEF Oracles
  <2> HIDE DEF m
  <2>3. n = [m EXCEPT !.last_validation_timestamp = p.timestamp]
      BY <2>1 DEF m
  <2>4. n \in Oracles /\ n.last_validation_epoch = e /\ n.last_validation_timestamp = p.timestamp
      BY <1>1, <2>2, <2>3 DEF Oracles
  <2> QED BY <1>1, <1>2, <2>4 DEF Oracles
<1>3. CASE o.last_validation_epoch = e /\ o.last_validation_timestamp < p.timestamp
  <2>1. n = [o EXCEPT !.last_validation_timestamp = p.timestamp]
      BY <1>3 DEF GetValidPriceInXrd, Oracles
  <2> QED BY <1>1, <1>3, <2>1 DEF Oracles
<1>4. CASE o.last_validation_epoch = e /\ o.last_validation_timestamp >= p.timestamp
  <2>1. n = o
      BY <1>1, <1>4 DEF GetValidPriceInXrd, Oracles
  <2> QED BY <1>1, <1>4, <2>1 DEF Oracles
<1> QED BY <1>1, <1>2, <1>3, <1>4 DEF Oracles

\* Taking a price keeps the accepted ones fresh: it is less than max_diff older than the latest,
\* and so than each of them.
LEMMA TakeFresh ==
    ASSUME PricesInv, OracleInv, AcceptedAreFresh, NEW p \in Prices, CanTake(p), Take(p),
           UNCHANGED clock
    PROVE  OracleInv' /\ AcceptedAreFresh'
<1>1. epoch \in Nat /\ epoch' = epoch
    BY EpochNat DEF epoch
<1>2. /\ oracle' \in Oracles /\ oracle'.last_validation_epoch = epoch
      /\ p.timestamp <= oracle'.last_validation_timestamp
      /\ oracle.last_validation_epoch = epoch
            => oracle.last_validation_timestamp <= oracle'.last_validation_timestamp
    BY <1>1, GetPrice DEF OracleInv, Take
<1>3. p.timestamp \in Nat /\ oracle.max_diff \in Int /\ oracle.last_validation_timestamp \in Nat
      /\ oracle'.last_validation_timestamp \in Nat
    BY <1>2 DEF Prices, OracleInv, Oracles
<1>4. accepted' = [epoch |-> epoch,
                   times |-> {p.timestamp}
                             \cup (IF accepted.epoch = epoch THEN accepted.times ELSE {}),
                   last |-> p.timestamp, max_diff |-> oracle.max_diff]
    BY DEF Take
<1>5. accepted.times \subseteq Nat /\ accepted.epoch = oracle.last_validation_epoch
      /\ \A t \in accepted.times : t <= oracle.last_validation_timestamp
    BY DEF OracleInv, Histories
<1>6. \A t \in accepted'.times :
         t = p.timestamp \/ (t \in accepted.times /\ oracle.last_validation_epoch = epoch)
    BY <1>4, <1>5
<1>7. oracle.last_validation_epoch = epoch
         => oracle.last_validation_timestamp - p.timestamp < oracle.max_diff
    BY DEF CanTake, CanGetValidPriceInXrd
<1>8. accepted' \in Histories
    BY <1>1, <1>3, <1>4, <1>5 DEF Histories
<1>9. OracleInv'
  <2>1. \A t \in accepted'.times : t <= oracle'.last_validation_timestamp
      BY <1>2, <1>3, <1>5, <1>6
  <2> QED BY <1>1, <1>2, <1>4, <1>8, <2>1 DEF OracleInv
<1>10. AcceptedAreFresh'
  <2> SUFFICES ASSUME NEW t \in accepted'.times, t > p.timestamp
               PROVE  t - p.timestamp < oracle.max_diff
      BY <1>4 DEF AcceptedAreFresh
  <2> QED BY <1>3, <1>5, <1>6, <1>7
<1> QED BY <1>9, <1>10

\* A run fetches and submits timed prices only.
LEMMA ProcessPrices ==
    ASSUME PricesInv, NEW r \in Runs, Process(r), UNCHANGED clock PROVE PricesInv'
<1>1. CASE FetchPrice(r)
  <2>1. PICK p \in SignedAt(Len(clock)) : price' = [price EXCEPT ![r] = p]
      BY <1>1 DEF FetchPrice
  <2>2. Len(clock) \in DOMAIN clock
      BY DEF PricesInv
  <2>3. p \in Prices
      BY <2>1, <2>2, SignedPrices
  <2> QED BY <1>1, <2>1, <2>3 DEF PricesInv, FetchPrice, RecordsInv
<1>2. CASE Submit(r)
  <2>1. price' \in [Runs -> Prices]
      BY <1>2, NoPriceIsOne DEF PricesInv, Submit
  <2>2. \A a \in DOMAIN txs' : txs'[a].price \in Prices
    <3>1. /\ txs'[Current(r)] = NewTx(r)
          /\ DOMAIN txs' = DOMAIN txs \cup {Current(r)}
          /\ \A b \in DOMAIN txs : b # Current(r) => txs'[b] = txs[b]
        BY <1>2, SubmitTxs, Zenon DEF PricesInv
    <3>2. txs'[Current(r)].price = price[r] /\ price[r] \in Prices
        BY <3>1 DEF PricesInv, NewTx
    <3> QED BY <3>1, <3>2 DEF PricesInv
  <2> QED BY <1>2, <2>1, <2>2, SubmitTxs DEF PricesInv
<1>3. CASE UNCHANGED <<price, txs>>
    BY <1>3 DEF PricesInv, RecordsInv
<1>4. FetchPrice(r) \/ Submit(r) \/ UNCHANGED <<price, txs>>
    BY DEF Process, LoadAccount, ReadAccounts, OpenAccounts, StoreAccounts, ReadConfig, Skip,
           CannotBuild, Receive, ReceiveIf, NoAddresses, Finish, OpenFile, WriteFile
<1> QED BY <1>1, <1>2, <1>3, <1>4

\* A decided transaction has no price any more.
LEMMA DecidePrices ==
    ASSUME PricesInv, NEW a \in DOMAIN txs, NEW status, Decide(a, status),
           UNCHANGED <<clock, price>>
    PROVE  PricesInv'
<1>1. /\ RecordsInv' /\ DOMAIN txs' = DOMAIN txs
      /\ txs'[a] = DecidedTx(a, status)
      /\ \A b \in DOMAIN txs : b # a => txs'[b] = txs[b]
    BY DecideTxs DEF PricesInv
<1>2. \A b \in DOMAIN txs' : txs'[b].price \in Prices
    BY <1>1, NoPriceIsOne DEF PricesInv, DecidedTx
<1> QED BY <1>1, <1>2 DEF PricesInv

\* No administrator's call touches the epoch and the timestamp kept.
LEMMA CallOracle ==
    ASSUME oracle \in Oracles, NEW call, NEW o \in AfterCall(call)
    PROVE  /\ o \in Oracles /\ o.last_validation_epoch = oracle.last_validation_epoch
           /\ o.last_validation_timestamp = oracle.last_validation_timestamp
<1>1. CASE call = "set_price_quote_in_xrd"
  <2>1. "USDT_RESOURCE" \in PricedTokens /\ "USDC_RESOURCE" \in PricedTokens
      BY DEF PricedTokens
  <2>2. o = [[oracle EXCEPT !.price_map = @ \cup {"USDT_RESOURCE"}]
                EXCEPT !.price_map = @ \cup {"USDC_RESOURCE"}]
      BY <1>1 DEF AfterCall, SetPriceQuoteInXrd
  <2> QED BY <2>1, <2>2 DEF Oracles
<1>2. CASE call = "set_validity_period"
  <2>1. PICK d \in Periods : o = [oracle EXCEPT !.max_diff = d]
      BY <1>2 DEF AfterCall, SetValidityPeriod
  <2>2. d \in Int
      BY OperationsAssumption
  <2> QED BY <2>1, <2>2 DEF Oracles
<1>3. CASE call = "set_verify_public_key"
  <2>1. o = [oracle EXCEPT !.pk_str = "another key"]
      BY <1>3 DEF AfterCall, SetVerifyPublicKey
  <2>2. "another key" \in Keys
      BY DEF Keys
  <2> QED BY <2>1, <2>2 DEF Oracles
<1>4. CASE call \notin {"set_price_quote_in_xrd", "set_validity_period", "set_verify_public_key"}
    BY <1>4 DEF AfterCall
<1> QED BY <1>1, <1>2, <1>3, <1>4

\* PricesInv, OracleInv and AcceptedAreFresh together are inductive.
LEMMA FreshInvariant ==
    ASSUME PricesInv, OracleInv, AcceptedAreFresh, [Next]_vars
    PROVE  PricesInv' /\ OracleInv' /\ AcceptedAreFresh'
<1>1. UNCHANGED <<oracle, accepted, clock>> => OracleInv' /\ AcceptedAreFresh'
    BY DEF OracleInv, AcceptedAreFresh, epoch
<1>0. UNCHANGED <<price, txs, clock>> => PricesInv'
    BY DEF PricesInv, RecordsInv
<1>2. CASE \E r \in Runs : Run(r)
    BY <1>1, <1>2, ProcessPrices DEF Run
<1>3. CASE Network
  <2>1. PICK a \in DOMAIN txs : Commit(a) \/ Fail(a) \/ Expire(a)
      BY <1>3 DEF Network
  <2>2. UNCHANGED <<clock, price>>
      BY <1>3 DEF Network, process
  <2>3. CASE Commit(a)
    <3>1. PricesInv'
        BY <2>2, <2>3, DecidePrices DEF Commit
    <3>2. CASE StepOf(a).quote # ""
      <4>1. txs[a].price \in Prices /\ CanTake(txs[a].price) /\ Take(txs[a].price)
          BY <2>3, <3>2 DEF Commit, CanCommit, PricesInv
      <4> QED BY <2>2, <3>1, <4>1, TakeFresh
    <3>3. CASE StepOf(a).quote = ""
      <4>1. oracle' \in AfterCall(StepOf(a).call) /\ UNCHANGED accepted
          BY <2>3, <3>3 DEF Commit
      <4>2. /\ oracle' \in Oracles
            /\ oracle'.last_validation_epoch = oracle.last_validation_epoch
            /\ oracle'.last_validation_timestamp = oracle.last_validation_timestamp
          BY <4>1, CallOracle DEF OracleInv
      <4> QED BY <2>2, <3>1, <4>1, <4>2 DEF OracleInv, AcceptedAreFresh, epoch
    <3> QED BY <3>2, <3>3
  <2>4. CASE Fail(a)
      BY <1>1, <2>2, <2>4, DecidePrices DEF Fail
  <2>5. CASE Expire(a)
      BY <1>1, <2>2, <2>5, DecidePrices DEF Expire
  <2> QED BY <2>1, <2>3, <2>4, <2>5
<1>4. CASE Operator
    BY <1>0, <1>1, <1>4 DEF Operator, Start, Funded, Stop
<1>5. CASE Users
  <2>1. PICK p \in Signed : UserCall(p)
      BY <1>5 DEF Users
  <2>2. p \in Prices
      BY <2>1, SignedPrices DEF Signed
  <2>3. UNCHANGED <<clock, price, txs>>
      BY <1>5 DEF Users, process
  <2> QED BY <2>1, <2>2, <2>3, TakeFresh DEF UserCall, PricesInv, RecordsInv
<1>6. CASE Time
  <2>1. PICK e \in {epoch, epoch + 1} : clock' = Append(clock, e)
      BY <1>6 DEF Time, Tick
  <2>2. epoch \in Nat /\ e \in Nat /\ e >= epoch
      BY <2>1, EpochNat
  <2>3. clock' \in Seq(Nat) /\ Len(clock') > 0 /\ epoch' = e
      BY <2>1, <2>2 DEF PricesInv, epoch
  <2>4. UNCHANGED <<oracle, accepted, price, txs>>
      BY <1>6 DEF Time, process, network
  <2>5. PricesInv'
      BY <2>3, <2>4 DEF PricesInv, RecordsInv
  <2>6. OracleInv' /\ AcceptedAreFresh'
      BY <2>2, <2>3, <2>4 DEF OracleInv, AcceptedAreFresh, Oracles
  <2> QED BY <2>5, <2>6
<1>7. CASE UNCHANGED vars
    BY <1>0, <1>1, <1>7 DEF vars, process, network
<1> QED BY <1>2, <1>3, <1>4, <1>5, <1>6, <1>7 DEF Next

\* In whatever order signed prices are delivered, get_valid_price_in_xrd accepts none that is
\* as much as the current max_diff older than one it has accepted in the epoch.
THEOREM OracleFresh == Spec => []AcceptedAreFresh
<1>1. Init => PricesInv /\ OracleInv /\ AcceptedAreFresh
  <2> SUFFICES ASSUME Init PROVE PricesInv /\ OracleInv /\ AcceptedAreFresh
      OBVIOUS
  <2>1. PricesInv
      BY NoPriceIsOne DEF Init, PricesInv, RecordsInv
  <2>2. oracle \in Oracles /\ oracle.last_validation_epoch = 0
    <3>1. PICK priced \in {{}, PricedTokens} :
              oracle = [Instantiate(Signer, MaxDiff) EXCEPT !.price_map = priced]
        BY DEF Init
    <3>2. /\ Instantiate(Signer, MaxDiff) \in Oracles
          /\ Instantiate(Signer, MaxDiff).last_validation_epoch = 0
        BY OperationsAssumption DEF Instantiate, Oracles, Keys
    <3> QED BY <3>1, <3>2 DEF Oracles
  <2>3. accepted \in Histories /\ accepted.epoch = 0 /\ accepted.times = {}
      BY OperationsAssumption DEF Init, Histories
  <2> QED BY <2>1, <2>2, <2>3, EpochNat DEF OracleInv, AcceptedAreFresh
<1>2. PricesInv /\ OracleInv /\ AcceptedAreFresh /\ [Next]_vars
      => PricesInv' /\ OracleInv' /\ AcceptedAreFresh'
    BY FreshInvariant
<1> QED BY <1>1, <1>2, PTL DEF Spec
-----------------------------------------------------------------------------
(* NothingInvented.  The definitions of the properties, with the           *)
(* transactions and the plan as parameters.                                *)

MadeFor(k, x, t, p) ==
    x # Given => x \in DOMAIN t /\ t[x].status = "committed" /\ k \in p[x[1]].steps[x[2]].keys
Entries(f, t, p) == \A k \in DOMAIN f : MadeFor(k, f[k], t, p)
Variables(g, t) ==
    \A v \in DOMAIN g : g[v] # Given => g[v] \in DOMAIN t /\ t[g[v]].status = "committed"

\* Transactions are added and decided; what they were built from stays.
Grows(t, u) ==
    \A a \in DOMAIN t :
        a \in DOMAIN u /\ u[a].uses = t[a].uses
        /\ (t[a].status = "committed" => u[a].status = "committed")

\* The dictionary of every run, and of every transaction.
DictionariesInv ==
    /\ config = [r \in Runs |-> config[r]]
    /\ \A r \in Runs : Entries(config[r], txs, plan)
UsesInv ==
    \A a \in DOMAIN txs : Entries(txs[a].uses, txs, plan) /\ DOMAIN txs[a].uses = StepOf(a).reads

FilesInv ==
    /\ files = [accounts |-> files.accounts, config |-> files.config, release |-> files.release]
    /\ Entries(files.config.entries, txs, plan) /\ Entries(files.release.entries, txs, plan)
LedgerInv == Entries(ledger.claimed, txs, plan) /\ Variables(ledger.registry, txs)

TraceInv == DictionariesInv /\ UsesInv /\ FilesInv /\ LedgerInv

\* What is made stays made.
LEMMA Kept ==
    ASSUME NEW t, NEW u, NEW p, Grows(t, u)
    PROVE  /\ \A f : Entries(f, t, p) => Entries(f, u, p)
           /\ \A g : Variables(g, t) => Variables(g, u)
    BY DEF Grows, Entries, MadeFor, Variables

\* Adding sound entries to a sound dictionary gives a sound one.
LEMMA UpdatedEntries ==
    ASSUME NEW f, NEW g, NEW t, NEW p, Entries(f, t, p), Entries(g, t, p)
    PROVE  Entries(Updated(f, g), t, p)
    BY DEF Entries, Updated

\* What an action of a run does to the dictionaries and the files.
LEMMA ConfigSteps ==
    ASSUME ControlInv, DictionariesInv, NEW r \in Runs, Process(r)
    PROVE  \/ config' = config
           \/ ReadConfig(r) /\ config' = [config EXCEPT ![r] = files.config.entries]
           \/ Receive(r)
    BY DEF Process, LoadAccount, ReadAccounts, OpenAccounts, StoreAccounts, ReadConfig, Skip,
           CannotBuild, FetchPrice, Submit, NoAddresses, Finish, OpenFile, WriteFile

\* A run that saves has come to one of the files of its script.
LEMMA SavedFileIs ==
    ASSUME ControlInv, NEW r \in Runs, pc[r] # "off", at[r] \in (Len(Steps(r)) + 1) .. Last(r)
    PROVE  SavedFile(r) \in {"release", "config"}
<1>1. r \in DOMAIN plan /\ plan \in Plans
    BY DEF ControlInv, ProcessInv
<1>2. Saves(r) \in Seq({"release", "config"}) /\ Len(Steps(r)) \in Nat
    BY <1>1, OperationsAssumption DEF IsScript, Saves, Steps
<1>3. at[r] - Len(Steps(r)) \in 1 .. Len(Saves(r))
    BY <1>2 DEF Last, ControlInv, ProcessInv
<1> QED BY <1>2, <1>3 DEF SavedFile

LEMMA FilesSteps ==
    ASSUME ControlInv, FilesInv, NEW r \in Runs, Process(r)
    PROVE  /\ files' = [accounts |-> files'.accounts, config |-> files'.config,
                        release |-> files'.release]
           /\ files'.config \in {files.config, Truncated(Empty), Whole(config[r])}
           /\ files'.release \in {files.release, Truncated(Empty), Whole(config[r])}
<1> USE DEF FilesInv
<1>1. CASE OpenAccounts(r)
    BY <1>1 DEF OpenAccounts
<1>2. CASE StoreAccounts(r)
    BY <1>2 DEF StoreAccounts
<1>3. CASE OpenFile(r) \/ WriteFile(r)
  <2>1. PICK x \in {Truncated(Empty), Whole(config[r])} :
            files' = [files EXCEPT ![SavedFile(r)] = x]
      BY <1>3 DEF OpenFile, WriteFile
  <2>2. SavedFile(r) \in {"release", "config"}
      BY <1>3, SavedFileIs DEF OpenFile, WriteFile, ControlInv, ProcessInv
  <2>3. CASE SavedFile(r) = "release"
      BY <2>1, <2>3
  <2>4. CASE SavedFile(r) = "config"
      BY <2>1, <2>4
  <2> QED BY <2>2, <2>3, <2>4
<1>4. CASE UNCHANGED files
    BY <1>4
<1> QED BY <1>1, <1>2, <1>3, <1>4
    DEF Process, LoadAccount, ReadAccounts, ReadConfig, Skip, CannotBuild, FetchPrice, Submit,
        Receive, ReceiveIf, NoAddresses, Finish

\* A run adds transactions and changes none: it submits a step once.
LEMMA ProcessGrows ==
    ASSUME ControlInv, NEW r \in Runs, Process(r) PROVE Grows(txs, txs')
<1>1. CASE Submit(r)
  <2>1. Current(r) \notin DOMAIN txs
      BY <1>1 DEF Submit, Stepping, Current, ControlInv, ProcessInv, NamesInv
  <2> QED BY <1>1, <2>1, SubmitTxs DEF Grows, ControlInv
<1> QED BY <1>1, Kinds DEF Grows, Moves, Advances

\* A run records what it has read from a file, or what a committed transaction created.
LEMMA ProcessTrace ==
    ASSUME ControlInv, TraceInv, NEW r \in Runs, Process(r), UNCHANGED <<plan, ledger>>
    PROVE  TraceInv'
<1> USE DEF TraceInv
<1>1. Grows(txs, txs') /\ ControlInv'
    BY ProcessGrows, ProcessControl
<1>2. /\ \A f : Entries(f, txs, plan) => Entries(f, txs', plan)
      /\ \A g : Variables(g, txs) => Variables(g, txs')
    BY <1>1, Kept
<1>3. Entries(Empty, txs', plan)
    BY DEF Empty, Entries
<1>4. FilesInv'
  <2>1. /\ Entries(Truncated(Empty).entries, txs', plan)
        /\ Entries(Whole(config[r]).entries, txs', plan)
      BY <1>2, <1>3 DEF Truncated, Whole, DictionariesInv
  <2> QED BY <1>2, <2>1, FilesSteps DEF FilesInv
<1>5. LedgerInv'
    BY <1>2 DEF LedgerInv
<1>6. DictionariesInv'
  <2>1. CASE config' = config
      BY <1>2, <2>1 DEF DictionariesInv
  <2>2. CASE ReadConfig(r) /\ config' = [config EXCEPT ![r] = files.config.entries]
      BY <1>2, <2>2 DEF DictionariesInv, FilesInv
  <2>3. CASE Receive(r)
    <3> DEFINE new == [k \in Step(r).keys |-> Current(r)]
    <3>1. config' = [config EXCEPT ![r] = Updated(config[r], new)] /\ UNCHANGED txs
        BY <2>3 DEF Receive, ReceiveIf
    <3>2. Step(r).keys # {} => Current(r) \in DOMAIN txs /\ txs[Current(r)].status = "committed"
        BY <2>3 DEF Receive, ReceiveIf, Decided, ControlInv, ProcessInv
    <3>3. Step(r).keys = plan[Current(r)[1]].steps[Current(r)[2]].keys
        BY SMTT(40) DEF Step, Steps, Current
    <3>4. Entries(new, txs', plan)
        BY <3>1, <3>2, <3>3 DEF Entries, MadeFor
    <3> HIDE DEF new
    <3>5. Entries(Updated(config[r], new), txs', plan)
        BY <1>2, <3>4, UpdatedEntries DEF DictionariesInv
    <3> QED BY <1>2, <3>1, <3>5 DEF DictionariesInv
  <2> QED BY <2>1, <2>2, <2>3, ConfigSteps
<1>7. UsesInv'
  <2>1. CASE Submit(r)
    <3>1. /\ DOMAIN txs' = DOMAIN txs \cup {Current(r)}
          /\ txs'[Current(r)] = NewTx(r)
          /\ \A b \in DOMAIN txs : b # Current(r) => txs'[b] = txs[b]
        BY <2>1, SubmitTxs DEF ControlInv
    <3>2. Step(r).reads \subseteq DOMAIN config[r] /\ StepOf(Current(r)) = Step(r)
        BY <2>1 DEF Submit, StepOf, Step, Steps, Current
    <3>3. txs'[Current(r)].uses = [k \in Step(r).reads |-> config[r][k]]
        BY <3>1 DEF NewTx
    <3>4. Entries(txs'[Current(r)].uses, txs', plan)
        BY <1>2, <3>2, <3>3 DEF DictionariesInv, Entries
    <3>5. DOMAIN txs'[Current(r)].uses = StepOf(Current(r)).reads
        BY <3>2, <3>3
    <3> QED BY <1>2, <3>1, <3>4, <3>5, SamePlan DEF UsesInv
  <2>2. CASE UNCHANGED txs
      BY <2>2, SamePlan DEF UsesInv
  <2> QED BY <2>1, <2>2, Kinds DEF Moves, Advances
<1> QED BY <1>4, <1>5, <1>6, <1>7

\* A decision keeps what is committed.
LEMMA DecideGrows ==
    ASSUME ControlInv, NEW a \in DOMAIN txs, NEW status, Decide(a, status)
    PROVE  Grows(txs, txs') /\ DOMAIN txs' = DOMAIN txs
<1>1. txs[a].status = "pending"
    BY DEF Decide
<1>2. /\ DOMAIN txs' = DOMAIN txs /\ txs'[a] = DecidedTx(a, status)
      /\ \A b \in DOMAIN txs : b # a => txs'[b] = txs[b]
    BY DecideTxs DEF ControlInv
<1>3. txs'[a].uses = txs[a].uses
    BY <1>2 DEF DecidedTx
<1> QED BY <1>1, <1>2, <1>3 DEF Grows

\* No decision takes back an entity.
LEMMA DecideTrace ==
    ASSUME ControlInv, DictionariesInv, UsesInv, FilesInv, NEW a \in DOMAIN txs, NEW status,
           Decide(a, status), UNCHANGED <<plan, files, config>>
    PROVE  /\ DictionariesInv' /\ UsesInv' /\ FilesInv'
           /\ LedgerInv /\ UNCHANGED ledger => LedgerInv'
<1>1. Grows(txs, txs') /\ DOMAIN txs' = DOMAIN txs
    BY DecideGrows
<1>2. /\ \A f : Entries(f, txs, plan) => Entries(f, txs', plan)
      /\ \A g : Variables(g, txs) => Variables(g, txs')
    BY <1>1, Kept
<1>3. DictionariesInv' /\ FilesInv'
    BY <1>2 DEF DictionariesInv, FilesInv
<1>4. UsesInv'
    BY <1>1, <1>2, SamePlan DEF UsesInv, Grows
<1>5. LedgerInv /\ UNCHANGED ledger => LedgerInv'
    BY <1>2 DEF LedgerInv
<1> QED BY <1>3, <1>4, <1>5

\* A committed call claims and registers what it was built from.
LEMMA CommitTrace ==
    ASSUME ControlInv, TraceInv, NEW a \in DOMAIN txs, Commit(a), UNCHANGED <<plan, files, config>>
    PROVE  TraceInv'
<1> USE DEF TraceInv
<1>1. Decide(a, "committed")
    BY DEF Commit
<1>2. DictionariesInv' /\ UsesInv' /\ FilesInv'
    BY <1>1, DecideTrace
<1>3. Grows(txs, txs')
    BY <1>1, DecideGrows
<1>4. /\ \A f : Entries(f, txs, plan) => Entries(f, txs', plan)
      /\ \A g : Variables(g, txs) => Variables(g, txs')
    BY <1>3, Kept
<1>5. Entries(ledger'.claimed, txs', plan)
    BY <1>4 DEF Commit, LedgerInv, UsesInv
<1>6. Variables(ledger'.registry, txs')
  <2> DEFINE sets == StepOf(a).sets
             new == [v \in DOMAIN sets |-> txs[a].uses[sets[v]]]
  <2>1. ledger'.registry = Updated(ledger.registry, new)
      BY DEF Commit
  <2>2. \A v \in DOMAIN sets : sets[v] \in DOMAIN txs[a].uses
    <3>1. PICK r \in Runs, i \in Nat \ {0} : a = <<r, i>>
        BY DEF ControlInv, NamesInv
    <3>2. r \in DOMAIN plan /\ i \in 1 .. Len(Steps(r))
        BY <3>1 DEF ControlInv, NamesInv
    <3>3. IsScript(plan[r])
        BY <3>2, OperationsAssumption DEF ControlInv
    <3> QED BY <3>1, <3>2, <3>3 DEF IsScript, StepOf, Steps, UsesInv
  <2>3. Variables(new, txs)
      BY <2>2 DEF Variables, UsesInv, Entries, MadeFor
  <2> HIDE DEF new
  <2>4. Variables(Updated(ledger.registry, new), txs)
      BY <2>3 DEF Variables, Updated, LedgerInv
  <2> QED BY <1>4, <2>1, <2>4
<1> QED BY <1>2, <1>5, <1>6 DEF LedgerInv

\* TraceInv is inductive relative to ControlInv.
LEMMA TraceStep ==
    ASSUME ControlInv, TraceInv, [Next]_vars PROVE TraceInv'
<1>1. CASE \E r \in Runs : Run(r)
    BY <1>1, ProcessTrace DEF Run
<1>2. CASE Network
  <2>1. PICK a \in DOMAIN txs : Commit(a) \/ Fail(a) \/ Expire(a)
      BY <1>2 DEF Network
  <2>2. UNCHANGED <<plan, files, config>>
      BY <1>2 DEF Network, process
  <2>3. CASE Commit(a)
      BY <2>2, <2>3, CommitTrace
  <2>4. CASE Fail(a) \/ Expire(a)
    <3>1. PICK status : Decide(a, status) /\ UNCHANGED ledger
        BY <2>4 DEF Fail, Expire
    <3> QED BY <2>2, <3>1, DecideTrace DEF TraceInv
  <2> QED BY <2>1, <2>3, <2>4
<1>3. CASE UNCHANGED <<plan, files, config, txs, ledger>>
    BY <1>3, SamePlan DEF TraceInv, DictionariesInv, UsesInv, FilesInv, LedgerInv
<1> QED BY <1>1, <1>2, <1>3
    DEF Next, Operator, Start, Funded, Stop, Users, Time, vars, process, network

\* At first only given entities are recorded.
LEMMA TraceInit == Init => TraceInv
<1> SUFFICES ASSUME Init PROVE TraceInv
    OBVIOUS
<1>1. PICK f \in ConfigFiles, a \in {<< >>, <<Owner>>} :
        files = [accounts |-> IF a = << >> THEN Truncated(a) ELSE Whole(a),
                 config |-> Whole([k \in f |-> Given]), release |-> Truncated(Empty)]
    BY DEF Init
<1>2. FilesInv
    BY <1>1 DEF FilesInv, Whole, Truncated, Empty, Entries, MadeFor
<1>3. DictionariesInv /\ UsesInv /\ LedgerInv
    BY DEF Init, DictionariesInv, UsesInv, LedgerInv, Entries, Variables, MadeFor, Empty
<1> QED BY <1>2, <1>3 DEF TraceInv

\* An address in the files, in the dApp's claimed entities or in the registry is that of an
\* entity that exists, and was created for this entry: no failed or expired submission is
\* recorded by get_new_addresses.
THEOREM OperationsTrace == Spec => []NothingInvented
<1>1. Init => ControlInv /\ TraceInv
    BY ControlInit, TraceInit
<1>2. ControlInv /\ TraceInv /\ [Next]_vars => ControlInv' /\ TraceInv'
    BY ControlStep, TraceStep, SMTT(40)
<1>3. TraceInv => NothingInvented
    BY DEF TraceInv, FilesInv, LedgerInv, NothingInvented, CreatedAs, Created, Entries,
           Variables, MadeFor, StepOf, Steps
<1> QED BY <1>1, <1>2, <1>3, PTL DEF Spec

-----------------------------------------------------------------------------
(***************************************************************************)
(* RegistryNeverGoesBack.  An exchange other than the last one was made by *)
(* a run that is past its steps (OldInv): whoever upgraded from it had its *)
(* address from a file, which the run that made it wrote after its steps   *)
(* (SeenInv).  A run that registers an exchange registers its own          *)
(* (OwnInv), and is not past its steps.                                    *)
(***************************************************************************)
Upgrade(r, i) == r \in DOMAIN plan /\ i \in 1 .. Len(Steps(r)) /\ Steps(r)[i].call = "upgrade"

Past == {r \in Runs \cap DOMAIN plan : at[r] > Len(Steps(r))}

\* The addresses in a dictionary that are not of its own run are of runs past their steps.
Seen(f, s, past) ==
    \A k \in DOMAIN f, r \in Runs, i \in Nat \ {0} : f[k] = <<r, i>> /\ r # s => r \in past
SeenInv ==
    \A s \in Runs : Seen(config[s], s, Past) /\ Seen(files.config.entries, s, Past)

\* A run has its own exchange once it has made one, and a transaction has its run's entries.
OwnInv ==
    /\ \A r \in Runs, i \in Nat : Upgrade(r, i) /\ i < at[r] =>
          Exchange \in DOMAIN config[r] /\ config[r][Exchange] = <<r, i>>
    /\ \A r \in Runs : Current(r) \in DOMAIN txs =>
          \A k \in DOMAIN txs[Current(r)].uses :
              k \in DOMAIN config[r] /\ txs[Current(r)].uses[k] = config[r][k]

\* The exchanges are different ones; all but the given one were made by upgrades.
ExchangesInv ==
    /\ exchanges \in Seq({Given} \cup DOMAIN txs)
    /\ \A m \in DOMAIN exchanges : exchanges[m] # Given =>
          \E r \in Runs, i \in Nat :
              /\ exchanges[m] = <<r, i>> /\ Upgrade(r, i)
              /\ txs[<<r, i>>].status = "committed"
    /\ \A m, n \in DOMAIN exchanges : exchanges[m] = exchanges[n] => m = n
    /\ Len(exchanges) > 0 /\ exchanges[1] = Given
OldInv ==
    \A m \in DOMAIN exchanges, r \in Runs, i \in Nat \ {0} :
        exchanges[m] = <<r, i>> /\ m # Len(exchanges) => r \in Past

RegistryInv == SeenInv /\ OwnInv /\ ExchangesInv /\ OldInv
Inv == ControlInv /\ TraceInv /\ RegistryInv

\* What OperationsAssumption says of the script of a run.
LEMMA ScriptFacts ==
    ASSUME ControlInv, NEW r \in DOMAIN plan
    PROVE  r \in Runs /\ Len(Steps(r)) \in Nat /\ IsScript(plan[r]) /\ UpgradesOnce(plan[r])
    BY OperationsAssumption DEF ControlInv, IsScript, Steps

\* The config file gets the dictionary of a run past its steps, or nothing.
LEMMA WrittenConfig ==
    ASSUME ControlInv, FilesInv, NEW r \in Runs, Process(r)
    PROVE  \/ files'.config.entries \in {files.config.entries, Empty}
           \/ files'.config.entries = config[r] /\ at[r] > Len(Steps(r)) /\ pc[r] = "writing"
<1>1. CASE WriteFile(r)
  <2>1. files' = [files EXCEPT ![SavedFile(r)] = Whole(config[r])] /\ pc[r] = "writing"
      BY <1>1 DEF WriteFile
  <2>2. r \in DOMAIN plan /\ at[r] \in (Len(Steps(r)) + 1) .. Last(r)
      BY <2>1 DEF ControlInv, ProcessInv
  <2>3. SavedFile(r) \in {"release", "config"} /\ at[r] > Len(Steps(r))
      BY <2>1, <2>2, SavedFileIs, ScriptFacts DEF Last
  <2>4. files'.config \in {files.config, Whole(config[r])}
      BY <2>1, <2>3 DEF FilesInv
  <2> QED BY <2>1, <2>3, <2>4 DEF Whole
<1>2. CASE OpenFile(r)
  <2>1. files' = [files EXCEPT ![SavedFile(r)] = Truncated(Empty)]
      BY <1>2 DEF OpenFile
  <2>2. SavedFile(r) \in {"release", "config"}
      BY <1>2, SavedFileIs DEF OpenFile, ControlInv, ProcessInv
  <2>3. files'.config \in {files.config, Truncated(Empty)}
      BY <2>1, <2>2 DEF FilesInv
  <2> QED BY <2>3 DEF Truncated
<1>3. CASE OpenAccounts(r) \/ StoreAccounts(r)
    BY <1>3 DEF OpenAccounts, StoreAccounts, FilesInv
<1> QED BY <1>1, <1>2, <1>3
    DEF Process, LoadAccount, ReadAccounts, ReadConfig, Skip, CannotBuild, FetchPrice, Submit,
        Receive, ReceiveIf, NoAddresses, Finish

\* Runs go forward.
LEMMA StepsOn ==
    ASSUME ControlInv, NEW r \in Runs, Process(r)
    PROVE  /\ \A q \in Runs : at[q] \in Nat /\ at'[q] \in Nat /\ at[q] <= at'[q]
           /\ \A q \in Runs : q # r => at'[q] = at[q] /\ Current(q)' = Current(q)
           /\ at'[r] \in {at[r], at[r] + 1}
    BY OthersStay DEF ControlInv, ProcessInv, Current

\* What an answer adds to the dictionary.
LEMMA ReceiveConfig ==
    ASSUME ControlInv, DictionariesInv, NEW r \in Runs, Receive(r)
    PROVE  /\ config' = [config EXCEPT ![r] = config'[r]]
           /\ DOMAIN config'[r] = DOMAIN config[r] \cup Step(r).keys
           /\ \A k \in Step(r).keys : config'[r][k] = Current(r)
           /\ \A k \in DOMAIN config[r] \ Step(r).keys : config'[r][k] = config[r][k]
<1> DEFINE new == [k \in Step(r).keys |-> Current(r)]
<1>1. config' = [config EXCEPT ![r] = Updated(config[r], new)]
    BY DEF Receive, ReceiveIf
<1> QED BY <1>1 DEF Updated, DictionariesInv


\* A run past its steps stays so.
LEMMA PastGrows ==
    ASSUME ControlInv, NEW r \in Runs, Process(r), UNCHANGED plan PROVE Past \subseteq Past'
<1> SUFFICES ASSUME NEW q \in Past PROVE q \in Past'
    OBVIOUS
<1>1. q \in DOMAIN plan /\ q \in Runs /\ at[q] > Len(Steps(q))
    BY DEF Past
<1>2. Len(Steps(q)) \in Nat /\ at[q] <= at'[q] /\ at[q] \in Nat /\ at'[q] \in Nat
    BY <1>1, ScriptFacts, StepsOn
<1>3. at'[q] > Len(Steps(q)) /\ Steps(q)' = Steps(q)
    BY <1>1, <1>2, SamePlan
<1> QED BY <1>1, <1>3 DEF Past

\* Seen is monotone in the runs past their steps.
LEMMA SeenMore ==
    ASSUME NEW f, NEW s, NEW p, NEW q, Seen(f, s, p), p \subseteq q PROVE Seen(f, s, q)
    BY DEF Seen

\* An address of another run comes from a file, where that run wrote it after its steps.
LEMMA ProcessSeen ==
    ASSUME ControlInv, DictionariesInv, FilesInv, SeenInv, NEW r \in Runs, Process(r),
           UNCHANGED plan
    PROVE  SeenInv'
<1>1. Past \subseteq Past'
    BY PastGrows
<1>2. \A s \in Runs : Seen(config[s], s, Past') /\ Seen(files.config.entries, s, Past')
    BY <1>1, SeenMore DEF SeenInv
<1>3. \A s \in Runs : Seen(config'[s], s, Past')
  <2>1. CASE config' = config
      BY <1>2, <2>1
  <2>2. CASE config' = [config EXCEPT ![r] = files.config.entries]
      BY <1>2, <2>2 DEF DictionariesInv
  <2>3. CASE Receive(r)
    <3>1. Seen(config'[r], r, Past')
      <4> SUFFICES ASSUME NEW k \in DOMAIN config'[r], NEW q \in Runs, NEW i \in Nat \ {0},
                          config'[r][k] = <<q, i>>, q # r
                   PROVE  q \in Past'
          BY DEF Seen
      <4>1. k \notin Step(r).keys
          BY <2>3, ReceiveConfig DEF Current
      <4>2. k \in DOMAIN config[r] /\ config[r][k] = <<q, i>>
          BY <2>3, <4>1, ReceiveConfig
      <4> QED BY <1>2, <4>2 DEF Seen
    <3>2. \A s \in Runs : s # r => config'[s] = config[s]
        BY <2>3, ReceiveConfig DEF DictionariesInv
    <3> QED BY <1>2, <3>1, <3>2
  <2> QED BY <2>1, <2>2, <2>3, ConfigSteps
<1>4. \A s \in Runs : Seen(files'.config.entries, s, Past')
  <2>1. CASE files'.config.entries = files.config.entries
      BY <1>2, <2>1
  <2>2. CASE files'.config.entries = Empty
      BY <2>2 DEF Seen, Empty
  <2>3. CASE files'.config.entries = config[r] /\ at[r] > Len(Steps(r)) /\ pc[r] = "writing"
    <3>1. r \in Past'
        BY <1>1, <2>3 DEF Past, ControlInv, ProcessInv
    <3> QED BY <1>2, <2>3, <3>1 DEF Seen
  <2> QED BY <2>1, <2>2, <2>3, WrittenConfig
<1> QED BY <1>3, <1>4 DEF SeenInv

\* A run keeps the exchange it has made: it upgrades once, and reads the file before.
LEMMA ProcessOwn ==
    ASSUME ControlInv, DictionariesInv, OwnInv, NEW r \in Runs, Process(r), UNCHANGED plan
    PROVE  OwnInv'
<1>1. /\ \A q \in Runs : q # r => at'[q] = at[q] /\ Current(q)' = Current(q)
      /\ \A q \in Runs : q # r => config'[q] = config[q]
    BY StepsOn, ConfigSteps, ReceiveConfig DEF DictionariesInv
<1>2. \A q, i : Upgrade(q, i)' = Upgrade(q, i)
    BY SamePlan DEF Upgrade
<1>3. ASSUME NEW i \in Nat, Upgrade(r, i), i < at'[r]
      PROVE  Exchange \in DOMAIN config'[r] /\ config'[r][Exchange] = <<r, i>>
  <2>1. r \in DOMAIN plan /\ i \in 1 .. Len(Steps(r)) /\ Steps(r)[i].call = "upgrade"
      BY <1>3 DEF Upgrade
  <2>2. /\ Steps(r)[i].keys = {Exchange} /\ Steps(r)[i].skip = {}
        /\ \A j \in 1 .. Len(Steps(r)) : Exchange \in Steps(r)[j].keys => j = i
      BY <2>1, ScriptFacts DEF UpgradesOnce, Steps
  <2>3. at[r] \in Nat /\ at'[r] \in {at[r], at[r] + 1}
      BY StepsOn
  <2>4. CASE Receive(r)
    <3>1. at[r] \in 1 .. Len(Steps(r))
        BY <2>4 DEF Receive, ReceiveIf, Current, ControlInv, ProcessInv, NamesInv
    <3>2. CASE i = at[r]
        BY <2>2, <2>4, <3>2, ReceiveConfig DEF Step, Current
    <3>3. CASE i < at[r]
      <4>1. Exchange \notin Step(r).keys
          BY <2>2, <3>1, <3>3 DEF Step
      <4>2. Exchange \in DOMAIN config[r] /\ config[r][Exchange] = <<r, i>>
          BY <1>3, <3>3 DEF OwnInv
      <4> QED BY <2>4, <4>1, <4>2, ReceiveConfig
    <3> QED BY <1>3, <2>3, <3>2, <3>3
  <2>5. CASE i < at[r] /\ ~ Receive(r)
    <3>1. config' = config
        BY <1>3, <2>1, <2>5, ConfigSteps DEF ReadConfig, ControlInv, ProcessInv, Early
    <3> QED BY <1>3, <2>5, <3>1 DEF OwnInv
  <2>6. CASE i = at[r] /\ at'[r] = at[r] + 1 /\ ~ Receive(r)
    <3>1. Skip(r) \/ WriteFile(r)
      <4>1. at' # at
          BY <2>3, <2>6
      <4> QED BY <2>6, <4>1
          DEF Process, LoadAccount, ReadAccounts, OpenAccounts, StoreAccounts, ReadConfig,
              CannotBuild, FetchPrice, Submit, NoAddresses, Finish, OpenFile
    <3>2. CASE Skip(r)
        BY <2>2, <2>6, <3>2 DEF Skip, Skipped, Step
    <3>3. CASE WriteFile(r)
        BY <2>1, <2>6, <3>3, ScriptFacts DEF WriteFile, ControlInv, ProcessInv
    <3> QED BY <3>1, <3>2, <3>3
  <2> QED BY <1>3, <2>3, <2>4, <2>5, <2>6
<1>4. ASSUME NEW q \in Runs, Current(q)' \in DOMAIN txs', NEW k \in DOMAIN txs'[Current(q)'].uses
      PROVE  k \in DOMAIN config'[q] /\ txs'[Current(q)'].uses[k] = config'[q][k]
  <2>1. CASE Submit(r)
    <3>1. /\ DOMAIN txs' = DOMAIN txs \cup {Current(r)} /\ txs'[Current(r)] = NewTx(r)
          /\ \A b \in DOMAIN txs : b # Current(r) => txs'[b] = txs[b]
        BY <2>1, SubmitTxs DEF ControlInv
    <3>2. /\ UNCHANGED <<at, config>> /\ Step(r).reads \subseteq DOMAIN config[r]
          /\ \A s \in Runs : Current(s)' = Current(s)
        BY <2>1 DEF Submit, Current
    <3>3. CASE q = r
        BY <1>4, <3>1, <3>2, <3>3 DEF NewTx
    <3>4. CASE q # r
      <4>1. Current(q) # Current(r)
          BY <3>4 DEF Current
      <4> QED BY <1>4, <3>1, <3>2, <4>1 DEF OwnInv
    <3> QED BY <3>3, <3>4
  <2>2. CASE UNCHANGED txs /\ q # r
      BY <1>1, <1>4, <2>2 DEF OwnInv
  <2>3. CASE UNCHANGED txs /\ q = r
    <3>1. Current(r)' = <<r, at'[r]>>
        BY DEF Current
    <3>2. at'[r] = at[r] /\ pc[r] \in {"awaiting", "ended"}
      <4>1. <<r, at'[r]>> \in DOMAIN txs /\ at'[r] \in Nat \ {0} /\ at[r] <= at'[r] /\ at[r] \in Nat
          BY <1>4, <2>3, <3>1, StepsOn DEF ControlInv, ProcessInv
      <4>2. at'[r] <= at[r] /\ (at'[r] = at[r] => pc[r] \in {"awaiting", "ended"})
          BY <4>1 DEF ControlInv, NamesInv
      <4> QED BY <4>1, <4>2
    <3>3. ~ Receive(r) /\ ~ ReadConfig(r)
        BY <3>2 DEF Receive, ReceiveIf, Passes, ReadConfig, ControlInv, ProcessInv
    <3>4. config' = config /\ Current(r)' = Current(r)
        BY <3>2, <3>3, ConfigSteps DEF Current
    <3> QED BY <1>4, <2>3, <3>4 DEF OwnInv
  <2> QED BY <2>1, <2>2, <2>3, Kinds DEF Moves, Advances
<1> QED BY <1>1, <1>2, <1>3, <1>4 DEF OwnInv

\* Whatever a run does preserves RegistryInv.
LEMMA ProcessRegistry ==
    ASSUME ControlInv, TraceInv, RegistryInv, NEW r \in Runs, Process(r),
           UNCHANGED <<plan, exchanges>>
    PROVE  RegistryInv'
<1> USE DEF TraceInv, RegistryInv
<1>1. SeenInv' /\ OwnInv'
    BY ProcessSeen, ProcessOwn
<1>2. ExchangesInv'
  <2>1. Grows(txs, txs') /\ \A q, i : Upgrade(q, i)' = Upgrade(q, i)
      BY ProcessGrows, SamePlan DEF Upgrade
  <2>2. exchanges \in Seq({Given} \cup DOMAIN txs')
      BY <2>1 DEF ExchangesInv, Grows
  <2>3. \A m \in DOMAIN exchanges : exchanges[m] # Given =>
          \E q \in Runs, i \in Nat :
              /\ exchanges[m] = <<q, i>> /\ Upgrade(q, i)'
              /\ txs'[<<q, i>>].status = "committed"
    <3> TAKE m \in DOMAIN exchanges
    <3> HAVE exchanges[m] # Given
    <3>1. PICK q \in Runs, i \in Nat :
              exchanges[m] = <<q, i>> /\ Upgrade(q, i) /\ txs[<<q, i>>].status = "committed"
        BY DEF ExchangesInv
    <3>2. <<q, i>> \in DOMAIN txs
        BY <3>1, SMTT(40) DEF ExchangesInv
    <3> QED BY <2>1, <3>1, <3>2 DEF Grows
  <2> QED BY <2>2, <2>3 DEF ExchangesInv
<1>3. OldInv'
    BY PastGrows DEF OldInv
<1> QED BY <1>1, <1>2, <1>3

\* So does a decision, an upgrade's apart.
LEMMA DecideRegistry ==
    ASSUME ControlInv, TraceInv, RegistryInv, NEW a \in DOMAIN txs, NEW status, Decide(a, status),
           UNCHANGED <<plan, files, config, at>>
    PROVE  /\ SeenInv' /\ OwnInv'
           /\ UNCHANGED exchanges => ExchangesInv' /\ OldInv'
<1> USE DEF TraceInv, RegistryInv
<1>1. Grows(txs, txs') /\ DOMAIN txs' = DOMAIN txs
    BY DecideGrows
<1>2. Past' = Past /\ \A q, i : Upgrade(q, i)' = Upgrade(q, i)
    BY SamePlan DEF Past, Upgrade
<1>3. SeenInv'
    BY <1>2 DEF SeenInv
<1>4. OwnInv'
    BY <1>1, <1>2 DEF OwnInv, Grows, Current
<1>5. ASSUME UNCHANGED exchanges PROVE ExchangesInv' /\ OldInv'
  <2>1. \A m \in DOMAIN exchanges : exchanges[m] # Given =>
          \E q \in Runs, i \in Nat :
              /\ exchanges[m] = <<q, i>> /\ Upgrade(q, i)'
              /\ txs'[<<q, i>>].status = "committed"
    <3> TAKE m \in DOMAIN exchanges
    <3> HAVE exchanges[m] # Given
    <3>1. PICK q \in Runs, i \in Nat :
              exchanges[m] = <<q, i>> /\ Upgrade(q, i) /\ txs[<<q, i>>].status = "committed"
        BY DEF ExchangesInv
    <3>2. <<q, i>> \in DOMAIN txs
        BY <3>1 DEF ExchangesInv
    <3> QED BY <1>1, <1>2, <3>1, <3>2 DEF Grows
  <2> QED BY <1>1, <1>2, <1>5, <2>1 DEF ExchangesInv, OldInv
<1> QED BY <1>3, <1>4, <1>5

\* The run of a pending transaction is at its step, and not past its steps.
LEMMA PendingAt ==
    ASSUME ControlInv, NEW a \in DOMAIN txs, txs[a].status = "pending"
    PROVE  \E r \in Runs : /\ a = <<r, at[r]>> /\ r \notin Past /\ r \in DOMAIN plan
                           /\ at[r] \in 1 .. Len(Steps(r)) /\ at[r] \in Nat
<1>1. PICK r \in Runs, i \in Nat \ {0} : a = <<r, i>>
    BY DEF ControlInv, NamesInv
<1>2. i = at[r] /\ r \in DOMAIN plan /\ i \in 1 .. Len(Steps(r))
    BY <1>1 DEF ControlInv, NamesInv
<1>3. Len(Steps(r)) \in Nat
    BY <1>2, ScriptFacts
<1> QED BY <1>1, <1>2, <1>3 DEF Past

\* The new exchange was upgraded from the last one, made by a run that is past its steps.
LEMMA UpgradeRegistry ==
    ASSUME ControlInv, TraceInv, RegistryInv, NEW a \in DOMAIN txs, Commit(a),
           StepOf(a).call = "upgrade", UNCHANGED <<plan, files, config, at>>
    PROVE  ExchangesInv' /\ OldInv'
<1> USE DEF TraceInv, RegistryInv
<1>1. Decide(a, "committed") /\ txs[a].status = "pending"
    BY DEF Commit, Decide
<1>2. /\ DOMAIN txs' = DOMAIN txs /\ Grows(txs, txs') /\ txs'[a].status = "committed"
  <2>1. txs'[a] = DecidedTx(a, "committed")
      BY <1>1, DecideTxs DEF ControlInv
  <2> QED BY <1>1, <2>1, DecideGrows DEF DecidedTx
<1>3. Past' = Past /\ \A q, i : Upgrade(q, i)' = Upgrade(q, i)
    BY SamePlan DEF Past, Upgrade
<1>4. exchanges' = Append(exchanges, a)
    BY DEF Commit
<1>5. PICK r \in Runs : /\ a = <<r, at[r]>> /\ r \notin Past /\ r \in DOMAIN plan
                        /\ at[r] \in 1 .. Len(Steps(r)) /\ at[r] \in Nat
    BY <1>1, PendingAt
<1>6. Upgrade(r, at[r]) /\ a # Given
    BY <1>5 DEF Upgrade, StepOf, Given
<1>7. /\ exchanges \in Seq({Given} \cup DOMAIN txs) /\ Len(exchanges) \in Nat /\ Len(exchanges) > 0
      /\ DOMAIN exchanges = 1 .. Len(exchanges)
    BY DEF ExchangesInv
<1>8. /\ exchanges' \in Seq({Given} \cup DOMAIN txs')
      /\ Len(exchanges') = Len(exchanges) + 1 /\ DOMAIN exchanges' = 1 .. (Len(exchanges) + 1)
      /\ \A m \in DOMAIN exchanges : exchanges'[m] = exchanges[m]
      /\ exchanges'[Len(exchanges) + 1] = a
    BY <1>2, <1>4, <1>7
<1>9. \A m \in DOMAIN exchanges : exchanges[m] # a
    BY <1>1, <1>6 DEF ExchangesInv
<1>10. \A m \in DOMAIN exchanges' : exchanges'[m] # Given =>
          \E q \in Runs, i \in Nat :
              /\ exchanges'[m] = <<q, i>> /\ Upgrade(q, i)'
              /\ txs'[<<q, i>>].status = "committed"
  <2> TAKE m \in DOMAIN exchanges'
  <2> HAVE exchanges'[m] # Given
  <2>1. CASE m = Len(exchanges) + 1
      BY <1>2, <1>3, <1>5, <1>6, <1>8, <2>1
  <2>2. CASE m \in DOMAIN exchanges
    <3>1. PICK q \in Runs, i \in Nat :
              exchanges[m] = <<q, i>> /\ Upgrade(q, i) /\ txs[<<q, i>>].status = "committed"
        BY <1>8, <2>2 DEF ExchangesInv
    <3>2. <<q, i>> \in DOMAIN txs
        BY <3>1, <1>6, <1>2, <2>2, <1>8, SMTT(40) DEF ExchangesInv
    <3> QED BY <1>2, <1>3, <1>8, <2>2, <3>1, <3>2 DEF Grows
  <2>3. m = Len(exchanges) + 1 \/ m \in DOMAIN exchanges
      BY <1>7, <1>8
  <2> QED BY <2>1, <2>2, <2>3
<1>11. \A m, n \in DOMAIN exchanges' : exchanges'[m] = exchanges'[n] => m = n
    BY <1>7, <1>8, <1>9 DEF ExchangesInv
<1>12. ExchangesInv'
  <2>1. exchanges'[1] = Given /\ Len(exchanges') > 0
      BY <1>7, <1>8 DEF ExchangesInv
  <2> QED BY <1>8, <1>10, <1>11, <2>1 DEF ExchangesInv
<1>13. OldInv'
  <2> SUFFICES ASSUME NEW m \in DOMAIN exchanges', NEW q \in Runs, NEW i \in Nat \ {0},
                      exchanges'[m] = <<q, i>>, m # Len(exchanges')
               PROVE  q \in Past
      BY <1>3 DEF OldInv
  <2>1. m \in DOMAIN exchanges /\ exchanges[m] = <<q, i>>
      BY <1>7, <1>8
  <2>2. CASE m # Len(exchanges)
      BY <2>1, <2>2 DEF OldInv
  <2>3. CASE m = Len(exchanges)
    <3>1. txs[a].uses[Exchange] = <<q, i>>
        BY <2>1, <2>3 DEF Commit, CanCommit
    <3>2. Exchange \in DOMAIN txs[a].uses
      <4>1. Exchange \in StepOf(a).reads
          BY <1>5, ScriptFacts DEF UpgradesOnce, StepOf, Steps
      <4> QED BY <4>1 DEF UsesInv
    <3>3. Exchange \in DOMAIN config[r] /\ config[r][Exchange] = <<q, i>>
        BY <1>5, <3>1, <3>2 DEF OwnInv, Current
    <3>4. CASE q # r
        BY <3>3, <3>4 DEF SeenInv, Seen
    <3>5. CASE q = r
      <4>1. <<q, i>> # Given
          BY DEF Given
      <4>2. Upgrade(q, i) /\ txs[<<q, i>>].status = "committed"
        <5>1. PICK p \in Runs, n \in Nat :
                  exchanges[m] = <<p, n>> /\ Upgrade(p, n) /\ txs[<<p, n>>].status = "committed"
            BY <2>1, <4>1 DEF ExchangesInv
        <5> QED BY <2>1, <5>1
      <4>3. i = at[r]
          BY <1>6, <3>5, <4>2, ScriptFacts DEF Upgrade, UpgradesOnce, Steps
      <4> QED BY <1>1, <1>5, <3>5, <4>2, <4>3
    <3> QED BY <3>4, <3>5
  <2> QED BY <2>2, <2>3
<1> QED BY <1>12, <1>13

\* So does what leaves runs, files and exchanges alone.
LEMMA StillRegistry ==
    ASSUME RegistryInv, UNCHANGED <<plan, at, config, txs, files, exchanges>> PROVE RegistryInv'
<1>1. Past' = Past /\ \A q, i : Upgrade(q, i)' = Upgrade(q, i)
    BY SamePlan DEF Past, Upgrade
<1>2. \A q : Current(q)' = Current(q)
    BY DEF Current
<1>3. SeenInv'
    BY <1>1 DEF RegistryInv, SeenInv
<1>4. OwnInv'
    BY <1>1, <1>2 DEF RegistryInv, OwnInv
<1>5. ExchangesInv'
    BY <1>1 DEF RegistryInv, ExchangesInv
<1>6. OldInv'
    BY <1>1 DEF RegistryInv, OldInv
<1> QED BY <1>3, <1>4, <1>5, <1>6 DEF RegistryInv

\* RegistryInv is inductive relative to ControlInv and TraceInv.
LEMMA RegistryStep ==
    ASSUME ControlInv, TraceInv, RegistryInv, [Next]_vars PROVE RegistryInv'
<1>1. CASE \E r \in Runs : Run(r)
    BY <1>1, ProcessRegistry DEF Run
<1>2. CASE Network
  <2>1. PICK a \in DOMAIN txs : Commit(a) \/ Fail(a) \/ Expire(a)
      BY <1>2 DEF Network
  <2>2. UNCHANGED <<plan, files, config, at>>
      BY <1>2 DEF Network, process
  <2>3. PICK status : Decide(a, status)
      BY <2>1 DEF Commit, Fail, Expire
  <2>4. CASE Commit(a) /\ StepOf(a).call = "upgrade"
      BY <2>2, <2>3, <2>4, DecideRegistry, UpgradeRegistry DEF RegistryInv
  <2>5. CASE ~ (Commit(a) /\ StepOf(a).call = "upgrade")
    <3>1. UNCHANGED exchanges
        BY <2>1, <2>5 DEF Commit, Fail, Expire
    <3> QED BY <2>2, <2>3, <3>1, DecideRegistry DEF RegistryInv
  <2> QED BY <2>4, <2>5
<1>3. CASE UNCHANGED <<plan, at, config, txs, files, exchanges>>
    BY <1>3, StillRegistry
<1>4. CASE Operator
    BY <1>4, StillRegistry DEF Operator, Start, Funded, Stop
<1> QED BY <1>1, <1>2, <1>3, <1>4 DEF Next, Users, Time, vars, process, network

\* At first there is the given exchange.
LEMMA RegistryInit == Init => RegistryInv
<1> SUFFICES ASSUME Init PROVE RegistryInv
    OBVIOUS
<1>1. PICK f \in ConfigFiles : files.config.entries = [k \in f |-> Given]
    BY DEF Init, Whole
<1>2. SeenInv
  <2>1. \A s \in Runs : config[s] = Empty
      BY DEF Init
  <2>2. \A s : Seen(Empty, s, Past)
      BY DEF Seen, Empty
  <2>3. \A r, i : i \in Nat \ {0} => <<r, i>> # Given
      BY DEF Given
  <2>4. \A s : Seen(files.config.entries, s, Past)
      BY <1>1, <2>3 DEF Seen
  <2> QED BY <2>1, <2>2, <2>4 DEF SeenInv
<1>3. OwnInv
    BY DEF Init, OwnInv, Upgrade
<1>4. ExchangesInv /\ OldInv
    BY DEF Init, ExchangesInv, OldInv
<1> QED BY <1>2, <1>3, <1>4 DEF RegistryInv

\* A run registers the exchange it has made, if it is among the exchanges the last one.
LEMMA RegistersLast ==
    ASSUME ControlInv, TraceInv, RegistryInv, NEW a \in DOMAIN txs, txs[a].status = "pending",
           "exchange_component" \in DOMAIN StepOf(a).sets
    PROVE  /\ StepOf(a).call # "upgrade"
           /\ \A j \in DOMAIN exchanges :
                exchanges[j] = txs[a].uses[StepOf(a).sets["exchange_component"]]
                => j = Len(exchanges)
<1> USE DEF TraceInv, RegistryInv
<1>1. PICK r \in Runs : /\ a = <<r, at[r]>> /\ r \notin Past /\ r \in DOMAIN plan
                        /\ at[r] \in 1 .. Len(Steps(r)) /\ at[r] \in Nat
    BY PendingAt
<1>2. StepOf(a) = Steps(r)[at[r]]
    BY <1>1 DEF StepOf
<1>3. StepOf(a).sets["exchange_component"] = Exchange
    BY <1>1, <1>2, ScriptFacts DEF UpgradesOnce, Steps
<1>4. PICK i \in 1 .. (at[r] - 1) : Steps(r)[i].call = "upgrade"
    BY <1>1, <1>2, ScriptFacts DEF UpgradesOnce, Steps
<1>5. i \in 1 .. Len(Steps(r)) /\ i \in Nat \ {0} /\ i < at[r]
    BY <1>1, <1>4, ScriptFacts
<1>6. Upgrade(r, i) /\ StepOf(a).call # "upgrade"
  <2>1. \A j \in 1 .. Len(Steps(r)) : Steps(r)[j].call = "upgrade" => j = i
      BY <1>1, <1>4, <1>5, ScriptFacts DEF UpgradesOnce, Steps
  <2> QED BY <1>1, <1>2, <1>4, <1>5, <2>1 DEF Upgrade
<1>7. config[r][Exchange] = <<r, i>>
    BY <1>5, <1>6 DEF OwnInv
<1>8. Exchange \in DOMAIN txs[a].uses
    BY <1>1, <1>2, <1>3, ScriptFacts DEF IsScript, Steps, UsesInv
<1>9. txs[a].uses[Exchange] = <<r, i>>
    BY <1>1, <1>7, <1>8 DEF OwnInv, Current
<1> QED BY <1>1, <1>3, <1>5, <1>6, <1>9 DEF OldInv

RegisteredInv == "exchange_component" \in DOMAIN ledger.registry

\* Some exchange is always registered.
LEMMA RegisteredStep == RegisteredInv /\ [Next]_vars => RegisteredInv'
<1>1. ASSUME RegisteredInv, NEW a, Commit(a) PROVE RegisteredInv'
    BY <1>1 DEF RegisteredInv, Commit, Updated
<1>2. (\E a : Commit(a)) \/ UNCHANGED ledger \/ ~ [Next]_vars
    BY DEF Next, Run, Network, Fail, Expire, Operator, Users, Time, network, vars
<1> QED BY <1>1, <1>2 DEF RegisteredInv

RegistryMoves ==
    \A i \in DOMAIN exchanges, j \in DOMAIN exchanges' :
        /\ exchanges[i] = ledger.registry["exchange_component"]
        /\ exchanges'[j] = ledger'.registry["exchange_component"]
        => i <= j

\* A step that registers another exchange registers the last one.
LEMMA RegistryNotBack ==
    ASSUME ControlInv, TraceInv, RegistryInv, RegisteredInv, RegistryInv', [Next]_vars
    PROVE  RegistryMoves
<1> USE DEF RegistryInv
<1>1. exchanges \in Seq({Given} \cup DOMAIN txs) /\ Len(exchanges) \in Nat
    BY DEF ExchangesInv
<1> SUFFICES ASSUME NEW i \in DOMAIN exchanges, NEW j \in DOMAIN exchanges',
                    exchanges[i] = ledger.registry["exchange_component"],
                    exchanges'[j] = ledger'.registry["exchange_component"]
             PROVE  i <= j
    BY DEF RegistryMoves
<1>2. CASE ledger'.registry["exchange_component"] = ledger.registry["exchange_component"]
  <2>1. i \in DOMAIN exchanges' /\ exchanges'[i] = exchanges[i]
    <3>1. exchanges' = exchanges \/ \E a : exchanges' = Append(exchanges, a)
        BY DEF Next, Run, Network, Commit, Fail, Expire, Operator, Users, Time, network, vars
    <3> QED BY <1>1, <3>1
  <2>2. i = j
      BY <1>2, <2>1 DEF ExchangesInv
  <2> QED BY <1>1, <2>2
<1>3. CASE ledger'.registry["exchange_component"] # ledger.registry["exchange_component"]
  <2>1. PICK a \in DOMAIN txs : Commit(a)
      BY <1>3 DEF Next, Run, Network, Fail, Expire, Operator, Users, Time, network, vars
  <2> DEFINE sets == StepOf(a).sets
             new == [v \in DOMAIN sets |-> txs[a].uses[sets[v]]]
  <2>2. ledger'.registry = Updated(ledger.registry, new)
      BY <2>1 DEF Commit
  <2>3. "exchange_component" \in DOMAIN sets
      BY <1>3, <2>2 DEF Updated, RegisteredInv
  <2>4. ledger'.registry["exchange_component"] = txs[a].uses[sets["exchange_component"]]
      BY <2>2, <2>3 DEF Updated
  <2>5. txs[a].status = "pending"
      BY <2>1 DEF Commit, Decide
  <2>6. exchanges' = exchanges
      BY <2>1, <2>3, <2>5, RegistersLast DEF Commit
  <2>7. j = Len(exchanges)
      BY <2>3, <2>4, <2>5, <2>6, RegistersLast
  <2> QED BY <1>1, <2>7
<1> QED BY <1>2, <1>3

\* set_variables never replaces the registered exchange by an older one, although it may be
\* decided long after it was submitted and upgrades may start from the same file.
THEOREM OperationsRegistry == Spec => RegistryNeverGoesBack
<1>1. Init => ControlInv /\ TraceInv /\ RegistryInv /\ RegisteredInv
  <2>1. Init => RegisteredInv
      BY DEF Init, RegisteredInv
  <2> QED BY <2>1, ControlInit, TraceInit, RegistryInit
<1>2. ControlInv /\ TraceInv /\ RegistryInv /\ RegisteredInv /\ [Next]_vars
      => ControlInv' /\ TraceInv' /\ RegistryInv' /\ RegisteredInv' /\ RegistryMoves
    BY ControlStep, TraceStep, RegistryStep, RegisteredStep, RegistryNotBack
<1> QED BY <1>1, <1>2, PTL DEF Spec, RegistryNeverGoesBack, RegistryMoves
-----------------------------------------------------------------------------
(* Files.  As long as no two runs hold a file at once, and none is stopped *)
(* while it has it truncated, the file holds what runs that read and write *)
(* in one step would have left: the run that holds it is to write exactly  *)
(* this.                                                                   *)

IsFunction(f) == f = [k \in DOMAIN f |-> f[k]]

FunctionsInv ==
    /\ ideal = [accounts |-> ideal.accounts, config |-> ideal.config]
    /\ data = [r \in Runs |-> data[r]] /\ keys = [r \in Runs |-> keys[r]]
    /\ IsFunction(ideal.config) /\ IsFunction(files.config.entries)
    /\ \A r \in Runs : IsFunction(config[r])

AtMostOne(f) == \A r, s \in Runs : Holds(r, f) /\ Holds(s, f) => r = s

AccountsInv ==
    "accounts" \notin overlap =>
        /\ AtMostOne("accounts")
        /\ (\A r \in Runs : pc[r] # "storing") => files.accounts.entries = ideal.accounts
        /\ \A r \in Runs :
              /\ pc[r] = "storing" => ~ files.accounts.whole
              /\ pc[r] \in {"opening", "storing"} =>
                    data[r] = Append(ideal.accounts, <<r, Len(keys[r]) + 1>>)

WritesConfig(r) == pc[r] = "writing" /\ SavedFile(r) = "config"

ConfigInv ==
    "config" \notin overlap =>
        /\ AtMostOne("config")
        /\ (\A r \in Runs : ~ WritesConfig(r)) => files.config.entries = ideal.config
        /\ \A r \in Runs :
              /\ WritesConfig(r) => ~ files.config.whole
              /\ Holds(r, "config") =>
                    /\ DOMAIN config[r] = DOMAIN ideal.config \cup Own(r)
                    /\ \A k \in DOMAIN ideal.config \ Own(r) : config[r][k] = ideal.config[k]

SerialInv == FunctionsInv /\ AccountsInv /\ ConfigInv

\* No two runs come to hold a file, and none leaves one truncated, unless it is noted.
LEMMA NotedFacts ==
    ASSUME Noted, NEW f \in {"accounts", "config"}, f \notin overlap'
    PROVE  /\ f \notin overlap
           /\ \A r, s \in Runs : Holds(r, f)' /\ Holds(s, f)' => r = s
           /\ \A r \in Runs : Writing(r, f) /\ pc'[r] = "ended" => files'[f].whole
    BY DEF Noted

-----------------------------------------------------------------------------
(* accounts.json *)

LEMMA OtherAccounts ==
    ASSUME ControlInv, FilesInv, FunctionsInv, NEW r \in Runs, Process(r),
           ~ ReadAccounts(r), ~ OpenAccounts(r), ~ StoreAccounts(r)
    PROVE  /\ pc[r] \notin {"opening", "storing"} /\ pc'[r] \notin {"opening", "storing"}
           /\ files'.accounts = files.accounts /\ ideal'.accounts = ideal.accounts
           /\ data' = data /\ \A q \in Runs : q # r => keys'[q] = keys[q]
<1> USE DEF ControlInv, ProcessInv
<1>1. CASE LoadAccount(r)
    BY <1>1 DEF LoadAccount, HasAccount, Goes, AfterAccounts, AfterConfig, FunctionsInv
<1>2. CASE OpenFile(r) \/ WriteFile(r)
  <2>1. PICK x : files' = [files EXCEPT ![SavedFile(r)] = x]
      BY <1>2 DEF OpenFile, WriteFile
  <2>2. SavedFile(r) \in {"release", "config"}
      BY <1>2, SavedFileIs DEF OpenFile, WriteFile
  <2>3. files'.accounts = files.accounts
      BY <2>1, <2>2 DEF FilesInv
  <2>4. /\ pc[r] \in {"running", "writing"} /\ pc'[r] \in {"running", "writing", "ended"}
        /\ UNCHANGED <<data, keys>>
      BY <1>2 DEF OpenFile, WriteFile, Goes, Passes
  <2>5. ideal'.accounts = ideal.accounts
      BY <1>2 DEF OpenFile, WriteFile, FunctionsInv
  <2> QED BY <2>3, <2>4, <2>5
<1>3. CASE ReadConfig(r) \/ Skip(r) \/ CannotBuild(r) \/ FetchPrice(r)
    BY <1>3 DEF ReadConfig, Skip, CannotBuild, FetchPrice, Stepping, Goes, Passes, AfterConfig
<1>4. CASE Submit(r) \/ Receive(r) \/ NoAddresses(r) \/ Finish(r)
    BY <1>4 DEF Submit, Receive, ReceiveIf, NoAddresses, Finish, Stepping, Goes, Passes
<1> QED BY <1>1, <1>2, <1>3, <1>4 DEF Process

\* new_account writes the keys the file would have, and its own.
LEMMA ProcessAccounts ==
    ASSUME ControlInv, FilesInv, FunctionsInv, AccountsInv, NEW r \in Runs, Process(r), Noted,
           UNCHANGED plan
    PROVE  AccountsInv'
<1> SUFFICES ASSUME "accounts" \notin overlap' PROVE
        /\ AtMostOne("accounts")'
        /\ (\A q \in Runs : pc'[q] # "storing") => files'.accounts.entries = ideal'.accounts
        /\ \A q \in Runs :
              /\ pc'[q] = "storing" => ~ files'.accounts.whole
              /\ pc'[q] \in {"opening", "storing"} =>
                    data'[q] = Append(ideal'.accounts, <<q, Len(keys'[q]) + 1>>)
    BY DEF AccountsInv
<1>1. AtMostOne("accounts")' /\ "accounts" \notin overlap
    BY NotedFacts DEF AtMostOne
<1>2. \A q \in Runs : Holds(q, "accounts")' <=> pc'[q] \in {"opening", "storing"}
    BY DEF Holds
<1>3. \A q \in Runs : q # r => pc'[q] = pc[q]
    BY OthersStay DEF ControlInv, ProcessInv
<1>4. \A q \in Runs :
        q # r /\ pc'[r] \in {"opening", "storing"} => pc[q] \notin {"opening", "storing"}
    BY <1>1, <1>2, <1>3 DEF AtMostOne
<1>5. CASE ReadAccounts(r)
  <2>1. /\ pc[r] = "creating" /\ pc'[r] = "opening" /\ UNCHANGED <<files, ideal, keys>>
        /\ data'[r] = Append(files.accounts.entries, <<r, Len(keys[r]) + 1>>)
      BY <1>5 DEF ReadAccounts, Goes, ControlInv, ProcessInv, FunctionsInv
  <2>2. files.accounts.entries = ideal.accounts
      BY <1>1, <1>4, <2>1 DEF AccountsInv
  <2> QED BY <1>1, <1>3, <1>4, <2>1, <2>2
<1>6. CASE OpenAccounts(r)
  <2>1. /\ pc[r] = "opening" /\ pc'[r] = "storing" /\ UNCHANGED <<data, ideal, keys>>
        /\ files'.accounts = Truncated(<< >>)
      BY <1>6 DEF OpenAccounts, Goes, ControlInv, ProcessInv, FilesInv
  <2>2. data[r] = Append(ideal.accounts, <<r, Len(keys[r]) + 1>>)
      BY <1>1, <2>1 DEF AccountsInv
  <2> QED BY <1>1, <1>3, <1>4, <2>1, <2>2 DEF Truncated
<1>7. CASE StoreAccounts(r)
  <2>1. /\ pc[r] = "storing" /\ pc'[r] \notin {"opening", "storing"}
        /\ files'.accounts.entries = data[r]
        /\ ideal'.accounts = Append(ideal.accounts, <<r, Len(keys[r]) + 1>>)
      BY <1>7 DEF StoreAccounts, HasAccount, Goes, AfterAccounts, AfterConfig, Whole, ControlInv,
                  ProcessInv, FilesInv, FunctionsInv
  <2>2. data[r] = Append(ideal.accounts, <<r, Len(keys[r]) + 1>>)
      BY <1>1, <2>1 DEF AccountsInv
  <2>3. \A q \in Runs : q # r => pc[q] \notin {"opening", "storing"}
      BY <1>1, <2>1 DEF AccountsInv, AtMostOne, Holds
  <2> QED BY <1>1, <1>3, <2>1, <2>2, <2>3
<1>8. CASE ~ ReadAccounts(r) /\ ~ OpenAccounts(r) /\ ~ StoreAccounts(r)
    BY <1>1, <1>3, <1>8, OtherAccounts DEF AccountsInv
<1> QED BY <1>5, <1>6, <1>7, <1>8

-----------------------------------------------------------------------------
(* The config file *)

LEMMA OtherConfig ==
    ASSUME ControlInv, DictionariesInv, FilesInv, FunctionsInv, NEW r \in Runs, Process(r),
           UNCHANGED plan,
           ~ ReadConfig(r), ~ Receive(r), ~ OpenFile(r), ~ WriteFile(r)
    PROVE  /\ ~ WritesConfig(r) /\ ~ WritesConfig(r)'
           /\ Holds(r, "config")' => Holds(r, "config")
           /\ files'.config = files.config /\ ideal'.config = ideal.config /\ config' = config
<1> USE DEF ControlInv, ProcessInv
<1>1. CASE LoadAccount(r) \/ StoreAccounts(r)
  <2>1. files'.config = files.config /\ ideal'.config = ideal.config /\ config' = config
      BY <1>1 DEF LoadAccount, StoreAccounts, FilesInv, FunctionsInv
  <2>2. /\ pc[r] \in {"account", "storing"}
        /\ pc'[r] \in {"account", "creating", "configuring", AfterConfig(r)}
        /\ pc'[r] = AfterConfig(r) => ~ plan[r].configures \/ pc'[r] = "configuring"
      BY <1>1 DEF LoadAccount, StoreAccounts, HasAccount, Goes, AfterAccounts, AfterConfig
  <2>3. ~ plan[r].configures => plan[r].saves = << >>
      BY <2>2, ScriptFacts DEF IsScript
  <2> QED BY <2>1, <2>2, <2>3 DEF WritesConfig, Holds, AfterConfig
<1>2. CASE ReadAccounts(r) \/ OpenAccounts(r)
    BY <1>2 DEF ReadAccounts, OpenAccounts, Goes, WritesConfig, Holds, FilesInv
<1>3. CASE Skip(r) \/ CannotBuild(r) \/ FetchPrice(r)
    BY <1>3 DEF Skip, CannotBuild, FetchPrice, Stepping, Goes, Passes, WritesConfig, Holds
<1>4. CASE Submit(r) \/ NoAddresses(r) \/ Finish(r)
    BY <1>4 DEF Submit, NoAddresses, Finish, Stepping, Goes, WritesConfig, Holds
<1> QED BY <1>1, <1>2, <1>3, <1>4 DEF Process

\* A run that writes has files to save.
LEMMA SavesSomething ==
    ASSUME ControlInv, NEW r \in Runs, pc[r] = "writing" PROVE plan[r].saves # << >>
<1>1. r \in DOMAIN plan /\ at[r] \in (Len(Steps(r)) + 1) .. Last(r)
    BY DEF ControlInv, ProcessInv
<1>2. Len(Steps(r)) \in Nat
    BY <1>1, ScriptFacts
<1>3. plan[r].saves # << >>
  <2> SUFFICES ASSUME plan[r].saves = << >> PROVE FALSE
      OBVIOUS
  <2>1. Last(r) = Len(Steps(r))
      BY <1>2 DEF Last, Saves
  <2> QED BY <1>1, <1>2, <2>1
<1> QED BY <1>3

\* A run that holds the config file alone writes what the file would have, and its own entries.
LEMMA ProcessConfig ==
    ASSUME ControlInv, DictionariesInv, FilesInv, FunctionsInv, ConfigInv, NEW r \in Runs,
           Process(r), Noted, UNCHANGED plan
    PROVE  ConfigInv'
<1> SUFFICES ASSUME "config" \notin overlap' PROVE
        /\ AtMostOne("config")'
        /\ (\A q \in Runs : ~ WritesConfig(q)') => files'.config.entries = ideal'.config
        /\ \A q \in Runs :
              /\ WritesConfig(q)' => ~ files'.config.whole
              /\ Holds(q, "config")' =>
                    /\ DOMAIN config'[q] = DOMAIN ideal'.config \cup Own(q)'
                    /\ \A k \in DOMAIN ideal'.config \ Own(q)' : config'[q][k] = ideal'.config[k]
    BY DEF ConfigInv
<1>1. AtMostOne("config")' /\ "config" \notin overlap
    BY NotedFacts DEF AtMostOne
<1>2. \A q \in Runs : q # r =>
        /\ pc'[q] = pc[q] /\ at'[q] = at[q] /\ config'[q] = config[q]
        /\ WritesConfig(q)' = WritesConfig(q) /\ Holds(q, "config")' = Holds(q, "config")
        /\ Own(q)' = Own(q)
  <2>1. \A q \in Runs : q # r => pc'[q] = pc[q] /\ at'[q] = at[q]
      BY OthersStay DEF ControlInv, ProcessInv
  <2>2. \A q \in Runs : q # r => config'[q] = config[q]
      BY ConfigSteps, ReceiveConfig DEF DictionariesInv
  <2> QED BY <2>1, <2>2 DEF WritesConfig, Holds, Own, SavedFile, Saves, Steps
<1>3. \A q \in Runs : WritesConfig(q) => Holds(q, "config")
    BY SavesSomething DEF WritesConfig, Holds
<1>4. \A q \in Runs : q # r /\ (Holds(r, "config") \/ Holds(r, "config")') => ~ Holds(q, "config")
    BY <1>1, <1>2 DEF AtMostOne, ConfigInv
<1>5. CASE ReadConfig(r)
  <2>1. /\ pc[r] = "configuring" /\ UNCHANGED <<files, ideal>>
        /\ ~ WritesConfig(r) /\ ~ WritesConfig(r)'
      BY <1>5 DEF ReadConfig, Goes, AfterConfig, WritesConfig, ControlInv, ProcessInv
  <2>2. CASE Holds(r, "config")'
    <3>1. config'[r] = files.config.entries
        BY <1>5, <2>2 DEF ReadConfig, Goes, Holds, ControlInv, ProcessInv, DictionariesInv
    <3>2. files.config.entries = ideal.config
        BY <1>1, <1>3, <1>4, <2>1, <2>2 DEF ConfigInv
    <3>3. Own(r)' \subseteq DOMAIN ideal.config
        BY <3>1, <3>2 DEF Own
    <3> QED BY <1>1, <1>2, <1>3, <1>4, <2>1, <2>2, <3>1, <3>2, <3>3
  <2>3. CASE ~ Holds(r, "config")'
      BY <1>1, <1>2, <2>1, <2>3 DEF ConfigInv
  <2> QED BY <2>2, <2>3
<1>6. CASE Receive(r)
  <2>1. /\ ~ WritesConfig(r) /\ ~ WritesConfig(r)' /\ UNCHANGED <<files, ideal>>
        /\ Holds(r, "config")' => Holds(r, "config")
      BY <1>6 DEF Receive, ReceiveIf, Passes, Goes, WritesConfig, Holds, ControlInv, ProcessInv
  <2>2. Own(r)' = Own(r) \cup Step(r).keys
      BY <1>6, ReceiveConfig DEF Own, Current
  <2>3. Holds(r, "config")' =>
            /\ DOMAIN config'[r] = DOMAIN ideal.config \cup Own(r)'
            /\ \A k \in DOMAIN ideal.config \ Own(r)' : config'[r][k] = ideal.config[k]
    <3> HAVE Holds(r, "config")'
    <3>1. /\ DOMAIN config[r] = DOMAIN ideal.config \cup Own(r)
          /\ \A k \in DOMAIN ideal.config \ Own(r) : config[r][k] = ideal.config[k]
        BY <1>1, <2>1 DEF ConfigInv
    <3> QED BY <1>6, <2>2, <3>1, ReceiveConfig
  <2> QED BY <1>1, <1>2, <2>1, <2>3 DEF ConfigInv
<1>7. CASE OpenFile(r)
  <2>1. /\ files' = [files EXCEPT ![SavedFile(r)] = Truncated(Empty)]
        /\ SavedFile(r) \in {"release", "config"} /\ SavedFile(r)' = SavedFile(r)
        /\ UNCHANGED <<ideal, config, at>> /\ pc[r] = "running" /\ pc'[r] = "writing"
        /\ Holds(r, "config")' => Holds(r, "config")
      BY <1>7, SavedFileIs
      DEF OpenFile, Goes, Holds, SavedFile, Saves, Steps, ControlInv, ProcessInv
  <2>2. CASE SavedFile(r) = "release"
    <3>1. files'.config = files.config /\ ~ WritesConfig(r) /\ ~ WritesConfig(r)'
        BY <2>1, <2>2 DEF FilesInv, WritesConfig
    <3> QED BY <1>1, <1>2, <2>1, <3>1 DEF ConfigInv, Own
  <2>3. CASE SavedFile(r) = "config"
    <3>1. files'.config = Truncated(Empty) /\ WritesConfig(r)'
        BY <2>1, <2>3 DEF FilesInv, WritesConfig
    <3> QED BY <1>1, <1>2, <2>1, <3>1 DEF ConfigInv, Own, Truncated
  <2> QED BY <2>1, <2>2, <2>3
<1>8. CASE WriteFile(r)
  <2>1. /\ files' = [files EXCEPT ![SavedFile(r)] = Whole(config[r])]
        /\ SavedFile(r) \in {"release", "config"}
        /\ UNCHANGED config /\ pc[r] = "writing" /\ pc'[r] \in {"running", "ended"}
        /\ Holds(r, "config")' => Holds(r, "config")
        /\ ~ WritesConfig(r)'
      BY <1>8, SavedFileIs DEF WriteFile, Passes, Goes, Holds, WritesConfig, ControlInv, ProcessInv
  <2>2. CASE SavedFile(r) = "release"
    <3>1. files'.config = files.config /\ ~ WritesConfig(r) /\ ideal' = ideal
        BY <1>8, <2>1, <2>2 DEF FilesInv, WritesConfig, WriteFile
    <3> QED BY <1>1, <1>2, <2>1, <3>1 DEF ConfigInv, Own
  <2>3. CASE SavedFile(r) = "config"
    <3>1. files'.config = Whole(config[r]) /\ WritesConfig(r)
        BY <2>1, <2>3 DEF FilesInv, WritesConfig
    <3>2. ideal'.config = Updated(ideal.config, [k \in Own(r) |-> config[r][k]])
        BY <1>8, <2>3 DEF WriteFile, FunctionsInv
    <3>3. /\ DOMAIN config[r] = DOMAIN ideal.config \cup Own(r)
          /\ \A k \in DOMAIN ideal.config \ Own(r) : config[r][k] = ideal.config[k]
        BY <1>1, <1>3, <3>1 DEF ConfigInv
    <3>4. ideal'.config = config[r]
      <4>1. IsFunction(ideal'.config) /\ IsFunction(config[r])
          BY <3>2 DEF Updated, FunctionsInv, IsFunction
      <4>2. Own(r) \subseteq DOMAIN config[r]
          BY DEF Own
      <4>3. DOMAIN ideal'.config = DOMAIN config[r]
          BY <3>2, <3>3 DEF Updated
      <4>4. \A k \in DOMAIN config[r] : ideal'.config[k] = config[r][k]
          BY <3>2, <3>3 DEF Updated
      <4> QED BY <4>1, <4>3, <4>4 DEF IsFunction
    <3>5. Own(r)' = Own(r) /\ Own(r) \subseteq DOMAIN config[r]
        BY <2>1 DEF Own
    <3>6. \A q \in Runs : q # r => ~ Holds(q, "config")'
        BY <1>2, <1>3, <1>4, <3>1
    <3> QED BY <1>1, <2>1, <3>1, <3>4, <3>5, <3>6, <1>2, <1>3 DEF Whole
  <2> QED BY <2>1, <2>2, <2>3
<1>9. CASE ~ ReadConfig(r) /\ ~ Receive(r) /\ ~ OpenFile(r) /\ ~ WriteFile(r)
  <2>1. /\ ~ WritesConfig(r) /\ ~ WritesConfig(r)'
        /\ Holds(r, "config")' => Holds(r, "config")
        /\ files'.config = files.config /\ ideal'.config = ideal.config /\ config' = config
      BY <1>9, OtherConfig
  <2> QED BY <1>1, <1>2, <2>1 DEF ConfigInv, Own
<1> QED BY <1>5, <1>6, <1>7, <1>8, <1>9

-----------------------------------------------------------------------------
(* All of it *)

LEMMA ProcessFunctions ==
    ASSUME ControlInv, DictionariesInv, FilesInv, FunctionsInv, NEW r \in Runs, Process(r)
    PROVE  FunctionsInv'
<1> USE DEF FunctionsInv
<1>1. \A q \in Runs : IsFunction(config'[q])
  <2>1. CASE Receive(r)
    <3>1. config' = [config EXCEPT ![r] = Updated(config[r], [k \in Step(r).keys |-> Current(r)])]
        BY <2>1 DEF Receive, ReceiveIf
    <3>2. \A f, g : IsFunction(Updated(f, g))
        BY DEF IsFunction, Updated
    <3> QED BY <3>1, <3>2 DEF DictionariesInv
  <2>2. CASE config' = [config EXCEPT ![r] = files.config.entries]
      BY <2>2 DEF DictionariesInv
  <2> QED BY <2>1, <2>2, ConfigSteps
<1>2. IsFunction(files'.config.entries)
    BY WrittenConfig DEF IsFunction, Empty
<1>3. data' = [q \in Runs |-> data'[q]]
    BY DEF Process, LoadAccount, ReadAccounts, OpenAccounts, StoreAccounts, ReadConfig, Skip,
           CannotBuild, FetchPrice, Submit, Receive, ReceiveIf, NoAddresses, Finish, OpenFile,
           WriteFile
<1>4. keys' = [q \in Runs |-> keys'[q]]
    BY DEF Process, LoadAccount, HasAccount, ReadAccounts, OpenAccounts, StoreAccounts,
           ReadConfig, Skip, CannotBuild, FetchPrice, Submit, Receive, ReceiveIf, NoAddresses,
           Finish, OpenFile, WriteFile
<1>5. ideal' = [accounts |-> ideal'.accounts, config |-> ideal'.config] /\ IsFunction(ideal'.config)
  <2>1. CASE StoreAccounts(r)
    <3>1. ideal' = [accounts |-> Append(ideal.accounts, <<r, Len(keys[r]) + 1>>),
                    config |-> ideal.config]
        BY <2>1 DEF StoreAccounts
    <3> QED BY <3>1
  <2>2. CASE WriteFile(r)
    <3> DEFINE new == Updated(ideal.config, [k \in Own(r) |-> config[r][k]])
    <3>1. IsFunction(new)
        BY DEF IsFunction, Updated
    <3> HIDE DEF new
    <3>2. ideal' = ideal \/ ideal' = [accounts |-> ideal.accounts, config |-> new]
        BY <2>2 DEF WriteFile, new
    <3> QED BY <3>1, <3>2
  <2>3. CASE UNCHANGED ideal
      BY <2>3
  <2> QED BY <2>1, <2>2, <2>3
      DEF Process, LoadAccount, ReadAccounts, OpenAccounts, ReadConfig, Skip,
          CannotBuild, FetchPrice, Submit, Receive, ReceiveIf, NoAddresses, Finish, OpenFile
<1> QED BY <1>1, <1>2, <1>3, <1>4, <1>5

\* The network, users and time leave the files alone.
LEMMA StillSerial ==
    ASSUME SerialInv,
           UNCHANGED <<plan, files, pc, at, keys, data, config, ideal, overlap>>
    PROVE  SerialInv'
<1>1. \A r, f : Holds(r, f)' = Holds(r, f)
    BY DEF Holds
<1>2. \A r : WritesConfig(r)' = WritesConfig(r) /\ Own(r)' = Own(r)
    BY DEF WritesConfig, SavedFile, Saves, Steps, Own
<1>3. FunctionsInv'
    BY DEF SerialInv, FunctionsInv
<1>4. AccountsInv'
    BY <1>1 DEF SerialInv, AccountsInv, AtMostOne
<1>5. ConfigInv'
    BY <1>1, <1>2 DEF SerialInv, ConfigInv, AtMostOne
<1> QED BY <1>3, <1>4, <1>5 DEF SerialInv

\* A stop that leaves a file truncated is noted in overlap.
LEMMA OperatorSerial ==
    ASSUME ControlInv, SerialInv, Operator PROVE SerialInv'
<1> USE DEF SerialInv
<1>1. PICK r \in Runs :
        (Start(r) \/ Funded(r) \/ Stop(r)) /\ Noted
        /\ UNCHANGED <<plan, files, at, keys, data, config, ideal>>
    BY DEF Operator, Start, Funded, Stop
<1>2. \A q \in Runs : q # r => pc'[q] = pc[q]
    BY <1>1 DEF Start, Funded, Stop, Goes, ControlInv, ProcessInv
<1>3. \/ pc[r] = "off" /\ pc'[r] = "account"
      \/ pc[r] = "funding" /\ pc'[r] = "running"
      \/ pc[r] # "off" /\ pc'[r] = "ended"
    BY <1>1 DEF Start, Funded, Stop, Goes, ControlInv, ProcessInv
<1>4. FunctionsInv'
    BY <1>1 DEF FunctionsInv
<1>5. AccountsInv'
  <2> SUFFICES ASSUME "accounts" \notin overlap' PROVE AccountsInv'
      BY DEF AccountsInv
  <2>1. AtMostOne("accounts")' /\ "accounts" \notin overlap
      BY <1>1, NotedFacts DEF AtMostOne
  <2>2. pc[r] # "storing"
    <3>1. pc[r] = "storing" => Writing(r, "accounts") /\ pc'[r] = "ended"
        BY <1>3 DEF Writing
    <3>2. pc[r] = "storing" => ~ files'.accounts.whole
        BY <1>1, <2>1 DEF AccountsInv
    <3>3. pc[r] = "storing" => files'["accounts"].whole
        BY <1>1, <3>1, NotedFacts
    <3> QED BY <3>2, <3>3
  <2> QED BY <1>1, <1>2, <1>3, <2>1, <2>2 DEF AccountsInv
<1>6. ConfigInv'
  <2> SUFFICES ASSUME "config" \notin overlap' PROVE ConfigInv'
      BY DEF ConfigInv
  <2>1. AtMostOne("config")' /\ "config" \notin overlap
      BY <1>1, NotedFacts DEF AtMostOne
  <2>2. ~ WritesConfig(r) /\ ~ WritesConfig(r)'
    <3>1. WritesConfig(r) => Writing(r, "config") /\ pc'[r] = "ended"
        BY <1>3 DEF Writing, WritesConfig
    <3>2. WritesConfig(r) => ~ files'.config.whole
        BY <1>1, <2>1 DEF ConfigInv
    <3>3. WritesConfig(r) => files'["config"].whole
        BY <1>1, <2>1, <3>1, NotedFacts
    <3>4. ~ WritesConfig(r)'
        BY <1>3 DEF WritesConfig
    <3> QED BY <3>2, <3>3, <3>4
  <2>3. \A q \in Runs : /\ q # r => WritesConfig(q)' = WritesConfig(q)
                        /\ Holds(q, "config")' => Holds(q, "config")
                        /\ Own(q)' = Own(q)
      BY <1>1, <1>2, <1>3 DEF WritesConfig, SavedFile, Saves, Steps, Own, Holds
  <2> QED BY <1>1, <2>1, <2>2, <2>3 DEF ConfigInv
<1> QED BY <1>4, <1>5, <1>6

\* SerialInv is inductive relative to ControlInv and TraceInv.
LEMMA SerialStep ==
    ASSUME ControlInv, TraceInv, SerialInv, [Next]_vars PROVE SerialInv'
<1>1. CASE \E r \in Runs : Run(r)
    BY <1>1, ProcessFunctions, ProcessAccounts, ProcessConfig DEF Run, SerialInv, TraceInv
<1>2. CASE Operator
    BY <1>2, OperatorSerial
<1>3. CASE UNCHANGED <<plan, files, pc, at, keys, data, config, ideal, overlap>>
    BY <1>3, StillSerial
<1> QED BY <1>1, <1>2, <1>3 DEF Next, Network, Users, Time, vars, process, network

\* At first each file is as it would be.
LEMMA SerialInit == Init => SerialInv
<1> SUFFICES ASSUME Init PROVE SerialInv
    OBVIOUS
<1>1. PICK f \in ConfigFiles, a \in {<< >>, <<Owner>>} :
        /\ files = [accounts |-> IF a = << >> THEN Truncated(a) ELSE Whole(a),
                    config |-> Whole([k \in f |-> Given]), release |-> Truncated(Empty)]
        /\ ideal = [accounts |-> a, config |-> [k \in f |-> Given]]
    BY DEF Init
<1>2. /\ files.accounts.entries = ideal.accounts /\ files.config.entries = ideal.config
      /\ ideal.config = [k \in f |-> Given]
    BY <1>1 DEF Truncated, Whole
<1>3. FunctionsInv
    BY <1>1, <1>2 DEF Init, FunctionsInv, IsFunction, Empty
<1>4. AccountsInv /\ ConfigInv
    BY <1>2 DEF Init, AccountsInv, ConfigInv, AtMostOne, Holds, WritesConfig
<1> QED BY <1>3, <1>4 DEF SerialInv

\* SerialInv says more than SavesSerialize.
LEMMA SerialImplies == ControlInv /\ SerialInv => SavesSerialize
<1> SUFFICES ASSUME ControlInv, SerialInv, NEW f \in {"accounts", "config"}, f \notin overlap,
                    files[f].whole
             PROVE  files[f].entries = ideal[f]
    BY DEF SavesSerialize
<1>1. CASE f = "accounts"
    BY <1>1 DEF SerialInv, AccountsInv
<1>2. CASE f = "config"
    BY <1>2 DEF SerialInv, ConfigInv
<1> QED BY <1>1, <1>2

\* accounts.json and the config file lose nothing as long as no two runs are between reading
\* and writing one of them and none is stopped while it is truncated.
THEOREM OperationsSaves == Spec => []SavesSerialize
<1>1. Init => ControlInv /\ TraceInv /\ SerialInv
    BY ControlInit, TraceInit, SerialInit
<1>2. ControlInv /\ TraceInv /\ SerialInv /\ [Next]_vars
      => ControlInv' /\ TraceInv' /\ SerialInv'
    BY ControlStep, TraceStep, SerialStep
<1> QED BY <1>1, <1>2, SerialImplies, PTL DEF Spec

-----------------------------------------------------------------------------
(* The type invariant *)

BoundsInv ==
    /\ \A f \in {"accounts", "config", "release"} : files[f].whole \in BOOLEAN
    /\ ledger.badges \in 0 .. Badges
    /\ overlap \subseteq {"accounts", "config"} /\ stops \in 0 .. MaxStops

\* A file is whole or truncated.
LEMMA FilesWhole ==
    ASSUME ControlInv, FilesInv, FunctionsInv, BoundsInv, NEW r \in Runs, Process(r)
    PROVE  \A f \in {"accounts", "config", "release"} : files'[f].whole \in BOOLEAN
<1>1. \A e : Truncated(e).whole \in BOOLEAN /\ Whole(e).whole \in BOOLEAN
    BY DEF Truncated, Whole
<1>2. files'.config.whole \in BOOLEAN /\ files'.release.whole \in BOOLEAN
  <2>1. files.config.whole \in BOOLEAN /\ files.release.whole \in BOOLEAN
      BY DEF BoundsInv
  <2> QED BY <1>1, <2>1, FilesSteps
<1>3. files'.accounts.whole \in BOOLEAN
  <2>1. CASE OpenAccounts(r)
      BY <1>1, <2>1 DEF OpenAccounts, FilesInv
  <2>2. CASE StoreAccounts(r)
      BY <1>1, <2>2 DEF StoreAccounts, FilesInv
  <2>3. CASE ReadAccounts(r)
      BY <2>3 DEF ReadAccounts, BoundsInv
  <2>4. CASE ~ OpenAccounts(r) /\ ~ StoreAccounts(r) /\ ~ ReadAccounts(r)
    <3>1. files'.accounts = files.accounts
        BY <2>4, OtherAccounts
    <3> QED BY <3>1 DEF BoundsInv
  <2> QED BY <2>1, <2>2, <2>3, <2>4
<1> QED BY <1>2, <1>3

\* BoundsInv is inductive: the badges withdrawn are there.
LEMMA BoundsStep ==
    ASSUME ControlInv, TraceInv, SerialInv, BoundsInv, [Next]_vars PROVE BoundsInv'
<1> USE DEF TraceInv, SerialInv
<1>1. CASE \E r \in Runs : Run(r)
  <2>1. PICK r \in Runs : Process(r) /\ UNCHANGED <<ledger, stops>> /\ Noted
      BY <1>1 DEF Run
  <2>2. overlap' \subseteq {"accounts", "config"}
      BY <2>1 DEF Noted, BoundsInv
  <2> QED BY <2>1, <2>2, FilesWhole DEF BoundsInv
<1>2. CASE Network
  <2>1. PICK a \in DOMAIN txs : Commit(a) \/ Fail(a) \/ Expire(a)
      BY <1>2 DEF Network
  <2>2. UNCHANGED <<files, overlap>>
      BY <1>2 DEF Network
  <2>3. stops' \in 0 .. MaxStops
    <3>1. stops' = stops \/ (stops < MaxStops /\ stops' = stops + 1)
        BY <2>1 DEF Commit, Fail, Expire
    <3>2. MaxStops \in Nat /\ stops \in 0 .. MaxStops
        BY OperationsAssumption DEF BoundsInv
    <3> QED BY <3>1, <3>2
  <2>4. ledger'.badges \in 0 .. Badges
    <3>1. CASE Commit(a)
      <4>1. StepOf(a).proof \in Nat
        <5>1. PICK r \in Runs, i \in Nat \ {0} : a = <<r, i>>
            BY DEF ControlInv, NamesInv
        <5>2. r \in DOMAIN plan /\ i \in 1 .. Len(Steps(r))
            BY <5>1 DEF ControlInv, NamesInv
        <5> QED BY <5>1, <5>2, ScriptFacts DEF IsScript, StepOf, Steps
      <4>2. ledger'.badges \in {ledger.badges, ledger.badges - StepOf(a).proof}
          BY <3>1 DEF Commit
      <4>3. StepOf(a).proof <= ledger.badges
          BY <3>1 DEF Commit, CanCommit
      <4> QED BY <4>1, <4>2, <4>3, OperationsAssumption DEF BoundsInv
    <3>2. CASE ~ Commit(a)
        BY <2>1, <3>2 DEF Fail, Expire, BoundsInv
    <3> QED BY <3>1, <3>2
  <2> QED BY <2>2, <2>3, <2>4 DEF BoundsInv
<1>3. CASE Operator
  <2>1. UNCHANGED <<files, ledger>> /\ Noted
      BY <1>3 DEF Operator, Start, Funded, Stop
  <2>2. stops' \in 0 .. MaxStops
      BY <1>3, OperationsAssumption DEF Operator, Stop, BoundsInv
  <2>3. overlap' \subseteq {"accounts", "config"}
      BY <2>1 DEF Noted, BoundsInv
  <2> QED BY <2>1, <2>2, <2>3 DEF BoundsInv
<1>4. CASE UNCHANGED <<files, ledger, overlap, stops>>
    BY <1>4 DEF BoundsInv
<1> QED BY <1>1, <1>2, <1>3, <1>4 DEF Next, Users, Time, vars, process, network

\* TypeOK follows from the invariants above.
LEMMA TypeFollows == ControlInv /\ TraceInv /\ BoundsInv => TypeOK
<1> SUFFICES ASSUME ControlInv, TraceInv, BoundsInv PROVE TypeOK
    OBVIOUS
<1>1. \A f : Entries(f, txs, plan) => Dictionary(f)
    BY DEF Entries, MadeFor, Dictionary
<1>2. Dictionary(files.config.entries) /\ Dictionary(files.release.entries)
    BY <1>1 DEF TraceInv, FilesInv
<1>3. Dictionary(ledger.registry) /\ Dictionary(ledger.claimed)
    BY <1>1 DEF TraceInv, LedgerInv, Variables, Dictionary
<1>4. plan \in Plans /\ DOMAIN plan \subseteq Runs
    BY OperationsAssumption DEF ControlInv
<1>5. \A r \in Runs :
          /\ pc[r] \in Places /\ (pc[r] # "off" => r \in DOMAIN plan)
          /\ at[r] \in Nat \ {0} /\ Dictionary(config[r])
          /\ pc[r] = "awaiting" => Current(r) \in DOMAIN txs
    BY <1>1 DEF ControlInv, ProcessInv, TraceInv, DictionariesInv
<1>6. \A a \in DOMAIN txs :
          /\ a[1] \in DOMAIN plan /\ a[2] \in DOMAIN Steps(a[1])
          /\ txs[a].status \in Statuses /\ Dictionary(txs[a].uses)
    BY <1>1 DEF ControlInv, NamesInv, TraceInv, UsesInv
<1> QED BY <1>2, <1>3, <1>4, <1>5, <1>6 DEF TypeOK, BoundsInv

\* The variables have their types, for any set of runs and scripts.
THEOREM OperationsType == Spec => []TypeOK
<1>1. Init => ControlInv /\ TraceInv /\ SerialInv /\ BoundsInv
  <2>1. Init => BoundsInv
    <3> SUFFICES ASSUME Init PROVE BoundsInv
        OBVIOUS
    <3>1. \A f \in {"accounts", "config", "release"} : files[f].whole \in BOOLEAN
      <4>1. \A e : Truncated(e).whole \in BOOLEAN /\ Whole(e).whole \in BOOLEAN
          BY DEF Truncated, Whole
      <4>2. PICK f \in ConfigFiles, a \in {<< >>, <<Owner>>} :
                files = [accounts |-> IF a = << >> THEN Truncated(a) ELSE Whole(a),
                         config |-> Whole([k \in f |-> Given]), release |-> Truncated(Empty)]
          BY DEF Init
      <4> QED BY <4>1, <4>2
    <3>2. ledger.badges \in 0 .. Badges /\ overlap = {} /\ stops \in 0 .. MaxStops
        BY OperationsAssumption DEF Init
    <3> QED BY <3>1, <3>2 DEF BoundsInv
  <2> QED BY <2>1, ControlInit, TraceInit, SerialInit
<1>2. ControlInv /\ TraceInv /\ SerialInv /\ BoundsInv /\ [Next]_vars
      => ControlInv' /\ TraceInv' /\ SerialInv' /\ BoundsInv'
    BY ControlStep, TraceStep, SerialStep, BoundsStep
<1> QED BY <1>1, <1>2, TypeFollows, PTL DEF Spec
=============================================================================
