------------------------- MODULE Deployment_proofs -------------------------
(***************************************************************************)
(* What the deployment records fits together (Wired), is complete when it  *)
(* says so (CompleteIsWhole), is not forgotten (NothingForgotten) and not  *)
(* created more often than runs were stopped (NothingTwice), for every     *)
(* list of steps that satisfies DeploymentAssumption and any number of     *)
(* interrupted, failed and killed runs.                                    *)
(***************************************************************************)
EXTENDS Deployment, SequenceTheorems, FiniteSetTheorems, TLAPS

(***************************************************************************)
(* The definitions of Deployment with the network and the transactions as  *)
(* parameters, so that lemmas speak of a state and of its successor alike. *)
(***************************************************************************)
FitsIn(f, n, t, a) ==
    \A d \in Steps[n][t[a].step].needs \cup Steps[n][t[a].step].imports :
        d \in DOMAIN t[a].uses /\ d \in DOMAIN f /\ t[a].uses[d] = f[d]

SoundIn(f, n, t) ==
    \A k \in DOMAIN f : f[k] # Given =>
        /\ f[k] \in DOMAIN t /\ t[f[k]].status = "committed"
        /\ k \in Steps[n][t[f[k]].step].keys
        /\ FitsIn(f, n, t, f[k])

\* The keys of a step are recorded together.
TogetherIn(f, n) ==
    \A i \in StepsOf(n) : \A k \in Steps[n][i].keys :
        k \in DOMAIN f => Steps[n][i].keys \subseteq DOMAIN f

\* Transactions are added and decided, never changed otherwise.
Grows(t, u) ==
    \A a \in DOMAIN t : /\ a \in DOMAIN u
                        /\ u[a].step = t[a].step /\ u[a].uses = t[a].uses
                        /\ t[a].status # "pending" => u[a].status = t[a].status

Extends(f, g) == \A k \in DOMAIN g : k \in DOMAIN f /\ f[k] = g[k]

Tx(U) == [step : Nat, uses : U, status : Statuses]

TxsInv == \E U : txs \in Seq(Tx(U))

DictionaryInv(f) == SoundIn(f, network, txs) /\ TogetherIn(f, network)

\* The steps behind main are recorded, and exported to the builds.
ProgressInv ==
    /\ at \in Nat \ {0}
    /\ \A j \in StepsOf(network) : j < at =>
        /\ Steps[network][j].keys \subseteq DOMAIN config
        /\ Steps[network][j].exports \subseteq DOMAIN envs
    /\ Extends(config, envs)
    /\ CompleteIsWhole

\* The awaited transaction is the one of the current step, built from what is recorded.
AwaitInv ==
    phase = "awaiting" =>
        /\ intent \in DOMAIN txs /\ intent \in Nat \ {0}
        /\ at \in StepsOf(network) /\ txs[intent].step = at
        /\ FitsIn(config, network, txs, intent)
        /\ ~ Recorded(Steps[network][at], config)

\* While the process is on it knows what is kept, and truncates one file at a time.
SaveInv ==
    /\ phase # "off" => Extends(config, Kept) /\ (file.whole <=> phase # "writing")
    /\ phase \in {"copied", "writing"} => release = Whole(config)

IInv ==
    /\ network \in Networks
    /\ TxsInv
    /\ DictionaryInv(config)
    /\ DictionaryInv(file.entries)
    /\ DictionaryInv(release.entries)
    /\ ProgressInv
    /\ AwaitInv
    /\ SaveInv

-----------------------------------------------------------------------------
\* Sound of Deployment is SoundIn of the current state.
LEMMA SoundIsSoundIn ==
    ASSUME NEW f PROVE Sound(f) <=> SoundIn(f, network, txs)
BY DEF Sound, SoundIn, WiredIn, Fits, FitsIn

\* A dictionary stays sound when transactions are added or decided.
LEMMA SoundStable ==
    ASSUME NEW f, NEW n, NEW t, NEW u, Grows(t, u), SoundIn(f, n, t)
    PROVE  SoundIn(f, n, u)
<1> SUFFICES ASSUME NEW k \in DOMAIN f, f[k] # Given
             PROVE  /\ f[k] \in DOMAIN u /\ u[f[k]].status = "committed"
                    /\ k \in Steps[n][u[f[k]].step].keys
                    /\ FitsIn(f, n, u, f[k])
    BY DEF SoundIn
<1>1. /\ f[k] \in DOMAIN t /\ t[f[k]].status = "committed"
      /\ k \in Steps[n][t[f[k]].step].keys
      /\ FitsIn(f, n, t, f[k])
    BY DEF SoundIn
<1>2. /\ f[k] \in DOMAIN u
      /\ u[f[k]].step = t[f[k]].step /\ u[f[k]].uses = t[f[k]].uses
      /\ u[f[k]].status = "committed"
    BY <1>1 DEF Grows
<1> QED BY <1>1, <1>2 DEF FitsIn

\* What submitting and deciding a transaction do to the ledger.
LEMMA AppendGrows ==
    ASSUME NEW U, NEW t \in Seq(Tx(U)), NEW v, NEW x \in Tx({v})
    PROVE  /\ Append(t, x) \in Seq(Tx(U \cup {v}))
           /\ Grows(t, Append(t, x))
           /\ Len(t) + 1 \in DOMAIN Append(t, x) /\ Len(t) + 1 \in Nat \ {0}
           /\ Append(t, x)[Len(t) + 1] = x
<1>1. Tx(U) \subseteq Tx(U \cup {v}) /\ x \in Tx(U \cup {v})
    BY DEF Tx
<1>2. t \in Seq(Tx(U \cup {v}))
    BY <1>1, SeqMonotonic
<1>3. /\ Append(t, x) \in Seq(Tx(U \cup {v}))
      /\ Len(t) \in Nat
      /\ DOMAIN t = 1 .. Len(t)
      /\ DOMAIN Append(t, x) = 1 .. (Len(t) + 1)
      /\ \A a \in 1 .. Len(t) : Append(t, x)[a] = t[a]
      /\ Append(t, x)[Len(t) + 1] = x
    BY <1>1, <1>2
<1> QED BY <1>3 DEF Grows

LEMMA DecideGrows ==
    ASSUME NEW U, NEW t \in Seq(Tx(U)), NEW a \in DOMAIN t, NEW s \in Statuses,
           t[a].status = "pending"
    PROVE  /\ [t EXCEPT ![a].status = s] \in Seq(Tx(U))
           /\ Grows(t, [t EXCEPT ![a].status = s])
<1>1. \A b \in DOMAIN t : t[b] \in Tx(U)
    OBVIOUS
<1>2. [t[a] EXCEPT !.status = s] \in Tx(U)
    BY <1>1 DEF Tx
<1>3. [t EXCEPT ![a].status = s] \in Seq(Tx(U))
    BY <1>2
<1> QED BY <1>1, <1>3 DEF Grows, Tx

(***************************************************************************)
(* Recording a step: nothing of it was recorded before (its keys are       *)
(* recorded together and its guard is missing), so that no entry another   *)
(* entity was created with is overwritten.                                 *)
(***************************************************************************)
LEMMA RecordKeeps ==
    ASSUME NEW n \in Networks, NEW i \in StepsOf(n), NEW f, NEW t, NEW a,
           SoundIn(f, n, t), TogetherIn(f, n), ~ Recorded(Steps[n][i], f),
           a \in DOMAIN t, t[a].status = "committed", t[a].step = i, FitsIn(f, n, t, a),
           NEW g, DOMAIN g = DOMAIN f \cup Steps[n][i].keys,
           \A k \in DOMAIN g : g[k] = IF k \in Steps[n][i].keys THEN a ELSE f[k]
    PROVE  /\ SoundIn(g, n, t) /\ TogetherIn(g, n) /\ Extends(g, f)
           /\ Steps[n][i].keys \subseteq DOMAIN g
<1> DEFINE s == Steps[n][i]
<1>1. \A k \in s.keys : k \notin DOMAIN f
    BY DeploymentAssumption DEF TogetherIn, Recorded
<1>2. /\ DOMAIN g = DOMAIN f \cup s.keys
      /\ \A k \in s.keys : g[k] = a
      /\ \A k \in DOMAIN f : g[k] = f[k]
    BY <1>1
<1>3. Extends(g, f)
    BY <1>2 DEF Extends
<1>4. \A b : FitsIn(f, n, t, b) => FitsIn(g, n, t, b)
    BY <1>2 DEF FitsIn
<1>5. SoundIn(g, n, t)
    BY <1>2, <1>4 DEF SoundIn
<1>6. TogetherIn(g, n)
    BY <1>2, DeploymentAssumption DEF TogetherIn
<1> QED BY <1>2, <1>3, <1>5, <1>6

\* A step whose guard is recorded is recorded with all its keys.
LEMMA RecordedWhole ==
    ASSUME NEW n \in Networks, NEW i \in StepsOf(n), NEW f, TogetherIn(f, n),
           Recorded(Steps[n][i], f)
    PROVE  Steps[n][i].keys \subseteq DOMAIN f
BY DeploymentAssumption DEF TogetherIn, Recorded

\* The empty dictionary, and one of hand-written entries only, are sound.
LEMMA GivenSound ==
    ASSUME NEW n \in Networks, NEW t, NEW given \in {{}, HandWritten[n]}
    PROVE  /\ SoundIn([k \in given |-> Given], n, t)
           /\ TogetherIn([k \in given |-> Given], n)
<1>1. SoundIn([k \in given |-> Given], n, t)
    BY DEF SoundIn
<1>2. TogetherIn([k \in given |-> Given], n)
    BY DeploymentAssumption DEF TogetherIn
<1> QED BY <1>1, <1>2

\* The dictionaries stay as they are while the ledger grows.
LEMMA DictionariesStay ==
    ASSUME NEW f, DictionaryInv(f), Grows(txs, txs'), network' = network
    PROVE  SoundIn(f, network', txs') /\ TogetherIn(f, network')
BY SoundStable DEF DictionaryInv

-----------------------------------------------------------------------------
LEMMA InitInv == Init => IInv
<1> SUFFICES ASSUME Init PROVE IInv
    OBVIOUS
<1>1. TxsInv
    BY DEF Init, TxsInv
<1>2. PICK given \in {{}, HandWritten[network]} : file = Whole([k \in given |-> Given])
    BY DEF Init
<1>3. file.entries = [k \in given |-> Given] /\ file.whole
    BY <1>2 DEF Whole
<1>4. DictionaryInv(file.entries)
    BY <1>3, GivenSound DEF Init, DictionaryInv
<1>5. Empty = [k \in {} |-> Given] /\ {} \in {{}, HandWritten[network]}
    BY DEF Empty
<1>6. SoundIn(Empty, network, txs) /\ TogetherIn(Empty, network)
    BY <1>5, GivenSound DEF Init
<1>7. DictionaryInv(config) /\ DictionaryInv(release.entries)
    BY <1>6 DEF Init, DictionaryInv, Whole
<1>8. ProgressInv
    BY DeploymentAssumption DEF Init, ProgressInv, CompleteIsWhole, Extends, Empty, StepsOf
<1> QED BY <1>1, <1>4, <1>7, <1>8 DEF Init, IInv, AwaitInv, SaveInv

\* The awaited transaction of a submission fits: what it names is recorded, what it
\* compiles was exported by a step before.
LEMMA SubmitFits ==
    ASSUME IInv, at \in StepsOf(network), Current.needs \subseteq DOMAIN config
    PROVE  /\ Uses(Current, config, envs) =
                  [k \in Current.needs \cup Current.imports |-> config[k]]
           /\ Current.needs \cup Current.imports \subseteq DOMAIN config
<1>1. Current.imports \subseteq DOMAIN envs
    <2> SUFFICES ASSUME NEW k \in Current.imports PROVE k \in DOMAIN envs
        OBVIOUS
    <2>1. PICK j \in 1 .. (at - 1) : k \in Steps[network][j].exports
        BY DeploymentAssumption DEF Current, IInv
    <2>2. j \in StepsOf(network) /\ j < at
        BY DeploymentAssumption DEF StepsOf, IInv
    <2> QED BY <2>1, <2>2 DEF IInv, ProgressInv
<1>2. \A k \in DOMAIN envs : k \in DOMAIN config /\ envs[k] = config[k]
    BY DEF IInv, ProgressInv, Extends
<1> QED BY <1>1, <1>2 DEF Uses

LEMMA StartStep ==
    ASSUME IInv, Start PROVE IInv'
<1>1. network' \in Networks /\ TxsInv' /\ DictionaryInv(config)'
      /\ DictionaryInv(file.entries)' /\ DictionaryInv(release.entries)'
    BY DEF IInv, Start, TxsInv, DictionaryInv
<1>2. ProgressInv'
    BY DeploymentAssumption DEF IInv, Start, ProgressInv, CompleteIsWhole, Extends, Empty, StepsOf
<1>3. AwaitInv'
    BY DEF Start, AwaitInv
<1>4. SaveInv'
    BY DEF Start, SaveInv, Extends, Kept
<1> QED BY <1>1, <1>2, <1>3, <1>4 DEF IInv

LEMMA SubmitStep ==
    ASSUME IInv, Submit PROVE IInv'
<1> DEFINE v == Uses(Current, config, envs)
           x == [step |-> at, uses |-> v, status |-> "pending"]
<1>1. at \in StepsOf(network) /\ at \in Nat
    BY DeploymentAssumption DEF IInv, Submit, ProgressInv, StepsOf
<1>2. PICK U : txs \in Seq(Tx(U))
    BY DEF IInv, TxsInv
<1>3. txs' = Append(txs, x) /\ intent' = Len(txs) + 1
      /\ UNCHANGED <<network, file, release, config, envs, at, finished>>
    BY DEF Submit
<1>4. /\ txs' \in Seq(Tx(U \cup {v})) /\ Grows(txs, txs')
      /\ intent' \in DOMAIN txs' /\ intent' \in Nat \ {0} /\ txs'[intent'] = x
    <2>1. x \in Tx({v})
        BY <1>1 DEF Tx, Statuses
    <2> HIDE DEF v, x
    <2> QED BY <1>2, <1>3, <2>1, AppendGrows
<1>5. TxsInv'
    BY <1>4 DEF TxsInv
<1>6. DictionaryInv(config)' /\ DictionaryInv(file.entries)' /\ DictionaryInv(release.entries)'
    BY <1>3, <1>4, DictionariesStay DEF IInv, DictionaryInv
<1>7. ProgressInv'
    BY <1>3 DEF IInv, ProgressInv, CompleteIsWhole
<1>8. AwaitInv'
    <2>1. txs'[intent'].step = at /\ txs'[intent'].uses = v
        BY <1>4
    <2>2. FitsIn(config, network, txs', intent')
        BY <1>1, <2>1, SubmitFits DEF FitsIn, Submit, Current
    <2>3. ~ Recorded(Steps[network][at], config)
        BY DEF Submit, Current
    <2> QED BY <1>1, <1>3, <1>4, <2>1, <2>2, <2>3 DEF AwaitInv
<1>9. SaveInv'
    BY <1>3 DEF IInv, Submit, SaveInv, Kept
<1> QED BY <1>3, <1>5, <1>6, <1>7, <1>8, <1>9 DEF IInv

(***************************************************************************)
(* Skip and Record pass a step with a dictionary c that has all its keys   *)
(* and extends config.                                                     *)
(***************************************************************************)
LEMMA PassedStep ==
    ASSUME IInv, NEW c, SoundIn(c, network, txs), TogetherIn(c, network), Extends(c, config),
           at \in StepsOf(network), Current.keys \subseteq DOMAIN c,
           phase \in {"running", "awaiting"}, Passed(c),
           UNCHANGED <<network, file, release, txs, finished, stops>>
    PROVE  IInv'
<1>1. config' = c /\ at' = at + 1 /\ phase' = "running"
      /\ envs' = Updated(envs, [k \in Current.exports |-> c[k]])
    BY DEF Passed
<1>2. network' \in Networks /\ TxsInv' /\ DictionaryInv(config)'
      /\ DictionaryInv(file.entries)' /\ DictionaryInv(release.entries)'
    BY <1>1 DEF IInv, TxsInv, DictionaryInv
<1>3. DOMAIN config \subseteq DOMAIN c /\ \A k \in DOMAIN config : c[k] = config[k]
    BY DEF Extends
<1>4. ProgressInv'
    <2>1. at' \in Nat \ {0}
        BY <1>1 DEF IInv, ProgressInv
    <2>2. DOMAIN envs' = DOMAIN envs \cup Current.exports
        BY <1>1 DEF Updated
    <2>3. ASSUME NEW j \in StepsOf(network), j < at + 1
          PROVE  Steps[network][j].keys \subseteq DOMAIN c
                 /\ Steps[network][j].exports \subseteq DOMAIN envs'
        <3>1. j < at \/ j = at
            BY <2>3 DEF IInv, ProgressInv, StepsOf
        <3>2. CASE j < at
            BY <3>2, <1>3, <2>2 DEF IInv, ProgressInv
        <3>3. CASE j = at
            BY <3>3, <2>2 DEF Current
        <3> QED BY <3>1, <3>2, <3>3
    <2>4. Extends(c, envs')
        <3>1. Current.exports \subseteq DOMAIN c
            BY DeploymentAssumption DEF Current, IInv
        <3>2. \A k \in DOMAIN envs : k \in DOMAIN c /\ envs[k] = c[k]
            BY <1>3 DEF IInv, ProgressInv, Extends
        <3> QED BY <1>1, <2>2, <3>1, <3>2 DEF Extends, Updated
    <2>5. CompleteIsWhole'
        BY <1>1, <1>3 DEF IInv, ProgressInv, CompleteIsWhole
    <2> QED BY <1>1, <2>1, <2>3, <2>4, <2>5 DEF ProgressInv
<1>5. AwaitInv'
    BY <1>1 DEF AwaitInv
<1>6. SaveInv'
    BY <1>1, <1>3 DEF IInv, SaveInv, Kept, Extends
<1> QED BY <1>2, <1>4, <1>5, <1>6 DEF IInv

LEMMA SkipStep ==
    ASSUME IInv, Skip PROVE IInv'
<1>1. at \in StepsOf(network)
    BY DeploymentAssumption DEF IInv, Skip, ProgressInv, StepsOf
<1>2. Current.keys \subseteq DOMAIN config
    BY <1>1, RecordedWhole DEF IInv, Skip, Current, DictionaryInv
<1>3. SoundIn(config, network, txs) /\ TogetherIn(config, network) /\ Extends(config, config)
    BY DEF IInv, DictionaryInv, Extends
<1> QED BY <1>1, <1>2, <1>3, PassedStep DEF Skip

LEMMA RecordStep ==
    ASSUME IInv, Record PROVE IInv'
<1> DEFINE c == Updated(config, [k \in Current.keys |-> intent])
<1>1. /\ at \in StepsOf(network) /\ network \in Networks
      /\ intent \in DOMAIN txs /\ txs[intent].status = "committed" /\ txs[intent].step = at
      /\ FitsIn(config, network, txs, intent)
      /\ ~ Recorded(Steps[network][at], config)
    BY DEF IInv, Record, AwaitInv
<1>2. SoundIn(config, network, txs) /\ TogetherIn(config, network)
    BY DEF IInv, DictionaryInv
<1>3. /\ SoundIn(c, network, txs) /\ TogetherIn(c, network) /\ Extends(c, config)
      /\ Current.keys \subseteq DOMAIN c
    <2>1. /\ DOMAIN c = DOMAIN config \cup Steps[network][at].keys
          /\ \A k \in DOMAIN c :
                c[k] = IF k \in Steps[network][at].keys THEN intent ELSE config[k]
        BY DEF Current, Updated
    <2> HIDE DEF c
    <2> QED BY <1>1, <1>2, <2>1, RecordKeeps DEF Current
<1> QED BY <1>1, <1>3, PassedStep DEF Record

\* The run goes to its finally block.
LEMMA EndsStep ==
    ASSUME IInv, Ends, phase \in {"running", "awaiting"}, CompleteIsWhole'
    PROVE  IInv'
<1>1. network' \in Networks /\ TxsInv' /\ DictionaryInv(config)'
      /\ DictionaryInv(file.entries)' /\ DictionaryInv(release.entries)'
    BY DEF IInv, Ends, TxsInv, DictionaryInv
<1>2. ProgressInv'
    BY DEF IInv, Ends, ProgressInv
<1>3. AwaitInv' /\ SaveInv'
    BY DEF IInv, Ends, AwaitInv, SaveInv, Kept
<1> QED BY <1>1, <1>2, <1>3 DEF IInv

LEMMA EndingSteps ==
    ASSUME IInv, Complete \/ MissingToken \/ NoAddresses \/ Raise PROVE IInv'
<1>1. Ends /\ phase \in {"running", "awaiting"}
    BY DEF Complete, MissingToken, NoAddresses, Raise
<1>2. CASE Complete
    <2>1. \A i \in StepsOf(network) : i < at
        BY <1>2, DeploymentAssumption DEF Complete, IInv, ProgressInv, StepsOf
    <2>2. CompleteIsWhole'
        BY <1>1, <2>1 DEF Ends, CompleteIsWhole, IInv, ProgressInv
    <2> QED BY <1>1, <2>2, EndsStep
<1>3. CASE MissingToken \/ NoAddresses \/ Raise
    <2>1. CompleteIsWhole'
        BY <1>1, <1>3 DEF Ends, MissingToken, NoAddresses, Raise, CompleteIsWhole, IInv, ProgressInv
    <2> QED BY <1>1, <2>1, EndsStep
<1> QED BY <1>2, <1>3

LEMMA SaveStep ==
    ASSUME IInv, SaveFiles PROVE IInv'
<1>1. UNCHANGED <<network, txs, config, envs, at, intent, finished>>
    BY DEF SaveFiles
<1>2. TxsInv' /\ DictionaryInv(config)' /\ ProgressInv'
    BY <1>1 DEF IInv, TxsInv, DictionaryInv, ProgressInv, CompleteIsWhole
<1>3. \A f \in {config, Empty, file.entries, release.entries} :
          SoundIn(f, network, txs) /\ TogetherIn(f, network)
    <2>1. Empty = [k \in {} |-> Given] /\ {} \in {{}, HandWritten[network]}
        BY DEF Empty
    <2> QED BY <2>1, GivenSound DEF IInv, DictionaryInv
<1>4. /\ file'.entries \in {config, Empty, file.entries}
      /\ release'.entries \in {config, Empty, release.entries}
    BY DEF SaveFiles, Save, Whole, Truncated
<1>5. DictionaryInv(file.entries)' /\ DictionaryInv(release.entries)'
    BY <1>1, <1>3, <1>4 DEF DictionaryInv
<1>6. AwaitInv'
    BY DEF SaveFiles, Save, AwaitInv
<1>7. SaveInv'
    BY <1>1 DEF IInv, SaveFiles, Save, SaveInv, Kept, Whole, Truncated, Extends
<1> QED BY <1>1, <1>2, <1>5, <1>6, <1>7 DEF IInv

LEMMA KillStep ==
    ASSUME IInv, Kill PROVE IInv'
<1>1. network' \in Networks /\ TxsInv'
      /\ DictionaryInv(file.entries)' /\ DictionaryInv(release.entries)'
    BY DEF IInv, Kill, TxsInv, DictionaryInv
<1>2. Empty = [k \in {} |-> Given] /\ {} \in {{}, HandWritten[network]}
    BY DEF Empty
<1>3. DictionaryInv(config)'
    BY <1>2, GivenSound DEF IInv, Kill, DictionaryInv
<1>4. ProgressInv'
    BY DeploymentAssumption DEF IInv, Kill, ProgressInv, CompleteIsWhole, Extends, Empty, StepsOf
<1>5. AwaitInv' /\ SaveInv'
    BY DEF Kill, AwaitInv, SaveInv
<1> QED BY <1>1, <1>3, <1>4, <1>5 DEF IInv

LEMMA NetworkStep ==
    ASSUME IInv, Network PROVE IInv'
<1>1. PICK t \in DOMAIN txs, s \in Statuses \ {"pending"} : Decide(t, s)
    BY DEF Network
<1>2. PICK U : txs \in Seq(Tx(U))
    BY DEF IInv, TxsInv
<1>3. txs' = [txs EXCEPT ![t].status = s] /\ txs[t].status = "pending"
      /\ UNCHANGED <<network, file, release, phase, config, envs, at, intent, finished>>
    BY <1>1 DEF Decide, process
<1>4. txs' \in Seq(Tx(U)) /\ Grows(txs, txs')
    BY <1>2, <1>3, DecideGrows
<1>5. TxsInv'
    BY <1>4 DEF TxsInv
<1>6. DictionaryInv(config)' /\ DictionaryInv(file.entries)' /\ DictionaryInv(release.entries)'
    BY <1>3, <1>4, DictionariesStay DEF IInv, DictionaryInv
<1>7. ProgressInv' /\ SaveInv'
    BY <1>3 DEF IInv, ProgressInv, CompleteIsWhole, SaveInv, Kept
<1>8. AwaitInv'
    BY <1>3, <1>4 DEF IInv, AwaitInv, Grows, FitsIn
<1> QED BY <1>3, <1>5, <1>6, <1>7, <1>8 DEF IInv

LEMMA StepInv == IInv /\ [Next]_vars => IInv'
<1> SUFFICES ASSUME IInv, [Next]_vars PROVE IInv'
    OBVIOUS
<1>1. CASE UNCHANGED vars
    BY <1>1 DEF vars, process, IInv, TxsInv, DictionaryInv, ProgressInv, CompleteIsWhole,
                AwaitInv, SaveInv, Kept
<1>2. CASE Start
    BY <1>2, StartStep
<1>3. CASE Submit
    BY <1>3, SubmitStep
<1>4. CASE Skip
    BY <1>4, SkipStep
<1>5. CASE Record
    BY <1>5, RecordStep
<1>6. CASE Complete \/ MissingToken \/ NoAddresses \/ Raise
    BY <1>6, EndingSteps
<1>7. CASE SaveFiles
    BY <1>7, SaveStep
<1>8. CASE Kill
    BY <1>8, KillStep
<1>9. CASE Network
    BY <1>9, NetworkStep
<1> QED BY <1>1, <1>2, <1>3, <1>4, <1>5, <1>6, <1>7, <1>8, <1>9 DEF Next, Script

LEMMA InvHolds == Spec => []IInv
BY InitInv, StepInv, PTL DEF Spec

-----------------------------------------------------------------------------
\* Whatever runs were interrupted, failed or killed, what is recorded fits together:
\* the tests `not in config_data` and envs.append never mix entities of two attempts.
THEOREM DeploymentWired == Spec => []Wired
<1>1. IInv => Wired
    BY SoundIsSoundIn DEF IInv, DictionaryInv, Wired
<1> QED BY <1>1, InvHolds, PTL

\* "DEPLOY ... COMPLETE" is printed only when every address is recorded.
THEOREM DeploymentComplete == Spec => []CompleteIsWhole
<1>1. IInv => CompleteIsWhole
    BY DEF IInv, ProgressInv
<1> QED BY <1>1, InvHolds, PTL

\* No saved entry is lost: the finally block truncates one file while the other is whole
\* and holds all there is.
THEOREM DeploymentRemembers == Spec => NothingForgotten
<1> DEFINE Keeps == \A k \in DOMAIN Kept : k \in DOMAIN Kept' /\ Kept'[k] = Kept[k]
<1>1. IInv /\ [Next]_vars => [Keeps]_vars
    <2> SUFFICES ASSUME IInv, Next PROVE Keeps
        OBVIOUS
    <2>1. CASE SaveFiles
        BY <2>1 DEF IInv, SaveInv, SaveFiles, Save, Kept, Whole, Truncated, Extends
    <2>2. CASE ~ SaveFiles
        <3>1. UNCHANGED <<file, release>>
            BY <2>2 DEF Next, Script, Start, Submit, Skip, Record, Complete, MissingToken,
                        NoAddresses, Ends, Raise, Kill, Network, Decide
        <3> QED BY <3>1 DEF Kept
    <2> QED BY <2>1, <2>2
<1> QED BY <1>1, InvHolds, PTL DEF Spec, NothingForgotten
-----------------------------------------------------------------------------
(* Types, and what a stop may cost.  NothingTwice counts all transactions   *)
(* of a step: one is allowed for each stop, and one that is not lost.       *)

\* Where the process is; it awaits a transaction only while it polls for one.
PhaseInv ==
    /\ phase \in Phases /\ finished \in BOOLEAN
    /\ (phase = "awaiting") <=> (intent # 0)

TypeInv ==
    /\ file.whole \in BOOLEAN /\ release.whole \in BOOLEAN
    /\ PhaseInv
    /\ at \in 1 .. (Len(Steps[network]) + 1)
    /\ stops \in 0 .. MaxStops
    /\ \A t \in DOMAIN txs : txs[t].step \in StepsOf(network)

\* What the script has recorded, or would find recorded.
Memory == IF phase = "off" THEN Kept ELSE config

\* What step i has created is recorded, or awaited and may be.
Held(i) ==
    \/ Steps[network][i].keys \subseteq DOMAIN Memory
    \/ phase = "awaiting" /\ at = i /\ txs[intent].status # "failed"

\* The transactions of step i.
Submitted(i) == {t \in DOMAIN txs : txs[t].step = i}

\* The strengthening of NothingTwice.
CountInv ==
    \A i \in StepsOf(network) :
        Cardinality(Submitted(i)) <= stops + (IF Held(i) THEN 1 ELSE 0)

\* They can be counted.
LEMMA SubmittedFinite ==
    ASSUME TxsInv, NEW i
    PROVE  IsFiniteSet(Submitted(i)) /\ Cardinality(Submitted(i)) \in Nat
<1>1. DOMAIN txs = 1 .. Len(txs) /\ Len(txs) \in Nat
    BY DEF TxsInv
<1>2. IsFiniteSet(1 .. Len(txs))
    BY <1>1, FS_Interval
<1>3. IsFiniteSet(Submitted(i))
    BY <1>1, <1>2, FS_Subset DEF Submitted
<1> QED BY <1>3, FS_CardinalityType

LEMMA TypeInit == Init => TypeInv
<1> SUFFICES ASSUME Init PROVE TypeInv
    OBVIOUS
<1>1. file.whole /\ release.whole
    BY DEF Init, Whole
<1>2. PhaseInv
    BY DEF Init, PhaseInv, Phases
<1>3. at \in 1 .. (Len(Steps[network]) + 1) /\ stops \in 0 .. MaxStops
    BY DeploymentAssumption DEF Init
<1>4. DOMAIN txs = {}
    BY DEF Init
<1> QED BY <1>1, <1>2, <1>3, <1>4 DEF TypeInv

\* A file is whole or not.
LEMMA FilesStep ==
    ASSUME IInv, TypeInv, [Next]_vars
    PROVE  file'.whole \in BOOLEAN /\ release'.whole \in BOOLEAN
<1>1. /\ file' \in {file, Truncated, Whole(config)}
      /\ release' \in {release, Truncated, Whole(config)}
    BY DEF Next, Script, vars, process, Start, Submit, Skip, Record, Complete, MissingToken,
           NoAddresses, Raise, Kill, Ends, Passed, Network, Decide, SaveFiles, Save
<1>2. Truncated.whole = FALSE /\ Whole(config).whole = TRUE
    BY DEF Truncated, Whole
<1>3. file.whole \in BOOLEAN /\ release.whole \in BOOLEAN
    BY DEF TypeInv
<1>4. file'.whole \in {file.whole, FALSE, TRUE} /\ release'.whole \in {release.whole, FALSE, TRUE}
    BY <1>1, <1>2
<1> QED BY <1>3, <1>4

\* The process moves between its phases.
LEMMA PhaseStep ==
    ASSUME IInv, TypeInv, [Next]_vars
    PROVE  PhaseInv'
<1> USE DEF PhaseInv, TypeInv, Phases
<1>1. CASE UNCHANGED vars \/ Network
    BY <1>1 DEF vars, process, Network, Decide
<1>2. CASE Submit
  <2>1. Len(txs) \in Nat
      BY DEF IInv, TxsInv
  <2>2. Len(txs) + 1 # 0
      BY <2>1
  <2> QED BY <1>2, <2>2 DEF Submit
<1>3. CASE Start \/ Kill \/ Skip \/ Record
    BY <1>3 DEF Start, Kill, Skip, Record, Passed
<1>4. CASE Complete \/ MissingToken \/ NoAddresses \/ Raise
    BY <1>4 DEF Complete, MissingToken, NoAddresses, Raise, Ends
<1>5. CASE SaveFiles
    BY <1>5 DEF SaveFiles, Save
<1> QED BY <1>1, <1>2, <1>3, <1>4, <1>5 DEF Next, Script

\* The program counter stays within the steps, the stops within their bound.
LEMMA TypeStep == IInv /\ TypeInv /\ [Next]_vars => TypeInv'
<1> SUFFICES ASSUME IInv, TypeInv, [Next]_vars PROVE TypeInv'
    OBVIOUS
<1>1. MaxStops \in Nat /\ Len(Steps[network]) \in Nat /\ network \in Networks /\ at \in Nat
    BY DeploymentAssumption DEF IInv, ProgressInv
<1>2. file'.whole \in BOOLEAN /\ release'.whole \in BOOLEAN /\ PhaseInv'
    BY FilesStep, PhaseStep
<1>3. network' = network
    BY DEF Next, Script, vars, process, Start, Submit, Skip, Record, Complete, MissingToken,
           NoAddresses, Raise, Kill, Ends, Passed, Network, Decide, SaveFiles, Save
<1>4. stops' \in 0 .. MaxStops
  <2>1. stops' = stops \/ (stops < MaxStops /\ stops' = stops + 1)
      BY DEF Next, Script, vars, process, Start, Submit, Skip, Record, Complete, MissingToken,
             NoAddresses, Raise, Kill, Ends, Passed, Network, Decide, SaveFiles, Save
  <2> QED BY <1>1, <2>1 DEF TypeInv
<1>5. at' \in 1 .. (Len(Steps[network]) + 1)
  <2>1. at' \in {at, 1} \/ (at <= Len(Steps[network]) /\ at' = at + 1)
    <3>1. CASE Record
        BY <1>1, <3>1 DEF Record, Passed, IInv, AwaitInv, StepsOf
    <3>2. CASE ~ Record
        BY <3>2 DEF Next, Script, vars, process, Start, Submit, Skip, Complete, MissingToken,
               NoAddresses, Raise, Kill, Ends, Passed, Network, Decide, SaveFiles, Save
    <3> QED BY <3>1, <3>2
  <2> QED BY <1>1, <2>1 DEF TypeInv
<1>6. \A t \in DOMAIN txs' : txs'[t].step \in StepsOf(network)
  <2>1. PICK U : txs \in Seq(Tx(U))
      BY DEF IInv, TxsInv
  <2>2. CASE Submit
    <3>1. at \in StepsOf(network)
        BY <1>1, <2>2 DEF Submit, TypeInv, StepsOf
    <3> QED BY <2>1, <2>2, <3>1 DEF Submit, TypeInv
  <2>3. CASE Network
    <3>1. PICK t \in DOMAIN txs, s \in Statuses : Decide(t, s)
        BY <2>3 DEF Network
    <3>2. txs' = [txs EXCEPT ![t].status = s] /\ \A a \in DOMAIN txs : txs[a] \in Tx(U)
        BY <2>1, <3>1 DEF Decide
    <3> QED BY <3>2 DEF TypeInv, Tx
  <2>4. CASE ~ (Submit \/ Network)
    <3>1. txs' = txs
        BY <2>4 DEF Next, Script, vars, process, Start, Skip, Record, Complete, MissingToken,
               NoAddresses, Raise, Kill, Ends, Passed, SaveFiles, Save
    <3> QED BY <3>1 DEF TypeInv
  <2> QED BY <2>2, <2>3, <2>4
<1> QED BY <1>2, <1>3, <1>4, <1>5, <1>6 DEF TypeInv, StepsOf

LEMMA CountInit == Init => CountInv
<1> SUFFICES ASSUME Init, NEW i \in StepsOf(network)
             PROVE  Cardinality(Submitted(i)) <= stops + (IF Held(i) THEN 1 ELSE 0)
    BY DEF CountInv
<1>1. Submitted(i) = {} /\ stops = 0
    BY DEF Init, Submitted
<1> QED BY <1>1, FS_EmptySet

\* Nothing is submitted, and what is lost costs a stop.
LEMMA CountKept ==
    ASSUME IInv, TypeInv, CountInv, network' = network,
           \A i \in StepsOf(network) : Submitted(i)' = Submitted(i),
           \/ stops' = stops /\ \A i \in StepsOf(network) : Held(i) => Held(i)'
           \/ stops' = stops + 1
    PROVE  CountInv'
<1> SUFFICES ASSUME NEW i \in StepsOf(network)
             PROVE  Cardinality(Submitted(i)') <= stops' + (IF Held(i)' THEN 1 ELSE 0)
    BY DEF CountInv
<1>1. Cardinality(Submitted(i)) \in Nat /\ stops \in Nat
    BY SubmittedFinite, DeploymentAssumption DEF IInv, TypeInv
<1>2. Cardinality(Submitted(i)) <= stops + (IF Held(i) THEN 1 ELSE 0)
    BY DEF CountInv
<1> HIDE DEF Held
<1> QED BY <1>1, <1>2

\* A step is submitted only when nothing of it is held.
LEMMA CountSubmit ==
    ASSUME IInv, TypeInv, CountInv, Submit
    PROVE  CountInv'
<1>1. at \in StepsOf(network) /\ network \in Networks /\ phase = "running" /\ network' = network
    BY DeploymentAssumption DEF IInv, Submit, ProgressInv, StepsOf
<1>2. ~ Steps[network][at].keys \subseteq DOMAIN config
    BY <1>1, DeploymentAssumption DEF Submit, Recorded, Current
<1>3. ~ Held(at)
    BY <1>1, <1>2 DEF Held, Memory
<1>4. Len(txs) \in Nat /\ DOMAIN txs = 1 .. Len(txs)
    BY DEF IInv, TxsInv
<1>5. /\ DOMAIN txs' = DOMAIN txs \cup {Len(txs) + 1} /\ intent' = Len(txs) + 1
      /\ \A t \in DOMAIN txs : txs'[t] = txs[t]
      /\ txs'[Len(txs) + 1].step = at /\ txs'[Len(txs) + 1].status = "pending"
    BY <1>4 DEF Submit, IInv, TxsInv
<1>6. phase' = "awaiting" /\ at' = at /\ config' = config /\ stops' = stops
    BY DEF Submit
<1> SUFFICES ASSUME NEW i \in StepsOf(network)
             PROVE  Cardinality(Submitted(i)') <= stops' + (IF Held(i)' THEN 1 ELSE 0)
    BY <1>1 DEF CountInv
<1>7. /\ Cardinality(Submitted(i)) \in Nat /\ IsFiniteSet(Submitted(i)) /\ stops \in Nat
      /\ Cardinality(Submitted(i)) <= stops + (IF Held(i) THEN 1 ELSE 0)
    BY SubmittedFinite, DeploymentAssumption DEF IInv, TypeInv, CountInv
<1>8. CASE i = at
  <2>1. Submitted(i)' = Submitted(i) \cup {Len(txs) + 1}
      BY <1>5, <1>8 DEF Submitted
  <2>2. /\ IsFiniteSet(Submitted(i) \cup {Len(txs) + 1})
        /\ \/ Cardinality(Submitted(i) \cup {Len(txs) + 1}) = Cardinality(Submitted(i))
           \/ Cardinality(Submitted(i) \cup {Len(txs) + 1}) = Cardinality(Submitted(i)) + 1
      BY <1>7, FS_AddElement
  <2>3. Cardinality(Submitted(i) \cup {Len(txs) + 1}) \in Nat
      BY <2>2, FS_CardinalityType
  <2>4. Held(i)'
      BY <1>5, <1>6, <1>8 DEF Held
  <2>5. Cardinality(Submitted(i)) <= stops
      BY <1>3, <1>7, <1>8
  <2> HIDE DEF Held
  <2> QED BY <1>6, <1>7, <2>1, <2>2, <2>3, <2>4, <2>5
<1>9. CASE i # at
  <2>1. Submitted(i)' = Submitted(i)
      BY <1>4, <1>5, <1>9 DEF Submitted
  <2>2. Held(i) => Held(i)'
      BY <1>1, <1>6, <1>9 DEF Held, Memory
  <2> HIDE DEF Held
  <2> QED BY <1>6, <1>7, <2>1, <2>2
<1> QED BY <1>8, <1>9

\* Only a stop or a failure, which is counted as one, loses what a step has created.
LEMMA CountStep == IInv /\ TypeInv /\ CountInv /\ [Next]_vars => CountInv'
<1> SUFFICES ASSUME IInv, TypeInv, CountInv, [Next]_vars PROVE CountInv'
    OBVIOUS
<1>1. ASSUME network' = network, txs' = txs
      PROVE  \A i \in StepsOf(network) : Submitted(i)' = Submitted(i)
    BY <1>1 DEF Submitted
<1>2. CASE UNCHANGED vars
  <2>1. \A i \in StepsOf(network) : Held(i) => Held(i)'
      BY <1>2 DEF vars, process, Held, Memory, Kept
  <2> QED BY <1>1, <1>2, <2>1, CountKept DEF vars, process
<1>3. CASE Start
  <2>1. \A i \in StepsOf(network) : Held(i) => Held(i)'
      BY <1>3 DEF Start, Held, Memory, Kept
  <2> QED BY <1>1, <1>3, <2>1, CountKept DEF Start
<1>4. CASE Submit
    BY <1>4, CountSubmit
<1>5. CASE Skip
  <2>1. \A i \in StepsOf(network) : Held(i) => Held(i)'
      BY <1>5 DEF Skip, Passed, Held, Memory
  <2> QED BY <1>1, <1>5, <2>1, CountKept DEF Skip
<1>6. CASE Record
  <2>1. /\ phase = "awaiting" /\ phase' = "running" /\ network' = network
        /\ config' = Updated(config, [k \in Current.keys |-> intent])
      BY <1>6 DEF Record, Passed
  <2>2. DOMAIN config' = DOMAIN config \cup Steps[network][at].keys
      BY <2>1 DEF Updated, Current
  <2>3. \A i \in StepsOf(network) : Held(i) => Held(i)'
      BY <2>1, <2>2 DEF Held, Memory
  <2> QED BY <1>1, <1>6, <2>3, CountKept DEF Record
<1>7. CASE Complete \/ MissingToken \/ NoAddresses
  <2>1. /\ phase' = "ending" /\ config' = config /\ network' = network /\ txs' = txs
        /\ stops' = stops
        /\ phase = "running" \/ (phase = "awaiting" /\ txs[intent].status = "failed")
      BY <1>7 DEF Complete, MissingToken, NoAddresses, Ends
  <2>2. \A i \in StepsOf(network) : Held(i) => Held(i)'
      BY <2>1 DEF Held, Memory
  <2> QED BY <1>1, <2>1, <2>2, CountKept
<1>8. CASE Raise \/ Kill
    BY <1>1, <1>8, CountKept DEF Raise, Kill, Ends
<1>9. CASE SaveFiles
  <2>1. /\ phase \in {"ending", "copying", "copied", "writing"} /\ phase' # "awaiting"
        /\ config' = config /\ network' = network /\ txs' = txs /\ stops' = stops
        /\ phase' = "off" => file' = Whole(config)
      BY <1>9 DEF SaveFiles, Save
  <2>2. Memory = config /\ DOMAIN Memory' = DOMAIN config
      BY <2>1 DEF Memory, Kept, Whole
  <2>3. \A i \in StepsOf(network) : Held(i) => Held(i)'
      BY <2>1, <2>2 DEF Held
  <2> QED BY <1>1, <2>1, <2>3, CountKept
<1>10. CASE Network
  <2>1. PICK t \in DOMAIN txs, s \in Statuses \ {"pending"} : Decide(t, s)
      BY <1>10 DEF Network
  <2>2. txs' = [txs EXCEPT ![t].status = s] /\ UNCHANGED <<network, file, release, process>>
      BY <2>1 DEF Decide
  <2>3. /\ DOMAIN txs' = DOMAIN txs
        /\ \A a \in DOMAIN txs : /\ txs'[a].step = txs[a].step
                                 /\ txs'[a].status = IF a = t THEN s ELSE txs[a].status
    <3>1. PICK U : txs \in Seq(Tx(U))
        BY DEF IInv, TxsInv
    <3>2. \A a \in DOMAIN txs : txs[a] \in Tx(U)
        BY <3>1
    <3> QED BY <2>2, <3>2 DEF Tx
  <2>4. \A i \in StepsOf(network) : Submitted(i)' = Submitted(i)
      BY <2>3 DEF Submitted
  <2>5. CASE s = "failed"
      BY <2>1, <2>2, <2>4, <2>5, CountKept DEF Decide
  <2>6. CASE s # "failed"
    <3>1. stops' = stops
        BY <2>1, <2>6 DEF Decide
    <3>2. phase = "awaiting" => intent \in DOMAIN txs
        BY DEF IInv, AwaitInv
    <3>3. \A i \in StepsOf(network) : Held(i) => Held(i)'
        BY <2>2, <2>3, <2>6, <3>2 DEF Held, Memory, Kept, process
    <3> QED BY <2>2, <2>4, <3>1, <3>3, CountKept
  <2> QED BY <2>5, <2>6
<1> QED BY <1>2, <1>3, <1>4, <1>5, <1>6, <1>7, <1>8, <1>9, <1>10 DEF Next, Script

\* However often the script is stopped and run again, a step is submitted once more than it
\* was stopped at most: what get_new_addresses has found is saved by the finally block.
THEOREM DeploymentOnce == Spec => []NothingTwice
<1>1. IInv /\ TypeInv /\ CountInv => NothingTwice
  <2> SUFFICES ASSUME IInv, TypeInv, CountInv, NEW i \in StepsOf(network)
               PROVE  Cardinality(Submitted(i)) <= 1 + stops
      BY DEF NothingTwice, Submitted
  <2>1. Cardinality(Submitted(i)) \in Nat /\ stops \in Nat
      BY SubmittedFinite, DeploymentAssumption DEF IInv, TypeInv
  <2>2. Cardinality(Submitted(i)) <= stops + (IF Held(i) THEN 1 ELSE 0)
      BY DEF CountInv
  <2> HIDE DEF Held
  <2> QED BY <2>1, <2>2
<1> QED BY <1>1, InvHolds, TypeInit, TypeStep, CountInit, CountStep, PTL DEF Spec

\* The variables have their types, for any steps and any number of stops.
THEOREM DeploymentType == Spec => []TypeOK
<1>1. IInv /\ TypeInv => TypeOK
  <2> SUFFICES ASSUME IInv, TypeInv PROVE TypeOK
      OBVIOUS
  <2>1. /\ Len(txs) \in Nat /\ DOMAIN txs = 1 .. Len(txs)
      BY DEF IInv, TxsInv
  <2>2. ASSUME NEW f, DictionaryInv(f) PROVE Dictionary(f)
    <3>1. \A k \in DOMAIN f : f[k] = Given \/ f[k] \in DOMAIN txs
        BY <2>2 DEF DictionaryInv, SoundIn
    <3> QED BY <2>1, <3>1 DEF Dictionary, Given
  <2>3. Dictionary(config) /\ Dictionary(file.entries) /\ Dictionary(release.entries)
      BY <2>2 DEF IInv
  <2>4. Dictionary(envs)
      BY <2>3 DEF IInv, ProgressInv, Extends, Dictionary
  <2>5. intent \in 0 .. Len(txs)
      BY <2>1 DEF IInv, AwaitInv, TypeInv, PhaseInv
  <2>6. \A t \in DOMAIN txs : txs[t].step \in StepsOf(network) /\ txs[t].status \in Statuses
    <3>1. PICK U : txs \in Seq(Tx(U))
        BY DEF IInv, TxsInv
    <3>2. \A t \in DOMAIN txs : txs[t] \in Tx(U)
        BY <3>1
    <3> QED BY <3>2 DEF TypeInv, Tx
  <2> QED BY <2>3, <2>4, <2>5, <2>6 DEF TypeOK, TypeInv, PhaseInv, IInv
<1> QED BY <1>1, InvHolds, TypeInit, TypeStep, PTL DEF Spec
=============================================================================
