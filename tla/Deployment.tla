----------------------------- MODULE Deployment -----------------------------
(***************************************************************************)
(* 1_deploy_protocol.py as a script that is run again until it completes.  *)
(* Each step creates entities with one transaction and records their       *)
(* addresses in config_data; a step whose addresses are recorded is        *)
(* skipped.  config_data is written to two files when a run ends, unless   *)
(* the process is killed.  A transaction is submitted once, is decided by  *)
(* the network at any later time, also after the run that submitted it has *)
(* ended, and is awaited by polling.                                       *)
(*                                                                         *)
(* An address is the number of the transaction that created the entity,    *)
(* Given for an entity the script did not create.                          *)
(***************************************************************************)
EXTENDS Naturals, Sequences, FiniteSets

CONSTANTS
    Networks,          \* the networks the gateway may report
    Steps,             \* per network, the steps of main in their order
    HandWritten,       \* per network, the keys an operator has to write into the file
    MaxStops           \* exceptions, interrupts, failed transactions and kills

(***************************************************************************)
(* A step: it runs if one of guard is not recorded, records keys, names    *)
(* the entities needs in its transaction (read from config_data), compiles *)
(* the addresses imports into its package (read from envs; for one that is *)
(* absent build.rs writes a dummy), and leaves exports in envs.            *)
(***************************************************************************)
StepsOf(n) == 1 .. Len(Steps[n])

\* What the lists of steps must satisfy for a resumed run to fit what is recorded.
ASSUME DeploymentAssumption ==
    /\ MaxStops \in Nat
    /\ \A n \in Networks : /\ Len(Steps[n]) \in Nat
                           /\ DOMAIN Steps[n] = StepsOf(n)
    /\ \A n \in Networks : \A i \in StepsOf(n) :
        LET s == Steps[n][i] IN
        /\ s.guard # {} /\ s.guard \subseteq s.keys /\ s.exports \subseteq s.keys
        /\ s.keys \cap HandWritten[n] = {}
        /\ \A j \in StepsOf(n) : j # i => s.keys \cap Steps[n][j].keys = {}
        /\ \A k \in s.imports : \E j \in 1 .. (i - 1) : k \in Steps[n][j].exports

VARIABLES
    network,   \* network_config
    file,      \* <network>.config.json: whole is FALSE while it is truncated
    release,   \* the copy under releases/
    txs,       \* the transactions submitted so far: step, uses, status
    phase,     \* where the process is
    config,    \* config_data
    envs,      \* the environment of the builds
    at,        \* the step main has come to
    intent,    \* the transaction get_new_addresses polls for, 0 if none
    finished,  \* main has printed that the deployment is complete
    stops      \* runs that did not get there

process == <<phase, config, envs, at, intent, finished>>
vars == <<network, file, release, txs, process, stops>>

Given == 0
Phases == {"off", "running", "awaiting", "ending", "copying", "copied", "writing"}
Statuses == {"pending", "committed", "failed", "expired"}
Empty == [k \in {} |-> Given]

\* f with the entries of g, as dict.update does.
Updated(f, g) == [k \in DOMAIN f \cup DOMAIN g |-> IF k \in DOMAIN g THEN g[k] ELSE f[k]]

Current == Steps[network][at]
Recorded(s, f) == s.guard \subseteq DOMAIN f

\* A file is a whole dictionary or truncated.
Whole(f) == [whole |-> TRUE, entries |-> f]
Truncated == [whole |-> FALSE, entries |-> Empty]

-----------------------------------------------------------------------------
\* The operator may have written the tokens of the pools into the file, or not.
Init ==
    /\ network \in Networks
    /\ file \in {Whole([k \in given |-> Given]) : given \in {{}, HandWritten[network]}}
    /\ release = Whole(Empty)
    /\ txs = <<>>
    /\ phase = "off" /\ config = Empty /\ envs = Empty /\ at = 1 /\ intent = 0
    /\ finished = FALSE
    /\ stops = 0

\* Mutant: the file is not read.
StartAfresh ==
    /\ phase = "off" /\ file.whole
    /\ phase' = "running" /\ config' = Empty
    /\ envs' = Empty /\ at' = 1 /\ intent' = 0 /\ finished' = FALSE
    /\ UNCHANGED <<network, file, release, txs, stops>>

\* The process starts: a missing file reads as {}, a truncated one cannot be decoded.
Start ==
    /\ phase = "off" /\ file.whole
    /\ phase' = "running" /\ config' = file.entries
    /\ envs' = Empty /\ at' = 1 /\ intent' = 0 /\ finished' = FALSE
    /\ UNCHANGED <<network, file, release, txs, stops>>

\* The addresses the transaction of step s is built from, given config_data and envs; a
\* constant that is not in envs has none.
Uses(s, c, e) ==
    [k \in s.needs \cup (s.imports \cap DOMAIN e) |-> IF k \in s.needs THEN c[k] ELSE e[k]]

\* The step's transaction is built, signed and submitted; nobody reads the answer.
Submit ==
    /\ phase = "running" /\ at <= Len(Steps[network])
    /\ ~ Recorded(Current, config)
    /\ Current.needs \subseteq DOMAIN config
    /\ txs' = Append(txs, [step |-> at, uses |-> Uses(Current, config, envs),
                           status |-> "pending"])
    /\ intent' = Len(txs) + 1
    /\ phase' = "awaiting"
    /\ UNCHANGED <<network, file, release, config, envs, at, finished, stops>>

\* Mutant: the addresses reach the builds only when the step itself has created them.
PassedUnexported(c) ==
    /\ config' = c
    /\ envs' = IF c = config THEN envs ELSE Updated(envs, [k \in Current.exports |-> c[k]])
    /\ at' = at + 1
    /\ phase' = "running" /\ intent' = 0

\* Behind the test of the step: its addresses are read back (all of them are there, since
\* a step records its keys together) and exported to the builds.
Passed(c) ==
    /\ config' = c
    /\ envs' = Updated(envs, [k \in Current.exports |-> c[k]])
    /\ at' = at + 1
    /\ phase' = "running" /\ intent' = 0

\* The step was taken by an earlier run.
Skip ==
    /\ phase = "running" /\ at <= Len(Steps[network])
    /\ Recorded(Current, config)
    /\ Passed(config)
    /\ UNCHANGED <<network, file, release, txs, finished, stops>>

\* The receipt lists the new entities; they are recorded in memory.
Record ==
    /\ phase = "awaiting" /\ txs[intent].status = "committed"
    /\ Passed(Updated(config, [k \in Current.keys |-> intent]))
    /\ UNCHANGED <<network, file, release, txs, finished, stops>>

\* Mutant: the transaction stays awaited.
EndsAwaiting ==
    /\ phase' = "ending" /\ UNCHANGED intent
    /\ UNCHANGED <<network, file, release, txs, config, envs, at>>

\* The run ends: control is in the finally block.
Ends ==
    /\ phase' = "ending" /\ intent' = 0
    /\ UNCHANGED <<network, file, release, txs, config, envs, at>>

\* main has taken all steps.
Complete ==
    /\ phase = "running" /\ at > Len(Steps[network])
    /\ Ends /\ finished' = TRUE /\ UNCHANGED stops

\* A token of a pool is not in config_data: KeyError.
MissingToken ==
    /\ phase = "running" /\ at <= Len(Steps[network])
    /\ ~ Recorded(Current, config) /\ ~ Current.needs \subseteq DOMAIN config
    /\ Ends /\ UNCHANGED <<finished, stops>>

\* Mutant: a receipt without entities is ignored.
NoAddressesIgnored ==
    /\ phase = "awaiting" /\ txs[intent].status = "failed"
    /\ at' = at + 1 /\ phase' = "running" /\ intent' = 0
    /\ UNCHANGED <<network, file, release, txs, config, envs, finished, stops>>

\* Mutant: a receipt without entities is polled for again.
NoAddressesPolled == FALSE /\ UNCHANGED vars

\* The receipt of a failed transaction lists no entity: IndexError.
NoAddresses ==
    /\ phase = "awaiting" /\ txs[intent].status = "failed"
    /\ Ends /\ UNCHANGED <<finished, stops>>

\* A request to the gateway raises, a build fails, or the operator interrupts the run.
Raise ==
    /\ phase \in {"running", "awaiting"} /\ stops < MaxStops
    /\ Ends /\ stops' = stops + 1 /\ UNCHANGED finished

\* Mutant: the release copy is made after the file is truncated.
SaveFileFirst ==
    \/ /\ phase = "ending" /\ phase' = "copying"
       /\ file' = Truncated /\ UNCHANGED release
    \/ /\ phase = "copying" /\ phase' = "copied"
       /\ release' = Truncated /\ UNCHANGED file
    \/ /\ phase = "copied" /\ phase' = "writing"
       /\ release' = Whole(config) /\ UNCHANGED file
    \/ /\ phase = "writing" /\ phase' = "off"
       /\ file' = Whole(config) /\ UNCHANGED release

(***************************************************************************)
(* The finally block: the release copy is truncated and written, then the  *)
(* file is.                                                                *)
(***************************************************************************)
Save ==
    \/ /\ phase = "ending" /\ phase' = "copying"
       /\ release' = Truncated /\ UNCHANGED file
    \/ /\ phase = "copying" /\ phase' = "copied"
       /\ release' = Whole(config) /\ UNCHANGED file
    \/ /\ phase = "copied" /\ phase' = "writing"
       /\ file' = Truncated /\ UNCHANGED release
    \/ /\ phase = "writing" /\ phase' = "off"
       /\ file' = Whole(config) /\ UNCHANGED release

SaveFiles ==
    /\ Save
    /\ UNCHANGED <<network, txs, config, envs, at, intent, finished, stops>>

\* The process dies without its finally block; what is not in a file is lost.
Kill ==
    /\ phase # "off" /\ stops < MaxStops
    /\ phase' = "off" /\ config' = Empty /\ envs' = Empty
    /\ at' = 1 /\ intent' = 0 /\ finished' = FALSE
    /\ stops' = stops + 1
    /\ UNCHANGED <<network, file, release, txs>>

\* The network commits a transaction, commits its failure, or lets it expire.
Decide(t, status) ==
    /\ txs[t].status = "pending"
    /\ txs' = [txs EXCEPT ![t].status = status]
    /\ IF status = "failed" THEN stops < MaxStops /\ stops' = stops + 1
                            ELSE UNCHANGED stops
    /\ UNCHANGED <<network, file, release, process>>

Network == \E t \in DOMAIN txs : \E status \in Statuses \ {"pending"} : Decide(t, status)

Script == Start \/ Submit \/ Skip \/ Record \/ Complete \/ MissingToken \/ NoAddresses \/ SaveFiles

Next == Script \/ Network \/ Raise \/ Kill

Spec == Init /\ [][Next]_vars

\* The operator restarts a run that has ended, the process is scheduled, and the
\* network decides every transaction before its last epoch.
FairSpec == Spec /\ WF_vars(Script) /\ WF_vars(Network)

-----------------------------------------------------------------------------
Dictionary(f) == \A k \in DOMAIN f : f[k] \in Nat

\* Types; a run that is on has all it names in memory.
TypeOK ==
    /\ network \in Networks
    /\ file.whole \in BOOLEAN /\ Dictionary(file.entries)
    /\ release.whole \in BOOLEAN /\ Dictionary(release.entries)
    /\ phase \in Phases /\ Dictionary(config) /\ Dictionary(envs)
    /\ at \in 1 .. (Len(Steps[network]) + 1)
    /\ intent \in 0 .. Len(txs) /\ (phase = "awaiting" <=> intent # 0)
    /\ \A t \in DOMAIN txs : txs[t].step \in StepsOf(network) /\ txs[t].status \in Statuses
    /\ finished \in BOOLEAN /\ stops \in 0 .. MaxStops

\* Transaction a is built from the addresses f has, and misses none.
Fits(f, a) ==
    LET s == Steps[network][txs[a].step] IN
    \A d \in s.needs \cup s.imports :
        d \in DOMAIN txs[a].uses /\ d \in DOMAIN f /\ txs[a].uses[d] = f[d]

\* Entity k, at the address a, exists and was created with the addresses f has.
WiredIn(f, k, a) ==
    /\ a \in DOMAIN txs /\ txs[a].status = "committed"
    /\ k \in Steps[network][txs[a].step].keys
    /\ Fits(f, a)

Sound(f) == \A k \in DOMAIN f : f[k] # Given => WiredIn(f, k, f[k])

(***************************************************************************)
(* What the files and the running script have recorded fits together,      *)
(* whatever runs were interrupted, killed and repeated: each address is of *)
(* an entity that exists and was created, and compiled, with the recorded  *)
(* addresses of those it depends on (`not in config_data`, envs.append).   *)
(***************************************************************************)
Wired == Sound(config) /\ Sound(file.entries) /\ Sound(release.entries)

\* "DEPLOY ... COMPLETE" is printed only with every address of every step recorded.
CompleteIsWhole ==
    finished => \A i \in StepsOf(network) : Steps[network][i].keys \subseteq DOMAIN config

\* A step is submitted again only because a run was stopped before it could save what it
\* had created: completed runs, and all reruns of them, repeat nothing.
NothingTwice ==
    \A i \in StepsOf(network) :
        Cardinality({t \in DOMAIN txs : txs[t].step = i}) <= 1 + stops

\* What the operator can start again from: the file, or its copy if a kill truncated it.
Kept == IF file.whole THEN file.entries ELSE release.entries

\* No entry once saved is lost or changed, at no point of the finally block either.
NothingForgotten ==
    [][\A k \in DOMAIN Kept : k \in DOMAIN Kept' /\ Kept'[k] = Kept[k]]_vars

Deployed == \A i \in StepsOf(network) : Steps[network][i].keys \subseteq DOMAIN Kept

\* get_new_addresses has no timeout: it polls for a transaction that will never be there.
Hanging == phase = "awaiting" /\ txs[intent].status = "expired"

(***************************************************************************)
(* Rerun for long enough the script deploys everything, unless it polls    *)
(* for an expired transaction, a kill left the file truncated, or the      *)
(* operator has not written the tokens.                                    *)
(***************************************************************************)
EventuallyDeployed ==
    <>[](\/ Deployed
         \/ Hanging
         \/ ~ file.whole
         \/ \E k \in HandWritten[network] : k \notin DOMAIN file.entries)
=============================================================================
