---------------------------- MODULE AmbientInputs ----------------------------
(***************************************************************************)
(* The broad inputs of an exploration pass: the built-in role and the      *)
(* channels of outside providers (src/src/ambient_api.rs, luna_input.rs),  *)
(* with the credentials of the providers (src/src/secrets.rs).  A pass     *)
(* takes the inputs that are ready and began longest ago; each marks its   *)
(* start, calls its provider until it answers or the user writes, and      *)
(* marks how it ended.  Marks are made in memory under a lock and written  *)
(* after it, all through one temporary file.  Meanwhile the user edits     *)
(* which inputs there are, and restarts.                                   *)
(*                                                                         *)
(* A disabled channel, and a channel of a disabled provider, are taken as  *)
(* absent: both are skipped alike.  What a call finds goes to the pool,    *)
(* which Intake models.  The file of secrets is written in one step.       *)
(***************************************************************************)
EXTENDS Naturals, FiniteSets

CONSTANTS
    Channels, Providers,
    ProviderOf,    \* provider_id of each channel
    Luna,          \* the built-in input
    Keychain,      \* the providers whose secret is in the system's keychain; of the others it is in a file
    Parallel,      \* the values max_input_parallelism may have
    Forms,         \* what the settings page may submit: the configuration, and the providers with a secret typed in
    None, Torn,
    MaxPasses, MaxEdits, MaxFaults   \* bounds

Inputs == Channels \cup {Luna}

\* validate_config accepts a channel of a provider that is there.
Configs == {c \in [luna : BOOLEAN, providers : SUBSET Providers, channels : SUBSET Channels] :
                \A channel \in c.channels : ProviderOf[channel] \in c.providers}

VARIABLES
    config, configFile,
    secrets, secretsFile,   \* the providers that have a secret
    blocked,      \* blocked_keychain_reads
    runtime,      \* AmbientRuntimeDocument: the pass in which each input last began, and those with a last error
    runtimeFile, temporary,
    pass,         \* run_once of the exploration: [at, todo, ready]
    task,         \* sense_selected of each input the pass took: [at, doc]
    edit,         \* update(): [at, form, todo, gone]
    passed,       \* <<a, b>>: each pass since the one that last began a found b ready and left it out
    passes, edits, faults

files == <<configFile, secretsFile, runtimeFile, temporary>>
settings == <<config, configFile, secrets, secretsFile, edit, edits>>
marks == <<runtime, runtimeFile, temporary>>
ambientVars == <<settings, blocked, marks, pass, task, passed, passes, faults>>

NoPass == [at |-> "idle"]
NoEdit == [at |-> "none"]
Off == [at |-> "off"]
Stages == {"spawned", "starting", "renaming", "calling", "ending", "replacing", "done", "broken"}
Documents == [started : [Inputs -> Nat], failing : SUBSET Inputs]

TypeOK ==
    /\ config \in Configs /\ configFile \in Configs
    /\ secrets \subseteq Providers /\ secretsFile \subseteq Providers
    /\ blocked \subseteq Keychain
    /\ runtime \in Documents
    /\ runtimeFile \in Documents \cup {Torn} /\ temporary \in Documents \cup {Torn, None}
    /\ pass \in {NoPass} \cup [at : {"looking", "waiting", "running"}, todo : SUBSET Channels,
                               ready : SUBSET Inputs]
    /\ task \in [Inputs -> {Off} \cup [at : Stages, doc : Documents \cup {None}]]
    /\ edit \in {NoEdit} \cup [at : {"saving", "persisting", "applying"}, form : Configs,
                               todo : SUBSET Providers, gone : SUBSET Providers]
    /\ passed \subseteq Inputs \X Inputs
    /\ passes \in 0..MaxPasses /\ edits \in 0..MaxEdits /\ faults \in 0..MaxFaults

\* A configuration that has every input on, with its credentials.
Init ==
    /\ config = [luna |-> TRUE, providers |-> Providers, channels |-> Channels] /\ configFile = config
    /\ secrets = Providers /\ secretsFile = Providers /\ blocked = {}
    /\ runtime = [started |-> [i \in Inputs |-> 0], failing |-> {}] /\ runtimeFile = runtime
    /\ temporary = None
    /\ pass = NoPass /\ task = [i \in Inputs |-> Off]
    /\ edit = NoEdit /\ passed = {} /\ passes = 0 /\ edits = 0 /\ faults = 0

-----------------------------------------------------------------------------
(* Credentials.                                                            *)

\* read, status: what a provider's store may answer. The keychain may refuse, and one that did is not asked again.
Answers(p) ==
    IF p \notin Keychain THEN {IF p \in secrets THEN "configured" ELSE "missing"}
    ELSE IF p \in blocked THEN {"unavailable"}
    ELSE {IF p \in secrets THEN "configured" ELSE "missing", "refused"}

\* A refusal is remembered.
Remembered(p, answer) == IF answer = "refused" THEN blocked \cup {p} ELSE blocked

\* snapshot, has_configured_input and provider_access read credentials beside the pass.
ReadSecret(p) ==
    /\ p \in config.providers \cap Keychain
    /\ \E answer \in Answers(p) : blocked' = Remembered(p, answer)
    /\ UNCHANGED <<settings, marks, pass, task, passed, passes, faults>>

-----------------------------------------------------------------------------
(* A pass.                                                                 *)

Chosen == {i \in Inputs : task[i].at # "off"}

\* select_inputs reads the configuration once, then asks for the credential of each channel.
BeginPass ==
    /\ pass = NoPass /\ passes < MaxPasses
    /\ pass' = [at |-> "looking", todo |-> config.channels, ready |-> IF config.luna THEN {Luna} ELSE {}]
    /\ passes' = passes + 1
    /\ UNCHANGED <<settings, blocked, runtime, runtimeFile, temporary, task, passed, faults>>

Look(c) ==
    /\ pass.at = "looking" /\ c \in pass.todo
    /\ \E answer \in Answers(ProviderOf[c]) :
           /\ blocked' = Remembered(ProviderOf[c], answer)
           /\ pass' = [pass EXCEPT !.todo = @ \ {c},
                                   !.ready = IF answer = "configured" THEN @ \cup {c} ELSE @]
    /\ UNCHANGED <<settings, marks, task, passed, passes, faults>>

\* Mutant of LongestAgo: in the order of the settings page, the built-in input first.
InTheirOrder(taken, ready) == Luna \in ready => Luna \in taken

\* sort_by_key(last_started_at): those that never began first, ties in any order.
LongestAgo(taken, ready) ==
    \A i \in taken, j \in ready \ taken : runtime.started[i] <= runtime.started[j]

\* take(maximum.max(1)); the external inputs are spawned, the built-in one waits for the client.
Select ==
    /\ pass.at = "looking" /\ pass.todo = {}
    /\ \E n \in Parallel, taken \in SUBSET pass.ready :
           /\ Cardinality(taken) = IF n < Cardinality(pass.ready) THEN n ELSE Cardinality(pass.ready)
           /\ LongestAgo(taken, pass.ready)
           /\ task' = [i \in Inputs |-> IF i \in taken THEN [at |-> "spawned", doc |-> None] ELSE Off]
           /\ pass' = [pass EXCEPT !.at = IF Luna \in taken THEN "waiting" ELSE "running"]
           /\ passed' = {ab \in passed : ab[2] \in pass.ready \ taken}
    /\ UNCHANGED <<settings, blocked, marks, passes, faults>>

\* The pass is over: its tasks are dropped where they stand. A write that had begun may still reach the
\* temporary file.
Drop ==
    /\ pass' = NoPass /\ task' = [i \in Inputs |-> Off]
    /\ \E doc \in {temporary} \cup {task[i].doc : i \in {i \in Inputs : task[i].at \in {"starting", "ending"}}} :
           temporary' = doc
    /\ UNCHANGED <<settings, blocked, runtime, runtimeFile, passed, passes, faults>>

\* codex.try_lock() for the built-in input: without the client the whole pass is given up.
TakeClient == /\ pass.at = "waiting"
              /\ pass' = [pass EXCEPT !.at = "running"]
              /\ UNCHANGED <<settings, blocked, marks, task, passed, passes, faults>>
ClientIsBusy == pass.at = "waiting" /\ Drop

MayRun(i) == IF i = Luna THEN pass.at = "running" ELSE pass.at \in {"waiting", "running"}

\* Mutant of Begun: the built-in input keeps no time of its own.
BegunOutside(i) == [runtime EXCEPT !.started[i] = IF i = Luna THEN @ ELSE passes]

\* update_runtime of mark_started: in memory, under the lock. Passes are far apart; of two inputs that begin in
\* one pass either may be taken as the earlier.
Begun(i) == [runtime EXCEPT !.started[i] = passes]

MarkStarted(i) ==
    /\ task[i].at = "spawned" /\ MayRun(i)
    /\ runtime' = Begun(i)
    /\ task' = [task EXCEPT ![i] = [at |-> "starting", doc |-> runtime']]
    /\ passed' = {ab \in passed : ab[1] # i} \cup ({i} \X (pass.ready \ Chosen))
    /\ UNCHANGED <<settings, blocked, runtimeFile, temporary, pass, passes, faults>>

\* persist writes the temporary file; two writers at once may leave a mixture.
Write(i) ==
    /\ task[i].at \in {"starting", "ending"} /\ MayRun(i)
    /\ \/ /\ \E mixed \in {task[i].doc} \cup (IF \E j \in Inputs \ {i} : task[j].at \in {"starting", "ending"}
                                              THEN {Torn} ELSE {}) : temporary' = mixed
          /\ task' = [task EXCEPT ![i] = [at |-> IF @.at = "starting" THEN "renaming" ELSE "replacing", doc |-> None]]
          /\ UNCHANGED faults
       \/ /\ faults < MaxFaults /\ faults' = faults + 1
          /\ task' = [task EXCEPT ![i] = [at |-> "broken", doc |-> None]]
          /\ UNCHANGED temporary
    /\ UNCHANGED <<settings, blocked, runtime, runtimeFile, pass, passed, passes>>

\* The rename takes whatever the temporary file holds, and fails when another has taken it.
Rename(i) ==
    /\ task[i].at \in {"renaming", "replacing"} /\ MayRun(i)
    /\ IF temporary = None
       THEN task' = [task EXCEPT ![i] = [at |-> "broken", doc |-> None]] /\ UNCHANGED <<runtimeFile, temporary>>
       ELSE /\ runtimeFile' = temporary /\ temporary' = None
            /\ task' = [task EXCEPT ![i] = [at |-> IF @.at = "renaming" THEN "calling" ELSE "done", doc |-> None]]
    /\ UNCHANGED <<settings, blocked, runtime, pass, passed, passes, faults>>

\* What comes of a call: without a credential it fails, as it does when the answer hands over candidates twice
\* or some that are not valid; the user's writing interrupts it.
Outcomes(answer) == IF answer = "configured" THEN {"interrupted", "succeeded", "failed"} ELSE {"failed"}

\* Success and failure are marked, an interruption is not.
Settled(i, outcome) ==
    IF outcome = "interrupted" THEN task' = [task EXCEPT ![i].at = "done"] /\ UNCHANGED runtime
    ELSE /\ runtime' = [runtime EXCEPT !.failing = IF outcome = "failed" THEN @ \cup {i} ELSE @ \ {i}]
         /\ task' = [task EXCEPT ![i] = [at |-> "ending", doc |-> runtime']]

Call(i) ==
    /\ task[i].at = "calling" /\ MayRun(i)
    /\ \E answer \in IF i = Luna THEN {"configured"} ELSE Answers(ProviderOf[i]) :
           /\ blocked' = IF i = Luna THEN blocked ELSE Remembered(ProviderOf[i], answer)
           /\ \E outcome \in Outcomes(answer) : Settled(i, outcome)
    /\ UNCHANGED <<settings, runtimeFile, temporary, pass, passed, passes, faults>>

\* run_once awaits the built-in input, then the others; the first that could not mark its start or its end
\* fails the pass.
Finished(i) == task[i].at \in {"off", "done"}
EndPass == /\ pass.at = "running" /\ \A i \in Inputs : Finished(i)
           /\ Drop
FailPass == /\ pass.at = "running" /\ \E i \in Inputs : task[i].at = "broken"
            /\ Finished(Luna) \/ task[Luna].at = "broken"
            /\ Drop

-----------------------------------------------------------------------------
(* Edits of the settings page, and restarts.                               *)

\* update: the secrets that were typed in are written first, those of providers that are gone are removed.
BeginEdit ==
    /\ edit = NoEdit /\ edits < MaxEdits
    /\ \E f \in Forms :
           edit' = [at |-> "saving", form |-> f.config, todo |-> f.typed,
                    gone |-> config.providers \ f.config.providers]
    /\ edits' = edits + 1
    /\ UNCHANGED <<config, configFile, secrets, secretsFile, blocked, marks, pass, task, passed,
                   passes, faults>>

\* A file's secrets change in memory first; when they cannot be written, the edit ends there.
Stored(next, ahead) ==
    /\ secrets' = next
    /\ \/ secretsFile' = next /\ edit' = ahead /\ UNCHANGED faults
       \/ faults < MaxFaults /\ faults' = faults + 1 /\ edit' = NoEdit /\ UNCHANGED secretsFile

\* The keychain changes at once or not at all.
Kept(next, ahead) ==
    \/ secrets' = next /\ secretsFile' = next /\ edit' = ahead /\ UNCHANGED faults
    \/ faults < MaxFaults /\ faults' = faults + 1 /\ edit' = NoEdit /\ UNCHANGED <<secrets, secretsFile>>

\* A secret that was written may be asked for again.
WriteSecret(p) ==
    /\ edit.at = "saving" /\ p \in edit.todo
    /\ LET ahead == [edit EXCEPT !.todo = @ \ {p}]
       IN IF p \in Keychain
          THEN /\ Kept(secrets \cup {p}, ahead)
               /\ blocked' = IF edit' = NoEdit THEN blocked ELSE blocked \ {p}
          ELSE Stored(secrets \cup {p}, ahead) /\ UNCHANGED blocked
    /\ UNCHANGED <<config, configFile, marks, pass, task, passed, passes, edits>>

RemoveSecret(p) ==
    /\ edit.at = "saving" /\ edit.todo = {} /\ p \in edit.gone
    /\ LET ahead == [edit EXCEPT !.gone = @ \ {p}]
       IN IF p \in Keychain THEN Kept(secrets \ {p}, ahead)
          ELSE IF p \in secrets THEN Stored(secrets \ {p}, ahead)
          ELSE edit' = ahead /\ UNCHANGED <<secrets, secretsFile, faults>>
    /\ UNCHANGED <<config, configFile, blocked, marks, pass, task, passed, passes, edits>>

PersistConfig ==
    /\ edit.at = "saving" /\ edit.todo = {} /\ edit.gone = {}
    /\ \/ /\ configFile' = edit.form /\ edit' = [edit EXCEPT !.at = "applying"] /\ UNCHANGED faults
       \/ /\ faults < MaxFaults /\ faults' = faults + 1 /\ edit' = NoEdit /\ UNCHANGED configFile
    /\ UNCHANGED <<config, secrets, secretsFile, blocked, marks, pass, task, passed, passes, edits>>

ApplyConfig ==
    /\ edit.at = "applying" /\ config' = edit.form /\ edit' = NoEdit
    /\ UNCHANGED <<configFile, secrets, secretsFile, blocked, marks, pass, task, passed, passes,
                   edits, faults>>

\* The program stops anywhere; open reads what the files hold, and fails on marks it cannot decode.
Restart ==
    /\ faults < MaxFaults /\ faults' = faults + 1
    /\ runtimeFile # Torn
    /\ config' = configFile /\ secrets' = secretsFile /\ blocked' = {}
    /\ runtime' = runtimeFile
    /\ pass' = NoPass /\ task' = [i \in Inputs |-> Off] /\ edit' = NoEdit /\ passed' = {}
    /\ UNCHANGED <<files, passes, edits>>

Next ==
    \/ BeginPass \/ Select \/ TakeClient \/ ClientIsBusy \/ EndPass \/ FailPass
    \/ \E c \in Channels : Look(c)
    \/ \E i \in Inputs : MarkStarted(i) \/ Write(i) \/ Rename(i) \/ Call(i)
    \/ BeginEdit \/ PersistConfig \/ ApplyConfig \/ Restart
    \/ \E p \in Providers : WriteSecret(p) \/ RemoveSecret(p) \/ ReadSecret(p)

Spec == Init /\ [][Next]_ambientVars

-----------------------------------------------------------------------------
\* No kind of input starves another: an input begins only if no other, that each pass since its last
\* beginning found ready, was left out of all of them, this one included (ambient_api.rs:122, 441).
NobodyIsPassedOver ==
    \A i \in Chosen : task[i].at = "spawned" => \A j \in pass.ready \ Chosen : <<i, j>> \notin passed

\* Not promised, and TLC refutes them: the marks can be read at the next start (two writers share the file); a
\* provider in the configuration keeps its secret (which goes before the configuration without it is written).
StartsAgain == runtimeFile # Torn
SecretsOutliveEdits == edit = NoEdit => config.providers \subseteq secrets
=============================================================================
