----------------------------- MODULE MCSurfaces -----------------------------
(***************************************************************************)
(* Small instances of what comes to the user and of what the user steers:  *)
(* the temporary discussion (whose names stand here unqualified), the      *)
(* intake of candidates and the broad inputs it takes them from, the       *)
(* published cards and their review, the briefing of the day and the       *)
(* participants of a Topic.  They share no variable, so each behaviour is  *)
(* of one of them, `part`.                                                 *)
(***************************************************************************)
EXTENDS EphemeralDiscussion

CONSTANTS
    Items, MailItems, FileItems, Ambient, Capacity, PollLimit, FileLimit, BatchSize, MaxFaults, MaxExpiries,   \* Intake
    Cards, Issues, MaxReferences, MaxBatch, MaxTracked, MaxStream, MaxWriters, MaxEpoch, MaxSignalFaults,   \* Signals
    Labels, MaxTopics, MaxInputs, MaxReruns,                                                                \* Briefing
    Participants, Scopes, MaxSelected, MaxHumanTurns, MaxSilentTurns, MaxFailedTurns, MaxSaid, MaxSettings, \* ModelCouncil
    Channels, Providers, ProviderOf, Luna, Keychain, Parallel, Forms, Torn, MaxPasses, MaxEdits,            \* AmbientInputs
    MaxInputFaults

VARIABLES
    part,
    inbox, folder, mailSeen, driveSeen, pool, poolSaved, signals, decided, pass, detached, writes, intakeFaults,
    expiries, browsed,
    stream, signalFile, writers, reviewer, reviewerFile, dispute, behind, epoch, signalFaults,
    inputs, shown, run, reruns,
    enabled, active, waiting, council, input, look, said, settings,
    config, configFile, secrets, secretsFile, blocked, runtime, runtimeFile, temporary, sweep, task, edit, passed,
    passes, edits, ambientFaults

intakeVars == <<inbox, folder, mailSeen, driveSeen, pool, poolSaved, signals, decided, pass, detached, writes,
                intakeFaults, expiries, browsed>>
signalVars == <<stream, signalFile, writers, reviewer, reviewerFile, dispute, behind, epoch, signalFaults>>
briefingVars == <<inputs, shown, run, reruns>>
councilVars == <<enabled, active, waiting, council, input, look, said, settings>>
ambientVars == <<config, configFile, secrets, secretsFile, blocked, runtime, runtimeFile, temporary, sweep, task, edit,
                 passed, passes, edits, ambientFaults>>

\* One writer of the pool: a browser's request that prunes it may write an older one over a newer.
Gathered == INSTANCE Intake WITH Browsers <- 0, faults <- intakeFaults

Published == INSTANCE Signals

Sorted == INSTANCE Briefing

Convened == INSTANCE ModelCouncil

Sensed == INSTANCE AmbientInputs WITH MaxFaults <- MaxInputFaults, pass <- sweep, faults <- ambientFaults

\* A message and a file that share a section.
MCMailItems == <<{"a"}>>
MCFileItems == <<{"a", "b"}>>

\* Two cards of one text: one with a source, one that says more.
MCCards == {[sources |-> {"s"}, text |-> "t", sections |-> {"x"}],
            [sources |-> {}, text |-> "t", sections |-> {"x", "y"}]}

\* One channel, whose provider keeps its secret in the keychain; the user may take all providers out, or put them
\* in with new secrets.
MCProviderOf == [c |-> "q"]
MCForms == {[config |-> [luna |-> TRUE, providers |-> {}, channels |-> {}], typed |-> {}],
            [config |-> [luna |-> TRUE, providers |-> {"p", "q"}, channels |-> {"c"}], typed |-> {"p", "q"}]}

\* Sections of messages and of files are candidates.
ASSUME GatheredAssumption ==
    /\ IsFiniteSet(Items) /\ Ambient \subseteq Items
    /\ MailItems \in Seq(SUBSET Items) /\ FileItems \in Seq(SUBSET Items)
    /\ {Capacity, PollLimit, FileLimit, BatchSize, MaxFaults, MaxExpiries} \subseteq Nat

ASSUME SortedAssumption == MaxInputs \in Nat /\ MaxReruns \in Nat

\* The stream of cards and disputes holds some; the weeks are counted from the first.
ASSUME PublishedAssumption == {MaxStream, MaxWriters} \subseteq Nat /\ MaxEpoch \in Nat \ {0}

\* The limits of ModelCouncilConfig are positive.
ASSUME ConvenedAssumption ==
    /\ IsFiniteSet(Participants)
    /\ {MaxHumanTurns, MaxSilentTurns, MaxFailedTurns} \subseteq Nat \ {0} /\ MaxSelected \in Nat

\* A form of the settings page is a configuration that validate_config accepts, and secrets typed for some providers.
ASSUME SensedAssumption ==
    /\ ProviderOf \in [Channels -> Providers] /\ Forms \subseteq [config : Sensed!Configs, typed : SUBSET Providers]
    /\ {MaxPasses, MaxEdits, MaxInputFaults} \subseteq Nat

Parts == {"discussion", "intake", "signals", "briefing", "council", "inputs"}

SurfacesInit ==
    /\ part \in Parts
    /\ Init /\ Gathered!Init /\ Published!Init /\ Sorted!Init /\ Convened!Init /\ Sensed!Init

SurfacesNext ==
    /\ UNCHANGED part
    /\ IF part = "discussion" THEN Next ELSE UNCHANGED vars
    /\ IF part = "intake" THEN Gathered!Next ELSE UNCHANGED intakeVars
    /\ IF part = "signals" THEN Published!Next ELSE UNCHANGED signalVars
    /\ IF part = "briefing" THEN Sorted!Next ELSE UNCHANGED briefingVars
    /\ IF part = "council" THEN Convened!Next ELSE UNCHANGED councilVars
    /\ IF part = "inputs" THEN Sensed!Next ELSE UNCHANGED ambientVars

surfacesVars == <<part, vars, intakeVars, signalVars, briefingVars, councilVars, ambientVars>>

SurfacesSpec == SurfacesInit /\ [][SurfacesNext]_surfacesVars

-----------------------------------------------------------------------------
\* What each part promises, stated where it is modelled.

\* What is behind the Drive cursor is queued, published or decided on, and nothing is published twice
\* (sensing.rs, exploration.rs); and no broad input is passed over for another (ambient_api.rs).
IntakeKeepsWhatItTook ==
    /\ Gathered!TypeOK /\ Gathered!DriveFilesAreKept /\ Gathered!PublishedOnce
    /\ Sensed!TypeOK /\ Sensed!NobodyIsPassedOver

\* Nothing is shown twice, nothing dismissed comes back, no dispute is raised twice in its week (signals.rs,
\* attacker.rs).
NothingIsShownTwice ==
    Published!TypeOK /\ Published!ShownOnce /\ Published!DismissedStaysAway /\ Published!DisputedOnce

\* A label of the briefing stays until the user reorganizes the day (signals.rs).
LabelsStay == []Sorted!TypeOK /\ Sorted!LabelsStay

\* Participants are invited by a mention, few, and for a few turns (model_council.rs, activation.rs).
ParticipantsAreInvited == []Convened!ParticipationIsBounded /\ Convened!OnlyMentionsActivate
=============================================================================
