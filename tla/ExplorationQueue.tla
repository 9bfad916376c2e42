-------------------------- MODULE ExplorationQueue --------------------------
(***************************************************************************)
(* How an exploration is asked for and comes to run: the journal of        *)
(* intents (exploration/intent.rs), the receipts of manual runs            *)
(* (exploration/manual_run.rs), deferred follow-ups (reflection/store.rs,  *)
(* reflection/worker.rs) and the scheduler that takes their triggers       *)
(* (exploration.rs, run_scheduler).  What a run does is Intake's subject;  *)
(* here it only ends, in one of the ways run_once can end.                 *)
(*                                                                         *)
(* A request is one successful request_exploration call of one turn; the   *)
(* intent it creates has the request's name.  `adrift` is a history        *)
(* variable: the intents and manual runs that a failed write, or a client  *)
(* that went away, has left without a trigger.                             *)
(***************************************************************************)
EXTENDS Naturals, Sequences, FiniteSets, FiniteSetsExt

CONSTANTS
    Requests,    \* calls of request_exploration
    Question,    \* their questions, as far as semantic_key tells them apart
    Manuals,     \* presses of the explore button
    FollowUps,   \* calls of schedule_follow_up
    None,
    MaxActive,   \* MAX_ACTIVE_INTENTS
    ChannelSize, \* capacity of the trigger channel
    DueLimit,    \* follow-ups due_follow_ups reads
    Gates,       \* what evaluate_gate may find, of AllGates
    MaxCalls,    \* bound: calls and presses in a behaviour
    MaxFaults    \* bound: yields, reconnections, failed writes, lost clients
                 \* and restarts in a behaviour

ASSUME QueueAssumption ==
    /\ {MaxActive, ChannelSize, DueLimit, MaxCalls, MaxFaults} \subseteq Nat \ {0}
    /\ DOMAIN Question = Requests
    /\ "open" \in Gates /\ Gates \subseteq {"open", "quiet", "spent", "shut"}
    /\ IsFiniteSet(Requests) /\ IsFiniteSet(Manuals) /\ IsFiniteSet(FollowUps)
    /\ None \notin Requests \cup Manuals \cup FollowUps
    /\ None \notin {"queued", "exploring", "open", "kept", "dropped", "late"}
    /\ Requests \cap FollowUps = {}

VARIABLES
    turn,      \* the turn that made each call: open, kept, dropped, or dropped
               \* too late, when the exploration had begun
    receipt,   \* the intent a request was answered with
    intent,    \* the journal of intents, in memory
    saved,     \* the journal on disk
    ripening,  \* intents on the way to the scheduler, until not_before
    sending,   \* manual runs accepted, whose handler has yet to send
    channel,   \* the trigger channel
    pending,   \* pending_triggers, the scheduler's own queue
    running,   \* the trigger of the pass under way
    manual,    \* the receipts of manual runs, in memory and on disk
    followUp,  \* the follow_ups table
    marking,   \* follow-ups whose trigger is sent and whose row is not marked
    gate,      \* what evaluate_gate lets through
    due,       \* the interval since the last attempt is over
    adrift,    \* history, see above
    faults

turns == <<turn, receipt>>
journal == <<intent, saved, ripening>>
triggers == <<channel, pending>>
follow == <<followUp, marking>>
world == <<gate, due>>
vars == <<turns, journal, sending, triggers, running, manual, follow, world,
          adrift, faults>>

Active == {"queued", "exploring"}
Ended == {"silent", "messaged", "superseded", "failed"}
AllGates == {"open", "quiet", "spent", "shut"}

Of(kind, id) == [kind |-> kind, of |-> id]
Triggers == {Of("manual", m) : m \in Manuals}
            \cup {Of("intent", r) : r \in Requests} \cup {Of("followUp", None)}
Scheduled == Of("scheduled", None)
Idle == Of("idle", None)

Init ==
    /\ turn = [x \in Requests \cup FollowUps |-> None]
    /\ receipt = [r \in Requests |-> None]
    /\ intent = [r \in Requests |-> None] /\ saved = intent
    /\ ripening = {} /\ sending = {}
    /\ channel = <<>> /\ pending = <<>>
    /\ running = Idle
    /\ manual = [m \in Manuals |-> None]
    /\ followUp = [f \in FollowUps |-> None]
    /\ marking = {}
    /\ gate = "open" /\ due = FALSE
    /\ adrift = {} /\ faults = 0

Fault == faults < MaxFaults /\ faults' = faults + 1

CallsLeft ==
    Cardinality({x \in DOMAIN turn : turn[x] # None})
        + Cardinality({m \in Manuals : manual[m] # None}) < MaxCalls

\* Mutant of Fits: one more than the channel holds.
FitsAlways(t) == Len(channel) <= ChannelSize

Fits(t) == Len(channel) < ChannelSize
Send(t) == channel' = Append(channel, t)

\* Mutant of Write: the journal is written before it is changed.
WriteStale(journal2) == intent' = journal2 /\ saved' = intent

\* A change of the journal: the whole of it is written, or nothing.
Write(journal2) == intent' = journal2 /\ saved' = journal2
WriteFails(journal2) == intent' = journal2 /\ saved' = saved /\ Fault

WriteOrNot(journal2) ==
    \/ Write(journal2) /\ UNCHANGED faults
    \/ WriteFails(journal2)

-----------------------------------------------------------------------------
(* Requests and the turns they belong to. *)

ActiveIntents == {i \in Requests : intent[i] \in Active}

Same(r) == {i \in ActiveIntents : Question[i] = Question[r]}

\* enqueue, its question known: the receipt names the intent that has it.
Merge(r) ==
    /\ turn[r] = None /\ CallsLeft
    /\ \E i \in Same(r) : receipt' = [receipt EXCEPT ![r] = i]
    /\ turn' = [turn EXCEPT ![r] = "open"]
    /\ Write(intent)
    /\ UNCHANGED <<ripening, sending, triggers, running, manual, follow,
                   world, adrift, faults>>

\* enqueue, its question new
Enqueue(r) ==
    /\ turn[r] = None /\ CallsLeft
    /\ Same(r) = {} /\ Cardinality(ActiveIntents) < MaxActive
    /\ turn' = [turn EXCEPT ![r] = "open"]
    /\ \/ /\ Write([intent EXCEPT ![r] = "queued"])
          /\ receipt' = [receipt EXCEPT ![r] = r]
          /\ ripening' = ripening \cup {r}
          /\ UNCHANGED <<adrift, faults>>
       \/ /\ WriteFails([intent EXCEPT ![r] = "queued"])
          /\ adrift' = adrift \cup {r}
          /\ UNCHANGED <<receipt, ripening>>
    /\ UNCHANGED <<sending, triggers, running, manual, follow, world>>

ScheduleFollowUp(f) ==
    /\ turn[f] = None /\ CallsLeft
    /\ turn' = [turn EXCEPT ![f] = "open"]
    /\ followUp' = [followUp EXCEPT ![f] = "scheduled"]
    /\ UNCHANGED <<receipt, journal, sending, triggers, running, manual,
                   marking, world, adrift, faults>>

\* The turn settles, or it is Reflection's, or it fails before it retracts.
Keep(x) ==
    /\ turn[x] = "open"
    /\ turn' = [turn EXCEPT ![x] = "kept"]
    /\ UNCHANGED <<receipt, journal, sending, triggers, running, manual,
                   follow, world, adrift, faults>>

\* Mutant of Pending: a due follow-up is no longer pending.
PendingUnripe(f) == followUp[f] = "scheduled"

Pending(f) == followUp[f] \in {"scheduled", "due"}

Begun(i) == i # None /\ intent[i] # "queued"

Superseded(i) ==
    IF i = None \/ Begun(i) THEN intent
    ELSE [intent EXCEPT ![i] = "superseded"]

\* The turn is interrupted or ends without a visible reply.
DropFollowUp(f) ==
    /\ turn[f] = "open"
    /\ turn' = [turn EXCEPT ![f] = "dropped"]
    /\ followUp' = [followUp EXCEPT ![f] = IF Pending(f) THEN "canceled" ELSE @]
    /\ UNCHANGED <<receipt, journal, sending, triggers, running, manual,
                   marking, world, adrift, faults>>

DropRequest(r) ==
    /\ turn[r] = "open"
    /\ \/ /\ Write(Superseded(receipt[r]))
          /\ turn' = [turn EXCEPT ![r] = IF Begun(receipt[r]) THEN "late" ELSE "dropped"]
          /\ UNCHANGED faults
       \/ /\ WriteFails(Superseded(receipt[r]))
          /\ turn' = [turn EXCEPT ![r] = "kept"]
    /\ UNCHANGED <<receipt, ripening, sending, triggers, running, manual,
                   follow, world, adrift>>

\* Mutant of Forward: an intent the channel has no room for is forgotten.
ForwardOrForget(r) ==
    /\ r \in ripening
    /\ IF intent[r] = "queued" /\ Fits(Of("intent", r))
       THEN Send(Of("intent", r)) ELSE UNCHANGED channel
    /\ ripening' = ripening \ {r}
    /\ UNCHANGED <<turns, intent, saved, sending, pending, running, manual,
                   follow, world, adrift, faults>>

\* The task that waits for not_before and passes the intent on.
Forward(r) ==
    /\ r \in ripening
    /\ \/ /\ intent[r] = "queued"
          /\ Fits(Of("intent", r)) /\ Send(Of("intent", r))
       \/ /\ intent[r] # "queued"
          /\ UNCHANGED channel
    /\ ripening' = ripening \ {r}
    /\ UNCHANGED <<turns, intent, saved, sending, pending, running, manual,
                   follow, world, adrift, faults>>

-----------------------------------------------------------------------------
(* The explore button: ExplorationManager::trigger. *)

Unfinished == {m \in Manuals : manual[m] \in Active}

\* The receipts of manual runs: each change is written as a whole, or undone in memory too.
Receipt(m, status) == manual' = [manual EXCEPT ![m] = status]

Accept(m) == manual[m] = None /\ Unfinished = {} /\ Receipt(m, "queued")
Explores(m) == Receipt(m, "exploring")
Requeued(m) == Receipt(m, "queued")
Completes(m, o) == o \in Ended /\ Receipt(m, o)
Fails(m) == Receipt(m, "failed")

\* Read from disk: what was not finished has failed.
Recovered == manual' = [m \in Manuals |-> IF manual[m] \in Active THEN "failed" ELSE manual[m]]

TriggerManual(m) ==
    /\ Accept(m) /\ CallsLeft
    /\ sending' = sending \cup {m}
    /\ UNCHANGED <<turns, journal, triggers, running, follow, world, adrift,
                   faults>>

\* Mutant of SendManual: the receipt of a run that was refused stays queued.
SendManualAndForget(m) ==
    /\ m \in sending
    /\ sending' = sending \ {m}
    /\ IF Fits(Of("manual", m)) THEN Send(Of("manual", m)) ELSE UNCHANGED channel
    /\ UNCHANGED <<turns, journal, pending, running, manual, follow, world,
                   adrift, faults>>

SendManual(m) ==
    /\ m \in sending
    /\ sending' = sending \ {m}
    /\ \/ /\ Fits(Of("manual", m)) /\ Send(Of("manual", m))
          /\ UNCHANGED manual
       \/ /\ ~Fits(Of("manual", m))
          /\ Fails(m)
          /\ UNCHANGED channel
    /\ UNCHANGED <<turns, journal, pending, running, follow, world, adrift,
                   faults>>

\* The browser closes the connection, and the handler is dropped where it
\* awaits between the receipt and the channel.
ClientLeaves(m) ==
    /\ m \in sending
    /\ Fault
    /\ sending' = sending \ {m}
    /\ adrift' = adrift \cup {m}
    /\ UNCHANGED <<turns, journal, triggers, running, manual, follow, world>>

-----------------------------------------------------------------------------
(* Deferred follow-ups: the Reflection worker polls for due ones. *)

Mature(f) ==
    /\ followUp[f] = "scheduled"
    /\ followUp' = [followUp EXCEPT ![f] = "due"]
    /\ UNCHANGED <<turns, journal, sending, triggers, running, manual, marking,
                   world, adrift, faults>>

DueFollowUps == {f \in FollowUps : followUp[f] = "due"}

\* The trigger is sent first, if the channel takes it, ...
CheckFollowUps ==
    /\ marking = {}
    /\ DueFollowUps # {} /\ Fits(Of("followUp", None))
    /\ Send(Of("followUp", None))
    /\ marking' \in IF Cardinality(DueFollowUps) <= DueLimit
                    THEN {DueFollowUps} ELSE kSubset(DueLimit, DueFollowUps)
    /\ UNCHANGED <<turns, journal, sending, pending, running, manual, followUp,
                   world, adrift, faults>>

\* ... and then the rows are marked, unless that write fails.
MarkTriggered ==
    /\ marking # {}
    /\ marking' = {}
    /\ \/ /\ followUp' = [f \in FollowUps |->
                              IF f \in marking /\ Pending(f)
                              THEN "triggered" ELSE followUp[f]]
          /\ UNCHANGED faults
       \/ Fault /\ UNCHANGED followUp
    /\ UNCHANGED <<turns, journal, sending, triggers, running, manual, world,
                   adrift>>

-----------------------------------------------------------------------------
(* The scheduler. *)

Front == IF pending = <<>> THEN Scheduled ELSE Head(pending)

\* evaluate_gate: open; quiet hours; the message budgets spent, which a
\* scheduled pass does not mind; or shut, by the user's conversation, the
\* token limit or the configuration.
Passes(t) ==
    CASE gate = "open"  -> TRUE
      [] gate = "quiet" -> t.kind = "manual"
      [] gate = "spent" -> t.kind \in {"manual", "scheduled"}
      [] gate = "shut"  -> FALSE

GateRuns == Passes(Front) /\ (pending # <<>> \/ due)

GateChanges(g) ==
    /\ gate # g
    /\ gate' = g
    /\ UNCHANGED <<turns, journal, sending, triggers, running, manual, follow,
                   due, adrift, faults>>

IntervalEnds ==
    /\ ~due
    /\ due' = TRUE
    /\ UNCHANGED <<turns, journal, sending, triggers, running, manual, follow,
                   gate, adrift, faults>>

\* Gate::Wait: a manual run goes before what is already pending.
Receive ==
    /\ running = Idle /\ ~GateRuns
    /\ channel # <<>>
    /\ channel' = Tail(channel)
    /\ pending' = IF Head(channel).kind = "manual"
                  THEN <<Head(channel)>> \o pending
                  ELSE Append(pending, Head(channel))
    /\ UNCHANGED <<turns, journal, sending, running, manual, follow, world,
                   adrift, faults>>

Taken == pending' = IF pending = <<>> THEN <<>> ELSE Tail(pending)

\* Gate::Run for a scheduled pass or a follow-up
StartPass ==
    /\ running = Idle /\ GateRuns
    /\ Front.kind \in {"scheduled", "followUp"}
    /\ Taken
    /\ running' = Front
    /\ UNCHANGED <<turns, journal, sending, channel, manual, follow, world,
                   adrift, faults>>

\* A receipt that cannot be written keeps its state; set_error then tries
\* to fail it, which may not be written either.
Unwritten(m) ==
    /\ Fault
    /\ \/ /\ Fails(m)
          /\ UNCHANGED adrift
       \/ /\ adrift' = adrift \cup {m}
          /\ UNCHANGED manual

\* Gate::Run for a manual run: mark_exploring
StartManual(m) ==
    /\ running = Idle /\ GateRuns
    /\ Front = Of("manual", m)
    /\ Taken
    /\ \/ /\ running' = Front
          /\ Explores(m)
          /\ UNCHANGED <<due, adrift, faults>>
       \/ /\ Unwritten(m)
          /\ due' = FALSE
          /\ UNCHANGED running
    /\ UNCHANGED <<turns, journal, sending, channel, follow, gate>>

\* Mutant of StartIntent: the trigger is trusted, the journal is not asked.
StartIntentUnasked(r) ==
    /\ running = Idle /\ GateRuns
    /\ Front = Of("intent", r)
    /\ Taken
    /\ Write([intent EXCEPT ![r] = "exploring"])
    /\ running' = Front
    /\ UNCHANGED <<turns, ripening, sending, channel, manual, follow, world,
                   adrift, faults>>

\* Gate::Run for an intent: only one that is still queued is claimed.
StartIntent(r) ==
    LET claimed == [intent EXCEPT ![r] = "exploring"]
    IN  /\ running = Idle /\ GateRuns
        /\ Front = Of("intent", r)
        /\ Taken
        /\ \/ /\ intent[r] = "queued" /\ Write(claimed)
              /\ running' = Front
              /\ UNCHANGED <<adrift, faults>>
           \/ /\ intent[r] = "queued" /\ WriteFails(claimed)
              /\ adrift' = adrift \cup {r}
              /\ UNCHANGED running
           \/ /\ intent[r] # "queued"
              /\ UNCHANGED <<intent, saved, running, adrift, faults>>
        /\ UNCHANGED <<turns, ripening, sending, channel, manual, follow, world>>

SettleIntent(o) ==
    /\ WriteOrNot([intent EXCEPT ![running.of] = o])
    /\ UNCHANGED <<manual, adrift>>

\* settle_sensing_only, and the end of a pass that went further
SettleManual(o) ==
    /\ \/ Completes(running.of, o) /\ UNCHANGED <<adrift, faults>>
       \/ Unwritten(running.of)
    /\ UNCHANGED <<intent, saved>>

Settle(o) == CASE running.kind = "intent" -> SettleIntent(o)
               [] running.kind = "manual" -> SettleManual(o)
               [] OTHER -> UNCHANGED <<intent, saved, manual, adrift, faults>>

\* complete_triggered_follow_ups, when the run was not interrupted
FollowUpsLookedAt ==
    followUp' = [f \in FollowUps |->
                   IF running.kind = "followUp" /\ followUp[f] = "triggered"
                   THEN "completed" ELSE followUp[f]]

\* The pass explored to its end, with a message or without.
Complete(o) ==
    /\ running # Idle
    /\ o \in {"silent", "messaged"}
    /\ Settle(o)
    /\ FollowUpsLookedAt
    /\ running' = Idle
    /\ due' = FALSE
    /\ UNCHANGED <<turns, ripening, sending, triggers, marking, gate>>

\* The pass ended in an error no reconnection repairs.
Fail ==
    /\ running # Idle
    /\ Settle("failed")
    /\ running' = Idle
    /\ due' = FALSE
    /\ UNCHANGED <<turns, ripening, sending, triggers, follow, gate>>

\* A manual run goes back to the front of the queue, its receipt requeued.
Requeue ==
    /\ running.kind = "manual"
    /\ Fault
    /\ \/ /\ Requeued(running.of)
          /\ pending' = <<running>> \o pending
       \/ /\ Fails(running.of)
          /\ UNCHANGED pending
    /\ UNCHANGED <<intent, saved, adrift>>

\* Mutant of Yield: what yielded is due at once.
YieldKeepsDue ==
    /\ running # Idle
    /\ \/ Requeue
       \/ /\ running.kind # "manual"
          /\ Settle("superseded")
          /\ UNCHANGED pending
    /\ FollowUpsLookedAt \/ UNCHANGED followUp
    /\ running' = Idle
    /\ UNCHANGED <<turns, ripening, sending, channel, marking, world>>

\* The pass yielded to the user, or found itself superseded: then it has
\* looked at the follow-ups.  Only a scheduled pass has used its interval.
Yield ==
    /\ running # Idle
    /\ \/ Requeue
       \/ /\ running.kind # "manual"
          /\ Settle("superseded")
          /\ UNCHANGED pending
    /\ FollowUpsLookedAt \/ UNCHANGED followUp
    /\ running' = Idle
    /\ due' = (due /\ running # Scheduled)
    /\ UNCHANGED <<turns, ripening, sending, channel, marking, gate>>

\* Codex is reconnecting: a manual run waits for it, others fail.
Reconnect ==
    /\ Requeue
    /\ running' = Idle
    /\ UNCHANGED <<turns, ripening, sending, channel, follow, world>>

\* Mutant of Restart: an interrupted exploration stays marked as one.
RestartKeepsExploring ==
    /\ Fault
    /\ intent' = saved /\ saved' = saved
    /\ ripening' = {r \in Requests : intent'[r] = "queued"}
    /\ Recovered
    /\ turn' = [x \in DOMAIN turn |-> IF turn[x] = "open" THEN "kept" ELSE turn[x]]
    /\ sending' = {} /\ marking' = {} /\ adrift' = {}
    /\ channel' = <<>> /\ pending' = <<>> /\ running' = Idle
    /\ due' = FALSE
    /\ UNCHANGED <<receipt, followUp, gate>>

\* Both journals and the follow-ups are read from disk; turns, triggers and
\* handlers are gone.
Restart ==
    /\ Fault
    /\ intent' = [r \in Requests |->
                    IF saved[r] = "exploring" THEN "queued" ELSE saved[r]]
    /\ saved' = intent'
    /\ ripening' = {r \in Requests : intent'[r] = "queued"}
    /\ Recovered
    /\ turn' = [x \in DOMAIN turn |-> IF turn[x] = "open" THEN "kept" ELSE turn[x]]
    /\ sending' = {} /\ marking' = {} /\ adrift' = {}
    /\ channel' = <<>> /\ pending' = <<>> /\ running' = Idle
    /\ due' = FALSE
    /\ UNCHANGED <<receipt, followUp, gate>>

-----------------------------------------------------------------------------
Scheduler ==
    \/ StartPass
    \/ \E m \in Manuals : StartManual(m)
    \/ \E r \in Requests : StartIntent(r)

End == Fail \/ Yield \/ Reconnect \/ \E o \in Ended : Complete(o)

Next ==
    \/ \E r \in Requests : Merge(r) \/ Enqueue(r) \/ DropRequest(r) \/ Forward(r)
    \/ \E x \in Requests \cup FollowUps : Keep(x)
    \/ \E f \in FollowUps : ScheduleFollowUp(f) \/ DropFollowUp(f) \/ Mature(f)
    \/ \E m \in Manuals : TriggerManual(m) \/ SendManual(m) \/ ClientLeaves(m)
    \/ CheckFollowUps \/ MarkTriggered
    \/ \E g \in Gates : GateChanges(g)
    \/ IntervalEnds
    \/ Receive \/ Scheduler \/ End
    \/ Restart

Spec == Init /\ [][Next]_vars

\* Tasks, handlers and the two workers run, passes end, and the gate opens
\* again and again for long enough to start the pass at the front.  That the
\* scheduler reads its channel between passes is what the watermark is for.
Fairness ==
    /\ \A r \in Requests : SF_vars(Forward(r))
    /\ \A m \in Manuals : WF_vars(SendManual(m))
    /\ WF_vars(MarkTriggered) /\ SF_vars(CheckFollowUps)
    /\ WF_vars(GateChanges("open")) /\ SF_vars(Scheduler) /\ WF_vars(End)
    /\ SF_vars(Receive)

FairSpec == Spec /\ Fairness

-----------------------------------------------------------------------------
\* The types, with the bound on active intents.
TypeOK ==
    /\ turn \in [Requests \cup FollowUps -> {None, "open", "kept", "dropped", "late"}]
    /\ receipt \in [Requests -> Requests \cup {None}]
    /\ intent \in [Requests -> {None} \cup Active \cup Ended]
    /\ saved \in [Requests -> {None} \cup Active \cup Ended]
    /\ ripening \subseteq Requests
    /\ sending \subseteq Manuals
    /\ channel \in Seq(Triggers) /\ Len(channel) <= ChannelSize
    /\ pending \in Seq(Triggers)
    /\ running \in Triggers \cup {Scheduled, Idle}
    /\ manual \in [Manuals -> {None} \cup Active \cup Ended]
    /\ followUp \in [FollowUps -> {None, "scheduled", "due", "triggered",
                                  "canceled", "completed"}]
    /\ marking \subseteq FollowUps
    /\ gate \in Gates /\ due \in BOOLEAN
    /\ adrift \subseteq Requests \cup Manuals
    /\ faults \in 0 .. MaxFaults
    /\ Cardinality(ActiveIntents) <= MaxActive

Times(t, q) == Cardinality({i \in DOMAIN q : q[i] = t})

\* An unfinished manual run has its trigger in exactly one place, a finished
\* one nowhere, whatever was requeued, refused or restarted; else the
\* button would be refused for ever, or one press would run twice (accept).
ManualRunsAreOwned ==
    \A m \in Manuals \ adrift :
        LET t == Of("manual", m)
        IN  Times(t, channel) + Times(t, pending) + Cardinality(sending \cap {m})
                + (IF running = t THEN 1 ELSE 0)
            = IF m \in Unfinished THEN 1 ELSE 0

\* An intent that is queued has a trigger on its way, and one that is being
\* explored has the scheduler.
IntentsAreOnTheirWay ==
    \A r \in Requests \ adrift :
        /\ intent[r] = "queued" =>
              \/ r \in ripening
              \/ Times(Of("intent", r), channel) + Times(Of("intent", r), pending) > 0
        /\ intent[r] = "exploring" => running = Of("intent", r)

\* What the journal in memory still has to explore, a restart would find.
IntentsSurviveRestarts ==
    \A r \in ActiveIntents \ adrift : saved[r] \in Active

Holders(r) == {x \in Requests : receipt[x] = r}

\* No pass starts for an intent that only dropped turns asked for: what an
\* interrupted turn wanted to know never comes as a message of its own.
DroppedIntentsNeverStart ==
    [][\A r \in Requests :
          intent[r] = "queued" /\ intent'[r] = "exploring"
              => \/ Holders(r) = {}
                 \/ \E x \in Holders(r) : turn[x] # "dropped"]_vars

\* What was asked for is neither lost nor run twice, and what was taken back never runs
\* (exploration.rs, exploration/intent.rs, exploration/manual_run.rs).
RunsAreOwned ==
    /\ [](TypeOK /\ ManualRunsAreOwned /\ IntentsAreOnTheirWay /\ IntentsSurviveRestarts)
    /\ DroppedIntentsNeverStart

\* Every manual run and every intent ends, every due follow-up is taken up
\* or canceled, though user runs overtake, the gate closes and opens and
\* scheduled passes recur.
ManualRunsEnd ==
    \A m \in Manuals : m \in Unfinished ~> m \notin Unfinished \ adrift
IntentsEnd ==
    \A r \in Requests : r \in ActiveIntents ~> r \notin ActiveIntents \ adrift
DueFollowUpsAreTaken ==
    \A f \in FollowUps : followUp[f] = "due" ~> followUp[f] # "due"

\* Triggered work can be requeued or completed by its owner: a follow-up that
\* was triggered ends (run_scheduler, on the watermark).
TriggeredFollowUpsEnd ==
    \A f \in FollowUps : followUp[f] = "triggered" ~> followUp[f] = "completed"

\* An intent that a settled turn still counts on is not superseded because
\* another turn, whose question was merged into it, is interrupted.
RequestsSurviveOthers ==
    [][\A r \in Requests :
          intent[r] = "queued" /\ intent'[r] = "superseded"
              => \A x \in Holders(r) : turn[x] # "kept"]_vars

=============================================================================
