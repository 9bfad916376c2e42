----------------------------- MODULE Reflection -----------------------------
(***************************************************************************)
(* The reflection ledger (src/src/reflection/store.rs) and the worker that *)
(* reads it (reflection/worker.rs).  The conversation, the exploration     *)
(* worker and retractions append events; the worker takes the next         *)
(* actionable prefix behind its cursor to the model and moves the cursor   *)
(* when the run completes.  The transcript is written first and the event  *)
(* later, by a handler that may not live to do it; a restart backfills.    *)
(*                                                                         *)
(* Event ids are the positions of `ledger`; a deleted row stays as         *)
(* "pruned".  A revision is a role and the message or publication it       *)
(* belongs to.  The worker's timers are left out: a settle time that       *)
(* triggers keep postponing is a step the worker has not taken yet, and    *)
(* the rows of reflection_runs are a log that decides nothing.             *)
(***************************************************************************)
EXTENDS Naturals, Sequences, FiniteSets, SequencesExt

CONSTANTS
    Messages,     \* user messages
    Notes,        \* assistant messages nobody asked for
    Retractable,  \* the messages the user may retract
    Doubtful,     \* the messages that leave hunch feedback to reconcile
    Window,       \* the events read behind the cursor (100)
    BatchLimit,   \* MAX_BATCH_EVENTS
    Aging,        \* whether retention_days may pass
    MaxFaults     \* restarts and failed writes

ASSUME ReflectionAssumption ==
    /\ Window \in Nat \ {0}
    /\ BatchLimit \in Nat \ {0}
    /\ BatchLimit <= Window
    /\ Retractable \subseteq Messages
    /\ Doubtful \subseteq Messages
    /\ Messages \cap Notes = {}
    /\ Aging \in BOOLEAN
    /\ MaxFaults \in Nat

VARIABLES
    transcript,  \* revisions in order, the retracted ones removed
    aged,        \* the revisions older than retention_days
    ledger,      \* conversation_events
    cursor,      \* reflection_meta.cursor
    turn,        \* the handler of each message
    note,        \* the worker that publishes each note
    retracting,  \* the revisions a retraction has yet to record
    feedback,    \* the messages whose hunch feedback is pending
    run,         \* the worker
    read,        \* history: the events of completed runs
    faults

said == <<transcript, aged>>
handlers == <<turn, note, retracting>>
vars == <<said, ledger, cursor, handlers, feedback, run, read, faults>>

Revisions == [role : {"user"}, of : Messages] \cup [role : {"assistant"}, of : Messages \cup Notes]
User(m) == [role |-> "user", of |-> m]
Assistant(x) == [role |-> "assistant", of |-> x]
Events == [kind : {"user", "assistant", "settled", "retracted"}, rev : Revisions,
           state : {"live", "retracted", "pruned"}, old : BOOLEAN, asks : BOOLEAN]

\* `asks`: the payload names hunch feedback; only messages keep their own time.
Event(kind, rev, asks) ==
    [kind |-> kind, rev |-> rev, state |-> "live",
     old |-> kind = rev.role /\ rev \in aged, asks |-> asks]
Live(i) == ledger[i].state = "live"

\* Mutant of HasEvent: what the worker has read does not count.
HasUnreadEvent(rev) ==
    \E i \in DOMAIN ledger :
        /\ i > cursor
        /\ ledger[i].kind = rev.role /\ ledger[i].rev = rev /\ ledger[i].state # "pruned"

\* conversation_event_identity: the kind and the revision are unique.
HasEvent(rev) ==
    \E i \in DOMAIN ledger :
        ledger[i].kind = rev.role /\ ledger[i].rev = rev /\ ledger[i].state # "pruned"

\* record_message: INSERT OR IGNORE on the kind and the revision
Recorded(rev, asks) ==
    IF HasEvent(rev) THEN ledger ELSE Append(ledger, Event(rev.role, rev, asks))

\* record_retraction: all revisions in one transaction
WithRetraction(revs) ==
    LET hidden == [i \in DOMAIN ledger |->
                      IF ledger[i].rev \in ToSet(revs) /\ Live(i)
                      THEN [ledger[i] EXCEPT !.state = "retracted"] ELSE ledger[i]]
    IN  hidden \o [k \in DOMAIN revs |-> Event("retracted", revs[k], FALSE)]

\* prune, for the cursor just written
Pruned(upto) ==
    [i \in DOMAIN ledger |-> IF i <= upto /\ ledger[i].old
                             THEN [ledger[i] EXCEPT !.state = "pruned"] ELSE ledger[i]]

-----------------------------------------------------------------------------
(* What the worker may read next: sets of ids, which are ordered.           *)

UpTo(S, i) == {j \in S : j <= i}

\* read_events_after: the first Window live events behind the cursor
Unread == {i \in DOMAIN ledger : i > cursor /\ Live(i)}
Readable == {i \in Unread : Cardinality(UpTo(Unread, i)) <= Window}

\* A user message is read whose exchange no event before i has closed.
Closes(i) == ledger[i].kind \in {"assistant", "settled"}
OpenBefore(i) ==
    \E j \in Readable : /\ j < i /\ ledger[j].kind = "user"
                        /\ \A k \in Readable : j < k /\ k < i => ~Closes(k)

\* Where an exchange is complete or a retraction stands.
Boundaries == {i \in Readable : \/ ledger[i].kind = "retracted"
                                \/ Closes(i) /\ OpenBefore(i)}
Near == {i \in Boundaries : Cardinality(UpTo(Readable, i)) <= BatchLimit}

\* Mutant of EndsBatch: only what fits the preferred limit.
EndsWithinLimit(i) == i \in Near /\ \A j \in Near : j <= i

\* The last boundary within the preferred limit, or else the first.
EndsBatch(i) ==
    \/ i \in Near /\ \A j \in Near : j <= i
    \/ Near = {} /\ i \in Boundaries /\ \A j \in Boundaries : i <= j

-----------------------------------------------------------------------------
(* The handlers that write the transcript and then the ledger.              *)

At(phase) == run.phase = phase

\* announce_input, which a worker that has subscribed learns of
Announce == run' = [run EXCEPT !.stale = run.phase \notin {"idle", "batched"}]

Turn(m, from, to) == turn[m] = from /\ turn' = [turn EXCEPT ![m] = to]

\* announce_input and ingest_message; a message stands for its burst, so the
\* next one comes when the slot is free.
Ask(m) ==
    /\ ~At("starting")
    /\ \A other \in Messages : turn[other] \notin {"stored", "marked", "heard"}
    /\ Turn(m, "unsent", "stored")
    /\ transcript' = Append(transcript, User(m))
    /\ Announce
    /\ UNCHANGED <<aged, ledger, cursor, note, retracting, feedback, read, faults>>

\* mark_feedback_pending: the message answers one that surfaced hunches
MarkFeedback(m) ==
    /\ m \in Doubtful
    /\ Turn(m, "stored", "marked")
    /\ feedback' = feedback \cup {m}
    /\ UNCHANGED <<said, ledger, cursor, note, retracting, run, read, faults>>

\* record_message, and the turn starts
RecordUser(m) ==
    /\ Turn(m, IF m \in Doubtful THEN "marked" ELSE "stored", "heard")
    /\ ledger' = Recorded(User(m), m \in Doubtful)
    /\ UNCHANGED <<said, cursor, note, retracting, feedback, run, read, faults>>

\* The slot is free before the reply is in the transcript.
Reply(m) ==
    /\ Turn(m, "heard", "answered")
    /\ transcript' = Append(transcript, Assistant(m))
    /\ UNCHANGED <<aged, ledger, cursor, note, retracting, feedback, run, read, faults>>

RecordReply(m) ==
    /\ Turn(m, "answered", "over")
    /\ ledger' = Recorded(Assistant(m), FALSE)
    /\ UNCHANGED <<said, cursor, note, retracting, feedback, run, read, faults>>

\* A turn without a visible reply: record_turn_disposition.
SettleTurn(m) ==
    /\ Turn(m, "heard", "over")
    /\ ledger' = Append(ledger, Event("settled", User(m), FALSE))
    /\ UNCHANGED <<said, cursor, note, retracting, feedback, run, read, faults>>

\* The turn fails or is stopped: the message stays without an answer.
Abandon(m) ==
    /\ Turn(m, "heard", "over")
    /\ UNCHANGED <<said, ledger, cursor, note, retracting, feedback, run, read, faults>>

\* A publication of the exploration worker, or a continuation.
PublishNote(n) ==
    /\ ~At("starting")
    /\ note[n] = "unsent"
    /\ note' = [note EXCEPT ![n] = "stored"]
    /\ transcript' = Append(transcript, Assistant(n))
    /\ UNCHANGED <<aged, ledger, cursor, turn, retracting, feedback, run, read, faults>>

RecordNote(n) ==
    /\ note[n] = "stored"
    /\ run.phase = "noting" => run.note # n
    /\ note' = [note EXCEPT ![n] = "over"]
    /\ ledger' = Recorded(Assistant(n), FALSE)
    /\ UNCHANGED <<said, cursor, turn, retracting, feedback, run, read, faults>>

\* retract_message: the message and everything behind it
Retract(m) ==
    /\ ~At("starting")
    /\ m \in Retractable
    /\ retracting = <<>>
    /\ \E k \in DOMAIN transcript :
          /\ transcript[k] = User(m)
          /\ transcript' = SubSeq(transcript, 1, k - 1)
          /\ retracting' = SubSeq(transcript, k, Len(transcript))
    /\ Announce
    /\ UNCHANGED <<aged, ledger, cursor, turn, note, feedback, read, faults>>

RecordRetraction ==
    /\ retracting # <<>>
    /\ ledger' = WithRetraction(retracting)
    /\ retracting' = <<>>
    /\ UNCHANGED <<said, cursor, turn, note, feedback, run, read, faults>>

-----------------------------------------------------------------------------
(* The worker: reflect_once.                                                *)

Idle == [phase |-> "idle", to |-> 0, batch |-> {}, stale |-> FALSE, note |-> "none"]
Go(phase) == run' = [run EXCEPT !.phase = phase]
Rest == UNCHANGED <<said, handlers>>
Busy == \E m \in Messages : turn[m] = "heard"

Take(to, batch) ==
    /\ At("idle")
    /\ run' = [Idle EXCEPT !.phase = "batched", !.to = to, !.batch = batch]
    /\ UNCHANGED <<ledger, cursor, feedback, read, faults>>
    /\ Rest

\* pending_batch, with the actionable_prefix that ends in `to`
ReadPending == \E to \in Readable : EndsBatch(to) /\ Take(to, UpTo(Readable, to))

\* retention_batch for a deferred proposal, or lifecycle_batch for a review
\* of the projections that is due or asked for
ReadWithoutEvents == Boundaries = {} /\ Take(cursor, {})

\* A response is active, the Codex client is lent, or a read fails.
Postpone ==
    /\ At("batched")
    /\ run' = Idle
    /\ UNCHANGED <<ledger, cursor, feedback, read, faults>>
    /\ Rest

\* subscribe_background_input, try_lock, start_run
Begin ==
    /\ At("batched")
    /\ ~Busy
    /\ Go("running")
    /\ UNCHANGED <<ledger, cursor, feedback, read, faults>>
    /\ Rest

\* A tool call of the run reconciles the feedback of a message.
Acknowledge(m) ==
    /\ At("running")
    /\ m \in feedback
    /\ feedback' = feedback \ {m}
    /\ UNCHANGED <<ledger, cursor, run, read, faults>>
    /\ Rest

\* fail_run after an error, or interrupt_run when input arrived
Fail ==
    /\ At("running")
    /\ run' = Idle
    /\ UNCHANGED <<ledger, cursor, feedback, read, faults>>
    /\ Rest

\* The messages of the batch whose event names hunch feedback
Asked == {ledger[i].rev.of : i \in {j \in run.batch : ledger[j].asks}}

\* The model is done.  Unreconciled feedback fails the run; an outreach is
\* suppressed when input arrived since the run began or somebody speaks.
Accept ==
    /\ At("running")
    /\ IF Asked \cap feedback # {} THEN run' = Idle
       ELSE Go("closing") \/ (~run.stale /\ ~Busy /\ Go("publishing"))
    /\ UNCHANGED <<ledger, cursor, feedback, read, faults>>
    /\ Rest

\* ingest_message; its error is only logged
Publish ==
    /\ At("publishing")
    /\ \/ /\ Go("closing")
          /\ UNCHANGED <<transcript, note>>
       \/ \E n \in Notes :
             /\ note[n] = "unsent"
             /\ note' = [note EXCEPT ![n] = "stored"]
             /\ transcript' = Append(transcript, Assistant(n))
             /\ run' = [run EXCEPT !.phase = "noting", !.note = n]
    /\ UNCHANGED <<aged, ledger, cursor, turn, retracting, feedback, read, faults>>

NoteOutreach ==
    /\ At("noting")
    /\ run' = [run EXCEPT !.phase = "closing", !.note = "none"]
    /\ note' = [note EXCEPT ![run.note] = "over"]
    /\ ledger' = Recorded(Assistant(run.note), FALSE)
    /\ UNCHANGED <<said, cursor, turn, retracting, feedback, read, faults>>

\* Mutant of Close: the cursor is moved to the end of the ledger.
CloseAtEnd ==
    /\ At("closing")
    /\ run' = Idle
    /\ cursor' = Len(ledger)
    /\ read' = read \cup run.batch
    /\ ledger' = Pruned(cursor')
    /\ UNCHANGED <<feedback, faults>>
    /\ Rest

\* Mutant of Close: the cursor is moved one event too far.
CloseBeyond ==
    /\ At("closing")
    /\ run' = Idle
    /\ cursor' = run.to + 1
    /\ read' = read \cup run.batch
    /\ ledger' = Pruned(cursor')
    /\ UNCHANGED <<feedback, faults>>
    /\ Rest

\* complete_run (status and cursor in one transaction) and prune
Close ==
    /\ At("closing")
    /\ run' = Idle
    /\ cursor' = run.to
    /\ read' = read \cup run.batch
    /\ ledger' = Pruned(run.to)
    /\ UNCHANGED <<feedback, faults>>
    /\ Rest

\* record_all or complete_run fails: whatever was published stays.
CloseFails ==
    /\ At("closing")
    /\ faults < MaxFaults
    /\ faults' = faults + 1
    /\ run' = Idle
    /\ UNCHANGED <<ledger, cursor, feedback, read>>
    /\ Rest

-----------------------------------------------------------------------------
(* Time and restarts.                                                       *)

\* retention_days pass, longer than anything runs
Age ==
    /\ Aging
    /\ At("idle")
    /\ \A m \in Messages : turn[m] \in {"unsent", "over"}
    /\ \A n \in Notes : note[n] # "stored"
    /\ retracting = <<>>
    /\ aged' = aged \cup ToSet(transcript)
    /\ ledger' = [i \in DOMAIN ledger |-> [ledger[i] EXCEPT !.old = TRUE]]
    /\ UNCHANGED <<transcript, cursor, handlers, feedback, run, read, faults>>

\* main.rs: the handlers are gone
Restart ==
    /\ faults < MaxFaults
    /\ faults' = faults + 1
    /\ turn' = [m \in Messages |-> IF turn[m] = "unsent" THEN "unsent" ELSE "over"]
    /\ note' = [n \in Notes |-> IF note[n] = "unsent" THEN "unsent" ELSE "over"]
    /\ retracting' = <<>>
    /\ run' = [Idle EXCEPT !.phase = "starting"]
    /\ UNCHANGED <<said, ledger, cursor, feedback, read>>

\* backfill_messages, one message after the other
Backfill ==
    /\ At("starting")
    /\ \E k \in DOMAIN transcript :
          /\ ~HasEvent(transcript[k])
          /\ \A j \in 1..(k - 1) : HasEvent(transcript[j])
          /\ ledger' = Recorded(transcript[k], FALSE)
    /\ UNCHANGED <<said, cursor, handlers, feedback, run, read, faults>>

\* The recent messages are recorded: handlers and worker start.
Started ==
    /\ At("starting")
    /\ \A k \in DOMAIN transcript : HasEvent(transcript[k])
    /\ run' = Idle
    /\ UNCHANGED <<ledger, cursor, feedback, read, faults>>
    /\ Rest

Init ==
    /\ transcript = <<>>
    /\ aged = {}
    /\ ledger = <<>>
    /\ cursor = 0
    /\ turn = [m \in Messages |-> "unsent"]
    /\ note = [n \in Notes |-> "unsent"]
    /\ retracting = <<>>
    /\ feedback = {}
    /\ run = Idle
    /\ read = {}
    /\ faults = 0

EndTurn(m) == Reply(m) \/ SettleTurn(m) \/ Abandon(m)

Worker == \/ ReadPending \/ ReadWithoutEvents
          \/ Postpone \/ Begin \/ Fail \/ Accept
          \/ Publish \/ NoteOutreach \/ Close \/ CloseFails
          \/ Backfill \/ Started

Next ==
    \/ \E m \in Messages : \/ Ask(m) \/ MarkFeedback(m) \/ RecordUser(m) \/ EndTurn(m) \/ RecordReply(m)
                           \/ Retract(m) \/ Acknowledge(m)
    \/ \E n \in Notes : PublishNote(n) \/ RecordNote(n)
    \/ RecordRetraction
    \/ Worker
    \/ Age \/ Restart

Spec == Init /\ [][Next]_vars

\* Turns end; the worker looks every 30 seconds, finds the client free again
\* and again, and its model reconciles feedback and finishes again and again.
Fairness ==
    /\ \A m \in Messages : WF_vars(EndTurn(m)) /\ SF_vars(Acknowledge(m))
    /\ WF_vars(ReadPending) /\ SF_vars(Begin) /\ SF_vars(Accept)
    /\ WF_vars(Publish) /\ WF_vars(NoteOutreach) /\ WF_vars(Close)
    /\ WF_vars(Backfill) /\ WF_vars(Started)

FairSpec == Spec /\ Fairness

-----------------------------------------------------------------------------
RunType ==
    [phase : {"starting", "idle", "batched", "running", "publishing", "noting", "closing"},
     to : Nat, batch : SUBSET Nat, stale : BOOLEAN, note : Notes \cup {"none"}]
Resting == run.phase \in {"starting", "idle"}

\* The types; the worker's batch lies between its cursor and the ledger's end.
TypeOK ==
    /\ transcript \in Seq(Revisions)
    /\ aged \subseteq Revisions
    /\ ledger \in Seq(Events)
    /\ cursor \in 0..Len(ledger)
    /\ turn \in [Messages -> {"unsent", "stored", "marked", "heard", "answered", "over"}]
    /\ note \in [Notes -> {"unsent", "stored", "over"}]
    /\ retracting \in Seq(Revisions)
    /\ feedback \subseteq Doubtful
    /\ run \in RunType
    /\ ~Resting => run.to \in cursor..Len(ledger) /\ run.batch \subseteq (cursor + 1)..run.to
    /\ At("noting") => run.note \in Notes
    /\ read \subseteq 1..cursor
    /\ faults \in 0..MaxFaults

\* The cursor never passes an event no completed run has read, and no event
\* is deleted unread, whatever is recorded, retracted or backfilled while the
\* model runs (complete_run, prune).
NothingIsSkipped ==
    [][\A i \in DOMAIN ledger :
          /\ Live(i)
          /\ (Live(i)' /\ i <= cursor') \/ ledger'[i].state = "pruned"
          => i \in read']_vars

\* While its event is kept, a message is the subject of one completed run,
\* though every restart records the recent messages again
\* (backfill_messages, INSERT OR IGNORE).
ReflectedOnce ==
    \A i, j \in read :
        /\ ledger[i].kind = ledger[j].kind
        /\ ledger[i].rev = ledger[j].rev
        /\ ledger[i].rev \notin aged
        => i = j

\* The ledger has one event per revision, also after restarts, and no event is reflected on twice
\* (reflection/store.rs).
LedgerIsExact == TypeOK /\ ReflectedOnce

Exchanged(m) == \E i, j \in DOMAIN ledger :
    /\ i < j /\ Live(i) /\ Live(j)
    /\ ledger[i].kind = "user" /\ ledger[i].rev = User(m)
    /\ ledger[j].kind \in {"assistant", "settled"} /\ ledger[j].rev.of = m

Considered(m) == \E i \in DOMAIN ledger :
    /\ ledger[i].kind = "user" /\ ledger[i].rev = User(m)
    /\ i \in read \/ ~Live(i)

\* A recorded exchange is reflected on in the end, unless it is retracted:
\* neither failed runs, restarts, interruptions nor the assistant's own
\* messages keep the worker from it (pending_batch, actionable_prefix).
ExchangesAreReflected == \A m \in Messages : Exchanged(m) ~> Considered(m)

=============================================================================
