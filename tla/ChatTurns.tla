------------------------------ MODULE ChatTurns ------------------------------
(***************************************************************************)
(* Interactive responses: the HTTP handlers that store user messages and   *)
(* stop or retract them, the task that answers a burst of messages         *)
(* (run_chat), and the worker that publishes a short continuation.  They   *)
(* share the coordinator's slot, the continuation queue, the one Codex     *)
(* client and the transcript, and interleave at every await.               *)
(*                                                                         *)
(* src/src/web.rs (chat, append_chat, interrupt_chat, retract_message,     *)
(* store_user_message, run_chat and its endings), src/src/continuation.rs  *)
(* (run_continuation), on top of ConversationCoordinator.                  *)
(***************************************************************************)
EXTENDS ConversationCoordinator, ContinuationQueue, FiniteSets

CONSTANTS
    Stops,        \* POST /api/chat/interrupt requests
    Retractable,  \* messages the user may retract (at most one retraction)
    Free,         \* nobody holds the Codex mutex
    Background    \* a background worker holds it

ASSUME HolderAssumption ==
    /\ Free \notin Messages \cup Continuations \cup {Background}
    /\ Background \notin Messages \cup Continuations
    /\ Messages \cap Continuations = {}
    /\ NoLease \notin Continuations
    /\ Retractable \subseteq Messages

VARIABLES
    handler,     \* the request of each message: where it stands, the lease it reserved
    turn,        \* the run_chat task of each lease
    worker,      \* the run_continuation task of each armed continuation
    codex,       \* holder of Arc<Mutex<CodexClient>>
    transcript,  \* live rows of transcript_messages, in sequence order
    stop,        \* each stop request: progress, the lease it hit, whether in time
    retraction   \* the retraction request

vars == <<active, epoch, stage, handler, turn, worker, codex, transcript, stop, retraction>>

Holders == Messages \cup Continuations \cup {Free, Background}

UserEntry(m)         == [kind |-> "user", of |-> m]
ReplyEntry(l)        == [kind |-> "reply", of |-> l]
ContinuationEntry(c) == [kind |-> "continuation", of |-> c]
Entries == [kind: {"user", "reply", "continuation"}, of: Messages \cup Continuations]

InTranscript(e) == \E i \in DOMAIN transcript : transcript[i] = e

HandlerStages == {"new", "admitted", "announced", "reserved", "cleared", "stored",
                  "accepted", "rejected", "gone"}

\* The append request still holds what reserve_append gave it.
Reserving(m) ==
    /\ handler[m].pc \in {"reserved", "cleared", "stored"}
    /\ handler[m].lease # NoLease

\* Stages in which run_chat has not let go of its lease.
OwningStages == {"settle", "taken", "observed", "calling", "failing", "clearing",
                 "returned", "deciding", "superseding", "cancelling", "stopping", "stopped",
                 "aborting"}
\* finish_if_idle has freed the slot; the reply is still to be stored.
ClosedStages == {"finishing", "settledSilent", "silenced", "replying", "replied", "marked",
                 "done"}
TurnStages   == {"none"} \cup OwningStages \cup ClosedStages

Fates == {"open", "replied", "silent", "stopped", "failed", "emptyBatch", "lost"}
Results == {"none", "reply", "silent", "interrupted"}

Running(l) == turn[l].pc \in OwningStages

WorkerStages == {"none", "sleeping", "idle", "claimed", "subscribed", "calling",
                 "returned", "publishing", "published", "done"}

NewTurn == [pc |-> "none", seen |-> 0, result |-> "none",
            conts |-> {}, covered |-> {}, replyEpoch |-> 0, fate |-> "open"]

Init ==
    /\ CoordinatorInit
    /\ QueueInit
    /\ handler = [m \in Messages |-> [pc |-> "new", lease |-> NoLease]]
    /\ turn = [l \in Messages |-> NewTurn]
    /\ worker = [c \in Continuations |->
                   [pc |-> "none", lease |-> NoLease, epoch |-> 0, seen |-> 0]]
    /\ codex = Free
    /\ transcript = <<>>
    /\ stop = [s \in Stops |-> [pc |-> "new", lease |-> NoLease, inTime |-> FALSE]]
    /\ retraction = [pc |-> "new", message |-> NoLease, lease |-> NoLease, inTime |-> FALSE]

-----------------------------------------------------------------------------
(* Handlers: chat, append_chat, store_user_message                          *)

\* A step of the task of lease l.
SetTurn(l, t) == turn' = [turn EXCEPT ![l] = t]
Goto(l, pc) == SetTurn(l, [turn[l] EXCEPT !.pc = pc])

requestVars == <<turn, worker, codex, stop, retraction>>

\* chat: admitted on a snapshot with no active response.
AdmitChat(m) ==
    /\ handler[m].pc = "new"
    /\ ~IsActive
    /\ handler' = [handler EXCEPT ![m].pc = "admitted"]
    /\ UNCHANGED <<active, epoch, stage, transcript, requestVars>>

\* chat: announce_input, before anything is stored.
AnnounceInput(m) ==
    /\ handler[m].pc = "admitted"
    /\ BumpInputEpoch
    /\ handler' = [handler EXCEPT ![m].pc = "announced"]
    /\ UNCHANGED <<active, stage, transcript, requestVars>>

\* append_chat: reserve a place in the active response.
ReserveMessage(m) ==
    /\ handler[m].pc = "new"
    /\ ReserveAppend
    /\ handler' = [handler EXCEPT ![m].pc = "reserved", ![m].lease = active.lease]
    /\ UNCHANGED <<epoch, stage, transcript, requestVars>>

\* store_user_message: a new message first cancels every continuation ...
ClearContinuations(m) ==
    /\ handler[m].pc \in {"announced", "reserved"}
    /\ CancelAll
    /\ handler' = [handler EXCEPT ![m].pc = "cleared"]
    /\ UNCHANGED <<active, epoch, transcript, requestVars>>

\* ... and is then written to the transcript.
StoreMessage(m) ==
    /\ handler[m].pc = "cleared"
    /\ transcript' = Append(transcript, UserEntry(m))
    /\ handler' = [handler EXCEPT ![m].pc = "stored"]
    /\ UNCHANGED <<active, epoch, stage, requestVars>>

\* store_user_message returns an error, before or after the row was written
\* (the reflection and topic records follow it): append_chat gives back its place.
StoreFails(m) ==
    /\ handler[m].pc \in {"cleared", "stored"}
    /\ CancelAppend(handler[m].lease)
    /\ handler' = [handler EXCEPT ![m].pc = "rejected"]
    /\ UNCHANGED <<epoch, stage, transcript, requestVars>>

\* chat: start owns the slot and spawns run_chat ...
StartTurn(m) ==
    /\ handler[m] = [pc |-> "stored", lease |-> NoLease]
    /\ Start(m)
    /\ Goto(m, "settle")
    /\ handler' = [handler EXCEPT ![m] = [pc |-> "accepted", lease |-> m]]
    /\ UNCHANGED <<stage, transcript, worker, codex, stop, retraction>>

\* ... or loses the race for the slot: the stored message gets no turn.
StartConflict(m) ==
    /\ handler[m] = [pc |-> "stored", lease |-> NoLease]
    /\ IsActive
    /\ handler' = [handler EXCEPT ![m].pc = "rejected"]
    /\ UNCHANGED <<active, epoch, stage, transcript, requestVars>>

\* append_chat: the reservation becomes a pending message ...
AppendMessage(m) ==
    /\ handler[m].pc = "stored"
    /\ AppendReserved(handler[m].lease, m)
    /\ handler' = [handler EXCEPT ![m].pc = "accepted"]
    /\ UNCHANGED <<stage, transcript, requestVars>>

\* ... or the response is gone or stopping: cancel_append has nothing to undo.
AppendRefused(m) ==
    /\ handler[m].pc = "stored"
    /\ handler[m].lease # NoLease
    /\ ~CanAppend(handler[m].lease)
    /\ handler' = [handler EXCEPT ![m].pc = "rejected"]
    /\ UNCHANGED <<active, epoch, stage, transcript, requestVars>>

\* The client closes the connection: the handler's future is dropped where it
\* waits, and a reservation it holds has no guard that gives it back.
Disconnect(m) ==
    /\ handler[m].pc \in {"admitted", "announced", "reserved", "cleared", "stored"}
    /\ handler' = [handler EXCEPT ![m].pc = "gone"]
    /\ UNCHANGED <<active, epoch, stage, transcript, requestVars>>

-----------------------------------------------------------------------------
(* interrupt_chat and retract_message                                       *)

\* The stop is in time unless the turn has already asked is_interrupted.
InTime == turn[active.lease].pc # "deciding"

AcceptStop(s) ==
    /\ stop[s].pc = "new"
    /\ Interrupt
    /\ stop' = [stop EXCEPT ![s] = [pc |-> "flagged", lease |-> active.lease,
                                    inTime |-> InTime]]
    /\ UNCHANGED <<epoch, stage, handler, turn, worker, codex, transcript, retraction>>

\* interrupt: the epoch is bumped outside the lock.
AnnounceStop(s) ==
    /\ stop[s].pc = "flagged"
    /\ BumpInputEpoch
    /\ stop' = [stop EXCEPT ![s].pc = "announced"]
    /\ UNCHANGED <<active, stage, handler, turn, worker, codex, transcript, retraction>>

StopContinuations(s) ==
    /\ stop[s].pc = "announced"
    /\ CancelAll
    /\ stop' = [stop EXCEPT ![s].pc = "done"]
    /\ UNCHANGED <<active, epoch, handler, turn, worker, codex, transcript, retraction>>

retractionFrame == <<handler, turn, worker, codex, stop>>

\* retract_message: announce_input ...
AnnounceRetraction(m) ==
    /\ retraction.pc = "new"
    /\ InTranscript(UserEntry(m))
    /\ BumpInputEpoch
    /\ retraction' = [retraction EXCEPT !.pc = "announced", !.message = m]
    /\ UNCHANGED <<active, stage, transcript, retractionFrame>>

\* ... interrupt, when a response is active and not already stopping ...
RetractionInterrupts ==
    /\ retraction.pc = "announced"
    /\ IF IsActive /\ ~active.interrupted
         THEN /\ Interrupt
              /\ retraction' = [retraction EXCEPT !.pc = "flagged",
                                  !.lease = active.lease, !.inTime = InTime]
         ELSE /\ retraction' = [retraction EXCEPT !.pc = "interrupted"]
              /\ UNCHANGED active
    /\ UNCHANGED <<epoch, stage, transcript, retractionFrame>>

RetractionBumps ==
    /\ retraction.pc = "flagged"
    /\ BumpInputEpoch
    /\ retraction' = [retraction EXCEPT !.pc = "interrupted"]
    /\ UNCHANGED <<active, stage, transcript, retractionFrame>>

\* ... cancel_all ...
RetractionClears ==
    /\ retraction.pc = "interrupted"
    /\ CancelAll
    /\ retraction' = [retraction EXCEPT !.pc = "cleared"]
    /\ UNCHANGED <<active, epoch, transcript, retractionFrame>>

\* ... and every live row from the message's sequence on is retracted.
TruncateTranscript ==
    /\ retraction.pc = "cleared"
    /\ \E i \in DOMAIN transcript :
         /\ transcript[i] = UserEntry(retraction.message)
         /\ transcript' = SubSeq(transcript, 1, i - 1)
    /\ retraction' = [retraction EXCEPT !.pc = "done"]
    /\ UNCHANGED <<active, epoch, stage, retractionFrame>>

-----------------------------------------------------------------------------
(* run_chat                                                                 *)

turnVars == <<handler, worker, stop, retraction>>

End(l, fate) == SetTurn(l, [turn[l] EXCEPT !.pc = "done", !.fate = fate])

Covers(l, batch) == turn[l].covered \cup {batch[i] : i \in DOMAIN batch}

\* settle_and_take returned the queued messages.
Settle(l) ==
    /\ turn[l].pc = "settle"
    /\ TakePending(l)
    /\ SetTurn(l, [turn[l] EXCEPT !.pc = "taken", !.covered = Covers(l, active.pending)])
    /\ UNCHANGED <<epoch, stage, codex, transcript, turnVars>>

\* settle_and_take returned Interrupted.
SettleInterrupted(l) ==
    /\ turn[l].pc = "settle"
    /\ Owns(l)
    /\ active.interrupted
    /\ Goto(l, "stopping")
    /\ UNCHANGED <<active, epoch, stage, codex, transcript, turnVars>>

\* Mutant of SettleEmpty: an empty batch keeps waiting for a message.
SettleWaits(l) ==
    /\ turn[l].pc = "settle" /\ Owns(l) /\ active.pending = <<>>
    /\ UNCHANGED vars

\* settle_and_take: the quiet window is over and nothing is queued, an error
\* that ends the turn even while an append is reserved.
SettleEmpty(l) ==
    /\ turn[l].pc = "settle"
    /\ Owns(l)
    /\ ~active.interrupted
    /\ active.pending = <<>>
    /\ SetTurn(l, [turn[l] EXCEPT !.pc = "aborting", !.fate = "emptyBatch"])
    /\ UNCHANGED <<active, epoch, stage, codex, transcript, turnVars>>

\* input_events.borrow_and_update
ObserveInput(l) ==
    /\ turn[l].pc = "taken"
    /\ SetTurn(l, [turn[l] EXCEPT !.pc = "observed", !.seen = epoch])
    /\ UNCHANGED <<active, epoch, stage, codex, transcript, turnVars>>

\* The council yielded to new input, or a message is queued: start over.
CouncilYields(l) ==
    /\ turn[l].pc = "observed"
    /\ epoch # turn[l].seen \/ active.pending # <<>>
    /\ Goto(l, "settle")
    /\ UNCHANGED <<active, epoch, stage, codex, transcript, turnVars>>

\* codex.lock().await, then chat(..).
CallCodex(l) ==
    /\ turn[l].pc = "observed"
    /\ codex = Free
    /\ codex' = l
    /\ Goto(l, "calling")
    /\ UNCHANGED <<active, epoch, stage, transcript, turnVars>>

\* The model asks for a short continuation during the call.
ReserveContinuation(l, c) ==
    /\ turn[l].pc = "calling"
    /\ Reserve(c)
    /\ SetTurn(l, [turn[l] EXCEPT !.conts = @ \cup {c}])
    /\ UNCHANGED <<active, epoch, codex, transcript, turnVars>>

\* The call ends; it is cut short only by an input after the one observed.
CodexReturns(l, result) ==
    /\ turn[l].pc = "calling"
    /\ result = "interrupted" => epoch # turn[l].seen
    /\ codex' = Free
    /\ SetTurn(l, [turn[l] EXCEPT !.pc = "returned", !.result = result])
    /\ UNCHANGED <<active, epoch, stage, transcript, turnVars>>

\* The call fails: what it reserved is lost with its outcome.
CodexFails(l) ==
    /\ turn[l].pc = "calling"
    /\ codex' = Free
    /\ SetTurn(l, [turn[l] EXCEPT !.pc = "failing", !.conts = {}])
    /\ UNCHANGED <<active, epoch, stage, transcript, turnVars>>

\* The error path asks is_interrupted, and otherwise cancels and gives up.
ExamineFailure(l) ==
    /\ turn[l].pc = "failing"
    /\ Goto(l, IF active.interrupted THEN "stopping" ELSE "clearing")
    /\ UNCHANGED <<active, epoch, stage, codex, transcript, turnVars>>

ClearAfterFailure(l) ==
    /\ turn[l].pc = "clearing"
    /\ CancelAll
    /\ Goto(l, "aborting")
    /\ UNCHANGED <<active, epoch, codex, transcript, turnVars>>

\* Mutant of CheckInterrupted: the check after the call is missing.
CheckSkipped(l) ==
    /\ turn[l].pc = "returned"
    /\ Goto(l, "deciding")
    /\ UNCHANGED <<active, epoch, stage, codex, transcript, turnVars>>

\* is_interrupted, after a successful call.
CheckInterrupted(l) ==
    /\ turn[l].pc = "returned"
    /\ Goto(l, IF active.interrupted THEN "cancelling" ELSE "deciding")
    /\ UNCHANGED <<active, epoch, stage, codex, transcript, turnVars>>

\* interrupted || has_pending || !finish_if_idle: the burst goes on.
BurstContinues(l) ==
    /\ turn[l].pc = "deciding"
    /\ turn[l].result = "interrupted" \/ HasWork
    /\ Goto(l, "superseding")
    /\ UNCHANGED <<active, epoch, stage, codex, transcript, turnVars>>

\* cancel_follow_ups, continuations.cancel, supersede_intents of this call.
WithdrawEffects(l) ==
    /\ turn[l].pc \in {"superseding", "cancelling"}
    /\ Cancel(turn[l].conts)
    /\ SetTurn(l, [turn[l] EXCEPT
                     !.pc = IF @ = "superseding" THEN "settle" ELSE "stopping", !.conts = {}])
    /\ UNCHANGED <<active, epoch, codex, transcript, turnVars>>

\* finish_if_idle returned true: the slot is free, the reply not yet stored.
FinishTurn(l) ==
    /\ turn[l].pc = "deciding"
    /\ turn[l].result # "interrupted"
    /\ FinishIfIdle(l)
    /\ Goto(l, "finishing")
    /\ UNCHANGED <<epoch, stage, codex, transcript, turnVars>>

\* response_input_epoch is read after the slot was freed.
ReadReplyEpoch(l) ==
    /\ turn[l].pc = "finishing"
    /\ SetTurn(l, [turn[l] EXCEPT !.replyEpoch = epoch,
                     !.pc = IF turn[l].result = "silent" THEN "settledSilent" ELSE "replying"])
    /\ UNCHANGED <<active, epoch, stage, codex, transcript, turnVars>>

\* finish_non_reply_chat withdraws the effects of the call ...
SettleSilently(l) ==
    /\ turn[l].pc = "settledSilent"
    /\ Cancel(turn[l].conts)
    /\ Goto(l, "silenced")
    /\ UNCHANGED <<active, epoch, codex, transcript, turnVars>>

\* ... and, with the Codex mutex, marks and records the disposition.
MarkSilent(l) ==
    /\ turn[l].pc = "silenced"
    /\ codex = Free
    /\ End(l, "silent")
    /\ UNCHANGED <<active, epoch, stage, codex, transcript, turnVars>>

\* continuity.ingest_message: the reply becomes a transcript row.
StoreReply(l) ==
    /\ turn[l].pc = "replying"
    /\ transcript' = Append(transcript, ReplyEntry(l))
    /\ SetTurn(l, [turn[l] EXCEPT !.pc = "replied", !.fate = "replied"])
    /\ UNCHANGED <<active, epoch, stage, codex, turnVars>>

\* mark_interactive_revision waits for the Codex mutex.
MarkReply(l) ==
    /\ turn[l].pc = "replied"
    /\ codex = Free
    /\ Goto(l, "marked")
    /\ UNCHANGED <<active, epoch, stage, codex, transcript, turnVars>>

\* continuations.arm: a reservation that survived becomes a job of the worker.
ArmContinuation(l) ==
    /\ turn[l].pc = "marked"
    /\ Goto(l, "done")
    /\ IF \E c \in turn[l].conts : CanArm(c)
         THEN \E c \in turn[l].conts :
                /\ Arm(c)
                /\ worker' = [worker EXCEPT ![c] =
                      [pc |-> "sleeping", lease |-> l, epoch |-> turn[l].replyEpoch, seen |-> 0]]
         ELSE UNCHANGED <<stage, worker>>
    /\ UNCHANGED <<active, epoch, codex, transcript, handler, stop, retraction>>

\* finish_interrupted_chat: cancel_all, then abort.
StopTurn(l) ==
    /\ turn[l].pc = "stopping"
    /\ CancelAll
    /\ Goto(l, "stopped")
    /\ UNCHANGED <<active, epoch, codex, transcript, turnVars>>

\* Mutant of ReleaseStopped: the lease is not aborted.
StoppedKeepsSlot(l) ==
    /\ turn[l].pc = "stopped"
    /\ End(l, "stopped")
    /\ UNCHANGED <<active, epoch, stage, codex, transcript, turnVars>>

ReleaseStopped(l) ==
    /\ turn[l].pc = "stopped"
    /\ Abort(l)
    /\ End(l, "stopped")
    /\ UNCHANGED <<epoch, stage, codex, transcript, turnVars>>

\* A step between two awaits returns an error (context, usage, reflection).
TurnError(l) ==
    /\ turn[l].pc \in {"observed", "superseding", "cancelling"}
    /\ Goto(l, "aborting")
    /\ UNCHANGED <<active, epoch, stage, codex, transcript, turnVars>>

\* The spawned task aborts its lease when run_chat returned an error.
AbortTurn(l) ==
    /\ turn[l].pc = "aborting"
    /\ Abort(l)
    /\ End(l, IF turn[l].fate = "open" THEN "failed" ELSE turn[l].fate)
    /\ UNCHANGED <<epoch, stage, codex, transcript, turnVars>>

\* An error after the slot was freed: abort has no lease to free, and a
\* reservation of the call stays in the queue until its TTL or a cancel_all.
CompletionError(l) ==
    /\ turn[l].pc \in {"settledSilent", "silenced", "replying", "replied", "marked"}
    /\ End(l, IF turn[l].fate = "open" THEN "lost" ELSE turn[l].fate)
    /\ UNCHANGED <<active, epoch, stage, codex, transcript, turnVars>>

\* The steps the runtime takes of itself once the task is spawned.
TurnProgress(l) ==
    \/ Settle(l) \/ SettleInterrupted(l) \/ SettleEmpty(l) \/ ObserveInput(l)
    \/ CouncilYields(l) \/ CallCodex(l)
    \/ \E r \in Results \ {"none"} : CodexReturns(l, r)
    \/ ExamineFailure(l) \/ ClearAfterFailure(l) \/ CheckInterrupted(l)
    \/ BurstContinues(l) \/ WithdrawEffects(l) \/ FinishTurn(l) \/ ReadReplyEpoch(l)
    \/ SettleSilently(l) \/ MarkSilent(l) \/ StoreReply(l) \/ MarkReply(l)
    \/ ArmContinuation(l) \/ StopTurn(l) \/ ReleaseStopped(l) \/ AbortTurn(l)

\* Those it takes only when the model or an error makes it.
TurnStep(l) ==
    \/ TurnProgress(l)
    \/ \E c \in Continuations : ReserveContinuation(l, c)
    \/ CodexFails(l) \/ TurnError(l) \/ CompletionError(l)

-----------------------------------------------------------------------------
(* run_continuation                                                         *)

workerFrame == <<active, epoch, handler, turn, stop, retraction>>

At(c, pc) == worker[c].pc = pc
Move(c, pc) == worker' = [worker EXCEPT ![c].pc = pc]

\* complete(id) and return, at whichever point the continuation gives up.
GiveUp(c) == Complete(c) /\ Move(c, "done")

\* wait_for_idle_input: no input since the reply, and no active response.
WaitForIdle(c) ==
    /\ At(c, "sleeping")
    /\ IF epoch = worker[c].epoch /\ ~IsActive
         THEN Move(c, "idle") /\ UNCHANGED stage
         ELSE GiveUp(c)
    /\ UNCHANGED <<codex, transcript, workerFrame>>

ClaimContinuation(c) ==
    /\ At(c, "idle")
    /\ IF CanClaim(c) THEN Claim(c) /\ Move(c, "claimed") ELSE GiveUp(c)
    /\ UNCHANGED <<codex, transcript, workerFrame>>

\* subscribe_background_input, and the epoch is compared once more.
SubscribeContinuation(c) ==
    /\ At(c, "claimed")
    /\ ~IsActive
    /\ epoch = worker[c].epoch
    /\ worker' = [worker EXCEPT ![c].pc = "subscribed", ![c].seen = epoch]
    /\ UNCHANGED <<stage, codex, transcript, workerFrame>>

\* Continuations are disabled, a response is active, or input has arrived.
ContinuationYields(c) ==
    /\ At(c, "claimed")
    /\ GiveUp(c)
    /\ UNCHANGED <<codex, transcript, workerFrame>>

\* codex.try_lock: a busy client ends the continuation.
TryCodex(c) ==
    /\ At(c, "subscribed")
    /\ IF codex = Free
         THEN codex' = c /\ Move(c, "calling") /\ UNCHANGED stage
         ELSE GiveUp(c) /\ UNCHANGED codex
    /\ UNCHANGED <<transcript, workerFrame>>

ContinuationReturnsText(c) ==
    /\ At(c, "calling")
    /\ codex' = Free
    /\ Move(c, "returned")
    /\ UNCHANGED <<stage, transcript, workerFrame>>

\* Interrupted by input, silent, or failed: nothing to publish.
ContinuationReturnsNothing(c) ==
    /\ At(c, "calling")
    /\ codex' = Free
    /\ GiveUp(c)
    /\ UNCHANGED <<transcript, workerFrame>>

\* Mutant of MayPublish: the epoch is not compared after the call.
MayPublishRunning(c) == IsRunning(c)

MayPublish(c) == epoch = worker[c].epoch /\ IsRunning(c)

\* `publish` is decided before usage.record_all is awaited ...
DecidePublication(c) ==
    /\ At(c, "returned")
    /\ IF MayPublish(c) THEN Move(c, "publishing") /\ UNCHANGED stage ELSE GiveUp(c)
    /\ UNCHANGED <<codex, transcript, workerFrame>>

\* ... and acted upon after it.
StoreContinuation(c) ==
    /\ At(c, "publishing")
    /\ transcript' = Append(transcript, ContinuationEntry(c))
    /\ Move(c, "published")
    /\ UNCHANGED <<stage, codex, workerFrame>>

FinishContinuation(c) ==
    /\ At(c, "published")
    /\ codex = Free
    /\ GiveUp(c)
    /\ UNCHANGED <<codex, transcript, workerFrame>>

\* A store or history call fails: the worker completes the id and gives up.
ContinuationError(c) ==
    /\ worker[c].pc \in {"subscribed", "publishing", "published"}
    /\ GiveUp(c)
    /\ UNCHANGED <<codex, transcript, workerFrame>>

WorkerStep(c) ==
    \/ WaitForIdle(c) \/ ClaimContinuation(c) \/ SubscribeContinuation(c)
    \/ ContinuationYields(c) \/ TryCodex(c) \/ ContinuationReturnsText(c)
    \/ ContinuationReturnsNothing(c) \/ DecidePublication(c) \/ StoreContinuation(c)
    \/ FinishContinuation(c)

-----------------------------------------------------------------------------
(* Exploration, reflection and maintenance take the client with try_lock.   *)

backgroundFrame ==
    <<active, epoch, stage, handler, turn, worker, transcript, stop, retraction>>

BackgroundTakes    == codex = Free /\ codex' = Background /\ UNCHANGED backgroundFrame
BackgroundReleases == codex = Background /\ codex' = Free /\ UNCHANGED backgroundFrame

HandlerStep(m) ==
    \/ AdmitChat(m) \/ AnnounceInput(m) \/ ReserveMessage(m) \/ ClearContinuations(m)
    \/ StoreMessage(m) \/ StoreFails(m) \/ StartTurn(m) \/ StartConflict(m)
    \/ AppendMessage(m) \/ AppendRefused(m) \/ Disconnect(m)

StopStep(s) == AcceptStop(s) \/ AnnounceStop(s) \/ StopContinuations(s)

RetractionStep ==
    \/ \E m \in Retractable : AnnounceRetraction(m)
    \/ RetractionInterrupts \/ RetractionBumps \/ RetractionClears \/ TruncateTranscript

Next ==
    \/ \E m \in Messages : HandlerStep(m) \/ TurnStep(m)
    \/ \E c \in Continuations : WorkerStep(c) \/ ContinuationError(c)
    \/ \E s \in Stops : StopStep(s)
    \/ RetractionStep
    \/ BackgroundTakes \/ BackgroundReleases

Spec == Init /\ [][Next]_vars

-----------------------------------------------------------------------------
(* What the scheduling provides: spawned tasks run, Codex calls end (the    *)
(* app-server connection has an idle timeout), a background holder releases *)
(* the client, and tokio's mutex is FIFO, so a turn that waits for the      *)
(* client gets it.  Requests of the user are not assumed.                   *)

Fairness ==
    /\ \A l \in Messages :
         WF_vars(TurnProgress(l)) /\ SF_vars(CallCodex(l)) /\ SF_vars(MarkReply(l))
         /\ SF_vars(MarkSilent(l))
    /\ \A c \in Continuations : WF_vars(WorkerStep(c)) /\ SF_vars(FinishContinuation(c))
    /\ WF_vars(BackgroundReleases)

FairSpec == Spec /\ Fairness

-----------------------------------------------------------------------------
(* Properties                                                               *)

HandlerType == [pc: HandlerStages, lease: Leases]

TurnType ==
    [pc: TurnStages, seen: Nat, result: Results,
     conts: SUBSET Continuations, covered: SUBSET Messages, replyEpoch: Nat, fate: Fates]

WorkerType == [pc: WorkerStages, lease: Leases, epoch: Nat, seen: Nat]

StopType == [pc: {"new", "flagged", "announced", "done"}, lease: Leases, inTime: BOOLEAN]

RetractionType ==
    [pc: {"new", "announced", "flagged", "interrupted", "cleared", "done"},
     message: Leases, lease: Leases, inTime: BOOLEAN]

TypeOK ==
    /\ active \in ActiveType
    /\ epoch \in Nat
    /\ stage \in [Continuations -> Stages]
    /\ handler \in [Messages -> HandlerType]
    /\ turn \in [Messages -> TurnType]
    /\ worker \in [Continuations -> WorkerType]
    /\ codex \in Holders
    /\ transcript \in Seq(Entries)
    /\ stop \in [Stops -> StopType]
    /\ retraction \in RetractionType

(* The slot belongs to the one turn that still holds its lease, and to no   *)
(* other: `?` on a coordinator call inside run_chat can never meet a lease  *)
(* that somebody else took away, and two turns never answer at once.        *)
OneResponseOwnsSlot ==
    \A l \in Messages : Running(l) <=> active.lease = l

StoppedBy(l) == retraction.lease = l \/ \E s \in Stops : stop[s].lease = l

ClosedIdle(l) == turn[l].pc \in ClosedStages /\ turn[l].fate \in {"open", "replied", "silent", "lost"}

(* A message that append_chat or chat accepted is never forgotten: when the *)
(* turn ends of its own accord, without a stop, every message accepted into *)
(* it has been handed to the model (finish_if_idle against a racing append).*)
ReplyCoversBurst ==
    \A l, m \in Messages :
        ClosedIdle(l) /\ ~StoppedBy(l) /\ handler[m] = [pc |-> "accepted", lease |-> l]
        => m \in turn[l].covered

(* append_reservations counts the append requests under way, and those whose *)
(* client went away: interrupt's reset and the saturating cancel_append      *)
(* never let it drift below them while the response can still be appended to.*)
ReservationsAccounted ==
    IsActive /\ ~active.interrupted =>
        active.reservations =
            Cardinality({m \in Messages :
                /\ handler[m].lease = active.lease
                /\ Reserving(m) \/ handler[m].pc = "gone"})

(* A stop (or the interrupt of a retraction) that arrives before the turn's  *)
(* last look at is_interrupted ends it without a reply or a reaction.        *)
StoppedInTime(l) ==
    \/ retraction.lease = l /\ retraction.inTime
    \/ \E s \in Stops : stop[s].lease = l /\ stop[s].inTime

StoppedTurnNeverReplies ==
    \A l \in Messages : StoppedInTime(l) => turn[l].fate \notin {"replied", "silent", "lost"}

(* The queue holds one continuation at most, whatever cancels, claims, sweeps *)
(* and re-reservations interleave.                                            *)
OneSlotQueue == \A c, d \in Queue : c = d

(* The bookkeeping of the slot is exact: the reservations are those of the    *)
(* appends under way, and the queue holds one continuation at most            *)
(* (conversation.rs, continuation.rs).                                        *)
BookkeepingIsExact == TypeOK /\ ReservationsAccounted /\ OneSlotQueue

(* When a continuation passes its last check, no accepted user message comes  *)
(* after the reply it continues: neither the late read of the reply's epoch   *)
(* nor a cancel between the claim and the check lets a stale one through.     *)
ContinuationFollowsItsReply ==
    [][\A c \in Continuations :
         (worker[c].pc # "publishing" /\ worker'[c].pc = "publishing") =>
         \A i, j \in DOMAIN transcript :
            (transcript[i] = ReplyEntry(worker[c].lease) /\ i < j)
            => ~\E m \in Messages :
                    transcript[j] = UserEntry(m) /\ handler[m].pc = "accepted"]_vars

PhaseOf(l) ==
    IF turn[l].pc = "none" THEN "none"
    ELSE IF Running(l) THEN "open"
    ELSE IF turn[l].fate = "replied" THEN "replied"
    ELSE IF turn[l].pc = "done" THEN "ended" ELSE "closed"

Slot == INSTANCE TurnSlot WITH
            Leases <- Messages, None <- NoLease,
            slot <- active.lease, phase <- [l \in Messages |-> PhaseOf(l)]

(* Turns implement TurnSlot: one open response at a time, closed once, and a *)
(* reply only from one that closed of its own accord, at most once.          *)
ImplementsTurnSlot == Slot!Spec

(* With the runtime's fairness, every open response closes and every closed  *)
(* one delivers or ends.                                                     *)
ImplementsFairTurnSlot == Slot!FairSpec

-----------------------------------------------------------------------------
(* What the repository says and the code does not do (see README, findings) *)

(* conversation.rs, test reserved_append_keeps_the_response_open_until_       *)
(* storage_finishes: a reserved append keeps the response open until its      *)
(* message is stored.                                                         *)
ReservedAppendKeepsResponseOpen ==
    \A l \in Messages : Owns(l) /\ active.reservations > 0 => turn[l].fate # "emptyBatch"

(* web/message-actions.js: retracting takes back the message and the          *)
(* conversation after it, so no reply that answers it stays or appears.       *)
RetractionTakesTheReply ==
    retraction.pc = "done" =>
        \A l \in Messages : InTranscript(ReplyEntry(l)) => retraction.message \notin turn[l].covered

(* web/app.js: a stop that was not accepted means the response has ended, so  *)
(* an accepted one means that the response is being stopped.                  *)
AcceptedStopSuppressesReply ==
    \A s \in Stops, l \in Messages : stop[s].lease = l => turn[l].fate # "replied"
=============================================================================
