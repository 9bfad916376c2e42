--------------------------- MODULE ChatTurnsProofs ---------------------------
(***************************************************************************)
(* What holds of ChatTurns for every set of messages, continuations and    *)
(* stop requests.  The type invariant comes first; the slot, the queue,    *)
(* the stops and the refinement of TurnSlot follow from inductive          *)
(* invariants that strengthen it.                                          *)
(*                                                                         *)
(* Then what becomes of an accepted message: the reservations are counted  *)
(* exactly, a burst is answered as a whole, and a continuation is          *)
(* published only while nothing has come after the reply it continues.     *)
(***************************************************************************)
EXTENDS ChatTurns, SequenceTheorems, FiniteSetTheorems, TLAPS

-----------------------------------------------------------------------------
(* The helpers of the coordinator, the queue and the tasks keep their types. *)

(* Removing ids from the queue leaves a well-typed map (ContinuationQueue's  *)
(* cancel, cancel_all and complete).                                         *)
LEMMA RemoveType ==
    ASSUME stage \in [Continuations -> Stages], NEW ids, Remove(ids)
    PROVE  stage' \in [Continuations -> Stages]
BY DEF Remove, Stages

(* A step of a turn that leaves a well-typed record leaves well-typed turns. *)
LEMMA SetTurnType ==
    ASSUME turn \in [Messages -> TurnType], NEW l \in Messages, NEW t \in TurnType,
           SetTurn(l, t)
    PROVE  turn' \in [Messages -> TurnType]
BY DEF SetTurn

LEMMA GotoType ==
    ASSUME turn \in [Messages -> TurnType], NEW l \in Messages, NEW pc \in TurnStages,
           Goto(l, pc)
    PROVE  turn' \in [Messages -> TurnType]
<1>1. [turn[l] EXCEPT !.pc = pc] \in TurnType
  BY DEF TurnType
<1> QED BY <1>1, SetTurnType DEF Goto

LEMMA EndType ==
    ASSUME turn \in [Messages -> TurnType], NEW l \in Messages, NEW fate \in Fates,
           End(l, fate)
    PROVE  turn' \in [Messages -> TurnType]
<1>1. "done" \in TurnStages
  BY DEF TurnStages, ClosedStages
<1>2. [turn[l] EXCEPT !.pc = "done", !.fate = fate] \in TurnType
  BY <1>1 DEF TurnType
<1> QED BY <1>2, SetTurnType DEF End

(* The coordinator's interrupt and abort keep the type of the slot.          *)
LEMMA InterruptType ==
    ASSUME active \in ActiveType, Interrupt
    PROVE  active' \in ActiveType
<1>1. <<>> \in Seq(Messages)
  OBVIOUS
<1> QED BY <1>1 DEF Interrupt, ActiveType

LEMMA AbortType ==
    ASSUME active \in ActiveType, NEW l \in Messages, Abort(l)
    PROVE  active' \in ActiveType
<1>1. NoResponse \in ActiveType
  BY DEF NoResponse, ActiveType, Leases
<1> QED BY <1>1 DEF Abort

-----------------------------------------------------------------------------
(* Type correctness, one lemma for each kind of actor.                       *)

LEMMA InitType == Init => TypeOK
<1> SUFFICES ASSUME Init PROVE TypeOK
  OBVIOUS
<1> USE DEF Init
<1>1. active \in ActiveType /\ epoch \in Nat
  BY DEF CoordinatorInit, NoResponse, ActiveType, Leases
<1>2. stage \in [Continuations -> Stages]
  BY DEF QueueInit, Stages
<1>3. handler \in [Messages -> HandlerType]
  BY DEF HandlerType, HandlerStages, Leases
<1>4. turn \in [Messages -> TurnType]
  BY DEF NewTurn, TurnType, TurnStages, Results, Fates
<1>5. worker \in [Continuations -> WorkerType]
  BY DEF WorkerType, WorkerStages, Leases
<1>6. codex \in Holders
  BY DEF Holders
<1>7. stop \in [Stops -> StopType]
  BY DEF StopType, Leases
<1>8. retraction \in RetractionType
  BY DEF RetractionType, Leases
<1>9. transcript \in Seq(Entries)
  OBVIOUS
<1> QED
  BY <1>1, <1>2, <1>3, <1>4, <1>5, <1>6, <1>7, <1>8, <1>9 DEF TypeOK

(* Every step of a request of the user's, of chat or append_chat.            *)
LEMMA HandlerStepType ==
    ASSUME TypeOK, NEW m \in Messages, HandlerStep(m)
    PROVE  TypeOK'
<1>1. CASE AdmitChat(m) \/ StartConflict(m) \/ AppendRefused(m) \/ Disconnect(m)
  <2>1. handler' \in [Messages -> HandlerType]
    BY <1>1 DEF AdmitChat, StartConflict, AppendRefused, Disconnect, TypeOK, HandlerType,
                HandlerStages
  <2> QED
    BY <1>1, <2>1 DEF AdmitChat, StartConflict, AppendRefused, Disconnect, TypeOK, requestVars
<1>2. CASE AnnounceInput(m)
  <2>1. handler' \in [Messages -> HandlerType]
    BY <1>2 DEF AnnounceInput, TypeOK, HandlerType, HandlerStages
  <2>2. epoch' \in Nat
    BY <1>2 DEF AnnounceInput, BumpInputEpoch, TypeOK
  <2> QED BY <1>2, <2>1, <2>2 DEF AnnounceInput, TypeOK, requestVars
<1>3. CASE ReserveMessage(m)
  <2>1. active' \in ActiveType
    <3>1. active \in ActiveType /\ active.reservations + 1 \in Nat
      BY DEF TypeOK, ActiveType
    <3> QED BY <1>3, <3>1 DEF ReserveMessage, ReserveAppend, ActiveType
  <2>2. active.lease \in Leases
    BY DEF TypeOK, ActiveType
  <2>3. handler' \in [Messages -> HandlerType]
    BY <1>3, <2>2 DEF ReserveMessage, HandlerType, TypeOK, HandlerStages
  <2> QED BY <1>3, <2>1, <2>3 DEF ReserveMessage, TypeOK, requestVars
<1>4. CASE ClearContinuations(m)
  <2>1. handler' \in [Messages -> HandlerType]
    BY <1>4 DEF ClearContinuations, TypeOK, HandlerType, HandlerStages
  <2>2. stage' \in [Continuations -> Stages]
    BY <1>4, RemoveType DEF ClearContinuations, CancelAll, TypeOK
  <2> QED BY <1>4, <2>1, <2>2 DEF ClearContinuations, TypeOK, requestVars
<1>5. CASE StoreMessage(m)
  <2>1. handler' \in [Messages -> HandlerType]
    BY <1>5 DEF StoreMessage, TypeOK, HandlerType, HandlerStages
  <2>2. UserEntry(m) \in Entries
    BY DEF UserEntry, Entries
  <2>3. transcript' \in Seq(Entries)
    BY <1>5, <2>2 DEF StoreMessage, TypeOK
  <2> QED BY <1>5, <2>1, <2>3 DEF StoreMessage, TypeOK, requestVars
<1>6. CASE StoreFails(m)
  <2>1. handler' \in [Messages -> HandlerType]
    BY <1>6 DEF StoreFails, TypeOK, HandlerType, HandlerStages
  <2>2. active' \in ActiveType
    <3>1. /\ active \in ActiveType
          /\ CanAppend(handler[m].lease) => active.reservations - 1 \in Nat
      BY DEF TypeOK, ActiveType, CanAppend
    <3> QED BY <1>6, <3>1 DEF StoreFails, CancelAppend, ActiveType
  <2> QED BY <1>6, <2>1, <2>2 DEF StoreFails, TypeOK, requestVars
<1>7. CASE StartTurn(m)
  <2>1. active' \in ActiveType
    BY <1>7 DEF StartTurn, Start, Opened, ActiveType, Leases
  <2>2. epoch' \in Nat
    BY <1>7 DEF StartTurn, Start, BumpInputEpoch, TypeOK
  <2>3. turn' \in [Messages -> TurnType]
    BY <1>7, GotoType DEF StartTurn, TypeOK, TurnStages, OwningStages
  <2>4. [pc |-> "accepted", lease |-> m] \in HandlerType
    BY DEF HandlerType, HandlerStages, Leases
  <2>5. handler' \in [Messages -> HandlerType]
    BY <1>7, <2>4 DEF StartTurn, TypeOK
  <2> QED BY <1>7, <2>1, <2>2, <2>3, <2>5 DEF StartTurn, TypeOK
<1>8. CASE AppendMessage(m)
  <2>1. handler' \in [Messages -> HandlerType]
    BY <1>8 DEF AppendMessage, TypeOK, HandlerType, HandlerStages
  <2>2. /\ active.reservations - 1 \in Nat
        /\ Append(active.pending, m) \in Seq(Messages)
    BY <1>8 DEF AppendMessage, AppendReserved, CanAppend, TypeOK, ActiveType
  <2>3. active' \in ActiveType
    BY <1>8, <2>2 DEF AppendMessage, AppendReserved, TypeOK, ActiveType
  <2>4. epoch' \in Nat
    BY <1>8 DEF AppendMessage, AppendReserved, BumpInputEpoch, TypeOK
  <2> QED BY <1>8, <2>1, <2>3, <2>4 DEF AppendMessage, TypeOK, requestVars
<1> QED
  BY <1>1, <1>2, <1>3, <1>4, <1>5, <1>6, <1>7, <1>8 DEF HandlerStep

(* Every step of a stop request or of the retraction.                        *)
LEMMA StopStepType ==
    ASSUME TypeOK, NEW s \in Stops, StopStep(s)
    PROVE  TypeOK'
<1>1. CASE AcceptStop(s)
  <2>1. active' \in ActiveType
    BY <1>1, InterruptType DEF AcceptStop, TypeOK
  <2>2. [pc |-> "flagged", lease |-> active.lease, inTime |-> InTime] \in StopType
    BY DEF StopType, TypeOK, ActiveType, InTime
  <2>3. stop' \in [Stops -> StopType]
    BY <1>1, <2>2 DEF AcceptStop, TypeOK
  <2> QED BY <1>1, <2>1, <2>3 DEF AcceptStop, TypeOK
<1>2. CASE AnnounceStop(s)
  <2>1. stop' \in [Stops -> StopType]
    BY <1>2 DEF AnnounceStop, StopType, TypeOK
  <2>2. epoch' \in Nat
    BY <1>2 DEF AnnounceStop, BumpInputEpoch, TypeOK
  <2> QED BY <1>2, <2>1, <2>2 DEF AnnounceStop, TypeOK
<1>3. CASE StopContinuations(s)
  <2>1. stop' \in [Stops -> StopType]
    BY <1>3 DEF StopContinuations, StopType, TypeOK
  <2>2. stage' \in [Continuations -> Stages]
    BY <1>3, RemoveType DEF StopContinuations, CancelAll, TypeOK
  <2> QED BY <1>3, <2>1, <2>2 DEF StopContinuations, TypeOK
<1> QED BY <1>1, <1>2, <1>3 DEF StopStep

LEMMA RetractionStepType ==
    ASSUME TypeOK, RetractionStep
    PROVE  TypeOK'
<1>1. ASSUME NEW m \in Retractable, AnnounceRetraction(m) PROVE TypeOK'
  <2>1. m \in Leases
    BY HolderAssumption DEF Leases
  <2>2. retraction' \in RetractionType
    BY <1>1, <2>1 DEF AnnounceRetraction, RetractionType, TypeOK
  <2>3. epoch' \in Nat
    BY <1>1 DEF AnnounceRetraction, BumpInputEpoch, TypeOK
  <2> QED BY <1>1, <2>2, <2>3 DEF AnnounceRetraction, retractionFrame, TypeOK
<1>2. CASE RetractionInterrupts
  <2>1. active' \in ActiveType
    BY <1>2, InterruptType DEF RetractionInterrupts, TypeOK
  <2>2. active.lease \in Leases /\ InTime \in BOOLEAN
    BY DEF TypeOK, ActiveType, InTime
  <2>3. retraction' \in RetractionType
    BY <1>2, <2>2 DEF RetractionInterrupts, RetractionType, TypeOK
  <2> QED BY <1>2, <2>1, <2>3 DEF RetractionInterrupts, retractionFrame, TypeOK
<1>3. CASE RetractionBumps
  <2>1. retraction' \in RetractionType
    BY <1>3 DEF RetractionBumps, RetractionType, TypeOK
  <2>2. epoch' \in Nat
    BY <1>3 DEF RetractionBumps, BumpInputEpoch, TypeOK
  <2> QED BY <1>3, <2>1, <2>2 DEF RetractionBumps, retractionFrame, TypeOK
<1>4. CASE RetractionClears
  <2>1. retraction' \in RetractionType
    BY <1>4 DEF RetractionClears, RetractionType, TypeOK
  <2>2. stage' \in [Continuations -> Stages]
    BY <1>4, RemoveType DEF RetractionClears, CancelAll, TypeOK
  <2> QED BY <1>4, <2>1, <2>2 DEF RetractionClears, retractionFrame, TypeOK
<1>5. CASE TruncateTranscript
  <2>1. retraction' \in RetractionType
    BY <1>5 DEF TruncateTranscript, RetractionType, TypeOK
  <2>2. PICK i \in DOMAIN transcript : transcript' = SubSeq(transcript, 1, i - 1)
    BY <1>5 DEF TruncateTranscript
  <2>3. transcript' \in Seq(Entries)
    <3>1. transcript \in Seq(Entries) /\ i \in 1..Len(transcript)
      BY DEF TypeOK
    <3>2. \A j \in 1..(i - 1) : transcript[j] \in Entries
      BY <3>1
    <3> QED BY <2>2, <3>1, <3>2, SubSeqProperties
  <2> QED BY <1>5, <2>1, <2>3 DEF TruncateTranscript, retractionFrame, TypeOK
<1> QED
  BY <1>1, <1>2, <1>3, <1>4, <1>5 DEF RetractionStep

(* Every step of a run_chat task.                                            *)
LEMMA TurnStepType ==
    ASSUME TypeOK, NEW l \in Messages, TurnStep(l)
    PROVE  TypeOK'
<1>1. turn \in [Messages -> TurnType] /\ turn[l] \in TurnType
  BY DEF TypeOK
<1>2. CASE \/ SettleInterrupted(l) \/ CouncilYields(l) \/ ExamineFailure(l)
           \/ CheckInterrupted(l) \/ BurstContinues(l) \/ MarkReply(l) \/ TurnError(l)
  <2>1. turn' \in [Messages -> TurnType]
    BY <1>1, <1>2, GotoType
       DEF SettleInterrupted, CouncilYields, ExamineFailure, CheckInterrupted, BurstContinues,
           MarkReply, TurnError, TurnStages, OwningStages, ClosedStages
  <2> QED
    BY <1>2, <2>1
       DEF SettleInterrupted, CouncilYields, ExamineFailure, CheckInterrupted, BurstContinues,
           MarkReply, TurnError, turnVars, TypeOK
<1>3. CASE \/ ClearAfterFailure(l) \/ SettleSilently(l) \/ StopTurn(l)
  <2>1. turn' \in [Messages -> TurnType]
    BY <1>1, <1>3, GotoType
       DEF ClearAfterFailure, SettleSilently, StopTurn, TurnStages, OwningStages, ClosedStages
  <2>2. stage' \in [Continuations -> Stages]
    BY <1>3, RemoveType
       DEF ClearAfterFailure, SettleSilently, StopTurn, CancelAll, Cancel, TypeOK
  <2> QED
    BY <1>3, <2>1, <2>2 DEF ClearAfterFailure, SettleSilently, StopTurn, turnVars, TypeOK
<1>4. CASE MarkSilent(l) \/ CompletionError(l)
  <2>1. turn' \in [Messages -> TurnType]
    <3>1. {"silent", "lost", turn[l].fate} \subseteq Fates
      BY <1>1 DEF Fates, TurnType
    <3> QED BY <1>1, <1>4, <3>1, EndType DEF MarkSilent, CompletionError
  <2> QED BY <1>4, <2>1 DEF MarkSilent, CompletionError, turnVars, TypeOK
<1>5. CASE ReleaseStopped(l) \/ AbortTurn(l)
  <2>1. turn' \in [Messages -> TurnType]
    <3>1. {"stopped", "failed", turn[l].fate} \subseteq Fates
      BY <1>1 DEF Fates, TurnType
    <3> QED BY <1>1, <1>5, <3>1, EndType DEF ReleaseStopped, AbortTurn
  <2>2. active' \in ActiveType
    BY <1>5, AbortType DEF ReleaseStopped, AbortTurn, TypeOK
  <2> QED BY <1>5, <2>1, <2>2 DEF ReleaseStopped, AbortTurn, turnVars, TypeOK
<1>6. CASE Settle(l)
  <2>1. active' \in ActiveType
    <3>1. <<>> \in Seq(Messages)
      OBVIOUS
    <3> QED BY <1>6, <3>1 DEF Settle, TakePending, ActiveType, TypeOK
  <2>2. Covers(l, active.pending) \subseteq Messages
    BY <1>1 DEF Covers, TypeOK, ActiveType, TurnType
  <2>3. [turn[l] EXCEPT !.pc = "taken", !.covered = Covers(l, active.pending)] \in TurnType
    BY <1>1, <2>2 DEF TurnType, TurnStages, OwningStages
  <2>4. turn' \in [Messages -> TurnType]
    BY <1>1, <1>6, <2>3, SetTurnType DEF Settle
  <2> QED BY <1>6, <2>1, <2>4 DEF Settle, turnVars, TypeOK
<1>7. CASE SettleEmpty(l)
  <2>1. "aborting" \in TurnStages /\ "emptyBatch" \in Fates
    BY DEF TurnStages, OwningStages, Fates
  <2>2. [turn[l] EXCEPT !.pc = "aborting", !.fate = "emptyBatch"] \in TurnType
    BY <1>1, <2>1 DEF TurnType
  <2>3. turn' \in [Messages -> TurnType]
    BY <1>1, <1>7, <2>2, SetTurnType DEF SettleEmpty
  <2> QED BY <1>7, <2>3 DEF SettleEmpty, turnVars, TypeOK
<1>8. CASE ObserveInput(l)
  <2>1. "observed" \in TurnStages /\ epoch \in Nat
    BY DEF TurnStages, OwningStages, TypeOK
  <2>2. [turn[l] EXCEPT !.pc = "observed", !.seen = epoch] \in TurnType
    BY <1>1, <2>1 DEF TurnType
  <2>3. turn' \in [Messages -> TurnType]
    BY <1>1, <1>8, <2>2, SetTurnType DEF ObserveInput
  <2> QED BY <1>8, <2>3 DEF ObserveInput, turnVars, TypeOK
<1>9. CASE CallCodex(l)
  <2>1. turn' \in [Messages -> TurnType]
    BY <1>1, <1>9, GotoType DEF CallCodex, TurnStages, OwningStages
  <2> QED BY <1>9, <2>1 DEF CallCodex, Holders, turnVars, TypeOK
<1>10. ASSUME NEW c \in Continuations, ReserveContinuation(l, c) PROVE TypeOK'
  <2>1. stage' \in [Continuations -> Stages]
    BY <1>10 DEF ReserveContinuation, Reserve, Stages, TypeOK
  <2>2. [turn[l] EXCEPT !.conts = @ \cup {c}] \in TurnType
    BY <1>1 DEF TurnType
  <2>3. turn' \in [Messages -> TurnType]
    BY <1>1, <1>10, <2>2, SetTurnType DEF ReserveContinuation
  <2> QED BY <1>10, <2>1, <2>3 DEF ReserveContinuation, turnVars, TypeOK
<1>11. ASSUME NEW r \in Results \ {"none"}, CodexReturns(l, r) PROVE TypeOK'
  <2>1. "returned" \in TurnStages
    BY DEF TurnStages, OwningStages
  <2>2. [turn[l] EXCEPT !.pc = "returned", !.result = r] \in TurnType
    BY <1>1, <2>1 DEF TurnType
  <2>3. turn' \in [Messages -> TurnType]
    BY <1>1, <1>11, <2>2, SetTurnType DEF CodexReturns
  <2> QED BY <1>11, <2>3 DEF CodexReturns, Holders, turnVars, TypeOK
<1>12. CASE CodexFails(l)
  <2>1. "failing" \in TurnStages
    BY DEF TurnStages, OwningStages
  <2>2. [turn[l] EXCEPT !.pc = "failing", !.conts = {}] \in TurnType
    BY <1>1, <2>1 DEF TurnType
  <2>3. turn' \in [Messages -> TurnType]
    BY <1>1, <1>12, <2>2, SetTurnType DEF CodexFails
  <2> QED BY <1>12, <2>3 DEF CodexFails, Holders, turnVars, TypeOK
<1>13. CASE WithdrawEffects(l)
  <2>1. {"settle", "stopping"} \subseteq TurnStages
    BY DEF TurnStages, OwningStages
  <2>2. [turn[l] EXCEPT !.pc = IF @ = "superseding" THEN "settle" ELSE "stopping",
                        !.conts = {}] \in TurnType
    BY <1>1, <2>1 DEF TurnType
  <2>3. turn' \in [Messages -> TurnType]
    BY <1>1, <1>13, <2>2, SetTurnType DEF WithdrawEffects
  <2>4. stage' \in [Continuations -> Stages]
    BY <1>13, RemoveType DEF WithdrawEffects, Cancel, TypeOK
  <2> QED BY <1>13, <2>3, <2>4 DEF WithdrawEffects, turnVars, TypeOK
<1>14. CASE FinishTurn(l)
  <2>1. turn' \in [Messages -> TurnType]
    BY <1>1, <1>14, GotoType DEF FinishTurn, TurnStages, ClosedStages
  <2>2. active' \in ActiveType
    BY <1>14 DEF FinishTurn, FinishIfIdle, NoResponse, ActiveType, Leases
  <2> QED BY <1>14, <2>1, <2>2 DEF FinishTurn, turnVars, TypeOK
<1>15. CASE ReadReplyEpoch(l)
  <2>1. {"settledSilent", "replying"} \subseteq TurnStages /\ epoch \in Nat
    BY DEF TurnStages, ClosedStages, TypeOK
  <2>2. [turn[l] EXCEPT !.replyEpoch = epoch,
           !.pc = IF turn[l].result = "silent" THEN "settledSilent" ELSE "replying"]
          \in TurnType
    BY <1>1, <2>1 DEF TurnType
  <2>3. turn' \in [Messages -> TurnType]
    BY <1>1, <1>15, <2>2, SetTurnType DEF ReadReplyEpoch
  <2> QED BY <1>15, <2>3 DEF ReadReplyEpoch, turnVars, TypeOK
<1>16. CASE StoreReply(l)
  <2>1. "replied" \in TurnStages /\ "replied" \in Fates
    BY DEF TurnStages, ClosedStages, Fates
  <2>2. [turn[l] EXCEPT !.pc = "replied", !.fate = "replied"] \in TurnType
    BY <1>1, <2>1 DEF TurnType
  <2>3. turn' \in [Messages -> TurnType]
    BY <1>1, <1>16, <2>2, SetTurnType DEF StoreReply
  <2>4. ReplyEntry(l) \in Entries
    BY DEF ReplyEntry, Entries
  <2>5. transcript' \in Seq(Entries)
    BY <1>16, <2>4 DEF StoreReply, TypeOK
  <2> QED BY <1>16, <2>3, <2>5 DEF StoreReply, turnVars, TypeOK
<1>17. CASE ArmContinuation(l)
  <2>1. turn' \in [Messages -> TurnType]
    BY <1>1, <1>17, GotoType DEF ArmContinuation, TurnStages, ClosedStages
  <2>2. stage' \in [Continuations -> Stages] /\ worker' \in [Continuations -> WorkerType]
    <3>1. CASE \E c \in turn[l].conts : CanArm(c)
      <4>1. PICK c \in turn[l].conts :
              /\ Arm(c)
              /\ worker' = [worker EXCEPT ![c] =
                   [pc |-> "sleeping", lease |-> l, epoch |-> turn[l].replyEpoch, seen |-> 0]]
        BY <1>17, <3>1 DEF ArmContinuation
      <4>2. [pc |-> "sleeping", lease |-> l, epoch |-> turn[l].replyEpoch, seen |-> 0]
              \in WorkerType
        BY <1>1 DEF TurnType, WorkerType, WorkerStages, Leases
      <4> QED BY <4>1, <4>2 DEF Arm, Stages, TypeOK
    <3>2. CASE ~\E c \in turn[l].conts : CanArm(c)
      BY <1>17, <3>2 DEF ArmContinuation, TypeOK
    <3> QED BY <3>1, <3>2
  <2> QED BY <1>17, <2>1, <2>2 DEF ArmContinuation, TypeOK
<1> QED
  BY <1>2, <1>3, <1>4, <1>5, <1>6, <1>7, <1>8, <1>9, <1>10, <1>11, <1>12, <1>13, <1>14,
     <1>15, <1>16, <1>17 DEF TurnStep, TurnProgress

(* Every step of the continuation worker.                                    *)
LEMMA WorkerStepType ==
    ASSUME TypeOK, NEW c \in Continuations, WorkerStep(c) \/ ContinuationError(c)
    PROVE  TypeOK'
<1>1. worker' \in [Continuations -> WorkerType]
  <2>1. ASSUME NEW pc \in WorkerStages, Move(c, pc) PROVE worker' \in [Continuations -> WorkerType]
    BY <2>1 DEF Move, WorkerType, TypeOK
  <2>2. CASE SubscribeContinuation(c)
    <3>1. epoch \in Nat
      BY DEF TypeOK
    <3> QED BY <2>2, <3>1 DEF SubscribeContinuation, WorkerType, WorkerStages, TypeOK
  <2>3. {"idle", "claimed", "calling", "returned", "publishing", "published", "done"}
          \subseteq WorkerStages
    BY DEF WorkerStages
  <2> QED
    BY <2>1, <2>2, <2>3
       DEF WorkerStep, ContinuationError, WaitForIdle, ClaimContinuation, ContinuationYields,
           TryCodex, ContinuationReturnsText, ContinuationReturnsNothing, DecidePublication,
           StoreContinuation, FinishContinuation, GiveUp
<1>2. stage' \in [Continuations -> Stages]
  <2>1. GiveUp(c) => stage' \in [Continuations -> Stages]
    BY RemoveType DEF GiveUp, Complete, TypeOK
  <2>2. Claim(c) => stage' \in [Continuations -> Stages]
    BY DEF Claim, Stages, TypeOK
  <2> QED
    BY <2>1, <2>2
       DEF WorkerStep, ContinuationError, WaitForIdle, ClaimContinuation, ContinuationYields,
           TryCodex, ContinuationReturnsText, ContinuationReturnsNothing, DecidePublication,
           StoreContinuation, FinishContinuation, SubscribeContinuation, TypeOK
<1>3. codex' \in Holders
  BY DEF WorkerStep, ContinuationError, WaitForIdle, ClaimContinuation, ContinuationYields,
         TryCodex, ContinuationReturnsText, ContinuationReturnsNothing, DecidePublication,
         StoreContinuation, FinishContinuation, SubscribeContinuation, Holders, TypeOK
<1>4. transcript' \in Seq(Entries)
  <2>1. CASE StoreContinuation(c)
    <3>1. ContinuationEntry(c) \in Entries
      BY DEF ContinuationEntry, Entries
    <3> QED BY <2>1, <3>1 DEF StoreContinuation, TypeOK
  <2>2. CASE ~StoreContinuation(c)
    <3>1. transcript' = transcript
      BY <2>2
         DEF WorkerStep, ContinuationError, WaitForIdle, ClaimContinuation, ContinuationYields,
             TryCodex, ContinuationReturnsText, ContinuationReturnsNothing, DecidePublication,
             FinishContinuation, SubscribeContinuation
    <3> QED BY <3>1 DEF TypeOK
  <2> QED BY <2>1, <2>2
<1>5. UNCHANGED workerFrame
  BY DEF WorkerStep, ContinuationError, WaitForIdle, ClaimContinuation, ContinuationYields,
         TryCodex, ContinuationReturnsText, ContinuationReturnsNothing, DecidePublication,
         StoreContinuation, FinishContinuation, SubscribeContinuation
<1> QED
  BY <1>1, <1>2, <1>3, <1>4, <1>5 DEF TypeOK, workerFrame

LEMMA NextType == TypeOK /\ [Next]_vars => TypeOK'
<1> SUFFICES ASSUME TypeOK, [Next]_vars PROVE TypeOK'
  OBVIOUS
<1>1. CASE BackgroundTakes \/ BackgroundReleases
  BY <1>1 DEF BackgroundTakes, BackgroundReleases, backgroundFrame, Holders, TypeOK
<1>2. CASE UNCHANGED vars
  BY <1>2 DEF vars, TypeOK
<1> QED
  BY <1>1, <1>2, HandlerStepType, TurnStepType, WorkerStepType, StopStepType,
     RetractionStepType DEF Next

(* In every behaviour the slot, the queue, the tasks and the transcript stay *)
(* well-typed: in particular append_reservations never goes below zero       *)
(* (conversation.rs subtracts from a usize).                                 *)
THEOREM TypeCorrect == Spec => []TypeOK
BY InitType, NextType, PTL DEF Spec

-----------------------------------------------------------------------------
(* The slot.  Its invariant says, besides who owns the slot, what the outcome *)
(* of a turn is at each of its stages, that a turn belongs to a request that  *)
(* was accepted, and what a stop that came in time has brought about.         *)

GaveUp == {"stopped", "failed", "emptyBatch"}

FateMatches(t) ==
    /\ t.pc \in OwningStages \cup {"none"} =>
         t.fate = "open" \/ (t.pc = "aborting" /\ t.fate = "emptyBatch")
    /\ t.pc \in {"finishing", "settledSilent", "silenced", "replying"} => t.fate = "open"
    /\ t.pc \in {"replied", "marked"} => t.fate = "replied"
    /\ t.pc = "done" => t.fate # "open"

FateMatchesStage == \A l \in Messages : FateMatches(turn[l])

TurnsAreAccepted == \A m \in Messages : turn[m].pc # "none" => handler[m].pc = "accepted"

Stopping(l) == active.lease = l /\ active.interrupted /\ turn[l].pc # "deciding"

StopsHold ==
    \A l \in Messages : StoppedInTime(l) =>
        Stopping(l) \/ (turn[l].pc = "done" /\ turn[l].fate \in GaveUp)

SlotInv ==
    /\ TypeOK
    /\ OneResponseOwnsSlot
    /\ FateMatchesStage
    /\ TurnsAreAccepted
    /\ StopsHold

(* What one step of a turn may do: stay open, close, give up, or go on after *)
(* it has closed.                                                            *)
StaysOpen(l) ==
    /\ turn[l].pc \in OwningStages /\ turn'[l].pc \in OwningStages
    /\ active'.lease = active.lease /\ active'.interrupted = active.interrupted
    /\ turn'[l].pc = "deciding" => ~active.interrupted

Closes(l) ==
    /\ turn[l].pc = "deciding" /\ turn'[l].pc = "finishing"
    /\ active.lease = l /\ active' = NoResponse

Abandons(l) ==
    /\ turn[l].pc \in {"stopped", "aborting"} /\ turn'[l].pc = "done"
    /\ turn'[l].fate \in GaveUp
    /\ active' = IF active.lease = l THEN NoResponse ELSE active

GoesOn(l) ==
    /\ turn[l].pc \in ClosedStages \ {"done"} /\ turn'[l].pc \in ClosedStages \ {"finishing"}
    /\ turn[l].fate = "replied" => turn'[l].fate = "replied"
    /\ active' = active

LEMMA TurnStepShape ==
    ASSUME TypeOK, FateMatchesStage, NEW l \in Messages, TurnStep(l)
    PROVE  /\ \A k \in Messages \ {l} : turn'[k] = turn[k]
           /\ FateMatches(turn'[l])
           /\ UNCHANGED <<handler, stop, retraction>>
           /\ StaysOpen(l) \/ Closes(l) \/ Abandons(l) \/ GoesOn(l)
<1> DEFINE Shape == /\ \A k \in Messages \ {l} : turn'[k] = turn[k]
                    /\ FateMatches(turn'[l])
                    /\ UNCHANGED <<handler, stop, retraction>>
                    /\ StaysOpen(l) \/ Closes(l) \/ Abandons(l) \/ GoesOn(l)
<1> SUFFICES Shape
  OBVIOUS
<1>1. turn \in [Messages -> TurnType] /\ turn[l] \in TurnType /\ FateMatches(turn[l])
  BY DEF TypeOK, FateMatchesStage
<1>2. ASSUME NEW t, SetTurn(l, t)
      PROVE  turn'[l] = t /\ \A k \in Messages \ {l} : turn'[k] = turn[k]
  BY <1>1, <1>2 DEF SetTurn
<1>3. ASSUME NEW pc, Goto(l, pc)
      PROVE  /\ turn'[l].pc = pc /\ turn'[l].fate = turn[l].fate
             /\ \A k \in Messages \ {l} : turn'[k] = turn[k]
  BY <1>1, <1>2, <1>3 DEF Goto, TurnType
<1>4. ASSUME NEW fate, End(l, fate)
      PROVE  /\ turn'[l].pc = "done" /\ turn'[l].fate = fate
             /\ \A k \in Messages \ {l} : turn'[k] = turn[k]
  <2> DEFINE t == [turn[l] EXCEPT !.pc = "done", !.fate = fate]
  <2>1. t.pc = "done" /\ t.fate = fate
    BY <1>1 DEF TurnType
  <2>2. SetTurn(l, t)
    BY <1>4 DEF End
  <2> HIDE DEF t
  <2> QED BY <1>2, <2>1, <2>2
<1>5. CASE \/ SettleInterrupted(l) \/ CouncilYields(l) \/ CallCodex(l) \/ ExamineFailure(l)
           \/ ClearAfterFailure(l) \/ CheckInterrupted(l) \/ BurstContinues(l)
           \/ StopTurn(l) \/ TurnError(l)
  <2>1. PICK pc \in OwningStages \ {"none"} :
          Goto(l, pc) /\ (pc = "deciding" => ~active.interrupted)
    BY <1>5 DEF SettleInterrupted, CouncilYields, CallCodex, ExamineFailure, ClearAfterFailure,
                CheckInterrupted, BurstContinues, StopTurn, TurnError, OwningStages
  <2>2. turn[l].pc \in OwningStages \ {"aborting"} /\ UNCHANGED <<active, handler, stop, retraction>>
    BY <1>5 DEF SettleInterrupted, CouncilYields, CallCodex, ExamineFailure, ClearAfterFailure,
                CheckInterrupted, BurstContinues, StopTurn, TurnError, OwningStages, turnVars
  <2>3. FateMatches(turn'[l])
    BY <1>1, <1>3, <2>1, <2>2 DEF FateMatches, OwningStages
  <2> QED BY <1>3, <2>1, <2>2, <2>3 DEF StaysOpen
<1>6. CASE \/ Settle(l) \/ ObserveInput(l) \/ WithdrawEffects(l) \/ CodexFails(l)
           \/ \E r \in Results \ {"none"} : CodexReturns(l, r)
           \/ \E c \in Continuations : ReserveContinuation(l, c)
  <2>1. /\ turn'[l].pc \in {"taken", "observed", "settle", "stopping", "failing", "returned",
                            "calling"}
        /\ turn'[l].fate = turn[l].fate
        /\ \A k \in Messages \ {l} : turn'[k] = turn[k]
    <3> DEFINE Pcs == {"taken", "observed", "settle", "stopping", "failing", "returned", "calling"}
    <3>1. PICK t : SetTurn(l, t) /\ t.pc \in Pcs /\ t.fate = turn[l].fate
      <4>1. CASE Settle(l)
        BY <1>1, <4>1 DEF Settle, TurnType
      <4>2. CASE ObserveInput(l)
        BY <1>1, <4>2 DEF ObserveInput, TurnType
      <4>3. CASE WithdrawEffects(l)
        <5> DEFINE t == [turn[l] EXCEPT
                           !.pc = IF @ = "superseding" THEN "settle" ELSE "stopping", !.conts = {}]
        <5>1. t.pc \in {"settle", "stopping"} /\ t.fate = turn[l].fate
          BY <1>1 DEF TurnType
        <5>2. SetTurn(l, t)
          BY <4>3 DEF WithdrawEffects
        <5> HIDE DEF t
        <5> QED BY <5>1, <5>2
      <4>4. CASE CodexFails(l)
        BY <1>1, <4>4 DEF CodexFails, TurnType
      <4>5. ASSUME NEW r \in Results, CodexReturns(l, r)
            PROVE  \E t : SetTurn(l, t) /\ t.pc \in Pcs /\ t.fate = turn[l].fate
        BY <1>1, <4>5 DEF CodexReturns, TurnType
      <4>6. ASSUME NEW c \in Continuations, ReserveContinuation(l, c)
            PROVE  \E t : SetTurn(l, t) /\ t.pc \in Pcs /\ t.fate = turn[l].fate
        BY <1>1, <4>6 DEF ReserveContinuation, TurnType
      <4> QED BY <1>6, <4>1, <4>2, <4>3, <4>4, <4>5, <4>6
    <3> QED BY <1>2, <3>1
  <2>2. /\ turn[l].pc \in OwningStages \ {"aborting"} /\ UNCHANGED <<handler, stop, retraction>>
        /\ active'.lease = active.lease /\ active'.interrupted = active.interrupted
    BY <1>6 DEF Settle, ObserveInput, WithdrawEffects, CodexFails, CodexReturns,
                ReserveContinuation, TakePending, OwningStages, turnVars, TypeOK, ActiveType
  <2>3. FateMatches(turn'[l]) /\ turn'[l].pc \in OwningStages
    BY <1>1, <2>1, <2>2 DEF FateMatches, OwningStages
  <2> QED BY <2>1, <2>2, <2>3 DEF StaysOpen
<1>7. CASE SettleEmpty(l)
  <2>1. /\ turn'[l].pc = "aborting" /\ turn'[l].fate = "emptyBatch"
        /\ \A k \in Messages \ {l} : turn'[k] = turn[k]
    <3> DEFINE t == [turn[l] EXCEPT !.pc = "aborting", !.fate = "emptyBatch"]
    <3>1. t.pc = "aborting" /\ t.fate = "emptyBatch"
      BY <1>1 DEF TurnType
    <3>2. SetTurn(l, t)
      BY <1>7 DEF SettleEmpty
    <3> HIDE DEF t
    <3> QED BY <1>2, <3>1, <3>2
  <2> QED BY <1>7, <2>1 DEF SettleEmpty, FateMatches, StaysOpen, OwningStages, turnVars
<1>8. CASE FinishTurn(l)
  <2>1. /\ turn'[l].pc = "finishing" /\ turn'[l].fate = turn[l].fate
        /\ \A k \in Messages \ {l} : turn'[k] = turn[k]
    BY <1>3, <1>8 DEF FinishTurn
  <2> QED
    BY <1>1, <1>8, <2>1
       DEF FinishTurn, FinishIfIdle, Owns, FateMatches, Closes, OwningStages, turnVars
<1>9. CASE ReleaseStopped(l) \/ AbortTurn(l)
  <2>1. /\ turn'[l].pc = "done" /\ turn'[l].fate \in GaveUp
        /\ \A k \in Messages \ {l} : turn'[k] = turn[k]
    BY <1>1, <1>4, <1>9 DEF ReleaseStopped, AbortTurn, GaveUp, FateMatches, OwningStages
  <2>2. active' = IF active.lease = l THEN NoResponse ELSE active
    BY <1>9, LeaseAssumption DEF ReleaseStopped, AbortTurn, Abort, Owns
  <2> QED
    BY <1>9, <2>1, <2>2
       DEF ReleaseStopped, AbortTurn, FateMatches, Abandons, GaveUp, OwningStages, turnVars
<1>10. CASE ReadReplyEpoch(l)
  <2>1. PICK t : SetTurn(l, t) /\ t.pc \in {"settledSilent", "replying"} /\ t.fate = turn[l].fate
    BY <1>1, <1>10 DEF ReadReplyEpoch, TurnType
  <2>2. turn'[l] = t /\ \A k \in Messages \ {l} : turn'[k] = turn[k]
    BY <1>2, <2>1
  <2> QED
    BY <1>1, <1>10, <2>1, <2>2
       DEF ReadReplyEpoch, FateMatches, GoesOn, OwningStages, ClosedStages, turnVars
<1>12. CASE StoreReply(l)
  <2>1. PICK t : SetTurn(l, t) /\ t.pc = "replied" /\ t.fate = "replied"
    <3> DEFINE t == [turn[l] EXCEPT !.pc = "replied", !.fate = "replied"]
    <3>1. t.pc = "replied" /\ t.fate = "replied"
      BY <1>1 DEF TurnType
    <3>2. SetTurn(l, t)
      BY <1>12 DEF StoreReply
    <3> HIDE DEF t
    <3> QED BY <3>1, <3>2
  <2>2. turn'[l] = t /\ \A k \in Messages \ {l} : turn'[k] = turn[k]
    BY <1>2, <2>1
  <2> QED
    BY <1>12, <2>1, <2>2
       DEF StoreReply, FateMatches, GoesOn, OwningStages, ClosedStages, turnVars
<1>13. CASE SettleSilently(l) \/ MarkReply(l) \/ ArmContinuation(l)
  <2>1. /\ turn'[l].pc = IF turn[l].pc = "settledSilent" THEN "silenced"
                         ELSE IF turn[l].pc = "replied" THEN "marked" ELSE "done"
        /\ turn'[l].fate = turn[l].fate
        /\ \A k \in Messages \ {l} : turn'[k] = turn[k]
    BY <1>3, <1>13 DEF SettleSilently, MarkReply, ArmContinuation
  <2>2. /\ turn[l].pc \in {"settledSilent", "replied", "marked"}
        /\ UNCHANGED <<active, handler, stop, retraction>>
    BY <1>13 DEF SettleSilently, MarkReply, ArmContinuation, turnVars
  <2> QED BY <1>1, <2>1, <2>2 DEF FateMatches, GoesOn, OwningStages, ClosedStages
<1>11. CASE MarkSilent(l) \/ CompletionError(l)
  <2>1. /\ turn'[l].pc = "done" /\ turn'[l].fate # "open"
        /\ turn[l].fate = "replied" => turn'[l].fate = "replied"
        /\ \A k \in Messages \ {l} : turn'[k] = turn[k]
    BY <1>1, <1>4, <1>11 DEF MarkSilent, CompletionError, FateMatches
  <2>2. turn[l].pc \in ClosedStages \ {"done"} /\ UNCHANGED <<active, handler, stop, retraction>>
    BY <1>11 DEF MarkSilent, CompletionError, ClosedStages, turnVars
  <2> QED BY <2>1, <2>2 DEF GoesOn, FateMatches, OwningStages, ClosedStages
<1> QED
  BY <1>5, <1>6, <1>7, <1>8, <1>9, <1>10, <1>11, <1>12, <1>13
     DEF TurnStep, TurnProgress

(* The steps of the handlers and of the stops that the slot can tell apart.  *)
LEMMA HandlerStepShape ==
    ASSUME TypeOK, NEW m \in Messages, HandlerStep(m)
    PROVE  /\ UNCHANGED <<stop, retraction>>
           /\ \A k \in Messages : handler[k].pc = "accepted" => handler'[k].pc = "accepted"
           /\ \/ StartTurn(m)
              \/ /\ turn' = turn
                 /\ active'.lease = active.lease /\ active'.interrupted = active.interrupted
<1>1. handler \in [Messages -> HandlerType] /\ active \in ActiveType
  BY DEF TypeOK
<1>2. CASE StartTurn(m)
  BY <1>1, <1>2 DEF StartTurn, HandlerType
<1>3. CASE \/ AdmitChat(m) \/ AnnounceInput(m) \/ ClearContinuations(m) \/ StoreMessage(m)
           \/ StartConflict(m) \/ AppendRefused(m) \/ Disconnect(m)
  BY <1>1, <1>3
     DEF AdmitChat, AnnounceInput, ClearContinuations, StoreMessage, StartConflict,
         AppendRefused, Disconnect, requestVars, HandlerType
<1>4. CASE ReserveMessage(m) \/ StoreFails(m) \/ AppendMessage(m)
  <2>1. active'.lease = active.lease /\ active'.interrupted = active.interrupted
    BY <1>1, <1>4
       DEF ReserveMessage, ReserveAppend, StoreFails, CancelAppend, AppendMessage,
           AppendReserved, ActiveType
  <2>2. \A k \in Messages : handler[k].pc = "accepted" => handler'[k].pc = "accepted"
    BY <1>1, <1>4 DEF ReserveMessage, StoreFails, AppendMessage, HandlerType
  <2> QED BY <1>4, <2>1, <2>2 DEF ReserveMessage, StoreFails, AppendMessage, requestVars
<1> QED BY <1>2, <1>3, <1>4 DEF HandlerStep

(* A stop or a retraction only ever sets the flag of the active response,    *)
(* and the request that does it remembers which response and when.           *)
Flags ==
    /\ active.lease # NoLease
    /\ active'.lease = active.lease /\ active'.interrupted = TRUE
    /\ \A l \in Messages : StoppedInTime(l)' =>
         StoppedInTime(l) \/ (l = active.lease /\ turn[l].pc # "deciding")

LEMMA StopStepShape ==
    ASSUME TypeOK, RetractionStep \/ \E s \in Stops : StopStep(s)
    PROVE  /\ UNCHANGED <<handler, turn>>
           /\ \/ Flags
              \/ /\ active' = active
                 /\ \A l \in Messages : StoppedInTime(l)' => StoppedInTime(l)
<1>1. /\ active \in ActiveType /\ stop \in [Stops -> StopType] /\ retraction \in RetractionType
  BY DEF TypeOK
<1>2. ASSUME NEW s \in Stops, AcceptStop(s) PROVE Flags /\ UNCHANGED <<handler, turn>>
  <2>1. stop'[s] = [pc |-> "flagged", lease |-> active.lease, inTime |-> InTime]
        /\ \A r \in Stops \ {s} : stop'[r] = stop[r]
    BY <1>1, <1>2 DEF AcceptStop
  <2>2. active.lease # NoLease /\ active'.lease = active.lease /\ active'.interrupted = TRUE
    BY <1>1, <1>2 DEF AcceptStop, Interrupt, IsActive, ActiveType
  <2>3. UNCHANGED <<handler, turn, retraction>>
    BY <1>2 DEF AcceptStop
  <2>4. ASSUME NEW l \in Messages, NEW r \in Stops, stop'[r].lease = l, stop'[r].inTime
        PROVE  StoppedInTime(l) \/ (l = active.lease /\ turn[l].pc # "deciding")
    <3>1. CASE r = s
      <4>1. stop'[r].lease = active.lease /\ stop'[r].inTime = (turn[active.lease].pc # "deciding")
        BY <2>1, <3>1 DEF InTime
      <4> QED BY <2>4, <4>1
    <3>2. CASE r # s
      BY <2>1, <2>4, <3>2 DEF StoppedInTime
    <3> QED BY <3>1, <3>2
  <2> QED BY <2>2, <2>3, <2>4 DEF Flags, StoppedInTime
<1>3. ASSUME NEW s \in Stops, AnnounceStop(s) \/ StopContinuations(s)
      PROVE  /\ UNCHANGED <<active, handler, turn>>
             /\ \A l \in Messages : StoppedInTime(l)' => StoppedInTime(l)
  <2>1. \A r \in Stops : stop'[r].lease = stop[r].lease /\ stop'[r].inTime = stop[r].inTime
    BY <1>1, <1>3 DEF AnnounceStop, StopContinuations, StopType
  <2>2. UNCHANGED <<active, handler, turn, retraction>>
    BY <1>3 DEF AnnounceStop, StopContinuations
  <2> QED BY <2>1, <2>2 DEF StoppedInTime
<1>4. CASE RetractionInterrupts
  <2>1. UNCHANGED <<handler, turn, stop>>
    BY <1>4 DEF RetractionInterrupts, retractionFrame
  <2>2. CASE IsActive /\ ~active.interrupted
    <3>1. retraction'.lease = active.lease /\ retraction'.inTime = InTime
      BY <1>1, <1>4, <2>2 DEF RetractionInterrupts, RetractionType
    <3>2. active.lease # NoLease /\ active'.lease = active.lease /\ active'.interrupted = TRUE
      BY <1>1, <1>4, <2>2 DEF RetractionInterrupts, Interrupt, IsActive, ActiveType
    <3> QED BY <2>1, <3>1, <3>2 DEF Flags, StoppedInTime, InTime
  <2>3. CASE ~(IsActive /\ ~active.interrupted)
    <3>1. /\ retraction'.lease = retraction.lease /\ retraction'.inTime = retraction.inTime
          /\ active' = active
      BY <1>1, <1>4, <2>3 DEF RetractionInterrupts, RetractionType
    <3> QED BY <2>1, <3>1 DEF StoppedInTime
  <2> QED BY <2>2, <2>3
<1>5. CASE \/ \E m \in Retractable : AnnounceRetraction(m)
           \/ RetractionBumps \/ RetractionClears \/ TruncateTranscript
  <2>1. retraction'.lease = retraction.lease /\ retraction'.inTime = retraction.inTime
    BY <1>1, <1>5
       DEF AnnounceRetraction, RetractionBumps, RetractionClears, TruncateTranscript,
           RetractionType
  <2>2. UNCHANGED <<active, handler, turn, stop>>
    BY <1>5 DEF AnnounceRetraction, RetractionBumps, RetractionClears, TruncateTranscript,
                retractionFrame
  <2> QED BY <2>1, <2>2 DEF StoppedInTime
<1> QED BY <1>2, <1>3, <1>4, <1>5 DEF RetractionStep, StopStep

LEMMA InitSlotInv == Init => SlotInv
<1> SUFFICES ASSUME Init PROVE SlotInv
  OBVIOUS
<1>1. TypeOK
  BY InitType
<1>2. \A l \in Messages : turn[l].pc = "none" /\ turn[l].fate = "open" /\ active.lease # l
  BY LeaseAssumption DEF Init, NewTurn, CoordinatorInit, NoResponse
<1>3. \A l \in Messages : ~StoppedInTime(l)
  BY DEF Init, StoppedInTime
<1> QED
  BY <1>1, <1>2, <1>3
     DEF SlotInv, OneResponseOwnsSlot, Running, FateMatchesStage, FateMatches, TurnsAreAccepted,
         StopsHold, OwningStages

LEMMA TurnStepSlot ==
    ASSUME SlotInv, NEW l \in Messages, TurnStep(l)
    PROVE  SlotInv'
<1> USE DEF SlotInv
<1>1. /\ \A k \in Messages \ {l} : turn'[k] = turn[k]
      /\ FateMatches(turn'[l])
      /\ UNCHANGED <<handler, stop, retraction>>
      /\ StaysOpen(l) \/ Closes(l) \/ Abandons(l) \/ GoesOn(l)
  BY TurnStepShape
<1>2. TypeOK'
  BY TurnStepType
<1>3. OneResponseOwnsSlot'
  BY <1>1, LeaseAssumption
     DEF OneResponseOwnsSlot, Running, StaysOpen, Closes, Abandons, GoesOn, NoResponse,
         OwningStages, ClosedStages
<1>4. FateMatchesStage'
  BY <1>1 DEF FateMatchesStage
<1>5. TurnsAreAccepted'
  BY <1>1 DEF TurnsAreAccepted, StaysOpen, Closes, Abandons, GoesOn, OwningStages, ClosedStages
<1>6. StopsHold'
  <2> SUFFICES ASSUME NEW k \in Messages, StoppedInTime(k)'
               PROVE  Stopping(k)' \/ (turn'[k].pc = "done" /\ turn'[k].fate \in GaveUp)
    BY DEF StopsHold
  <2>1. StoppedInTime(k)
    BY <1>1 DEF StoppedInTime
  <2>2. Stopping(k) \/ (turn[k].pc = "done" /\ turn[k].fate \in GaveUp)
    BY <2>1 DEF StopsHold
  <2>3. CASE k # l
    <3>1. turn'[k] = turn[k]
      BY <1>1, <2>3
    <3>2. active.lease = k => active'.lease = k /\ active'.interrupted = active.interrupted
      BY <1>1, <2>3 DEF StaysOpen, Closes, Abandons, GoesOn
    <3> QED BY <2>2, <3>1, <3>2 DEF Stopping
  <2>4. CASE k = l
    <3>1. ~GoesOn(l) \/ ~Stopping(l)
      BY DEF OneResponseOwnsSlot, Running, Stopping, GoesOn, OwningStages, ClosedStages
    <3> QED
      BY <1>1, <2>2, <2>4, <3>1
         DEF Stopping, StaysOpen, Closes, Abandons, GoesOn, OwningStages, ClosedStages
  <2> QED BY <2>3, <2>4
<1> QED BY <1>2, <1>3, <1>4, <1>5, <1>6

LEMMA HandlerStepSlot ==
    ASSUME SlotInv, NEW m \in Messages, HandlerStep(m)
    PROVE  SlotInv'
<1> USE DEF SlotInv
<1>1. TypeOK'
  BY HandlerStepType
<1>2. /\ UNCHANGED <<stop, retraction>>
      /\ \A k \in Messages : handler[k].pc = "accepted" => handler'[k].pc = "accepted"
      /\ \/ StartTurn(m)
         \/ turn' = turn /\ active'.lease = active.lease /\ active'.interrupted = active.interrupted
  BY HandlerStepShape
<1>3. CASE StartTurn(m)
  <2>1. /\ active.lease = NoLease /\ active'.lease = m
        /\ handler[m].pc = "stored" /\ handler'[m].pc = "accepted"
    BY <1>3 DEF StartTurn, Start, Opened, IsActive, TypeOK
  <2>2. /\ turn'[m].pc = "settle" /\ turn'[m].fate = turn[m].fate
        /\ \A k \in Messages \ {m} : turn'[k] = turn[k]
    BY <1>3 DEF StartTurn, Goto, SetTurn, TypeOK, TurnType
  <2>3. turn[m].pc = "none" /\ turn[m].fate = "open"
    BY <2>1 DEF TurnsAreAccepted, FateMatchesStage, FateMatches
  <2>4. OneResponseOwnsSlot'
    BY <2>1, <2>2, <2>3, LeaseAssumption DEF OneResponseOwnsSlot, Running, OwningStages
  <2>5. FateMatchesStage'
    BY <2>2, <2>3 DEF FateMatchesStage, FateMatches, OwningStages
  <2>6. TurnsAreAccepted'
    BY <1>2, <2>1, <2>2 DEF TurnsAreAccepted
  <2>7. StopsHold'
    <3>1. \A k \in Messages : StoppedInTime(k)' => turn[k].pc = "done" /\ turn[k].fate \in GaveUp
      BY <1>2, <2>1, LeaseAssumption DEF StopsHold, Stopping, StoppedInTime
    <3> QED BY <2>2, <2>3, <3>1 DEF StopsHold
  <2> QED BY <1>1, <2>4, <2>5, <2>6, <2>7
<1>4. CASE turn' = turn /\ active'.lease = active.lease /\ active'.interrupted = active.interrupted
  <2>1. OneResponseOwnsSlot' /\ FateMatchesStage'
    BY <1>4 DEF OneResponseOwnsSlot, Running, FateMatchesStage
  <2>2. TurnsAreAccepted'
    BY <1>2, <1>4 DEF TurnsAreAccepted
  <2>3. StopsHold'
    BY <1>2, <1>4 DEF StopsHold, Stopping, StoppedInTime
  <2> QED BY <1>1, <2>1, <2>2, <2>3
<1> QED BY <1>2, <1>3, <1>4

LEMMA StopStepSlot ==
    ASSUME SlotInv, RetractionStep \/ \E s \in Stops : StopStep(s)
    PROVE  SlotInv'
<1> USE DEF SlotInv
<1>1. TypeOK'
  BY StopStepType, RetractionStepType
<1>2. /\ UNCHANGED <<handler, turn>>
      /\ \/ Flags
         \/ /\ active' = active
            /\ \A l \in Messages : StoppedInTime(l)' => StoppedInTime(l)
  BY StopStepShape
<1>3. active'.lease = active.lease
  BY <1>2 DEF Flags
<1>4. OneResponseOwnsSlot' /\ FateMatchesStage' /\ TurnsAreAccepted'
  BY <1>2, <1>3 DEF OneResponseOwnsSlot, Running, FateMatchesStage, TurnsAreAccepted
<1>5. StopsHold'
  BY <1>2 DEF StopsHold, Stopping, Flags
<1> QED BY <1>1, <1>4, <1>5

LEMMA NextSlotInv == SlotInv /\ [Next]_vars => SlotInv'
<1> SUFFICES ASSUME SlotInv, [Next]_vars PROVE SlotInv'
  OBVIOUS
<1>1. TypeOK'
  BY NextType DEF SlotInv
<1>2. CASE \/ \E c \in Continuations : WorkerStep(c) \/ ContinuationError(c)
           \/ BackgroundTakes \/ BackgroundReleases \/ UNCHANGED vars
  <2>1. UNCHANGED <<active, handler, turn, stop, retraction>>
    BY <1>2
       DEF WorkerStep, ContinuationError, WaitForIdle, ClaimContinuation, ContinuationYields,
           TryCodex, ContinuationReturnsText, ContinuationReturnsNothing, DecidePublication,
           StoreContinuation, FinishContinuation, SubscribeContinuation, workerFrame,
           BackgroundTakes, BackgroundReleases, backgroundFrame, vars
  <2> QED
    BY <1>1, <2>1
       DEF SlotInv, OneResponseOwnsSlot, Running, FateMatchesStage, TurnsAreAccepted, StopsHold,
           Stopping, StoppedInTime
<1> QED
  BY <1>2, HandlerStepSlot, TurnStepSlot, StopStepSlot DEF Next

LEMMA SlotInvariant == Spec => []SlotInv
BY InitSlotInv, NextSlotInv, PTL DEF Spec

(* Two responses never answer at once, and a turn that has not let go of its *)
(* lease still owns the slot: the `?` on every coordinator call of run_chat  *)
(* is unreachable (conversation.rs matching_active).                         *)
THEOREM SlotIsExclusive == Spec => []OneResponseOwnsSlot
<1>1. SlotInv => OneResponseOwnsSlot
  BY DEF SlotInv
<1> QED BY <1>1, SlotInvariant, PTL

(* An interrupt that comes before the last look at is_interrupted suppresses *)
(* the reply, however appends, errors and retractions interleave with it.    *)
THEOREM StopIsHonoured == Spec => []StoppedTurnNeverReplies
<1>1. SlotInv => StoppedTurnNeverReplies
  BY DEF SlotInv, StopsHold, Stopping, StoppedTurnNeverReplies, OneResponseOwnsSlot, Running,
         FateMatchesStage, FateMatches, GaveUp
<1> QED BY <1>1, SlotInvariant, PTL

-----------------------------------------------------------------------------
(* The continuation queue.                                                   *)

LEMMA RemoveKeepsOneSlot ==
    ASSUME stage \in [Continuations -> Stages], OneSlotQueue, NEW ids, Remove(ids)
    PROVE  OneSlotQueue'
<1>1. Queue' \subseteq Queue
  BY DEF Remove, Queue, Stages
<1> QED BY <1>1 DEF OneSlotQueue

LEMMA NextOneSlot == TypeOK /\ OneSlotQueue /\ [Next]_vars => OneSlotQueue'
<1> SUFFICES ASSUME TypeOK, OneSlotQueue, [Next]_vars PROVE OneSlotQueue'
  OBVIOUS
<1>1. stage \in [Continuations -> Stages]
  BY DEF TypeOK
<1>2. CASE stage' = stage
  BY <1>2 DEF OneSlotQueue, Queue
<1>3. ASSUME NEW ids, Remove(ids) PROVE OneSlotQueue'
  BY <1>1, <1>3, RemoveKeepsOneSlot
<1>4. ASSUME NEW c \in Continuations, Reserve(c) PROVE OneSlotQueue'
  <2>1. \A d \in Continuations : stage'[d] \in {"reserved", "armed", "running"} => d = c
    BY <1>1, <1>4 DEF Reserve, Queue, Stages
  <2> QED BY <2>1 DEF OneSlotQueue, Queue
<1>5. ASSUME NEW c, Arm(c) \/ Claim(c) PROVE OneSlotQueue'
  <2>1. Queue' = Queue
    BY <1>1, <1>5 DEF Arm, CanArm, Claim, CanClaim, Queue, Stages
  <2> QED BY <2>1 DEF OneSlotQueue
<1>6. ASSUME NEW m \in Messages, HandlerStep(m) PROVE OneSlotQueue'
  BY <1>2, <1>3, <1>6
     DEF HandlerStep, AdmitChat, AnnounceInput, ReserveMessage, ClearContinuations, StoreMessage,
         StoreFails, StartTurn, StartConflict, AppendMessage, AppendRefused, Disconnect, CancelAll
<1>7. ASSUME NEW l \in Messages, TurnStep(l) PROVE OneSlotQueue'
  <2>1. CASE ArmContinuation(l)
    BY <1>2, <1>5, <2>1 DEF ArmContinuation
  <2>2. ASSUME NEW c \in Continuations, ReserveContinuation(l, c) PROVE OneSlotQueue'
    BY <1>4, <2>2 DEF ReserveContinuation
  <2>3. CASE ClearAfterFailure(l) \/ SettleSilently(l) \/ StopTurn(l) \/ WithdrawEffects(l)
    BY <1>3, <2>3
       DEF ClearAfterFailure, SettleSilently, StopTurn, WithdrawEffects, Cancel, CancelAll
  <2> QED
    BY <1>2, <1>7, <2>1, <2>2, <2>3
       DEF TurnStep, TurnProgress, Settle, SettleInterrupted, SettleEmpty, ObserveInput,
           CouncilYields, CallCodex, CodexReturns, ExamineFailure, CheckInterrupted,
           BurstContinues, FinishTurn, ReadReplyEpoch, MarkSilent, StoreReply, MarkReply,
           ReleaseStopped, AbortTurn, CodexFails, TurnError, CompletionError
<1>8. ASSUME NEW c \in Continuations, WorkerStep(c) \/ ContinuationError(c) PROVE OneSlotQueue'
  BY <1>2, <1>3, <1>5, <1>8
     DEF WorkerStep, ContinuationError, WaitForIdle, ClaimContinuation, ContinuationYields,
         TryCodex, ContinuationReturnsText, ContinuationReturnsNothing, DecidePublication,
         StoreContinuation, FinishContinuation, SubscribeContinuation, GiveUp, Complete
<1>9. ASSUME NEW s \in Stops, StopStep(s) PROVE OneSlotQueue'
  BY <1>2, <1>3, <1>9 DEF StopStep, AcceptStop, AnnounceStop, StopContinuations, CancelAll
<1>10. CASE RetractionStep
  BY <1>2, <1>3, <1>10
     DEF RetractionStep, AnnounceRetraction, RetractionInterrupts, RetractionBumps,
         RetractionClears, TruncateTranscript, CancelAll
<1>11. CASE BackgroundTakes \/ BackgroundReleases \/ UNCHANGED vars
  BY <1>2, <1>11 DEF BackgroundTakes, BackgroundReleases, backgroundFrame, vars
<1> QED BY <1>6, <1>7, <1>8, <1>9, <1>10, <1>11 DEF Next

(* The queue never holds two continuations, whatever reservations, claims    *)
(* and cancellations of handlers, turns and workers interleave.              *)
THEOREM QueueHasOneSlot == Spec => []OneSlotQueue
<1>1. Init => OneSlotQueue
  BY DEF Init, QueueInit, OneSlotQueue, Queue
<1> QED BY <1>1, NextOneSlot, TypeCorrect, PTL DEF Spec

-----------------------------------------------------------------------------
(* Turns implement TurnSlot.                                                 *)

LEMMA InitRefines == Init => Slot!Init
BY DEF Init, Slot!Init, CoordinatorInit, NoResponse, PhaseOf, NewTurn

LEMMA TurnStepRefines ==
    ASSUME SlotInv, NEW l \in Messages, TurnStep(l)
    PROVE  [Slot!Next]_(Slot!vars)
<1> DEFINE phase == [k \in Messages |-> PhaseOf(k)]
<1>1. /\ \A k \in Messages \ {l} : turn'[k] = turn[k]
      /\ FateMatches(turn'[l])
      /\ StaysOpen(l) \/ Closes(l) \/ Abandons(l) \/ GoesOn(l)
  BY TurnStepShape DEF SlotInv
<1>2. FateMatches(turn[l]) /\ (Running(l) <=> active.lease = l)
  BY DEF SlotInv, FateMatchesStage, OneResponseOwnsSlot
<1>3. \A k \in Messages \ {l} : PhaseOf(k)' = PhaseOf(k)
  BY <1>1 DEF PhaseOf, Running
<1>4. CASE StaysOpen(l)
  <2>1. PhaseOf(l)' = PhaseOf(l)
    BY <1>4 DEF StaysOpen, PhaseOf, Running, OwningStages
  <2>2. phase' = phase /\ active'.lease = active.lease
    BY <1>3, <1>4, <2>1 DEF StaysOpen
  <2> QED BY <2>2 DEF Slot!vars
<1>5. CASE Closes(l)
  <2>1. PhaseOf(l)' = "closed"
    BY <1>1, <1>5 DEF Closes, PhaseOf, Running, OwningStages, FateMatches
  <2>2. phase' = [phase EXCEPT ![l] = "closed"]
    BY <1>3, <2>1
  <2>3. Slot!Close(l)
    BY <1>5, <2>2 DEF Slot!Close, Closes, NoResponse
  <2> QED BY <2>3 DEF Slot!Next, Slot!Finish
<1>6. CASE Abandons(l)
  <2>1. PhaseOf(l)' = "ended"
    BY <1>1, <1>6 DEF Abandons, PhaseOf, Running, OwningStages, GaveUp
  <2>2. phase' = [phase EXCEPT ![l] = "ended"]
    BY <1>3, <2>1
  <2>3. active.lease = l /\ active'.lease = NoLease
    BY <1>2, <1>6 DEF Abandons, Running, OwningStages, NoResponse
  <2>4. Slot!GiveUp(l)
    BY <2>2, <2>3 DEF Slot!GiveUp
  <2> QED BY <2>4 DEF Slot!Next, Slot!Finish
<1>7. CASE GoesOn(l)
  <2>1. PhaseOf(l) \in {"closed", "replied"} /\ PhaseOf(l)' \in {"closed", "replied", "ended"}
    BY <1>7 DEF GoesOn, PhaseOf, Running, OwningStages, ClosedStages
  <2>2. PhaseOf(l) = "replied" => PhaseOf(l)' = "replied"
    BY <1>7 DEF GoesOn, PhaseOf, Running, OwningStages, ClosedStages
  <2>3. active'.lease = active.lease
    BY <1>7 DEF GoesOn
  <2>4. CASE PhaseOf(l)' = PhaseOf(l)
    <3>1. phase' = phase
      BY <1>3, <2>4
    <3> QED BY <2>3, <3>1 DEF Slot!vars
  <2>5. CASE PhaseOf(l)' # PhaseOf(l)
    <3>1. phase' = [phase EXCEPT ![l] = PhaseOf(l)']
      BY <1>3
    <3>2. Slot!Deliver(l, PhaseOf(l)')
      BY <2>1, <2>2, <2>3, <2>5, <3>1 DEF Slot!Deliver
    <3> QED BY <2>1, <2>2, <2>5, <3>2 DEF Slot!Next, Slot!Finish
  <2> QED BY <2>4, <2>5
<1> QED BY <1>1, <1>4, <1>5, <1>6, <1>7

LEMMA HandlerStepRefines ==
    ASSUME SlotInv, NEW m \in Messages, HandlerStep(m)
    PROVE  [Slot!Next]_(Slot!vars)
<1> DEFINE phase == [k \in Messages |-> PhaseOf(k)]
<1>1. \/ StartTurn(m)
      \/ turn' = turn /\ active'.lease = active.lease
  BY HandlerStepShape DEF SlotInv
<1>2. CASE turn' = turn /\ active'.lease = active.lease
  <2>1. phase' = phase
    BY <1>2 DEF PhaseOf, Running
  <2> QED BY <1>2, <2>1 DEF Slot!vars
<1>3. CASE StartTurn(m)
  <2>1. active.lease = NoLease /\ active'.lease = m /\ turn[m].pc = "none"
    BY <1>3 DEF StartTurn, Start, Opened, IsActive, SlotInv, TurnsAreAccepted, TypeOK
  <2>2. turn'[m].pc = "settle" /\ \A k \in Messages \ {m} : turn'[k] = turn[k]
    BY <1>3 DEF StartTurn, Goto, SetTurn, SlotInv, TypeOK, TurnType
  <2>3. PhaseOf(m) = "none" /\ PhaseOf(m)' = "open"
    BY <2>1, <2>2 DEF PhaseOf, Running, OwningStages
  <2>4. \A k \in Messages \ {m} : PhaseOf(k)' = PhaseOf(k)
    BY <2>2 DEF PhaseOf, Running
  <2>5. phase' = [phase EXCEPT ![m] = "open"]
    BY <2>3, <2>4
  <2>6. Slot!Open(m)
    BY <2>1, <2>3, <2>5 DEF Slot!Open
  <2> QED BY <2>6 DEF Slot!Next
<1> QED BY <1>1, <1>2, <1>3

LEMMA NextRefines == SlotInv /\ [Next]_vars => [Slot!Next]_(Slot!vars)
<1> SUFFICES ASSUME SlotInv, [Next]_vars PROVE [Slot!Next]_(Slot!vars)
  OBVIOUS
<1>1. CASE turn' = turn /\ active'.lease = active.lease
  BY <1>1 DEF Slot!vars, PhaseOf, Running
<1>2. CASE RetractionStep \/ \E s \in Stops : StopStep(s)
  <2>1. turn' = turn /\ active'.lease = active.lease
    BY <1>2, StopStepShape DEF Flags, SlotInv
  <2> QED BY <1>1, <2>1
<1>3. CASE \/ \E c \in Continuations : WorkerStep(c) \/ ContinuationError(c)
           \/ BackgroundTakes \/ BackgroundReleases \/ UNCHANGED vars
  <2>1. UNCHANGED <<active, turn>>
    BY <1>3
       DEF WorkerStep, ContinuationError, WaitForIdle, ClaimContinuation, ContinuationYields,
           TryCodex, ContinuationReturnsText, ContinuationReturnsNothing, DecidePublication,
           StoreContinuation, FinishContinuation, SubscribeContinuation, workerFrame,
           BackgroundTakes, BackgroundReleases, backgroundFrame, vars
  <2> QED BY <1>1, <2>1
<1> QED BY <1>2, <1>3, HandlerStepRefines, TurnStepRefines DEF Next

(* The whole of chat, append_chat, run_chat, stops and retractions is an     *)
(* implementation of TurnSlot: responses open one at a time, close once, and *)
(* only one that closed of its own accord delivers a reply, once.            *)
THEOREM TurnsRefineTurnSlot == Spec => ImplementsTurnSlot
BY InitRefines, NextRefines, SlotInvariant, PTL DEF Spec, ImplementsTurnSlot, Slot!Spec

-----------------------------------------------------------------------------
(* The reservations.                                                         *)

(* The append requests that a response counts on (Active.append_reservations). *)
Holds(m) == Reserving(m) \/ handler[m].pc = "gone"

Holding(l) == {m \in Messages : handler[m].lease = l /\ Holds(m)}

(* A request names a lease only of a response that was started.               *)
LeasesAreTurns ==
    \A m \in Messages :
        /\ handler[m].lease # NoLease => turn[handler[m].lease].pc # "none"
        /\ handler[m].pc \in {"new", "admitted", "announced"} => handler[m].lease = NoLease

Accounted ==
    IsActive =>
        /\ IsFiniteSet(Holding(active.lease))
        /\ ~active.interrupted => active.reservations = Cardinality(Holding(active.lease))

LEMMA AccountedIsExact == Accounted => ReservationsAccounted
<1>1. Holding(active.lease) =
        {m \in Messages : /\ handler[m].lease = active.lease
                          /\ Reserving(m) \/ handler[m].pc = "gone"}
  BY DEF Holding, Holds
<1> QED BY <1>1 DEF Accounted, ReservationsAccounted

(* What a step of one request changes of the requests a lease counts on.      *)
LEMMA HoldingOfOthers ==
    ASSUME NEW m \in Messages, NEW l,
           \A k \in Messages \ {m} : handler'[k] = handler[k]
    PROVE  Holding(l)' \ {m} = Holding(l) \ {m}
BY DEF Holding, Holds, Reserving

LEMMA HoldingJoins ==
    ASSUME NEW m \in Messages, NEW l, IsFiniteSet(Holding(l)), m \notin Holding(l),
           Holding(l)' \ {m} = Holding(l) \ {m}, m \in Holding(l)'
    PROVE  /\ IsFiniteSet(Holding(l)')
           /\ Cardinality(Holding(l)') = Cardinality(Holding(l)) + 1
<1> DEFINE H == Holding(l)
           G == Holding(l)'
<1>1. G = H \cup {m}
  OBVIOUS
<1> HIDE DEF H, G
<1>2. IsFiniteSet(H) /\ m \notin H
  BY DEF H
<1>3. IsFiniteSet(G) /\ Cardinality(G) = Cardinality(H) + 1
  BY <1>1, <1>2, FS_AddElement
<1> QED BY <1>3 DEF G, H

LEMMA HoldingLeaves ==
    ASSUME NEW m \in Messages, NEW l, IsFiniteSet(Holding(l)), m \in Holding(l),
           Holding(l)' \ {m} = Holding(l) \ {m}, m \notin Holding(l)'
    PROVE  /\ IsFiniteSet(Holding(l)')
           /\ Cardinality(Holding(l)') = Cardinality(Holding(l)) - 1
           /\ Cardinality(Holding(l)) > 0
<1> DEFINE H == Holding(l)
           G == Holding(l)'
<1>1. G = H \ {m}
  OBVIOUS
<1> HIDE DEF H, G
<1>2. IsFiniteSet(H) /\ m \in H
  BY DEF H
<1>3. IsFiniteSet(G) /\ Cardinality(G) = Cardinality(H) - 1
  BY <1>1, <1>2, FS_RemoveElement
<1>4. Cardinality(H) \in Nat /\ Cardinality(G) \in Nat
  BY <1>2, <1>3, FS_CardinalityType
<1> QED BY <1>3, <1>4 DEF G, H

LEMMA HoldingStays ==
    ASSUME NEW m \in Messages, NEW l, Holding(l)' \ {m} = Holding(l) \ {m},
           m \in Holding(l)' <=> m \in Holding(l)
    PROVE  Holding(l)' = Holding(l)
OBVIOUS

(* One request moves at a time.                                               *)
LEMMA HandlerMoves ==
    ASSUME TypeOK, NEW m \in Messages, HandlerStep(m)
    PROVE  /\ \A k \in Messages \ {m} : handler'[k] = handler[k]
           /\ handler'[m] \in HandlerType
<1>1. handler \in [Messages -> HandlerType]
  BY DEF TypeOK
<1>2. \A k \in Messages \ {m} : handler'[k] = handler[k]
  BY <1>1
     DEF HandlerStep, AdmitChat, AnnounceInput, ReserveMessage, ClearContinuations, StoreMessage,
         StoreFails, StartTurn, StartConflict, AppendMessage, AppendRefused, Disconnect
<1>3. handler' \in [Messages -> HandlerType]
  BY HandlerStepType DEF TypeOK
<1> QED BY <1>2, <1>3

LEMMA HandlerStepLeases ==
    ASSUME SlotInv, LeasesAreTurns, NEW m \in Messages, HandlerStep(m)
    PROVE  LeasesAreTurns'
<1>1. /\ handler \in [Messages -> HandlerType] /\ turn \in [Messages -> TurnType]
      /\ active \in ActiveType
  BY DEF SlotInv, TypeOK
<1>2. \A k \in Messages \ {m} : handler'[k] = handler[k]
  BY HandlerMoves DEF SlotInv
<1>3. \A l \in Messages : turn[l].pc # "none" => turn'[l].pc # "none"
  <2>1. CASE StartTurn(m)
    BY <1>1, <2>1 DEF StartTurn, Goto, SetTurn, TurnType
  <2>2. CASE turn' = turn
    BY <2>2
  <2> QED BY <2>1, <2>2, HandlerStepShape DEF SlotInv
<1>4. \A k \in Messages : handler[k].lease \in Leases
  BY <1>1 DEF HandlerType
<1>5. /\ handler'[m].lease # NoLease => turn'[handler'[m].lease].pc # "none"
      /\ handler'[m].pc \in {"new", "admitted", "announced"} => handler'[m].lease = NoLease
  <2>1. CASE StartTurn(m)
    BY <1>1, <2>1 DEF StartTurn, Goto, SetTurn, TurnType
  <2>2. CASE ReserveMessage(m)
    <3>1. handler'[m].lease = active.lease /\ handler'[m].pc = "reserved"
      BY <1>1, <2>2 DEF ReserveMessage, HandlerType
    <3>2. active.lease \in Messages
      BY <1>1, <2>2 DEF ReserveMessage, ReserveAppend, IsActive, ActiveType, Leases
    <3>3. turn[active.lease].pc # "none"
      BY <3>2 DEF SlotInv, OneResponseOwnsSlot, Running, OwningStages
    <3> QED BY <1>3, <3>1, <3>2, <3>3
  <2>3. CASE AdmitChat(m) \/ AnnounceInput(m)
    <3>1. handler'[m].lease = handler[m].lease /\ handler[m].pc \in {"new", "admitted"}
      BY <1>1, <2>3 DEF AdmitChat, AnnounceInput, HandlerType
    <3> QED BY <3>1 DEF LeasesAreTurns
  <2>4. CASE \/ ClearContinuations(m) \/ StoreMessage(m) \/ StoreFails(m) \/ StartConflict(m)
             \/ AppendMessage(m) \/ AppendRefused(m) \/ Disconnect(m)
    <3>1. /\ handler'[m].lease = handler[m].lease
          /\ handler'[m].pc \in {"cleared", "stored", "accepted", "rejected", "gone"}
      BY <1>1, <2>4
         DEF ClearContinuations, StoreMessage, StoreFails, StartConflict, AppendMessage,
             AppendRefused, Disconnect, HandlerType
    <3> QED BY <1>3, <1>4, <3>1 DEF LeasesAreTurns, Leases
  <2> QED BY <2>1, <2>2, <2>3, <2>4 DEF HandlerStep
<1>6. ASSUME NEW k \in Messages \ {m}
      PROVE  /\ handler'[k].lease # NoLease => turn'[handler'[k].lease].pc # "none"
             /\ handler'[k].pc \in {"new", "admitted", "announced"} => handler'[k].lease = NoLease
  BY <1>2, <1>3, <1>4 DEF LeasesAreTurns, Leases
<1> QED BY <1>5, <1>6 DEF LeasesAreTurns

(* A request reserves, gives back or turns in one place at a time, and one    *)
(* whose lease is gone has nothing to give back.                              *)
LEMMA HandlerStepAccounts ==
    ASSUME SlotInv, LeasesAreTurns, Accounted, NEW m \in Messages, HandlerStep(m)
    PROVE  Accounted'
<1> DEFINE H == Holding(active.lease)
<1>1. /\ handler \in [Messages -> HandlerType] /\ active \in ActiveType /\ active' \in ActiveType
  BY HandlerStepType DEF SlotInv, TypeOK
<1>2. \A l : Holding(l)' \ {m} = Holding(l) \ {m}
  BY HandlerMoves, HoldingOfOthers DEF SlotInv
<1>3. CASE StartTurn(m)
  <2>1. handler[m].pc = "stored" /\ active'.lease = m /\ active'.reservations = 0
    BY <1>3 DEF StartTurn, Start, Opened
  <2>2. turn[m].pc = "none"
    BY <2>1 DEF SlotInv, TurnsAreAccepted
  <2>3. Holding(m) = {}
    BY <2>2, LeaseAssumption DEF Holding, LeasesAreTurns
  <2>4. m \notin Holding(m)'
    BY <1>1, <1>3 DEF StartTurn, Holding, Holds, Reserving
  <2>5. Holding(m)' = {}
    BY <1>2, <2>3, <2>4
  <2>6. Holding(active.lease)' = {}
    BY <2>1, <2>5 DEF Holding, Holds, Reserving
  <2> QED BY <2>1, <2>6, FS_EmptySet DEF Accounted
<1>4. ASSUME active' = active, m \in H' <=> m \in H
      PROVE  Accounted'
  <2>1. Holding(active.lease)' = Holding(active.lease)
    BY <1>2, <1>4 DEF Holding, Holds, Reserving
  <2> QED BY <1>4, <2>1 DEF Accounted, IsActive
<1>5. CASE AdmitChat(m) \/ AnnounceInput(m) \/ StartConflict(m) \/ Disconnect(m)
           \/ ClearContinuations(m) \/ StoreMessage(m)
  <2>1. active' = active
    BY <1>5 DEF AdmitChat, AnnounceInput, StartConflict, Disconnect, ClearContinuations,
                StoreMessage, BumpInputEpoch
  <2>2. handler'[m].lease = handler[m].lease
    BY <1>1, <1>5 DEF AdmitChat, AnnounceInput, StartConflict, Disconnect, ClearContinuations,
                      StoreMessage, HandlerType
  <2>3. CASE handler[m].lease = NoLease /\ IsActive
    <3>1. m \notin H /\ m \notin H'
      BY <2>1, <2>2, <2>3 DEF Holding, IsActive
    <3> QED BY <1>4, <2>1, <3>1
  <2>4. CASE handler[m].lease # NoLease
    <3>1. handler[m].pc \notin {"new", "admitted", "announced"}
      BY <2>4 DEF LeasesAreTurns
    <3>2. ~AdmitChat(m) /\ ~AnnounceInput(m) /\ ~StartConflict(m)
      BY <2>4, <3>1 DEF AdmitChat, AnnounceInput, StartConflict
    <3>3. /\ handler[m].pc \in {"reserved", "cleared", "stored"}
          /\ handler'[m].pc \in {"cleared", "stored", "gone"}
      BY <1>1, <1>5, <3>1, <3>2 DEF Disconnect, ClearContinuations, StoreMessage, HandlerType
    <3>4. m \in H' <=> m \in H
      BY <2>1, <2>2, <2>4, <3>3 DEF Holding, Holds, Reserving
    <3> QED BY <1>4, <2>1, <3>4
  <2>5. CASE ~IsActive
    BY <2>1, <2>5 DEF Accounted, IsActive
  <2> QED BY <2>3, <2>4, <2>5
<1>6. CASE ReserveMessage(m)
  <2>1. /\ active'.lease = active.lease /\ active'.interrupted = active.interrupted
        /\ active'.reservations = active.reservations + 1
        /\ IsActive /\ ~active.interrupted
    BY <1>1, <1>6 DEF ReserveMessage, ReserveAppend, ActiveType
  <2>2. m \notin H
    BY <1>6 DEF ReserveMessage, Holding, Holds, Reserving
  <2>3. m \in Holding(active.lease)'
    BY <1>1, <1>6, <2>1 DEF ReserveMessage, Holding, Holds, Reserving, IsActive, HandlerType
  <2>4. IsFiniteSet(Holding(active.lease)) /\ active.reservations = Cardinality(Holding(active.lease))
    BY <2>1 DEF Accounted
  <2>5. Holding(active.lease)' \ {m} = Holding(active.lease) \ {m}
    BY <1>2, <2>1 DEF Holding, Holds, Reserving
  <2>6. /\ IsFiniteSet(Holding(active.lease)')
        /\ Cardinality(Holding(active.lease)') = Cardinality(Holding(active.lease)) + 1
    <3> DEFINE L == active.lease
    <3>1. Holding(active.lease)' = {k \in Messages : handler'[k].lease = L /\ Holds(k)'}
      BY <2>1 DEF Holding
    <3> QED
    BY <2>1, <2>2, <2>3, <2>4, <2>5, HoldingJoins
  <2> QED BY <2>1, <2>4, <2>6 DEF Accounted, IsActive
<1>7. CASE StoreFails(m) \/ AppendMessage(m) \/ AppendRefused(m)
  <2>1. /\ handler'[m].lease = handler[m].lease
        /\ handler[m].pc \in {"cleared", "stored"}
        /\ handler'[m].pc \in {"accepted", "rejected"}
    BY <1>1, <1>7 DEF StoreFails, AppendMessage, AppendRefused, HandlerType
  <2>2. /\ active'.lease = active.lease /\ active'.interrupted = active.interrupted
        /\ active'.reservations = IF CanAppend(handler[m].lease) THEN active.reservations - 1
                                  ELSE active.reservations
    BY <1>1, <1>7 DEF StoreFails, AppendMessage, AppendRefused, AppendReserved, CancelAppend,
                      ActiveType
  <2>3. Holding(active.lease)' \ {m} = Holding(active.lease) \ {m}
    BY <1>2, <2>2 DEF Holding, Holds, Reserving
  <2>4. m \notin Holding(active.lease)'
    BY <2>1 DEF Holding, Holds, Reserving
  <2>5. CASE ~IsActive
    BY <2>2, <2>5 DEF Accounted, IsActive
  <2>6. CASE IsActive /\ handler[m].lease # active.lease
    <3>1. m \notin Holding(active.lease) /\ ~CanAppend(handler[m].lease)
      BY <2>6 DEF Holding, CanAppend, Owns
    <3>2. Holding(active.lease)' = Holding(active.lease)
      BY <2>3, <2>4, <3>1
    <3> QED BY <2>2, <3>1, <3>2 DEF Accounted, IsActive
  <2>7. CASE IsActive /\ handler[m].lease = active.lease
    <3>1. m \in Holding(active.lease)
      BY <2>1, <2>7 DEF Holding, Holds, Reserving, IsActive
    <3>2. IsFiniteSet(Holding(active.lease))
      BY <2>7 DEF Accounted
    <3>3. /\ IsFiniteSet(Holding(active.lease)')
          /\ Cardinality(Holding(active.lease)') = Cardinality(Holding(active.lease)) - 1
          /\ Cardinality(Holding(active.lease)) > 0
      BY <2>2, <2>3, <2>4, <3>1, <3>2, HoldingLeaves DEF Holding, Holds, Reserving
    <3>4. CASE active.interrupted
      BY <2>2, <3>3, <3>4 DEF Accounted
    <3>5. CASE ~active.interrupted
      <4>1. active.reservations = Cardinality(Holding(active.lease))
        BY <2>7, <3>5 DEF Accounted
      <4>2. CanAppend(handler[m].lease)
        BY <2>7, <3>3, <4>1 DEF CanAppend, Owns, IsActive
      <4> QED BY <2>2, <3>3, <4>1, <4>2 DEF Accounted
    <3> QED BY <3>4, <3>5
  <2> QED BY <2>5, <2>6, <2>7
<1> QED BY <1>3, <1>5, <1>6, <1>7 DEF HandlerStep

-----------------------------------------------------------------------------
(* The burst.                                                                *)

Queued(m) == \E i \in DOMAIN active.pending : active.pending[i] = m

Abandoned(l) == turn[l].pc = "done" /\ turn[l].fate \in GaveUp

(* An accepted message has been handed to the model or is queued, unless its  *)
(* response was stopped or gave up.                                           *)
BurstIsKept ==
    \A l, m \in Messages :
        handler[m] = [pc |-> "accepted", lease |-> l] /\ ~StoppedBy(l)
        => m \in turn[l].covered \/ (active.lease = l /\ Queued(m)) \/ Abandoned(l)

(* Only an interrupt, which forgets the queue, flags a response.              *)
StopsAreSeen ==
    active.interrupted => active.lease # NoLease /\ StoppedBy(active.lease)

(* A request that has not interrupted anything names no response.             *)
RequestsAreFresh ==
    /\ \A s \in Stops : stop[s].pc = "new" => stop[s].lease = NoLease
    /\ retraction.pc \in {"new", "announced"} => retraction.lease = NoLease

BurstInv ==
    /\ SlotInv
    /\ LeasesAreTurns
    /\ Accounted
    /\ StopsAreSeen
    /\ RequestsAreFresh
    /\ BurstIsKept

(* What a step of a turn does to the slot and to what it has handed over.     *)
Hands(l) ==
    /\ turn[l].covered \subseteq turn'[l].covered
    /\ \/ active' = active
       \/ /\ active.lease = l /\ ~active.interrupted
          /\ active' = [active EXCEPT !.pending = <<>>]
          /\ \A i \in DOMAIN active.pending : active.pending[i] \in turn'[l].covered
       \/ /\ active.lease = l /\ active' = NoResponse
          /\ active.pending = <<>> \/ Abandoned(l)'

LEMMA TurnStepHands ==
    ASSUME SlotInv, NEW l \in Messages, TurnStep(l)
    PROVE  Hands(l)
<1>1. turn \in [Messages -> TurnType] /\ turn[l] \in TurnType /\ FateMatches(turn[l])
  BY DEF SlotInv, TypeOK, FateMatchesStage
<1>2. ASSUME NEW t, SetTurn(l, t) PROVE turn'[l] = t
  BY <1>1, <1>2 DEF SetTurn
<1>3. ASSUME NEW pc, Goto(l, pc) PROVE turn'[l].covered = turn[l].covered
  BY <1>1, <1>2, <1>3 DEF Goto, TurnType
<1>4. ASSUME NEW fate, End(l, fate)
      PROVE  /\ turn'[l].covered = turn[l].covered
             /\ turn'[l].pc = "done" /\ turn'[l].fate = fate
  <2> DEFINE t == [turn[l] EXCEPT !.pc = "done", !.fate = fate]
  <2>1. t.pc = "done" /\ t.fate = fate /\ t.covered = turn[l].covered
    BY <1>1 DEF TurnType
  <2>2. SetTurn(l, t)
    BY <1>4 DEF End
  <2> HIDE DEF t
  <2> QED BY <1>2, <2>1, <2>2
<1>5. CASE \/ SettleInterrupted(l) \/ CouncilYields(l) \/ CallCodex(l) \/ ExamineFailure(l)
           \/ ClearAfterFailure(l) \/ CheckInterrupted(l) \/ BurstContinues(l)
           \/ StopTurn(l) \/ TurnError(l) \/ SettleSilently(l) \/ MarkReply(l)
           \/ ArmContinuation(l)
  BY <1>3, <1>5
     DEF SettleInterrupted, CouncilYields, CallCodex, ExamineFailure, ClearAfterFailure,
         CheckInterrupted, BurstContinues, StopTurn, TurnError, SettleSilently, MarkReply,
         ArmContinuation, Hands
<1>6. CASE MarkSilent(l) \/ CompletionError(l)
  BY <1>4, <1>6 DEF MarkSilent, CompletionError, Hands
<1>7. CASE ReleaseStopped(l) \/ AbortTurn(l)
  <2>1. /\ turn'[l].covered = turn[l].covered
        /\ turn'[l].pc = "done" /\ turn'[l].fate \in GaveUp
    BY <1>1, <1>4, <1>7 DEF ReleaseStopped, AbortTurn, GaveUp, FateMatches, OwningStages
  <2>2. active' = active \/ (active.lease = l /\ active' = NoResponse)
    BY <1>7 DEF ReleaseStopped, AbortTurn, Abort, Owns
  <2> QED BY <2>1, <2>2 DEF Hands, Abandoned
<1>8. CASE FinishTurn(l)
  <2>1. turn'[l].covered = turn[l].covered
    BY <1>3, <1>8 DEF FinishTurn
  <2> QED BY <1>8, <2>1 DEF FinishTurn, FinishIfIdle, Owns, HasWork, Hands
<1>9. CASE Settle(l)
  <2> DEFINE t == [turn[l] EXCEPT !.pc = "taken", !.covered = Covers(l, active.pending)]
  <2>1. t.covered = Covers(l, active.pending)
    BY <1>1 DEF TurnType
  <2>2. SetTurn(l, t)
    BY <1>9 DEF Settle
  <2> HIDE DEF t
  <2>3. turn'[l].covered = turn[l].covered \cup {active.pending[i] : i \in DOMAIN active.pending}
    BY <1>2, <2>1, <2>2 DEF Covers
  <2>4. /\ active.lease = l /\ ~active.interrupted
        /\ active' = [active EXCEPT !.pending = <<>>]
    BY <1>9 DEF Settle, TakePending, Owns
  <2> QED BY <2>3, <2>4 DEF Hands
<1>10. CASE SettleEmpty(l) \/ ObserveInput(l) \/ WithdrawEffects(l) \/ CodexFails(l)
            \/ ReadReplyEpoch(l) \/ StoreReply(l)
  <2>1. CASE SettleEmpty(l)
    BY <1>1, <1>2, <2>1 DEF SettleEmpty, TurnType, Hands
  <2>2. CASE ObserveInput(l)
    BY <1>1, <1>2, <2>2 DEF ObserveInput, TurnType, Hands
  <2>3. CASE WithdrawEffects(l)
    BY <1>1, <1>2, <2>3 DEF WithdrawEffects, TurnType, Hands
  <2>4. CASE CodexFails(l)
    BY <1>1, <1>2, <2>4 DEF CodexFails, TurnType, Hands
  <2>5. CASE ReadReplyEpoch(l)
    BY <1>1, <1>2, <2>5 DEF ReadReplyEpoch, TurnType, Hands
  <2>6. CASE StoreReply(l)
    BY <1>1, <1>2, <2>6 DEF StoreReply, TurnType, Hands
  <2> QED BY <1>10, <2>1, <2>2, <2>3, <2>4, <2>5, <2>6
<1>11. ASSUME NEW r \in Results, CodexReturns(l, r) PROVE Hands(l)
  BY <1>1, <1>2, <1>11 DEF CodexReturns, TurnType, Hands
<1>12. ASSUME NEW c \in Continuations, ReserveContinuation(l, c) PROVE Hands(l)
  BY <1>1, <1>2, <1>12 DEF ReserveContinuation, TurnType, Hands
<1> QED
  BY <1>5, <1>6, <1>7, <1>8, <1>9, <1>10, <1>11, <1>12 DEF TurnStep, TurnProgress

LEMMA TurnStepBurst ==
    ASSUME BurstInv, NEW l \in Messages, TurnStep(l)
    PROVE  BurstInv'
<1> USE DEF BurstInv
<1>1. /\ SlotInv' /\ Hands(l)
      /\ active \in ActiveType
  BY TurnStepSlot, TurnStepHands DEF SlotInv, TypeOK
<1>2. /\ \A k \in Messages \ {l} : turn'[k] = turn[k]
      /\ UNCHANGED <<handler, stop, retraction>>
      /\ turn'[l].pc # "none" /\ ~Abandoned(l)
  <2>1. turn[l].pc \in ClosedStages \ {"done"} \/ turn[l].pc \in OwningStages
    BY TurnStepShape DEF SlotInv, StaysOpen, Closes, Abandons, GoesOn, OwningStages
  <2>2. turn'[l].pc # "none"
    BY TurnStepShape
       DEF SlotInv, StaysOpen, Closes, Abandons, GoesOn, OwningStages, ClosedStages
  <2> QED BY <2>1, <2>2, TurnStepShape DEF SlotInv, Abandoned, OwningStages
<1>3. LeasesAreTurns'
  <2>1. \A k \in Messages : handler[k].lease \in Leases
    BY DEF SlotInv, TypeOK, HandlerType
  <2> QED BY <1>2, <2>1 DEF LeasesAreTurns, Leases
<1>4. Accounted'
  <2>1. \A k : Holding(k)' = Holding(k)
    BY <1>2 DEF Holding, Holds, Reserving
  <2>2. CASE /\ active'.lease = active.lease /\ active'.interrupted = active.interrupted
             /\ active'.reservations = active.reservations
    <3>1. Holding(active.lease)' = Holding(active.lease)
      BY <1>2, <2>2 DEF Holding, Holds, Reserving
    <3> QED BY <2>2, <3>1 DEF Accounted, IsActive
  <2>3. CASE active' = NoResponse
    BY <2>3 DEF Accounted, IsActive, NoResponse
  <2> QED BY <1>1, <2>2, <2>3 DEF Hands, ActiveType
<1>5. StopsAreSeen'
  BY <1>1, <1>2 DEF Hands, StopsAreSeen, StoppedBy, NoResponse, ActiveType
<1>6. BurstIsKept'
  <2> SUFFICES ASSUME NEW k \in Messages, NEW m \in Messages,
                      handler[m] = [pc |-> "accepted", lease |-> k], ~StoppedBy(k)
               PROVE  \/ m \in turn'[k].covered
                      \/ active'.lease = k /\ Queued(m)'
                      \/ Abandoned(k)'
    BY <1>2 DEF BurstIsKept, StoppedBy
  <2>1. m \in turn[k].covered \/ (active.lease = k /\ Queued(m)) \/ Abandoned(k)
    BY DEF BurstIsKept
  <2>2. CASE k # l
    <3>1. turn'[k] = turn[k] /\ (active.lease = k => active' = active)
      BY <1>1, <1>2, <2>2 DEF Hands
    <3> QED BY <2>1, <3>1 DEF Queued, Abandoned
  <2>3. CASE k = l
    BY <1>1, <1>2, <2>1, <2>3 DEF Hands, Queued
  <2> QED BY <2>2, <2>3
<1>7. RequestsAreFresh'
  BY <1>2 DEF RequestsAreFresh
<1> QED BY <1>1, <1>3, <1>4, <1>5, <1>6, <1>7

LEMMA HandlerStepBurst ==
    ASSUME BurstInv, NEW m \in Messages, HandlerStep(m)
    PROVE  BurstInv'
<1> USE DEF BurstInv
<1>1. /\ SlotInv' /\ LeasesAreTurns' /\ Accounted'
      /\ handler \in [Messages -> HandlerType] /\ active \in ActiveType
      /\ turn \in [Messages -> TurnType]
  BY HandlerStepSlot, HandlerStepLeases, HandlerStepAccounts DEF SlotInv, TypeOK
<1>2. /\ UNCHANGED <<stop, retraction>> /\ RequestsAreFresh'
      /\ \A k \in Messages \ {m} : handler'[k] = handler[k]
  BY HandlerStepShape, HandlerMoves DEF SlotInv, RequestsAreFresh
<1>3. CASE StartTurn(m)
  <2>1. /\ active.lease = NoLease /\ active' = Opened(m)
        /\ handler'[m] = [pc |-> "accepted", lease |-> m]
    BY <1>1, <1>3 DEF StartTurn, Start, IsActive
  <2>2. \A k \in Messages : turn'[k].covered = turn[k].covered
                              /\ (k # m => turn'[k] = turn[k])
    BY <1>1, <1>3 DEF StartTurn, Goto, SetTurn, TurnType
  <2>3. turn[m].pc = "none"
    BY <1>3 DEF StartTurn, SlotInv, TurnsAreAccepted
  <2>4. StopsAreSeen'
    BY <2>1 DEF StopsAreSeen, Opened
  <2>5. BurstIsKept'
    <3> SUFFICES ASSUME NEW k \in Messages, NEW n \in Messages,
                        handler'[n] = [pc |-> "accepted", lease |-> k], ~StoppedBy(k)
                 PROVE  \/ n \in turn'[k].covered
                        \/ active'.lease = k /\ Queued(n)'
                        \/ Abandoned(k)'
      BY <1>2 DEF BurstIsKept, StoppedBy
    <3>1. CASE n = m
      <4>1. active'.lease = m /\ active'.pending = <<m>>
        BY <2>1 DEF Opened
      <4>2. 1 \in DOMAIN active'.pending /\ active'.pending[1] = m
        BY <4>1
      <4> QED BY <2>1, <3>1, <4>1, <4>2 DEF Queued
    <3>2. CASE n # m
      <4>1. n \in turn[k].covered \/ Abandoned(k)
        BY <1>2, <2>1, <3>2, LeaseAssumption DEF BurstIsKept
      <4> QED BY <2>2, <2>3, <4>1 DEF Abandoned
    <3> QED BY <3>1, <3>2
  <2> QED BY <1>1, <1>2, <2>4, <2>5
<1>4. CASE AppendMessage(m)
  <2>1. /\ active.lease = handler[m].lease
        /\ active'.lease = active.lease /\ active'.interrupted = active.interrupted
        /\ active'.pending = Append(active.pending, m) /\ active.pending \in Seq(Messages)
        /\ turn' = turn /\ handler'[m].lease = handler[m].lease
    BY <1>1, <1>4
       DEF AppendMessage, AppendReserved, CanAppend, Owns, ActiveType, HandlerType, requestVars
  <2>2. Queued(m)' /\ \A n : Queued(n) => Queued(n)'
    <3>1. /\ Len(active'.pending) = Len(active.pending) + 1
          /\ active'.pending[Len(active.pending) + 1] = m
          /\ \A i \in DOMAIN active.pending : active'.pending[i] = active.pending[i]
          /\ DOMAIN active.pending \subseteq DOMAIN active'.pending
          /\ Len(active.pending) + 1 \in DOMAIN active'.pending
      BY <2>1
    <3> QED BY <3>1 DEF Queued
  <2>3. StopsAreSeen'
    BY <1>2, <2>1 DEF StopsAreSeen, StoppedBy
  <2>4. BurstIsKept'
    <3> SUFFICES ASSUME NEW k \in Messages, NEW n \in Messages,
                        handler'[n] = [pc |-> "accepted", lease |-> k], ~StoppedBy(k)
                 PROVE  \/ n \in turn'[k].covered
                        \/ active'.lease = k /\ Queued(n)'
                        \/ Abandoned(k)'
      BY <1>2 DEF BurstIsKept, StoppedBy
    <3>1. CASE n = m
      BY <2>1, <2>2, <3>1
    <3>2. CASE n # m
      BY <1>2, <2>1, <2>2, <3>2 DEF BurstIsKept, Abandoned
    <3> QED BY <3>1, <3>2
  <2> QED BY <1>1, <1>2, <2>3, <2>4
<1>5. CASE ~StartTurn(m) /\ ~AppendMessage(m)
  <2>1. /\ turn' = turn /\ handler'[m].pc # "accepted"
        /\ active'.lease = active.lease /\ active'.interrupted = active.interrupted
        /\ active'.pending = active.pending
    BY <1>1, <1>5
       DEF HandlerStep, AdmitChat, AnnounceInput, ReserveMessage, ReserveAppend,
           ClearContinuations, StoreMessage, StoreFails, CancelAppend, StartConflict,
           AppendRefused, Disconnect, BumpInputEpoch, requestVars, HandlerType, ActiveType
  <2>2. StopsAreSeen'
    BY <1>2, <2>1 DEF StopsAreSeen, StoppedBy
  <2>3. BurstIsKept'
    <3> SUFFICES ASSUME NEW k \in Messages, NEW n \in Messages,
                        handler'[n] = [pc |-> "accepted", lease |-> k], ~StoppedBy(k)
                 PROVE  \/ n \in turn'[k].covered
                        \/ active'.lease = k /\ Queued(n)'
                        \/ Abandoned(k)'
      BY <1>2 DEF BurstIsKept, StoppedBy
    <3>1. handler[n] = [pc |-> "accepted", lease |-> k]
      BY <1>2, <2>1
    <3> QED BY <2>1, <3>1 DEF BurstIsKept, Queued, Abandoned
  <2> QED BY <1>1, <1>2, <2>2, <2>3
<1> QED BY <1>3, <1>4, <1>5

(* A stop or a retraction leaves the slot alone, or flags it, empties it and  *)
(* remembers whose it was.                                                    *)
LEMMA StopStepFlags ==
    ASSUME TypeOK, RequestsAreFresh, RetractionStep \/ \E s \in Stops : StopStep(s)
    PROVE  /\ UNCHANGED <<handler, turn>> /\ RequestsAreFresh'
           /\ \A l \in Messages : StoppedBy(l) => StoppedBy(l)'
           /\ \/ active' = active
              \/ /\ active' = [active EXCEPT !.interrupted = TRUE, !.pending = <<>>,
                                             !.reservations = 0]
                 /\ IsActive /\ StoppedBy(active.lease)'
<1>1. /\ active \in ActiveType /\ stop \in [Stops -> StopType] /\ retraction \in RetractionType
  BY DEF TypeOK
<1>2. UNCHANGED <<handler, turn>>
  BY StopStepShape
<1>3. ASSUME NEW s \in Stops, AcceptStop(s)
      PROVE  /\ RequestsAreFresh'
             /\ \A l \in Messages : StoppedBy(l) => StoppedBy(l)'
             /\ active' = [active EXCEPT !.interrupted = TRUE, !.pending = <<>>,
                                         !.reservations = 0]
             /\ IsActive /\ StoppedBy(active.lease)'
  <2>1. /\ stop'[s].pc = "flagged" /\ stop'[s].lease = active.lease
        /\ \A r \in Stops \ {s} : stop'[r] = stop[r]
        /\ retraction' = retraction
    BY <1>1, <1>3 DEF AcceptStop
  <2>2. stop[s].lease = NoLease
    BY <1>3 DEF AcceptStop, RequestsAreFresh
  <2>3. RequestsAreFresh'
    BY <2>1 DEF RequestsAreFresh
  <2>4. \A l \in Messages : StoppedBy(l) => StoppedBy(l)'
    BY <2>1, <2>2, LeaseAssumption DEF StoppedBy
  <2>5. StoppedBy(active.lease)'
    <3>1. active'.lease = active.lease
      BY <1>1, <1>3 DEF AcceptStop, Interrupt, ActiveType
    <3> QED BY <2>1, <3>1 DEF StoppedBy
  <2> QED BY <1>3, <2>3, <2>4, <2>5 DEF AcceptStop, Interrupt
<1>4. ASSUME NEW s \in Stops, AnnounceStop(s) \/ StopContinuations(s)
      PROVE  /\ RequestsAreFresh' /\ active' = active
             /\ \A l \in Messages : StoppedBy(l) => StoppedBy(l)'
  <2>1. /\ stop'[s].pc # "new" /\ \A r \in Stops : stop'[r].lease = stop[r].lease
        /\ \A r \in Stops \ {s} : stop'[r] = stop[r]
        /\ UNCHANGED <<active, retraction>>
    BY <1>1, <1>4 DEF AnnounceStop, StopContinuations, StopType
  <2> QED BY <2>1 DEF RequestsAreFresh, StoppedBy
<1>5. CASE RetractionInterrupts /\ IsActive /\ ~active.interrupted
  <2>1. retraction'.pc = "flagged" /\ retraction'.lease = active.lease /\ stop' = stop
    BY <1>1, <1>5 DEF RetractionInterrupts, RetractionType, retractionFrame
  <2>2. retraction.lease = NoLease
    BY <1>5 DEF RetractionInterrupts, RequestsAreFresh
  <2>3. RequestsAreFresh'
    BY <2>1 DEF RequestsAreFresh
  <2>4. \A l \in Messages : StoppedBy(l) => StoppedBy(l)'
    BY <2>1, <2>2, LeaseAssumption DEF StoppedBy
  <2>5. StoppedBy(active.lease)'
    <3>1. active'.lease = active.lease
      BY <1>1, <1>5 DEF RetractionInterrupts, Interrupt, ActiveType
    <3> QED BY <2>1, <3>1 DEF StoppedBy
  <2> QED BY <1>2, <1>5, <2>3, <2>4, <2>5 DEF RetractionInterrupts, Interrupt
<1>6. CASE \/ RetractionInterrupts /\ ~(IsActive /\ ~active.interrupted)
           \/ \E m \in Retractable : AnnounceRetraction(m)
           \/ RetractionBumps \/ RetractionClears \/ TruncateTranscript
  <2>1. /\ retraction'.lease = retraction.lease
        /\ retraction'.pc \in {"new", "announced"} => retraction.pc \in {"new", "announced"}
        /\ UNCHANGED <<active, stop>>
    BY <1>1, <1>6
       DEF RetractionInterrupts, AnnounceRetraction, RetractionBumps, RetractionClears,
           TruncateTranscript, RetractionType, retractionFrame
  <2>2. RequestsAreFresh' /\ \A l \in Messages : StoppedBy(l) => StoppedBy(l)'
    BY <2>1 DEF RequestsAreFresh, StoppedBy
  <2> QED BY <1>2, <2>1, <2>2
<1> QED BY <1>2, <1>3, <1>4, <1>5, <1>6 DEF RetractionStep, StopStep

LEMMA StopStepBurst ==
    ASSUME BurstInv, RetractionStep \/ \E s \in Stops : StopStep(s)
    PROVE  BurstInv'
<1> USE DEF BurstInv
<1>1. /\ SlotInv' /\ active \in ActiveType
  BY StopStepSlot DEF SlotInv, TypeOK
<1>2. /\ UNCHANGED <<handler, turn>> /\ RequestsAreFresh'
      /\ \A l \in Messages : StoppedBy(l) => StoppedBy(l)'
      /\ \/ active' = active
         \/ /\ active' = [active EXCEPT !.interrupted = TRUE, !.pending = <<>>,
                                        !.reservations = 0]
            /\ IsActive /\ StoppedBy(active.lease)'
  BY StopStepFlags DEF SlotInv
<1>3. LeasesAreTurns'
  BY <1>2 DEF LeasesAreTurns
<1>4. active'.lease = active.lease
  BY <1>1, <1>2 DEF ActiveType
<1>5. Accounted'
  <2>1. Holding(active.lease)' = Holding(active.lease)
    BY <1>2, <1>4 DEF Holding, Holds, Reserving
  <2> QED BY <1>1, <1>2, <1>4, <2>1 DEF Accounted, IsActive, ActiveType
<1>6. StopsAreSeen'
  <2>1. CASE active' = active
    <3>1. active.interrupted => active.lease \in Messages
      BY <1>1 DEF StopsAreSeen, ActiveType, Leases
    <3>2. ASSUME active.interrupted PROVE StoppedBy(active.lease)'
      <4>1. StoppedBy(active.lease) /\ active.lease \in Messages
        BY <3>1, <3>2 DEF StopsAreSeen
      <4>2. PICK l \in Messages : l = active.lease
        BY <4>1
      <4>3. StoppedBy(l)'
        BY <1>2, <4>1, <4>2
      <4> QED BY <2>1, <4>2, <4>3 DEF StoppedBy
    <3> QED BY <2>1, <3>2 DEF StopsAreSeen
  <2> QED BY <1>2, <1>4, <2>1 DEF StopsAreSeen, IsActive, StoppedBy
<1>7. BurstIsKept'
  <2> SUFFICES ASSUME NEW k \in Messages, NEW m \in Messages,
                      handler[m] = [pc |-> "accepted", lease |-> k], ~StoppedBy(k)'
               PROVE  \/ m \in turn[k].covered
                      \/ active'.lease = k /\ Queued(m)'
                      \/ Abandoned(k)
    BY <1>2 DEF BurstIsKept, StoppedBy, Abandoned
  <2>1. m \in turn[k].covered \/ (active.lease = k /\ Queued(m)) \/ Abandoned(k)
    BY <1>2 DEF BurstIsKept
  <2>2. CASE active' = active
    BY <2>1, <2>2 DEF Queued
  <2>3. CASE StoppedBy(active.lease)'
    <3>1. active.lease # k
      BY <1>4, <2>3 DEF StoppedBy
    <3> QED BY <2>1, <3>1
  <2> QED BY <1>2, <2>2, <2>3
<1> QED BY <1>1, <1>2, <1>3, <1>5, <1>6, <1>7

LEMMA InitBurst == Init => BurstInv
<1> SUFFICES ASSUME Init PROVE BurstInv
  OBVIOUS
<1>1. SlotInv
  BY InitSlotInv
<1>2. /\ active = NoResponse /\ ~IsActive
      /\ \A m \in Messages : handler[m].pc = "new" /\ handler[m].lease = NoLease
      /\ \A s \in Stops : stop[s].lease = NoLease
      /\ retraction.lease = NoLease
  BY DEF Init, CoordinatorInit, NoResponse, IsActive
<1>3. LeasesAreTurns /\ Accounted /\ StopsAreSeen /\ RequestsAreFresh
  BY <1>2 DEF LeasesAreTurns, Accounted, StopsAreSeen, RequestsAreFresh, NoResponse
<1>4. BurstIsKept
  BY <1>2 DEF BurstIsKept
<1> QED BY <1>1, <1>3, <1>4 DEF BurstInv

LEMMA NextBurst == BurstInv /\ [Next]_vars => BurstInv'
<1> SUFFICES ASSUME BurstInv, [Next]_vars PROVE BurstInv'
  OBVIOUS
<1>1. SlotInv'
  BY NextSlotInv DEF BurstInv
<1>2. CASE \/ \E c \in Continuations : WorkerStep(c) \/ ContinuationError(c)
           \/ BackgroundTakes \/ BackgroundReleases \/ UNCHANGED vars
  <2>1. UNCHANGED <<active, handler, turn, stop, retraction>>
    BY <1>2
       DEF WorkerStep, ContinuationError, WaitForIdle, ClaimContinuation, ContinuationYields,
           TryCodex, ContinuationReturnsText, ContinuationReturnsNothing, DecidePublication,
           StoreContinuation, FinishContinuation, SubscribeContinuation, workerFrame,
           BackgroundTakes, BackgroundReleases, backgroundFrame, vars
  <2>2. Holding(active.lease)' = Holding(active.lease)
    BY <2>1 DEF Holding, Holds, Reserving
  <2> QED
    BY <1>1, <2>1, <2>2
       DEF BurstInv, LeasesAreTurns, Accounted, IsActive, StopsAreSeen, StoppedBy,
           RequestsAreFresh, BurstIsKept, Queued, Abandoned
<1> QED
  BY <1>2, HandlerStepBurst, TurnStepBurst, StopStepBurst DEF Next

LEMMA BurstInvariant == Spec => []BurstInv
BY InitBurst, NextBurst, PTL DEF Spec

(* append_reservations is the number of appends under way, types hold, and    *)
(* the queue has one slot, whatever requests are dropped, refused or reset    *)
(* by an interrupt (conversation.rs, continuation.rs).                        *)
THEOREM BookkeepingStaysExact == Spec => []BookkeepingIsExact
<1>1. BurstInv /\ OneSlotQueue => BookkeepingIsExact
  BY AccountedIsExact DEF BurstInv, SlotInv, BookkeepingIsExact
<1> QED BY <1>1, BurstInvariant, QueueHasOneSlot, PTL

(* No accepted message is forgotten: a response that ends of its own accord   *)
(* has handed every one of its messages to the model (run_chat's              *)
(* finish_if_idle against append_reserved).                                   *)
THEOREM BurstsAreAnswered == Spec => []ReplyCoversBurst
<1>1. BurstInv => ReplyCoversBurst
  <2> SUFFICES ASSUME BurstInv, NEW l \in Messages, NEW m \in Messages,
                      ClosedIdle(l), ~StoppedBy(l),
                      handler[m] = [pc |-> "accepted", lease |-> l]
               PROVE  m \in turn[l].covered
    BY DEF ReplyCoversBurst
  <2>1. m \in turn[l].covered \/ active.lease = l \/ Abandoned(l)
    BY DEF BurstInv, BurstIsKept
  <2>2. active.lease # l
    BY DEF BurstInv, SlotInv, OneResponseOwnsSlot, Running, ClosedIdle, ClosedStages, OwningStages
  <2>3. ~Abandoned(l)
    BY DEF Abandoned, ClosedIdle, GaveUp
  <2> QED BY <2>1, <2>2, <2>3
<1> QED BY <1>1, BurstInvariant, PTL

-----------------------------------------------------------------------------
(* Continuations.                                                            *)

(* A reply is in the transcript only of a turn that has replied.              *)
RepliesAreTold ==
    \A l \in Messages, i \in DOMAIN transcript :
        transcript[i] = ReplyEntry(l) => turn[l].fate = "replied"

EpochsArePast == \A l \in Messages : turn[l].replyEpoch <= epoch

(* While the epoch is the one a turn read before it replied, no accepted      *)
(* message stands after its reply.                                            *)
NothingAccepted(l) ==
    \A i, j \in DOMAIN transcript :
        transcript[i] = ReplyEntry(l) /\ i < j =>
            ~\E m \in Messages : transcript[j] = UserEntry(m) /\ handler[m].pc = "accepted"

RepliesAreLast ==
    \A l \in Messages :
        turn[l].fate = "replied" /\ turn[l].replyEpoch = epoch => NothingAccepted(l)

(* A worker continues a turn that has replied, from the epoch that it read.   *)
Continues(c, l) ==
    /\ worker[c].lease = l /\ worker[c].epoch = turn[l].replyEpoch
    /\ turn[l].fate = "replied"

WorkersContinue ==
    \A c \in Continuations : worker[c].pc # "none" => \E l \in Messages : Continues(c, l)

FollowInv ==
    /\ TypeOK
    /\ FateMatchesStage
    /\ RepliesAreTold
    /\ EpochsArePast
    /\ RepliesAreLast
    /\ WorkersContinue

(* What any step does to the transcript, the epoch and the replies.           *)
Truncates == \E n \in 0 .. Len(transcript) : transcript' = SubSeq(transcript, 1, n)

StoresMessage ==
    \E m \in Messages : handler'[m].pc # "accepted" /\ transcript' = Append(transcript, UserEntry(m))

StoresContinuation ==
    \E c \in Continuations : transcript' = Append(transcript, ContinuationEntry(c))

Replies(l) ==
    /\ turn[l].fate = "open"
    /\ transcript' = Append(transcript, ReplyEntry(l))

KeepsReply(l) ==
    /\ turn'[l].replyEpoch \in {turn[l].replyEpoch, epoch}
    /\ turn[l].fate = "replied" =>
         turn'[l].fate = "replied" /\ turn'[l].replyEpoch = turn[l].replyEpoch
    /\ turn'[l].fate = "replied" => turn[l].fate = "replied" \/ Replies(l)

KeepsWorker(c) ==
    /\ worker'[c].pc # "none" =>
         \/ /\ worker[c].pc # "none"
            /\ worker'[c].lease = worker[c].lease /\ worker'[c].epoch = worker[c].epoch
         \/ \E l \in Messages : Continues(c, l)'
    /\ worker'[c].pc = "publishing" =>
         worker[c].pc = "publishing" \/ (At(c, "returned") /\ MayPublish(c))

GoesForward ==
    /\ epoch' \in {epoch, epoch + 1}
    /\ \A m \in Messages :
         handler'[m].pc = "accepted" => handler[m].pc = "accepted" \/ epoch' = epoch + 1
    /\ \/ transcript' = transcript \/ Truncates \/ StoresMessage \/ StoresContinuation
       \/ \E l \in Messages : Replies(l) /\ turn'[l].fate = "replied"
    /\ \A l \in Messages : KeepsReply(l)
    /\ \A c \in Continuations : KeepsWorker(c)

LEMMA HandlerGoesForward ==
    ASSUME TypeOK, NEW m \in Messages, HandlerStep(m)
    PROVE  GoesForward
<1>1. /\ handler \in [Messages -> HandlerType] /\ turn \in [Messages -> TurnType]
      /\ epoch \in Nat /\ worker' = worker
  BY DEF TypeOK, HandlerStep, AdmitChat, AnnounceInput, ReserveMessage, ClearContinuations,
         StoreMessage, StoreFails, StartTurn, StartConflict, AppendMessage, AppendRefused,
         Disconnect, requestVars
<1>2. \A k \in Messages \ {m} : handler'[k] = handler[k]
  BY HandlerMoves
<1>3. epoch' \in {epoch, epoch + 1}
  BY DEF HandlerStep, AdmitChat, AnnounceInput, ReserveMessage, ClearContinuations,
         StoreMessage, StoreFails, StartTurn, Start, BumpInputEpoch, StartConflict, AppendMessage,
         AppendReserved, AppendRefused, Disconnect
<1>4. handler'[m].pc = "accepted" => epoch' = epoch + 1
  <2>1. CASE StartTurn(m) \/ AppendMessage(m)
    BY <2>1 DEF StartTurn, Start, AppendMessage, AppendReserved, BumpInputEpoch
  <2>2. CASE ~StartTurn(m) /\ ~AppendMessage(m)
    BY <1>1, <2>2
       DEF HandlerStep, AdmitChat, AnnounceInput, ReserveMessage, ClearContinuations, StoreMessage,
           StoreFails, StartConflict, AppendRefused, Disconnect, HandlerType
  <2> QED BY <2>1, <2>2
<1>5. transcript' = transcript \/ StoresMessage
  <2>1. CASE StoreMessage(m)
    BY <1>1, <2>1 DEF StoreMessage, StoresMessage, HandlerType
  <2>2. CASE ~StoreMessage(m)
    BY <2>2
       DEF HandlerStep, AdmitChat, AnnounceInput, ReserveMessage, ClearContinuations, StoreFails,
           StartTurn, StartConflict, AppendMessage, AppendRefused, Disconnect
  <2> QED BY <2>1, <2>2
<1>6. \A l \in Messages : KeepsReply(l)
  <2>1. \A l \in Messages :
          turn'[l].replyEpoch = turn[l].replyEpoch /\ turn'[l].fate = turn[l].fate
    BY <1>1, HandlerStepShape DEF StartTurn, Goto, SetTurn, TurnType
  <2> QED BY <2>1 DEF KeepsReply
<1>7. \A c \in Continuations : KeepsWorker(c)
  BY <1>1 DEF KeepsWorker
<1> QED BY <1>2, <1>3, <1>4, <1>5, <1>6, <1>7 DEF GoesForward

LEMMA TurnGoesForward ==
    ASSUME TypeOK, FateMatchesStage, NEW l \in Messages, TurnStep(l)
    PROVE  GoesForward
<1>1. /\ turn \in [Messages -> TurnType] /\ turn[l] \in TurnType /\ FateMatches(turn[l])
      /\ worker \in [Continuations -> WorkerType] /\ epoch \in Nat
  BY DEF TypeOK, FateMatchesStage
<1>2. /\ \A k \in Messages \ {l} : turn'[k] = turn[k]
      /\ handler' = handler
  BY TurnStepShape
<1>3. ASSUME NEW t, SetTurn(l, t) PROVE turn'[l] = t
  BY <1>1, <1>3 DEF SetTurn
<1>4. ASSUME NEW pc, Goto(l, pc)
      PROVE  turn'[l].replyEpoch = turn[l].replyEpoch /\ turn'[l].fate = turn[l].fate
  BY <1>1, <1>3, <1>4 DEF Goto, TurnType
<1>5. ASSUME NEW fate, End(l, fate)
      PROVE  turn'[l].replyEpoch = turn[l].replyEpoch /\ turn'[l].fate = fate
  <2> DEFINE t == [turn[l] EXCEPT !.pc = "done", !.fate = fate]
  <2>1. t.replyEpoch = turn[l].replyEpoch /\ t.fate = fate
    BY <1>1 DEF TurnType
  <2>2. SetTurn(l, t)
    BY <1>5 DEF End
  <2> HIDE DEF t
  <2> QED BY <1>3, <2>1, <2>2
<1>6. epoch' = epoch
  BY DEF TurnStep, TurnProgress, Settle, SettleInterrupted, SettleEmpty, ObserveInput,
         CouncilYields, CallCodex, CodexReturns, ExamineFailure, ClearAfterFailure,
         CheckInterrupted, BurstContinues, WithdrawEffects, FinishTurn, ReadReplyEpoch,
         SettleSilently, MarkSilent, StoreReply, MarkReply, ArmContinuation, StopTurn,
         ReleaseStopped, AbortTurn, ReserveContinuation, CodexFails, TurnError, CompletionError
<1>7. CASE StoreReply(l)
  <2>1. turn'[l].fate = "replied" /\ turn'[l].replyEpoch = turn[l].replyEpoch
    <3> DEFINE t == [turn[l] EXCEPT !.pc = "replied", !.fate = "replied"]
    <3>1. t.fate = "replied" /\ t.replyEpoch = turn[l].replyEpoch
      BY <1>1 DEF TurnType
    <3>2. SetTurn(l, t)
      BY <1>7 DEF StoreReply
    <3> HIDE DEF t
    <3> QED BY <1>3, <3>1, <3>2
  <2>2. Replies(l) /\ worker' = worker
    BY <1>1, <1>7 DEF StoreReply, Replies, FateMatches, turnVars
  <2>3. \A k \in Messages : KeepsReply(k)
    BY <1>2, <2>1, <2>2 DEF KeepsReply
  <2> QED BY <1>2, <1>6, <2>1, <2>2, <2>3 DEF GoesForward, KeepsWorker
<1>8. ASSUME transcript' = transcript, KeepsReply(l), \A c \in Continuations : KeepsWorker(c)
      PROVE  GoesForward
  <2>1. \A k \in Messages : KeepsReply(k)
    BY <1>2, <1>8 DEF KeepsReply
  <2> QED BY <1>2, <1>6, <1>8, <2>1 DEF GoesForward
<1>9. CASE ArmContinuation(l)
  <2>1. /\ turn'[l].replyEpoch = turn[l].replyEpoch /\ turn'[l].fate = turn[l].fate
        /\ turn[l].fate = "replied" /\ transcript' = transcript
    BY <1>1, <1>4, <1>9 DEF ArmContinuation, FateMatches
  <2>2. ASSUME NEW c \in Continuations PROVE KeepsWorker(c)
    <3>1. CASE worker'[c] = worker[c]
      BY <3>1 DEF KeepsWorker
    <3>2. CASE worker'[c] = [pc |-> "sleeping", lease |-> l, epoch |-> turn[l].replyEpoch,
                             seen |-> 0]
      BY <2>1, <3>2 DEF KeepsWorker, Continues
    <3> QED BY <1>1, <1>9, <3>1, <3>2 DEF ArmContinuation
  <2> QED BY <1>8, <2>1, <2>2 DEF KeepsReply
<1>10. CASE ReadReplyEpoch(l)
  <2> DEFINE t == [turn[l] EXCEPT !.replyEpoch = epoch,
                     !.pc = IF turn[l].result = "silent" THEN "settledSilent" ELSE "replying"]
  <2>1. t.replyEpoch = epoch /\ t.fate = "open"
    BY <1>1, <1>10 DEF TurnType, ReadReplyEpoch, FateMatches
  <2>2. SetTurn(l, t)
    BY <1>10 DEF ReadReplyEpoch
  <2> HIDE DEF t
  <2>3. turn'[l].replyEpoch = epoch /\ turn'[l].fate = "open" /\ turn[l].fate = "open"
    BY <1>1, <1>3, <1>10, <2>1, <2>2 DEF ReadReplyEpoch, FateMatches
  <2>4. transcript' = transcript /\ worker' = worker
    BY <1>10 DEF ReadReplyEpoch, turnVars
  <2> QED BY <1>8, <2>3, <2>4 DEF KeepsReply, KeepsWorker
<1>11. CASE ~StoreReply(l) /\ ~ArmContinuation(l) /\ ~ReadReplyEpoch(l)
  <2>1. transcript' = transcript /\ worker' = worker
    BY <1>11
       DEF TurnStep, TurnProgress, Settle, SettleInterrupted, SettleEmpty, ObserveInput,
           CouncilYields, CallCodex, CodexReturns, ExamineFailure, ClearAfterFailure,
           CheckInterrupted, BurstContinues, WithdrawEffects, FinishTurn,
           SettleSilently, MarkSilent, MarkReply, StopTurn,
           ReleaseStopped, AbortTurn, ReserveContinuation, CodexFails, TurnError, CompletionError,
           turnVars
  <2>2. turn'[l].replyEpoch = turn[l].replyEpoch
        /\ (turn'[l].fate = turn[l].fate \/ (turn[l].fate # "replied" /\ turn'[l].fate # "replied"))
    <3>1. CASE \/ SettleInterrupted(l) \/ CouncilYields(l) \/ CallCodex(l) \/ ExamineFailure(l)
               \/ ClearAfterFailure(l) \/ CheckInterrupted(l) \/ BurstContinues(l)
               \/ StopTurn(l) \/ TurnError(l) \/ SettleSilently(l) \/ MarkReply(l)
               \/ FinishTurn(l)
      BY <1>4, <3>1
         DEF SettleInterrupted, CouncilYields, CallCodex, ExamineFailure, ClearAfterFailure,
             CheckInterrupted, BurstContinues, StopTurn, TurnError, SettleSilently, MarkReply,
             FinishTurn
    <3>2. CASE MarkSilent(l) \/ CompletionError(l) \/ ReleaseStopped(l) \/ AbortTurn(l)
      BY <1>1, <1>5, <3>2
         DEF MarkSilent, CompletionError, ReleaseStopped, AbortTurn, FateMatches, OwningStages
    <3>3. CASE SettleEmpty(l)
      BY <1>1, <1>3, <3>3 DEF SettleEmpty, TurnType, FateMatches, OwningStages
    <3>4. CASE Settle(l)
      BY <1>1, <1>3, <3>4 DEF Settle, TurnType
    <3>5. CASE ObserveInput(l)
      BY <1>1, <1>3, <3>5 DEF ObserveInput, TurnType
    <3>6. CASE WithdrawEffects(l)
      BY <1>1, <1>3, <3>6 DEF WithdrawEffects, TurnType
    <3>7. CASE CodexFails(l)
      BY <1>1, <1>3, <3>7 DEF CodexFails, TurnType
    <3>8. ASSUME NEW r \in Results, CodexReturns(l, r)
          PROVE  turn'[l].replyEpoch = turn[l].replyEpoch /\ turn'[l].fate = turn[l].fate
      BY <1>1, <1>3, <3>8 DEF CodexReturns, TurnType
    <3>9. ASSUME NEW c \in Continuations, ReserveContinuation(l, c)
          PROVE  turn'[l].replyEpoch = turn[l].replyEpoch /\ turn'[l].fate = turn[l].fate
      BY <1>1, <1>3, <3>9 DEF ReserveContinuation, TurnType
    <3> QED
      BY <1>11, <3>1, <3>2, <3>3, <3>4, <3>5, <3>6, <3>7, <3>8, <3>9 DEF TurnStep, TurnProgress
  <2> QED BY <1>8, <2>1, <2>2 DEF KeepsReply, KeepsWorker
<1> QED BY <1>7, <1>9, <1>10, <1>11

(* Everybody else leaves handlers and turns alone.                            *)
LEMMA OthersGoForward ==
    ASSUME TypeOK, UNCHANGED <<handler, turn>>, epoch' \in {epoch, epoch + 1},
           transcript' = transcript \/ Truncates \/ StoresContinuation,
           \A c \in Continuations : KeepsWorker(c)
    PROVE  GoesForward
<1>1. \A l \in Messages : KeepsReply(l)
  BY DEF KeepsReply
<1> QED BY <1>1 DEF GoesForward

LEMMA StopGoesForward ==
    ASSUME TypeOK, RetractionStep \/ \E s \in Stops : StopStep(s)
    PROVE  GoesForward
<1>1. UNCHANGED <<handler, turn, worker>>
  BY DEF RetractionStep, AnnounceRetraction, RetractionInterrupts, RetractionBumps,
         RetractionClears, TruncateTranscript, retractionFrame, StopStep, AcceptStop,
         AnnounceStop, StopContinuations
<1>2. epoch' \in {epoch, epoch + 1}
  BY DEF RetractionStep, AnnounceRetraction, RetractionInterrupts, RetractionBumps,
         RetractionClears, TruncateTranscript, StopStep, AcceptStop, AnnounceStop,
         StopContinuations, BumpInputEpoch
<1>3. transcript' = transcript \/ Truncates
  <2>1. CASE TruncateTranscript
    <3>1. PICK i \in DOMAIN transcript : transcript' = SubSeq(transcript, 1, i - 1)
      BY <2>1 DEF TruncateTranscript
    <3>2. i - 1 \in 0 .. Len(transcript)
      BY DEF TypeOK
    <3> QED BY <3>1, <3>2 DEF Truncates
  <2>2. CASE ~TruncateTranscript
    BY <2>2 DEF RetractionStep, AnnounceRetraction, RetractionInterrupts, RetractionBumps,
                RetractionClears, StopStep, AcceptStop, AnnounceStop, StopContinuations
  <2> QED BY <2>1, <2>2
<1>4. \A c \in Continuations : KeepsWorker(c)
  BY <1>1 DEF KeepsWorker
<1> QED BY <1>1, <1>2, <1>3, <1>4, OthersGoForward

LEMMA WorkerGoesForward ==
    ASSUME TypeOK, NEW c \in Continuations, WorkerStep(c) \/ ContinuationError(c)
    PROVE  /\ GoesForward /\ UNCHANGED <<epoch, handler, turn>>
           /\ \A d \in Continuations \ {c} : worker'[d] = worker[d]
           /\ worker'[c].pc = "publishing" => At(c, "returned") /\ MayPublish(c)
<1>1. /\ worker \in [Continuations -> WorkerType]
      /\ UNCHANGED <<epoch, handler, turn>>
  BY DEF TypeOK, WorkerStep, ContinuationError, WaitForIdle, ClaimContinuation,
         ContinuationYields, TryCodex, ContinuationReturnsText, ContinuationReturnsNothing,
         DecidePublication, StoreContinuation, FinishContinuation, SubscribeContinuation,
         workerFrame
<1>2. transcript' = transcript \/ StoresContinuation
  BY DEF WorkerStep, ContinuationError, WaitForIdle, ClaimContinuation, ContinuationYields,
         TryCodex, ContinuationReturnsText, ContinuationReturnsNothing, DecidePublication,
         StoreContinuation, FinishContinuation, SubscribeContinuation, StoresContinuation
<1>3. ASSUME NEW pc, Move(c, pc)
      PROVE  /\ worker'[c].pc = pc
             /\ worker'[c].lease = worker[c].lease /\ worker'[c].epoch = worker[c].epoch
             /\ \A d \in Continuations \ {c} : worker'[d] = worker[d]
  BY <1>1, <1>3 DEF Move, WorkerType
<1>4. GiveUp(c) => Move(c, "done")
  BY DEF GiveUp
<1>5. /\ worker[c].pc # "none"
      /\ worker'[c].lease = worker[c].lease /\ worker'[c].epoch = worker[c].epoch
      /\ \A d \in Continuations \ {c} : worker'[d] = worker[d]
      /\ worker'[c].pc = "publishing" => At(c, "returned") /\ MayPublish(c)
  <2>1. CASE SubscribeContinuation(c)
    BY <1>1, <2>1 DEF SubscribeContinuation, At, WorkerType
  <2>2. CASE ~SubscribeContinuation(c)
    <3>1. worker[c].pc # "none"
      BY <2>2 DEF WorkerStep, ContinuationError, WaitForIdle, ClaimContinuation,
                  ContinuationYields, TryCodex, ContinuationReturnsText,
                  ContinuationReturnsNothing, DecidePublication, StoreContinuation,
                  FinishContinuation, At
    <3>2. \E pc : Move(c, pc) /\ (pc = "publishing" => At(c, "returned") /\ MayPublish(c))
      BY <1>4, <2>2
         DEF WorkerStep, ContinuationError, WaitForIdle, ClaimContinuation,
             ContinuationYields, TryCodex, ContinuationReturnsText,
             ContinuationReturnsNothing, DecidePublication, StoreContinuation,
             FinishContinuation
    <3> QED BY <1>3, <3>1, <3>2
  <2> QED BY <2>1, <2>2
<1>6. \A d \in Continuations : KeepsWorker(d)
  BY <1>5 DEF KeepsWorker
<1> QED BY <1>1, <1>2, <1>5, <1>6, OthersGoForward

LEMMA NextGoesForward ==
    ASSUME TypeOK, FateMatchesStage, [Next]_vars
    PROVE  GoesForward
<1>1. CASE BackgroundTakes \/ BackgroundReleases \/ UNCHANGED vars
  <2>1. UNCHANGED <<epoch, handler, turn, worker, transcript>>
    BY <1>1 DEF BackgroundTakes, BackgroundReleases, backgroundFrame, vars
  <2> QED BY <2>1, OthersGoForward DEF KeepsWorker
<1> QED
  BY <1>1, HandlerGoesForward, TurnGoesForward, StopGoesForward, WorkerGoesForward DEF Next

(* Going forward keeps the replies told and the last of what was accepted.    *)
LEMMA ForwardKeepsTold ==
    ASSUME FollowInv, GoesForward, TypeOK'
    PROVE  RepliesAreTold'
<1>1. transcript \in Seq(Entries)
  BY DEF FollowInv, TypeOK
<1> SUFFICES ASSUME NEW l \in Messages, NEW i \in DOMAIN transcript',
                    transcript'[i] = ReplyEntry(l)
             PROVE  turn'[l].fate = "replied"
  BY DEF RepliesAreTold, ReplyEntry
<1>2. (\E k \in DOMAIN transcript : transcript[k] = ReplyEntry(l)) => turn'[l].fate = "replied"
  BY DEF FollowInv, RepliesAreTold, GoesForward, KeepsReply
<1>3. CASE transcript' = transcript
  BY <1>2, <1>3
<1>4. CASE Truncates
  BY <1>1, <1>2, <1>4 DEF Truncates
<1>5. ASSUME NEW e, transcript' = Append(transcript, e)
      PROVE  e = ReplyEntry(l) \/ turn'[l].fate = "replied"
  BY <1>1, <1>2, <1>5
<1>6. CASE StoresMessage \/ StoresContinuation
  BY <1>5, <1>6 DEF StoresMessage, StoresContinuation, UserEntry, ContinuationEntry, ReplyEntry
<1>7. ASSUME NEW k \in Messages, Replies(k), turn'[k].fate = "replied"
      PROVE  turn'[l].fate = "replied"
  BY <1>5, <1>7 DEF Replies, ReplyEntry
<1> QED BY <1>3, <1>4, <1>6, <1>7 DEF GoesForward

LEMMA ForwardKeepsLast ==
    ASSUME FollowInv, GoesForward, TypeOK', NEW l \in Messages,
           turn'[l].fate = "replied", turn'[l].replyEpoch = epoch'
    PROVE  NothingAccepted(l)'
<1>1. transcript \in Seq(Entries) /\ epoch \in Nat /\ turn[l].replyEpoch \in Nat
  BY DEF FollowInv, TypeOK, TurnType
<1>2. CASE turn[l].fate = "replied"
  <2>1. turn[l].replyEpoch = epoch /\ epoch' = epoch
    BY <1>1, <1>2 DEF GoesForward, KeepsReply, FollowInv, EpochsArePast
  <2>2. NothingAccepted(l)
    BY <1>2, <2>1 DEF FollowInv, RepliesAreLast
  <2>3. \A m \in Messages : handler'[m].pc = "accepted" => handler[m].pc = "accepted"
    BY <1>1, <2>1 DEF GoesForward
  <2>4. ASSUME NEW i \in DOMAIN transcript, NEW j \in DOMAIN transcript,
               transcript[i] = ReplyEntry(l), i < j, NEW m \in Messages,
               transcript[j] = UserEntry(m), handler'[m].pc = "accepted"
        PROVE  FALSE
    BY <2>2, <2>3, <2>4 DEF NothingAccepted
  <2> SUFFICES ASSUME NEW i \in DOMAIN transcript', NEW j \in DOMAIN transcript',
                      transcript'[i] = ReplyEntry(l), i < j, NEW m \in Messages,
                      transcript'[j] = UserEntry(m), handler'[m].pc = "accepted"
               PROVE  FALSE
    BY DEF NothingAccepted, ReplyEntry, UserEntry
  <2>5. CASE transcript' = transcript
    BY <2>4, <2>5
  <2>6. CASE Truncates
    <3>1. PICK n \in 0 .. Len(transcript) : transcript' = SubSeq(transcript, 1, n)
      BY <2>6 DEF Truncates
    <3>2. /\ i \in DOMAIN transcript /\ transcript'[i] = transcript[i]
          /\ j \in DOMAIN transcript /\ transcript'[j] = transcript[j]
      BY <1>1, <3>1
    <3> QED BY <2>4, <3>2
  <2>7. ASSUME NEW e, transcript' = Append(transcript, e), e # UserEntry(m) PROVE FALSE
    <3>1. j # Len(transcript) + 1
      BY <1>1, <2>7
    <3>2. /\ i \in DOMAIN transcript /\ transcript'[i] = transcript[i]
          /\ j \in DOMAIN transcript /\ transcript'[j] = transcript[j]
      BY <1>1, <2>7, <3>1
    <3> QED BY <2>4, <3>2
  <2>8. CASE StoresMessage
    <3>1. PICK k \in Messages :
            handler'[k].pc # "accepted" /\ transcript' = Append(transcript, UserEntry(k))
      BY <2>8 DEF StoresMessage
    <3>2. UserEntry(k) # UserEntry(m)
      BY <3>1 DEF UserEntry
    <3> QED BY <2>7, <3>1, <3>2
  <2>9. CASE StoresContinuation
    BY <2>7, <2>9 DEF StoresContinuation, ContinuationEntry, UserEntry
  <2>10. ASSUME NEW k \in Messages, Replies(k) PROVE FALSE
    BY <2>7, <2>10 DEF Replies, ReplyEntry, UserEntry
  <2> QED BY <2>5, <2>6, <2>8, <2>9, <2>10 DEF GoesForward
<1>3. CASE turn[l].fate # "replied"
  <2>1. transcript' = Append(transcript, ReplyEntry(l))
    BY <1>3 DEF GoesForward, KeepsReply, Replies
  <2>2. \A i \in DOMAIN transcript : transcript[i] # ReplyEntry(l)
    BY <1>3 DEF FollowInv, RepliesAreTold
  <2>3. \A i, j \in DOMAIN transcript' : transcript'[i] = ReplyEntry(l) => ~(i < j)
    BY <1>1, <2>1, <2>2
  <2> QED BY <2>3 DEF NothingAccepted, ReplyEntry
<1> QED BY <1>2, <1>3

LEMMA InitFollow == Init => FollowInv
<1> SUFFICES ASSUME Init PROVE FollowInv
  OBVIOUS
<1>1. TypeOK /\ FateMatchesStage
  BY InitType, InitSlotInv DEF SlotInv
<1>2. /\ transcript = <<>> /\ epoch = 0
      /\ \A l \in Messages : turn[l].replyEpoch = 0 /\ turn[l].fate = "open"
      /\ \A c \in Continuations : worker[c].pc = "none"
  BY DEF Init, NewTurn, CoordinatorInit
<1> QED
  BY <1>1, <1>2 DEF FollowInv, RepliesAreTold, EpochsArePast, RepliesAreLast, WorkersContinue

LEMMA NextFollow == SlotInv /\ FollowInv /\ [Next]_vars => FollowInv'
<1> SUFFICES ASSUME SlotInv, FollowInv, [Next]_vars PROVE FollowInv'
  OBVIOUS
<1>1. TypeOK' /\ FateMatchesStage'
  BY NextSlotInv DEF SlotInv
<1>2. GoesForward
  BY NextGoesForward DEF FollowInv
<1>3. RepliesAreTold'
  BY <1>1, <1>2, ForwardKeepsTold
<1>4. EpochsArePast'
  <2>1. \A l \in Messages : turn[l].replyEpoch \in Nat /\ epoch \in Nat
    BY DEF FollowInv, TypeOK, TurnType
  <2> QED BY <1>2, <2>1 DEF FollowInv, EpochsArePast, GoesForward, KeepsReply
<1>5. RepliesAreLast'
  <2>1. \A l \in Messages :
          turn'[l].fate = "replied" /\ turn'[l].replyEpoch = epoch' => NothingAccepted(l)'
    BY <1>1, <1>2, ForwardKeepsLast
  <2> QED BY <2>1 DEF RepliesAreLast
<1>6. WorkersContinue'
  <2> SUFFICES ASSUME NEW c \in Continuations, worker'[c].pc # "none"
               PROVE  \E l \in Messages : Continues(c, l)'
    BY DEF WorkersContinue
  <2>1. CASE /\ worker[c].pc # "none"
             /\ worker'[c].lease = worker[c].lease /\ worker'[c].epoch = worker[c].epoch
    <3>1. PICK l \in Messages : Continues(c, l)
      BY <2>1 DEF FollowInv, WorkersContinue
    <3>2. Continues(c, l)'
      BY <1>2, <2>1, <3>1 DEF Continues, GoesForward, KeepsReply
    <3> QED BY <3>2
  <2> QED BY <1>2, <2>1 DEF GoesForward, KeepsWorker
<1> QED BY <1>1, <1>3, <1>4, <1>5, <1>6 DEF FollowInv

(* What a worker that decides to publish has found.                           *)
LEMMA PublicationIsTimely ==
    ASSUME SlotInv, FollowInv, [Next]_vars, NEW c \in Continuations,
           worker[c].pc # "publishing", worker'[c].pc = "publishing"
    PROVE  NothingAccepted(worker[c].lease)
<1>1. At(c, "returned") /\ MayPublish(c)
  BY NextGoesForward DEF FollowInv, GoesForward, KeepsWorker
<1>2. PICK l \in Messages : Continues(c, l)
  BY <1>1 DEF At, FollowInv, WorkersContinue
<1>3. turn[l].replyEpoch = epoch /\ turn[l].fate = "replied" /\ worker[c].lease = l
  BY <1>1, <1>2 DEF MayPublish, Continues
<1> QED BY <1>3 DEF FollowInv, RepliesAreLast

(* No step publishes a continuation of a reply after which an accepted        *)
(* message stands: the epoch compared last is the one read between freeing    *)
(* the slot and storing the reply, and accepting a message raises it          *)
(* (continuation.rs run_continuation, web.rs run_chat).                       *)
THEOREM ContinuationsAreTimely == Spec => ContinuationFollowsItsReply
<1>1. SlotInv /\ FollowInv /\ [Next]_vars =>
        [\A c \in Continuations :
           (worker[c].pc # "publishing" /\ worker'[c].pc = "publishing") =>
           \A i, j \in DOMAIN transcript :
              (transcript[i] = ReplyEntry(worker[c].lease) /\ i < j)
              => ~\E m \in Messages :
                      transcript[j] = UserEntry(m) /\ handler[m].pc = "accepted"]_vars
  BY PublicationIsTimely DEF NothingAccepted
<1>2. Spec => [](SlotInv /\ FollowInv)
  BY SlotInvariant, InitFollow, NextFollow, PTL DEF Spec
<1> QED BY <1>1, <1>2, PTL DEF Spec, ContinuationFollowsItsReply
=============================================================================
