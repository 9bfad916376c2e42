----------------------- MODULE ConversationCoordinator -----------------------
(***************************************************************************)
(* ConversationCoordinator (src/src/conversation.rs): the one slot that an *)
(* interactive response owns, the user messages queued for it, and the     *)
(* input epoch that background work watches to yield to the user.          *)
(*                                                                         *)
(* Each operator below is one critical section of the coordinator's mutex, *)
(* as a conjunction over `active` and `epoch`; the modules that extend     *)
(* this one compose them into handlers and tasks.  A lease is the user     *)
(* message whose request started the response: the code draws lease ids    *)
(* from a counter, one per successful `start`, and a message starts at     *)
(* most one.  Wall-clock windows (QUIET_WINDOW, TYPING_GRACE, MAX_SETTLE)  *)
(* are abstracted: a settle may end at any moment.                         *)
(***************************************************************************)
EXTENDS Naturals, Sequences

CONSTANTS
    Messages,   \* user messages, each sent by one HTTP request
    NoLease     \* no response is active

ASSUME LeaseAssumption == NoLease \notin Messages

VARIABLES
    active,     \* State.active
    epoch       \* the value of the input_epoch watch channel

Leases == Messages \cup {NoLease}

NoResponse ==
    [lease |-> NoLease, pending |-> <<>>, reservations |-> 0, interrupted |-> FALSE]

ActiveType ==
    [lease: Leases, pending: Seq(Messages), reservations: Nat, interrupted: BOOLEAN]

CoordinatorInit == active = NoResponse /\ epoch = 0

IsActive == active.lease # NoLease

\* matching_active: the lease still names the active response.
Owns(l) == l # NoLease /\ active.lease = l

BumpInputEpoch == epoch' = epoch + 1

\* The response a message opens, with the message queued.
Opened(m) == [lease |-> m, pending |-> <<m>>, reservations |-> 0, interrupted |-> FALSE]

\* Mutant of Start: the active response is not checked.
StartAnyway(m) ==
    /\ active' = Opened(m)
    /\ BumpInputEpoch

\* start, when no response is active; otherwise the code returns an error.
Start(m) ==
    /\ ~IsActive
    /\ active' = Opened(m)
    /\ BumpInputEpoch

\* reserve_append: refused without a response, or while it is stopping.
ReserveAppend ==
    /\ IsActive
    /\ ~active.interrupted
    /\ active' = [active EXCEPT !.reservations = @ + 1]

\* Mutant of CanAppend: the reservation count is not checked.
CanAppendUnreserved(l) == Owns(l)

CanAppend(l) == Owns(l) /\ active.reservations > 0

\* Mutant of AppendReserved: the reservation is not given back.
AppendKeepingReservation(l, m) ==
    /\ CanAppend(l)
    /\ active' = [active EXCEPT !.pending = Append(@, m)]
    /\ BumpInputEpoch

\* append_reserved: the reservation becomes a pending message.
AppendReserved(l, m) ==
    /\ CanAppend(l)
    /\ active' = [active EXCEPT !.reservations = @ - 1, !.pending = Append(@, m)]
    /\ BumpInputEpoch

\* cancel_append: saturating, and nothing when the lease is gone.
CancelAppend(l) ==
    active' = IF CanAppend(l) THEN [active EXCEPT !.reservations = @ - 1] ELSE active

\* interrupt, the locked part: queued messages and reservations are dropped.
\* The epoch is bumped after the lock is released, by BumpInputEpoch.
Interrupt ==
    /\ IsActive
    /\ ~active.interrupted
    /\ active' = [active EXCEPT !.interrupted = TRUE, !.pending = <<>>,
                                !.reservations = 0]

\* settle_and_take, when it returns the batch.
TakePending(l) ==
    /\ Owns(l)
    /\ ~active.interrupted
    /\ active.pending # <<>>
    /\ active' = [active EXCEPT !.pending = <<>>]

\* Mutant of HasWork: reservations keep the response open, queued messages do not.
HasReservation == active.reservations > 0

\* finish_if_idle: TRUE, and the slot is free, only with nothing queued or reserved.
HasWork == active.pending # <<>> \/ active.reservations > 0

FinishIfIdle(l) ==
    /\ Owns(l)
    /\ ~HasWork
    /\ active' = NoResponse

\* abort: frees the slot only for its owner.
Abort(l) == active' = IF Owns(l) THEN NoResponse ELSE active
=============================================================================
