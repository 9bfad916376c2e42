-------------------------- MODULE ContinuationQueue --------------------------
(***************************************************************************)
(* ContinuationQueue (src/src/continuation.rs): the one-slot queue of short *)
(* follow-up replies.  A turn reserves a continuation, its reply arms it,   *)
(* a worker claims it, and user input removes it at any stage.  Ids are     *)
(* fresh (a timestamp and a counter), so an id never returns to the queue.  *)
(* Each operator is one critical section of the queue's mutex.  The TTL of  *)
(* an unarmed reservation is abstracted: it may have passed at any moment.  *)
(***************************************************************************)
CONSTANT Continuations   \* the ids handed out

VARIABLE stage           \* the queue's map, with the ids not in it

Stages == {"unused", "reserved", "armed", "running", "removed"}

Queue == {c \in Continuations : stage[c] \in {"reserved", "armed", "running"}}

QueueInit == stage = [c \in Continuations |-> "unused"]

\* remove from the map; ids that are not in it are ignored.
Remove(ids) ==
    stage' = [c \in Continuations |-> IF c \in ids \cap Queue THEN "removed" ELSE stage[c]]

\* Mutant of Reserve: a continuation that is armed or running does not refuse it.
ReserveAnyway(c) ==
    /\ stage[c] = "unused"
    /\ stage' = [stage EXCEPT ![c] = "reserved"]

\* reserve: expired reservations are swept first, then the slot must be free.
Reserve(c) ==
    /\ stage[c] = "unused"
    /\ \A other \in Queue : stage[other] = "reserved"
    /\ stage' = [x \in Continuations |->
                   IF x = c THEN "reserved"
                   ELSE IF x \in Queue THEN "removed" ELSE stage[x]]

CanArm(c) == stage[c] = "reserved"

Arm(c) == CanArm(c) /\ stage' = [stage EXCEPT ![c] = "armed"]

Cancel(ids) == Remove(ids)

CancelAll == Remove(Continuations)

\* claim: FALSE unless the continuation is still armed.
CanClaim(c) == stage[c] = "armed"

Claim(c) == CanClaim(c) /\ stage' = [stage EXCEPT ![c] = "running"]

IsRunning(c) == stage[c] = "running"

Complete(c) == Remove({c})
=============================================================================
