------------------------ MODULE EphemeralDiscussion ------------------------
(***************************************************************************)
(* Temporary discussions: src/src/ephemeral_chat.rs (the service),         *)
(* ephemeral_session.rs (the store it locks) and the handlers of           *)
(* web/ephemeral_discussion.rs.  `operation_gate` serialises replies and   *)
(* retries; every block under the `state` mutex is one action; the memory  *)
(* seed, the Codex call and the durable write of a promotion run outside   *)
(* the mutex, and the other handlers step in between.                      *)
(*                                                                         *)
(* A session's random id is represented by the request that starts it, a   *)
(* turn by its role, and idle time by a flag that every activity clears.   *)
(* Of the conversation only its slot is kept (ConversationCoordinator has  *)
(* the rest).                                                              *)
(***************************************************************************)
EXTENDS Naturals, Sequences, FiniteSets

CONSTANTS
    Requests,    \* POSTs of /temporary-discussion/messages and /retry
    Promotions,  \* POSTs of /temporary-discussion/promote
    MaxTurns,    \* EphemeralSessionLimits.max_turns, 48 in the code: an even number
    None,        \* Option::None
    Leaving,     \* the requests and promotions whose client may go away
    SeedFails,   \* the requests whose memory seed may fail
    Overlong     \* the requests whose message or answer may exceed
                 \* max_characters

ASSUME DiscussionAssumption ==
    /\ MaxTurns \in Nat \ {0}
    /\ MaxTurns % 2 = 0
    /\ None \notin Requests
    /\ Leaving \subseteq Requests \cup Promotions
    /\ SeedFails \subseteq Requests
    /\ Overlong \subseteq Requests

VARIABLES
    store,         \* EphemeralSessionStore.sessions, and those removed
    current,       \* ServiceState.current
    cancellation,  \* ServiceState.cancellation: the request it interrupts
    signalled,     \* the requests whose cancellation was sent
    gate,          \* the holder of operation_gate
    op,            \* each reply or retry
    promotion,     \* each promotion
    durable,       \* the sessions and turns that were written durably
    discarded,     \* history: the sessions the user chose to discard
    chat           \* the normal conversation: its next turn

service == <<current, cancellation, signalled>>
vars == <<store, service, gate, op, promotion, durable, discarded, chat>>

Sessions == Requests
\* `by` is the request that asked, `saw` the number of turns a call had read.
Turns == [role : {"user"}, by : Requests, failed : BOOLEAN]
            \cup [role : {"assistant"}, saw : Nat]

Live(s)     == store[s].state \in {"open", "held"}
\* live_session_mut finds the session, neither absent nor expired
Reachable(s) == Live(s) /\ ~store[s].idle
LastIs(s, role) == /\ store[s].turns # <<>>
                   /\ store[s].turns[Len(store[s].turns)].role = role

\* Mutant of Appendable: the expected role is not checked.
AppendableInAnyOrder(s, role) ==
    /\ Reachable(s)
    /\ store[s].state = "open"
    /\ Len(store[s].turns) < MaxTurns

\* Mutant of Appendable: a held session takes turns too.
AppendableWhileHeld(s, role) ==
    /\ Reachable(s)
    /\ LastIs(s, "user") <=> role = "assistant"
    /\ Len(store[s].turns) < MaxTurns

\* EphemeralSession::append accepts a turn of this role
Appendable(s, role) ==
    /\ Reachable(s)
    /\ store[s].state = "open"
    /\ LastIs(s, "user") <=> role = "assistant"
    /\ Len(store[s].turns) < MaxTurns

Retriable(s) ==
    /\ Reachable(s)
    /\ store[s].state = "open"
    /\ LastIs(s, "user")
    /\ store[s].turns[Len(store[s].turns)].failed

\* What a failed lookup leaves: an expired session is removed.
Dropped(st, s) == [st EXCEPT ![s].state = "gone"]
Expired(s) == IF Live(s) /\ store[s].idle THEN Dropped(store, s) ELSE store

\* A successful mutation of session s counts as activity.
Active(s, state, turns) ==
    [store EXCEPT ![s].state = state, ![s].turns = turns, ![s].idle = FALSE]

\* Mutant of MarkedFailed: the failure is only logged.
FailureLogged(s) == Expired(s)

\* mark_user_turn_failed, whose own errors are only logged
MarkedFailed(s) ==
    IF Reachable(s) /\ store[s].state = "open" /\ LastIs(s, "user")
    THEN Active(s, "open", [store[s].turns EXCEPT ![Len(store[s].turns)].failed = TRUE])
    ELSE Expired(s)

WithAnswer(s, context) ==
    LET last == Len(store[s].turns)
    IN  Append([store[s].turns EXCEPT ![last].failed = FALSE],
               [role |-> "assistant", saw |-> Len(context)])

\* snapshot_locked: an unreachable current session is forgotten.
SnapshotForgets == current # None /\ ~Reachable(current)
TakeSnapshot ==
    IF SnapshotForgets
    THEN /\ current' = None
         /\ cancellation' = None
         /\ store' = Expired(current)
    ELSE UNCHANGED <<current, cancellation, store>>

(***************************************************************************)
(* Replies and retries.                                                    *)
(***************************************************************************)

Stage(r, stage) == op' = [op EXCEPT ![r].stage = stage]

\* The handler finds no response of the normal conversation.
Admit(r) ==
    /\ op[r].stage = "idle"
    /\ chat \in {"idle", "checked"}
    /\ \E kind \in {"reply", "retry"} :
          op' = [op EXCEPT ![r].stage = "admitted", ![r].kind = kind]
    /\ UNCHANGED <<store, service, gate, promotion, durable, discarded, chat>>

\* announce_input interrupts whatever the conversation has begun meanwhile.
Announce(r) ==
    /\ op[r].stage = "admitted"
    /\ chat' = IF chat = "active" THEN "interrupted" ELSE chat
    /\ Stage(r, "waiting")
    /\ UNCHANGED <<store, service, gate, promotion, durable, discarded>>

\* operation_gate.lock(), and in `reply` the look at `current`
PassGate(r) ==
    /\ op[r].stage = "waiting"
    /\ gate = None
    /\ gate' = r
    /\ Stage(r, IF op[r].kind = "reply" /\ current = None THEN "seeding" ELSE "ready")
    /\ UNCHANGED <<store, service, promotion, durable, discarded, chat>>

ReadSeed(r) ==
    /\ op[r].stage = "seeding"
    /\ \E seed \in {"read"} \cup (IF r \in SeedFails THEN {"failed"} ELSE {}) :
          op' = [op EXCEPT ![r].stage = "ready", ![r].seed = seed]
    /\ UNCHANGED <<store, service, gate, promotion, durable, discarded, chat>>

\* An error return drops the gate's guard.
Refuse(r) ==
    /\ Stage(r, "done")
    /\ gate' = None

Call(r, s, turns) ==
    /\ op' = [op EXCEPT ![r].stage = "calling", ![r].session = s, ![r].context = turns]
    /\ cancellation' = r
    /\ UNCHANGED gate

\* EphemeralSessionStore::start, which first expires what is idle.
StartedStore(r) ==
    [s \in Sessions |->
        IF s = r
        THEN [state |-> "open", turns |-> <<>>, idle |-> FALSE,
              seeded |-> op[r].seed = "read"]
        ELSE Expired(s)[s]]

AppendUser(st, s, r) ==
    [st EXCEPT ![s].turns = Append(@, [role |-> "user", by |-> r, failed |-> FALSE]),
               ![s].idle = FALSE]

\* The first turn of a new session; a failed seed leaves it marked failed.
BeginNew(r) ==
    /\ current = None
    /\ IF \E s \in Sessions : Reachable(s)
       THEN /\ store' = [s \in Sessions |-> Expired(s)[s]]
            /\ Refuse(r)
            /\ UNCHANGED <<current, cancellation>>
       ELSE /\ current' = r
            /\ \/ /\ r \in Overlong
                  /\ store' = StartedStore(r)
                  /\ Refuse(r)
                  /\ UNCHANGED cancellation
               \/ LET begun == AppendUser(StartedStore(r), r, r)
                  IN  IF op[r].seed = "failed"
                      THEN /\ store' = [begun EXCEPT ![r].turns[1].failed = TRUE]
                           /\ Refuse(r)
                           /\ UNCHANGED cancellation
                      ELSE /\ store' = begun
                           /\ Call(r, r, begun[r].turns)

BeginNext(r) ==
    /\ current # None
    /\ UNCHANGED current
    /\ \/ /\ ~Appendable(current, "user") \/ r \in Overlong
          /\ store' = Expired(current)
          /\ Refuse(r)
          /\ UNCHANGED cancellation
       \/ /\ Appendable(current, "user")
          /\ store' = AppendUser(store, current, r)
          /\ Call(r, current, store'[current].turns)

BeginRetry(r) ==
    /\ UNCHANGED current
    /\ IF current # None /\ Retriable(current)
       THEN /\ Call(r, current, store[current].turns)
            /\ UNCHANGED store
       ELSE /\ Refuse(r)
            /\ store' = IF current = None THEN store ELSE Expired(current)
            /\ UNCHANGED cancellation

Begin(r) ==
    /\ op[r].stage = "ready"
    /\ IF cancellation # None
       THEN Refuse(r) /\ UNCHANGED <<store, current, cancellation>>
       ELSE \/ op[r].kind = "reply" /\ BeginNew(r)
            \/ op[r].kind = "reply" /\ BeginNext(r)
            \/ op[r].kind = "retry" /\ BeginRetry(r)
    /\ UNCHANGED <<signalled, promotion, durable, discarded, chat>>

\* The Codex call returns.  Only a signalled one can be interrupted, and one
\* signalled too late answers all the same.
Complete(r) ==
    /\ op[r].stage = "calling"
    /\ \E outcome \in {"answer", "error"}
                        \cup (IF r \in signalled THEN {"interrupted"} ELSE {})
                        \cup (IF r \in Overlong THEN {"long"} ELSE {}) :
          op' = [op EXCEPT ![r].stage = "answered", ![r].outcome = outcome]
    /\ UNCHANGED <<store, service, gate, promotion, durable, discarded, chat>>

\* What the end of a call does to the session it was made for.
Settled(r) ==
    LET s == op[r].session
    IN  CASE current # s -> store
          [] current = s /\ op[r].outcome = "answer" /\ Appendable(s, "assistant")
               -> Active(s, "open", WithAnswer(s, op[r].context))
          [] current = s /\ op[r].outcome \in {"interrupted", "error"} -> MarkedFailed(s)
          [] OTHER -> Expired(s)

\* Mutant of Settle: an error returns before the cancellation is reset.
SettleErrorEarly(r) ==
    /\ op[r].stage = "answered"
    /\ Refuse(r)
    /\ cancellation' = IF op[r].outcome = "error" THEN cancellation ELSE None
    /\ store' = Settled(r)
    /\ UNCHANGED <<current, signalled, promotion, durable, discarded, chat>>

\* Mutant of Settle: the gate is not released when the session is gone.
SettleKeepsGate(r) ==
    /\ op[r].stage = "answered"
    /\ Stage(r, "done")
    /\ gate' = IF current = op[r].session THEN None ELSE gate
    /\ cancellation' = None
    /\ store' = Settled(r)
    /\ UNCHANGED <<current, signalled, promotion, durable, discarded, chat>>

Settle(r) ==
    /\ op[r].stage = "answered"
    /\ Refuse(r)
    /\ cancellation' = None
    /\ store' = Settled(r)
    /\ current' = IF current = op[r].session /\ op[r].outcome = "interrupted"
                     /\ ~Reachable(current)
                  THEN None ELSE current
    /\ UNCHANGED <<signalled, promotion, durable, discarded, chat>>

\* The client goes away and hyper drops the handler at whatever it awaits:
\* the gate's guard is released, `cancellation` stays as it is.
Leave(r) ==
    /\ r \in Leaving
    /\ op[r].stage \notin {"idle", "done"}
    /\ Stage(r, "done")
    /\ gate' = IF gate = r THEN None ELSE gate
    /\ UNCHANGED <<store, service, promotion, durable, discarded, chat>>

(***************************************************************************)
(* The user's other requests, each one critical section.                   *)
(***************************************************************************)

\* Mutant of Interrupt: it is sent though nothing runs.
InterruptAnything ==
    /\ signalled' = signalled \cup {cancellation}
    /\ UNCHANGED <<store, current, cancellation, gate, op, promotion, durable, discarded, chat>>

Interrupt ==
    /\ cancellation # None
    /\ signalled' = signalled \cup {cancellation}
    /\ UNCHANGED <<store, current, cancellation, gate, op, promotion, durable, discarded, chat>>

Hold ==
    /\ cancellation = None
    /\ current # None
    /\ store' = IF Reachable(current) /\ store[current].state = "open"
                THEN Active(current, "held", store[current].turns)
                ELSE Expired(current)
    /\ UNCHANGED <<service, gate, op, promotion, durable, discarded, chat>>

Resume ==
    /\ cancellation = None
    /\ current # None
    /\ store' = IF Reachable(current) /\ store[current].state = "held"
                THEN Active(current, "open", store[current].turns)
                ELSE Expired(current)
    /\ UNCHANGED <<service, gate, op, promotion, durable, discarded, chat>>

\* Mutant of Forget: the session stays in the store.
ForgetCurrent ==
    /\ signalled' = signalled \cup ({cancellation} \ {None})
    /\ cancellation' = None
    /\ current' = None
    /\ UNCHANGED store

\* EphemeralChatService::discard
Forget ==
    /\ signalled' = signalled \cup ({cancellation} \ {None})
    /\ cancellation' = None
    /\ current' = None
    /\ store' = IF current # None /\ Live(current) THEN Dropped(store, current) ELSE store

Discard ==
    /\ Forget
    /\ discarded' = discarded \cup ({current} \ {None})
    /\ UNCHANGED <<gate, op, promotion, durable, chat>>

Poll ==
    /\ TakeSnapshot
    /\ UNCHANGED <<signalled, gate, op, promotion, durable, discarded, chat>>

(***************************************************************************)
(* Promotion: a draft, a durable write, and the end of the session, with   *)
(* other handlers between them.                                            *)
(***************************************************************************)

PromotionStage(p, stage) == promotion' = [promotion EXCEPT ![p].stage = stage]

\* A conclusion, which needs no turn of the session, or some or all of them.
Draft(p) ==
    /\ promotion[p].stage = "idle"
    /\ cancellation = None
    /\ current # None
    /\ IF Reachable(current) /\ store[current].state = "held"
       THEN /\ \E turns \in 0..Len(store[current].turns) :
                  promotion' = [promotion EXCEPT
                     ![p] = [stage |-> "drafted", session |-> current, turns |-> turns]]
            /\ UNCHANGED store
       ELSE /\ PromotionStage(p, "done")
            /\ store' = Expired(current)
    /\ UNCHANGED <<service, gate, op, durable, discarded, chat>>

\* latest_assistant_revision and ingest_message; either may fail.
StorePromotion(p) ==
    /\ promotion[p].stage = "drafted"
    /\ \/ /\ durable' = durable \cup {[session |-> promotion[p].session,
                                       turns |-> promotion[p].turns, by |-> p]}
          /\ PromotionStage(p, "stored")
       \/ /\ PromotionStage(p, "done")
          /\ UNCHANGED durable
    /\ UNCHANGED <<store, service, gate, op, discarded, chat>>

\* complete_promotion retires whatever session is current and held then.
Retire(p) ==
    /\ promotion[p].stage = "stored"
    /\ IF cancellation = None /\ current # None /\ store[current].state = "held"
       THEN /\ store' = Dropped(store, current)
            /\ current' = None
            /\ PromotionStage(p, "done")
       ELSE /\ PromotionStage(p, "unretired")
            /\ UNCHANGED <<store, current>>
    /\ UNCHANGED <<cancellation, signalled, gate, op, durable, discarded, chat>>

\* The handler's fallback when it could not retire the session.
DiscardUnretired(p) ==
    /\ promotion[p].stage = "unretired"
    /\ Forget
    /\ PromotionStage(p, "done")
    /\ UNCHANGED <<gate, op, durable, discarded, chat>>

LeavePromotion(p) ==
    /\ p \in Leaving
    /\ promotion[p].stage \notin {"idle", "done"}
    /\ PromotionStage(p, "done")
    /\ UNCHANGED <<store, service, gate, op, durable, discarded, chat>>

(***************************************************************************)
(* The world around it.                                                    *)
(***************************************************************************)

\* idle_timeout passes without activity.
IdleOut(s) ==
    /\ Reachable(s)
    /\ store' = [store EXCEPT ![s].idle = TRUE]
    /\ UNCHANGED <<service, gate, op, promotion, durable, discarded, chat>>

\* `chat` of web.rs: no active response, then the snapshot, then `start`.
ChatCheck ==
    /\ chat = "idle"
    /\ current = None \/ SnapshotForgets
    /\ TakeSnapshot
    /\ chat' = "checked"
    /\ UNCHANGED <<signalled, gate, op, promotion, durable, discarded>>

ChatStart ==
    /\ chat = "checked"
    /\ chat' = "active"
    /\ UNCHANGED <<store, service, gate, op, promotion, durable, discarded>>

ChatEnd ==
    /\ chat \in {"active", "interrupted"}
    /\ chat' = "idle"
    /\ UNCHANGED <<store, service, gate, op, promotion, durable, discarded>>

Init ==
    /\ store = [s \in Sessions |->
                  [state |-> "unused", turns |-> <<>>, idle |-> FALSE, seeded |-> FALSE]]
    /\ current = None
    /\ cancellation = None
    /\ signalled = {}
    /\ gate = None
    /\ op = [r \in Requests |->
               [stage |-> "idle", kind |-> "reply", seed |-> "unread", session |-> None,
                context |-> <<>>, outcome |-> None]]
    /\ promotion = [p \in Promotions |-> [stage |-> "idle", session |-> None, turns |-> 0]]
    /\ durable = {}
    /\ discarded = {}
    /\ chat = "idle"

Operate(r) == \/ Announce(r) \/ PassGate(r) \/ ReadSeed(r)
              \/ Begin(r) \/ Complete(r) \/ Settle(r)

Next ==
    \/ \E r \in Requests : Admit(r) \/ Operate(r) \/ Leave(r)
    \/ \E p \in Promotions : \/ Draft(p) \/ StorePromotion(p) \/ Retire(p)
                             \/ DiscardUnretired(p) \/ LeavePromotion(p)
    \/ \E s \in Sessions : IdleOut(s)
    \/ Interrupt \/ Hold \/ Resume \/ Discard \/ Poll
    \/ ChatCheck \/ ChatStart \/ ChatEnd

Spec == Init /\ [][Next]_vars

\* Handlers run and Codex answers or fails; the gate is a fair FIFO mutex.
Fairness == \A r \in Requests :
    /\ WF_vars(Announce(r)) /\ WF_vars(ReadSeed(r)) /\ WF_vars(Begin(r))
    /\ WF_vars(Complete(r)) /\ WF_vars(Settle(r))
    /\ SF_vars(PassGate(r))

FairSpec == Spec /\ Fairness

-----------------------------------------------------------------------------
\* The types, with the bound on a transcript.
TypeOK ==
    /\ \A s \in Sessions : Len(store[s].turns) <= MaxTurns
    /\ store \in [Sessions -> [state : {"unused", "open", "held", "gone"},
                               turns : Seq(Turns), idle : BOOLEAN, seeded : BOOLEAN]]
    /\ current \in Sessions \cup {None}
    /\ cancellation \in Requests \cup {None}
    /\ signalled \subseteq Requests
    /\ gate \in Requests \cup {None}
    /\ op \in [Requests ->
                 [stage : {"idle", "admitted", "waiting", "seeding", "ready", "calling",
                           "answered", "done"},
                  kind : {"reply", "retry"}, seed : {"unread", "read", "failed"},
                  session : Sessions \cup {None}, context : Seq(Turns),
                  outcome : {None, "answer", "error", "interrupted", "long"}]]
    /\ promotion \in [Promotions ->
                        [stage : {"idle", "drafted", "stored", "unretired", "done"},
                         session : Sessions \cup {None}, turns : Nat]]
    /\ durable \subseteq [session : Sessions, turns : Nat, by : Promotions]
    /\ discarded \subseteq Sessions
    /\ chat \in {"idle", "checked", "active", "interrupted"}

\* An answer stands directly after the question it was asked for, written by
\* a call that had read every turn before it, whatever was interrupted,
\* failed, retried or held meanwhile (inference_context, append).
AnswersFollowTheirContext ==
    \A s \in Sessions : \A i \in 1..Len(store[s].turns) :
        IF i % 2 = 1
        THEN store[s].turns[i].role = "user"
        ELSE store[s].turns[i].role = "assistant" /\ store[s].turns[i].saw = i - 1

\* A live session is the current one: the store of capacity one is never
\* filled by a discussion nobody can reach any more, which would refuse every
\* later one (start, CapacityReached).
LiveSessionIsCurrent == \A s \in Sessions : Live(s) => current = s

\* The service says it is busy only while a call for that request is under
\* way, so that hold, resume and promotion are refused only then
\* (ensure_idle) and an interrupt has something to interrupt.  A handler that
\* is dropped with its client leaves the service busy until the next message.
BusyMeansReplying ==
    cancellation \notin {None} \cup Leaving
                        => /\ op[cancellation].stage \in {"calling", "answered"}
                           /\ gate = cancellation

\* A question without an answer can be retried as soon as nothing runs: its
\* failure was recorded (mark_pending_user_failed), and without it neither
\* a retry nor another message would be accepted any more.  The code records
\* none for an answer the store refuses nor for a handler that is dropped.
UnansweredTurnsAreRetriable ==
    \A s \in Sessions :
        Live(s) /\ cancellation = None /\ LastIs(s, "user")
            => LET question == store[s].turns[Len(store[s].turns)]
               IN  question.failed \/ question.by \in Overlong \cup Leaving

\* A held discussion takes no turn and loses none, though a reply may still
\* have been running when the user asked to hold it.
HeldIsFrozen ==
    [][\A s \in Sessions :
          store[s].state = "held" => store'[s].turns = store[s].turns]_vars

\* A discussion stays whole: an answer follows the question it was asked for,
\* a question without one can be retried, the one live discussion can be
\* reached and is busy only while a call runs, and a held one stays as it is
\* (ephemeral_chat.rs, ephemeral_session.rs).
DiscussionsStayWhole ==
    /\ [](TypeOK /\ LiveSessionIsCurrent /\ BusyMeansReplying)
    /\ [](AnswersFollowTheirContext /\ UnansweredTurnsAreRetriable)
    /\ HeldIsFrozen

\* A discussion leaves memory when it idles out, when the user discards it
\* or when it was written durably, and for no other reason.
LeavesOnlyWhenAsked ==
    [][\A s \in Sessions :
          Live(s) /\ ~Live(s)' =>
              \/ store[s].idle
              \/ s \in discarded'
              \/ \E d \in durable : d.session = s]_vars

\* Every request carries the memory seed read when its session started.
RequestsAreSeeded ==
    \A r \in Requests : op[r].stage = "calling" /\ Live(op[r].session)
        => store[op[r].session].seeded

\* A reply of the discussion and one of the conversation never run together.
OneConversationAtATime == ~ (chat = "active" /\ cancellation # None)

\* Every accepted reply and retry ends, and the gate is free for the next.
RequestsEnd == \A r \in Requests : op[r].stage # "idle" ~> op[r].stage = "done"

=============================================================================
