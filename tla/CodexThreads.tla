---------------------------- MODULE CodexThreads ----------------------------
(***************************************************************************)
(* The Codex client (src/src/codex/client.rs) as the keeper of native      *)
(* threads: one for the main conversation, some for topics, one for each   *)
(* background surface, all of one app-server process.  A call holds the    *)
(* client's lock from its first step to its last; a chat turn comes back   *)
(* for the lock to move the thread's cursor, after it has given the        *)
(* conversation's slot away and stored its reply.  What happens inside a   *)
(* native turn is CodexTurn's.                                             *)
(*                                                                         *)
(* Thread ids count up, 0 is the empty id; a message is its position in    *)
(* `history`.  The bounded tail of a bridge counts as told: the model is   *)
(* told of what it leaves out.                                             *)
(***************************************************************************)
EXTENDS Naturals, Sequences, FiniteSets, SequencesExt

CONSTANTS
    Topics,
    Fresh,           \* surfaces whose thread is renewed after each run that was not interrupted
    Lazy,            \* those of Fresh whose thread starts with their first run
    MaxTopicThreads, \* MAX_TOPIC_THREADS
    MaxHistory, MaxThreads, MaxFaults   \* bounds

VARIABLES
    history,   \* the transcript: the topics of each message, retracted rows included
    hidden,    \* the positions that are retracted
    talks,     \* two chat turns, the second may start while the first stores its reply
    retracted, \* a retraction's handler: "no", "recorded", "prepare"
    threads,   \* interactive_threads: scope |-> [id, cursor, bridge]; topics only while present
    recency,   \* the topics present, least recently used first
    slots,     \* the thread of each background surface
    settings,  \* thread_configurations: the ids that have one
    server,    \* [up, born]: the process and the ids it has given out since it started
    given,     \* the last thread id given out
    told,      \* what each native thread has been told
    spent,     \* history: the threads that have taken a temporary attempt
    refused,   \* history: the surfaces whose last renewal failed
    call,      \* the call that holds the lock
    threadFaults

client == <<threads, recency, slots, settings, server, given, refused>>
native == <<told, spent>>
said == <<history, hidden>>
threadVars == <<said, talks, retracted, client, native, call, threadFaults>>

Main == "main"
Temporary == "temporary"
Surfaces == Fresh \cup {Temporary}
Scopes == {Main} \cup Topics
Free == [op |-> "free"]
Quiet == [stage |-> "quiet"]
NewThread(id) == [id |-> id, cursor |-> 0, bridge |-> TRUE]

Present(s) == IF s = Main THEN threads[Main].id # 0 ELSE s \in ToSet(recency)

\* working_context over all messages; chat_history of one topic
Seen(s) == {i \in DOMAIN history : i \notin hidden /\ (s = Main \/ s \in history[i])}

\* WorkingContext::build: what stands behind the cursor and before the message.
\* Background broadcasts are left out there, and so they are here.
Bridge(s, cursor, at) ==
    LET before == {i \in Seen(s) : i < at}
    IN  IF cursor \in {i \in Seen(s) : i < at} THEN {i \in before : i > cursor} ELSE before

\* start_once: the threads behind the main one, in the order they start
Numbered(main) ==
    LET eager == Surfaces \ Lazy
        place == CHOOSE f \in [eager -> 1 .. Cardinality(eager)] : IsInjective(f)
    IN  [x \in Surfaces |-> IF x \in Lazy THEN 0 ELSE main + place[x]]

Threads == 1 .. MaxThreads
ScopeOf(t) == IF talks[t].topic = {} THEN Main ELSE CHOOSE s \in talks[t].topic : TRUE

Init ==
    /\ history = <<>> /\ hidden = {} /\ retracted = "no"
    /\ talks = [t \in {1, 2} |-> Quiet]
    /\ threads = [s \in Scopes |-> NewThread(IF s = Main THEN 1 ELSE 0)]
    /\ recency = <<>>
    /\ slots = Numbered(1)
    /\ given = 1 + Cardinality(Surfaces \ Lazy)
    /\ settings = 1 .. given
    /\ server = [up |-> TRUE, born |-> 1 .. given]
    /\ told = [i \in Threads |-> {}] /\ spent = {}
    /\ refused = {} /\ call = Free /\ threadFaults = 0

-----------------------------------------------------------------------------
(* The pieces the calls are made of.                                        *)

Fault == threadFaults < MaxFaults /\ threadFaults' = threadFaults + 1
Able == server.up /\ given < MaxThreads

\* start_thread: a new id with its configuration
Started == /\ Able
           /\ given' = given + 1
           /\ server' = [server EXCEPT !.born = @ \cup {given + 1}]

\* Mutant of Forget: the state of the thread that takes over is dropped.
ForgetNext(ids) == settings' = (settings \cup {given'}) \ {given'}

\* clear_thread_state for the ids, after a thread has started
Forget(ids) == settings' = (settings \cup {given'}) \ ids

\* thread/start is refused or the process is gone
NotStarted == Fault /\ UNCHANGED <<given, settings>>
              /\ server' \in {server, [server EXCEPT !.up = FALSE]}

\* Mutant of Evicted: the topic used last goes.
EvictedLast(order) == order[Len(order)]

\* insert_topic: the topic that was used longest ago
Evicted(order) == order[1]

\* The times of use are the order: who is used, or goes, leaves its place.
Without(order, s) ==
    IF s \in ToSet(order) THEN RemoveAt(order, CHOOSE i \in DOMAIN order : order[i] = s) ELSE order
Use(s) == IF s = Main THEN recency ELSE Append(Without(recency, s), s)

\* ensure_interactive_scope, when the scope has no thread
Ensure(s) ==
    IF s = Main
    THEN /\ threads' = [threads EXCEPT ![Main] = NewThread(given')]
         /\ Forget({threads[Main].id}) /\ UNCHANGED recency
    ELSE LET order == Append(recency, s)
             full == Len(order) > MaxTopicThreads
             out == Evicted(order)
         IN  /\ recency' = IF full THEN Without(order, out) ELSE order
             /\ threads' = [x \in Scopes |->
                    IF full /\ x = out THEN NewThread(0)
                    ELSE IF x = s THEN NewThread(given') ELSE threads[x]]
             /\ Forget(IF full THEN {IF out = s THEN given' ELSE threads[out].id} ELSE {})

\* restart_app_server: every thread is new, topics and lazy surfaces have none.
Restarted ==
    LET eager == Surfaces \ Lazy
        first == given + 1
    IN  /\ first + Cardinality(eager) <= MaxThreads
        /\ given' = first + Cardinality(eager)
        /\ server' = [up |-> TRUE, born |-> first .. given']
        /\ settings' = first .. given'
        /\ threads' = [s \in Scopes |-> NewThread(IF s = Main THEN first ELSE 0)]
        /\ recency' = <<>>
        /\ slots' = Numbered(first)
        /\ refused' = {}

\* The kill and the start behind it; a start that fails leaves the dead process.
Recover ==
    \/ Restarted /\ UNCHANGED threadFaults
    \/ Fault /\ server' = [server EXCEPT !.up = FALSE]
       /\ UNCHANGED <<threads, recency, slots, settings, given, refused>>

-----------------------------------------------------------------------------
(* Chat turns and continuations.                                            *)

Holding == {t \in {1, 2} : talks[t].stage \in {"asked", "calling"}}

\* POST /api/chat: the message is stored and the turn takes the slot.
Ask(t, topic) ==
    /\ talks[t] = Quiet /\ (t = 2 => talks[1] # Quiet)
    /\ Holding = {} /\ Len(history) < MaxHistory
    /\ history' = Append(history, topic)
    /\ talks' = [talks EXCEPT ![t] = [stage |-> "asked", topic |-> topic, at |-> Len(history) + 1]]
    /\ UNCHANGED <<hidden, retracted, client, native, call, threadFaults>>

\* chat and continue_conversation take the lock; a scope without a thread gets one.
Enter(t) ==
    /\ talks[t].stage = "asked" /\ call = Free
    /\ talks' = [talks EXCEPT ![t].stage = "calling"]
    /\ call' = [op |-> "chat", turn |-> t, stage |-> "select"]
    /\ IF Present(ScopeOf(t))
       THEN UNCHANGED <<client, threadFaults>>
       ELSE Started /\ Ensure(ScopeOf(t)) /\ UNCHANGED <<slots, refused, threadFaults>>
    /\ UNCHANGED <<said, retracted, native>>

CannotEnter(t) ==
    /\ talks[t].stage = "asked" /\ call = Free /\ ~Present(ScopeOf(t))
    /\ NotStarted
    /\ talks' = [talks EXCEPT ![t] = Quiet]
    /\ UNCHANGED <<said, retracted, threads, recency, slots, refused, native, call>>

\* select, rollover::decide and the bridge; the context window decides the rollover.
Select(roll) ==
    /\ call.op = "chat" /\ call.stage = "select"
    /\ LET s == ScopeOf(call.turn)
           thread == threads[s]
           cursor == IF thread.bridge THEN 0 ELSE thread.cursor
           at == talks[call.turn].at
       IN  /\ recency' = Use(s)
           /\ call' = [op |-> "chat", turn |-> call.turn, stage |-> "run", id |-> thread.id,
                       needs |-> thread.bridge, roll |-> roll,
                       brings |-> Bridge(s, cursor, at) \cup {at}]
    /\ UNCHANGED <<said, talks, retracted, threads, slots, settings, server, given, refused,
                   native, threadFaults>>

\* The process takes the turn: the thread keeps what it was told, however the turn ends.
Accept ==
    /\ call.op = "chat" /\ call.stage = "run"
    /\ server.up /\ call.id \in settings
    /\ told' = [told EXCEPT ![call.id] = @ \cup call.brings]
    /\ call' = [call EXCEPT !.stage = "accepted"]
    /\ UNCHANGED <<said, talks, retracted, client, spent, threadFaults>>

Bridged(s, needs) ==
    IF needs THEN [threads EXCEPT ![s].bridge = FALSE] ELSE threads

\* The turn ends; an interrupted one gives its slot back without a reply.
End(t, stage) ==
    talks' = [talks EXCEPT ![t] = IF stage = "quiet" THEN Quiet
                                  ELSE [stage |-> stage, topic |-> @.topic, at |-> @.at, ran |-> call.id]]

Leave(interrupted) ==
    /\ call.op = "chat" /\ call.stage = "accepted" /\ ~call.roll
    /\ threads' = Bridged(ScopeOf(call.turn), call.needs)
    /\ End(call.turn, IF interrupted THEN "quiet" ELSE "storing")
    /\ call' = Free
    /\ UNCHANGED <<said, retracted, recency, slots, settings, server, given, refused, native, threadFaults>>

\* ... and the thread is rotated; a failed start leaves it.
LeaveAndRotate(interrupted) ==
    /\ call.op = "chat" /\ call.stage = "accepted" /\ call.roll
    /\ LET s == ScopeOf(call.turn)
       IN  \/ /\ Started
              /\ threads' = [threads EXCEPT ![s] = NewThread(given')]
              /\ Forget({call.id})
              /\ UNCHANGED threadFaults
           \/ NotStarted /\ threads' = Bridged(s, call.needs)
    /\ End(call.turn, IF interrupted THEN "quiet" ELSE "storing")
    /\ call' = Free
    /\ UNCHANGED <<said, retracted, recency, slots, refused, native>>

\* The turn fails before or after it was taken; a transport failure restarts the process.
FailChat ==
    /\ call.op = "chat" /\ call.stage \in {"run", "accepted"}
    /\ End(call.turn, "quiet") /\ call' = Free
    /\ \/ server.up /\ Fault /\ UNCHANGED client
       \/ ~server.up /\ Recover
    /\ UNCHANGED <<said, retracted, native>>

\* run_chat: the reply is stored after the slot was given away.
StoreReply(t) ==
    /\ talks[t].stage = "storing" /\ Len(history) < MaxHistory
    /\ history' = Append(history, talks[t].topic)
    /\ talks' = [talks EXCEPT ![t] = [@ EXCEPT !.stage = "marking", !.at = Len(history) + 1]]
    /\ told' = [told EXCEPT ![talks[t].ran] = @ \cup {Len(history) + 1}]
    /\ UNCHANGED <<hidden, retracted, client, spent, call, threadFaults>>

\* finish_non_reply_chat: the cursor goes to the user's message.
SettleSilently(t) ==
    /\ talks[t].stage = "storing"
    /\ talks' = [talks EXCEPT ![t].stage = "marking"]
    /\ UNCHANGED <<said, retracted, client, native, call, threadFaults>>

\* Mutant of Marked: a thread that still needs its bridge takes the cursor.
MarkedAlways(s, at) == [threads EXCEPT ![s].cursor = at]

\* mark_interactive_revision
Marked(s, at) ==
    IF Present(s) /\ ~threads[s].bridge THEN [threads EXCEPT ![s].cursor = at] ELSE threads

Mark(t) ==
    /\ talks[t].stage = "marking" /\ call = Free
    /\ threads' = Marked(ScopeOf(t), talks[t].at)
    /\ recency' = IF Present(ScopeOf(t)) THEN Use(ScopeOf(t)) ELSE recency
    /\ talks' = [talks EXCEPT ![t] = Quiet]
    /\ UNCHANGED <<said, retracted, slots, settings, server, given, refused, native, call, threadFaults>>

-----------------------------------------------------------------------------
(* Retraction and recovery.                                                 *)

\* retract_message: the message and all that followed are hidden ...
Retract(i) ==
    /\ retracted = "no" /\ i \in DOMAIN history \ hidden
    /\ hidden' = hidden \cup {j \in DOMAIN history : j >= i}
    /\ retracted' = "recorded"
    /\ UNCHANGED <<history, talks, client, native, call, threadFaults>>

\* ... the threads go once the lock is free ...
Invalidate ==
    /\ retracted = "recorded" /\ call = Free
    /\ settings' = settings \ {threads[s].id : s \in Scopes}
    /\ threads' = [s \in Scopes |-> NewThread(0)]
    /\ recency' = <<>>
    /\ retracted' = "prepare"
    /\ UNCHANGED <<said, talks, slots, server, given, refused, native, call, threadFaults>>

\* ... and a spawned task prepares the main one, or fails to.
Prepare ==
    /\ retracted = "prepare" /\ call = Free
    /\ retracted' = "no"
    /\ \/ Present(Main) /\ UNCHANGED <<client, threadFaults>>
       \/ ~Present(Main) /\ Started /\ Ensure(Main) /\ UNCHANGED <<slots, refused, threadFaults>>
       \/ ~Present(Main) /\ NotStarted /\ UNCHANGED <<threads, recency, slots, refused>>
    /\ UNCHANGED <<said, talks, native, call>>

\* POST /api/runtime/recover
RecoverRuntime ==
    /\ call = Free /\ threadFaults < MaxFaults
    /\ Restarted /\ threadFaults' = threadFaults + 1
    /\ UNCHANGED <<said, talks, retracted, native, call>>

Die ==
    /\ server.up /\ Fault
    /\ server' = [server EXCEPT !.up = FALSE]
    /\ UNCHANGED <<said, talks, retracted, threads, recency, slots, settings, given, refused, native, call>>

-----------------------------------------------------------------------------
(* Background calls.                                                        *)

\* explore, sense_luna, review_attacker_signals, the maintenance and repair calls
Background(x) ==
    /\ call = Free
    /\ \/ slots[x] # 0 /\ UNCHANGED <<client, threadFaults>>
       \/ /\ slots[x] = 0 /\ Started /\ Forget({})
          /\ slots' = [slots EXCEPT ![x] = given']
          /\ UNCHANGED <<threads, recency, refused, threadFaults>>
    /\ call' = [op |-> x, stage |-> "run", id |-> slots'[x]]
    /\ UNCHANGED <<said, talks, retracted, native>>

AcceptBackground ==
    /\ call.op \in Surfaces /\ call.stage = "run"
    /\ server.up /\ call.id \in settings
    /\ spent' = IF call.op = Temporary THEN spent \cup {call.id} ELSE spent
    /\ call' = [call EXCEPT !.stage = "accepted"]
    /\ UNCHANGED <<said, talks, retracted, client, told, threadFaults>>

\* renew_background_thread: the old thread stays when no new one starts.
Renew(x, previous) ==
    \/ /\ Started
       /\ slots' = [slots EXCEPT ![x] = given']
       /\ Forget({previous})
       /\ refused' = refused \ {x}
       /\ UNCHANGED <<threads, recency, threadFaults>>
    \/ /\ NotStarted
       /\ refused' = refused \cup {x}
       /\ UNCHANGED <<threads, recency, slots>>

\* Mutant of Renews: a temporary attempt that did not complete keeps its thread.
RenewsWhenDone(x, outcome) == outcome = "completed"

\* A run of Luna sensing that timed out is renewed as well: here it counts as completed.
Renews(x, outcome) == x = Temporary \/ outcome = "completed"

\* The run ends without a transport failure.
EndBackground(outcome) ==
    /\ call.op \in Surfaces /\ server.up
    /\ \/ call.stage = "accepted"
       \/ call.stage = "run" /\ outcome = "failed"
    /\ IF Renews(call.op, outcome) THEN Renew(call.op, call.id) ELSE UNCHANGED <<client, threadFaults>>
    /\ call' = Free
    /\ UNCHANGED <<said, talks, retracted, native>>

\* A transport failure restarts the process; a temporary attempt renews on the new one.
LoseBackground ==
    /\ call.op \in Surfaces /\ ~server.up /\ call.stage # "renew"
    /\ Recover
    /\ call' = IF Renews(call.op, "failed") THEN [call EXCEPT !.stage = "renew"] ELSE Free
    /\ UNCHANGED <<said, talks, retracted, native>>

RenewAfterLoss ==
    /\ call.op \in Surfaces /\ call.stage = "renew"
    /\ Renew(call.op, call.id)
    /\ call' = Free
    /\ UNCHANGED <<said, talks, retracted, native>>

TopicSets == {{}} \cup {{s} : s \in Topics}

Next ==
    \/ \E t \in {1, 2} :
          \/ \E topic \in TopicSets : Ask(t, topic)
          \/ Enter(t) \/ CannotEnter(t) \/ StoreReply(t) \/ SettleSilently(t) \/ Mark(t)
    \/ \E b \in BOOLEAN : Select(b) \/ Leave(b) \/ LeaveAndRotate(b)
    \/ Accept \/ FailChat
    \/ \E i \in DOMAIN history : Retract(i)
    \/ Invalidate \/ Prepare \/ RecoverRuntime \/ Die
    \/ \E x \in Surfaces : Background(x)
    \/ AcceptBackground \/ LoseBackground \/ RenewAfterLoss
    \/ \E outcome \in {"completed", "interrupted", "failed"} : EndBackground(outcome)

Spec == Init /\ [][Next]_threadVars

-----------------------------------------------------------------------------
(* A call runs on a thread of the living process whose configuration is    *)
(* known: no rotation, eviction, retraction or restart takes the thread    *)
(* from under it ("missing submitted thread configuration" cannot happen). *)
CallsRunOnLiveThreads ==
    call.op # "free" /\ call.stage \in {"run", "accepted"} /\ server.up =>
        call.id \in settings /\ call.id \in server.born

(* Every attempt of a temporary discussion starts on a thread no attempt    *)
(* has run on, unless the thread that should have replaced it did not      *)
(* start ("a failed retry cannot inherit a partially accepted user turn"). *)
AttemptsStartFresh ==
    call.op = Temporary /\ call.stage = "run" /\ Temporary \notin refused =>
        call.id \notin spent

(* A thread with a cursor has been told all that was said up to it.         *)
CursorIsHonest ==
    \A s \in Scopes :
        ~threads[s].bridge /\ threads[s].cursor # 0 =>
            {i \in Seen(s) : i <= threads[s].cursor} \subseteq told[threads[s].id]
=============================================================================
