---------------------------------- MODULE Usage ----------------------------------
(***************************************************************************)
(* The ledger of model calls (src/src/usage.rs, usage/trace.rs) and the    *)
(* daily budgets that are read from it: tokens before a run begins,        *)
(* messages before one is published (exploration.rs, attacker.rs,          *)
(* context_maintenance.rs, reflection/worker.rs, outreach.rs).  The        *)
(* workers run side by side; each reads the ledger, works, publishes and   *)
(* only then records.  Every call costs one token here.                    *)
(***************************************************************************)
EXTENDS Naturals, FiniteSets

CONSTANTS
    Workers,                          \* "exploration", "attacker", "maintenance", "reflection"
    TokenLimit, ReflectionLimit,      \* AutonomyConfig and ReflectionConfig.daily_token_limit
    InterruptLimit, NoteLimit,        \* AutonomyConfig.daily_interrupt_limit, daily_note_limit
    Retained,                         \* TRACE_RETENTION_INVOCATIONS
    MaxCompleted, MaxDay, MaxRestores, MaxUsageFaults     \* bounds

VARIABLES
    day,            \* today; the calls counted are those completed today
    completed,      \* calls completed so far, which orders them
    ledger,         \* the table of invocations
    details,        \* the invocations whose tool trace is there
    work,           \* the workers
    delivered,      \* autonomous messages, by the call that wrote them
    restoring,      \* a redelivery, between its look at the messages and its own
    restores, usageFaults

usageVars == <<day, completed, ledger, details, work, delivered, restoring, restores, usageFaults>>

Publishers == {"exploration", "reflection"}
Resting == [at |-> "resting"]

Init ==
    /\ day = 0 /\ completed = 0 /\ ledger = {} /\ details = {} /\ delivered = {}
    /\ work = [w \in Workers |-> Resting]
    /\ restoring = {} /\ restores = 0 /\ usageFaults = 0

-----------------------------------------------------------------------------
\* What is read from the ledger.

\* Mutant of Autonomous: an origin that is not listed is nobody's.
ListedOnly == {"exploration", "attacker"}

\* InvocationActivity::from_origin: what is not known is maintenance, the other models of a chat among them
Autonomous == {"exploration", "attacker", "maintenance", "council"}
Budget(w) == IF w = "reflection" THEN {"reflection"} ELSE Autonomous
Limit(w) == IF w = "reflection" THEN ReflectionLimit ELSE TokenLimit

\* headline: the calls of a day, the messages they produced, and those of them whose tool trace says note
Spent(who, d) == Cardinality({r \in ledger : r.by \in who /\ r.day = d})
Messages(d) == {r \in ledger : r.produced /\ r.day = d}
Notes(d) == {r \in Messages(d) : r.kind = "note" /\ r.n \in details}

\* has_budget
HasBudget(kind) ==
    IF kind = "note" THEN Cardinality(Notes(day)) < NoteLimit
    ELSE Cardinality(Messages(day) \ Notes(day)) < InterruptLimit

\* evaluate_gate and its like; exploration also stops when there is nothing it might publish
MayBegin(w) ==
    /\ Spent(Budget(w), day) < Limit(w)
    /\ w = "exploration" => \E kind \in {"note", "intervention"} : HasBudget(kind)

\* The workers that are meant to share a budget.  A row keeps what they had spent when it was recorded.
Together(w) == IF w = "reflection" THEN {"reflection"} ELSE Workers \ {"reflection"}

-----------------------------------------------------------------------------
\* A worker.

\* A manual run of the exploration passes every budget.
Begin(w, manual) ==
    /\ work[w].at = "resting" /\ completed < MaxCompleted
    /\ \/ MayBegin(w) /\ ~manual
       \/ w = "exploration" /\ manual
    /\ work' = [work EXCEPT ![w] = [at |-> "running", run |-> completed, manual |-> manual]]
    /\ UNCHANGED <<day, completed, ledger, details, delivered, restoring, restores, usageFaults>>

\* A call ends: nothing of a failed one is recorded.
Complete(w, kind) ==
    /\ work[w].at = "running" /\ completed < MaxCompleted
    /\ kind = "none" \/ w \in Publishers
    /\ completed' = completed + 1
    /\ work' = [work EXCEPT ![w] = [at |-> "answered", run |-> @.run, manual |-> @.manual,
                                    n |-> completed', day |-> day, kind |-> kind, produced |-> FALSE]]
    /\ UNCHANGED <<day, ledger, details, delivered, restoring, restores, usageFaults>>
Fail(w) ==
    /\ work[w].at = "running" /\ work' = [work EXCEPT ![w] = Resting]
    /\ UNCHANGED <<day, completed, ledger, details, delivered, restoring, restores, usageFaults>>

\* run_once, publish_outreach: the budget is read, ...
Admit(w) ==
    /\ work[w].at = "answered"
    /\ work' = [work EXCEPT ![w].at =
                    IF work[w].kind # "none" /\ HasBudget(work[w].kind) THEN "admitted" ELSE "done"]
    /\ UNCHANGED <<day, completed, ledger, details, delivered, restoring, restores, usageFaults>>

\* ... the message is stored, ...
Publish(w) ==
    /\ work[w].at = "admitted"
    /\ delivered' = delivered \cup {[n |-> work[w].n, day |-> day, copy |-> 0]}
    /\ work' = [work EXCEPT ![w].at = "done", ![w].produced = TRUE]
    /\ UNCHANGED <<day, completed, ledger, details, restoring, restores, usageFaults>>

\* trace::prune: the trace of the newest calls, whoever made them
Newest(rows) == {r.n : r \in {q \in rows : Cardinality({o \in rows : o.n > q.n}) < Retained}}
Traced(rows, added) == (details \cup added) \cap Newest(rows)

\* ... and record_all counts the call.  An exploration goes on to the calls of its next stage.
Record(w) ==
    /\ work[w].at = "done"
    /\ LET c == work[w]
           row == [n |-> c.n, by |-> w, run |-> c.run, manual |-> c.manual, day |-> c.day, kind |-> c.kind,
                   produced |-> c.produced, before |-> Spent(Together(w), c.day)]
       IN  /\ ledger' = ledger \cup {row}
           /\ details' = Traced(ledger', {c.n})
    /\ \/ work' = [work EXCEPT ![w] = Resting]
       \/ /\ w = "exploration" /\ ~work[w].produced
          /\ work' = [work EXCEPT ![w] = [at |-> "running", run |-> @.run, manual |-> @.manual]]
    /\ UNCHANGED <<day, completed, delivered, restoring, restores, usageFaults>>

-----------------------------------------------------------------------------
\* The user, and time.

\* A chat turn, with another model taking part: the call of the council is recorded with its own origin.
Chat(by) ==
    /\ completed < MaxCompleted /\ completed' = completed + 1
    /\ ledger' = ledger \cup {[n |-> completed', by |-> by, run |-> completed', manual |-> TRUE, day |-> day,
                               kind |-> "none", produced |-> FALSE, before |-> 0]}
    /\ details' = Traced(ledger', {completed'})
    /\ UNCHANGED <<day, work, delivered, restoring, restores, usageFaults>>

\* redeliver_exploration: the trace of a run is read, its calls with what is still there of their steps; the
\* one that produced a message has its text in them.  The messages are looked through for it, ...
TraceOf(r) == {[call |-> q, text |-> q.n \in details] : q \in {o \in ledger : o.by = r.by /\ o.run = r.run}}
Restorable(r) == r.by = "exploration" /\ r.produced /\ \E step \in TraceOf(r) : step.call = r /\ step.text
LookForMessage(r) ==
    /\ r \in ledger /\ Restorable(r) /\ restores < MaxRestores /\ restores' = restores + 1
    /\ restoring' = IF \E m \in delivered : m.n = r.n THEN restoring ELSE restoring \cup {<<restores', r.n>>}
    /\ UNCHANGED <<day, completed, ledger, details, work, delivered, usageFaults>>

\* ... and it is stored when it was not there.
Redeliver(request) ==
    /\ request \in restoring /\ restoring' = restoring \ {request}
    /\ delivered' = delivered \cup {[n |-> request[2], day |-> day, copy |-> request[1]]}
    /\ UNCHANGED <<day, completed, ledger, details, work, restores, usageFaults>>

\* The user retracts messages back to one of his own, those the Symbiont wrote after it included.
Retract ==
    /\ usageFaults < MaxUsageFaults /\ usageFaults' = usageFaults + 1
    /\ delivered # {} /\ delivered' = {}
    /\ UNCHANGED <<day, completed, ledger, details, work, restoring, restores>>

Midnight ==
    /\ day < MaxDay /\ day' = day + 1
    /\ UNCHANGED <<completed, ledger, details, work, delivered, restoring, restores, usageFaults>>

Restart ==
    /\ usageFaults < MaxUsageFaults /\ usageFaults' = usageFaults + 1
    /\ work' = [w \in Workers |-> Resting] /\ restoring' = {}
    /\ UNCHANGED <<day, completed, ledger, details, delivered, restores>>

Next ==
    \/ \E w \in Workers :
        \/ \E manual \in BOOLEAN : Begin(w, manual)
        \/ \E kind \in {"none", "note", "intervention"} : Complete(w, kind)
        \/ Fail(w) \/ Admit(w) \/ Publish(w) \/ Record(w)
    \/ \E by \in {"chat", "council"} : Chat(by)
    \/ \E r \in ledger : LookForMessage(r)
    \/ \E request \in restoring : Redeliver(request)
    \/ Retract \/ Midnight \/ Restart

Spec == Init /\ [][Next]_usageVars

-----------------------------------------------------------------------------
\* The daily token limit is overrun by no more than one run of each worker, the one that was under way
\* when it was reached, although the workers share it, run side by side and count only afterwards.
TokensStopAtTheLimit ==
    \A w \in Workers, d \in 0 .. MaxDay :
        LET over == {r \in ledger : r.by = w /\ r.day = d /\ ~r.manual /\ r.before >= Limit(w)}
        IN  Cardinality({r.run : r \in over}) <= 1

\* Refuted by the code: no more messages of a kind are published on a day than its limit.  Two workers
\* read the same count, a crash loses one, and a call of yesterday does not count today.
MessagesKeepTheirLimit ==
    \A d \in 0 .. MaxDay :
        Cardinality({m \in delivered : m.day = d /\ m.copy = 0}) <= InterruptLimit + NoteLimit

\* Refuted by the code: a note stays a note for the day.  It is one by its tool trace, which goes with
\* the newest Retained calls; then it counts as an intervention.
NotesStayNotes == \A r \in Messages(day) : r.kind = "note" => r \in Notes(day)

\* Refuted by the code: only what runs on its own spends the budget of what runs on its own.
ChatIsNotAutonomous ==
    Spent(Autonomous, day) = Cardinality({r \in ledger : r.by \in Workers \ {"reflection"} /\ r.day = day})

\* Refuted by the code: a message is redelivered only once.
RedeliveredOnce == \A m, o \in delivered : m.n = o.n => m = o
=============================================================================
