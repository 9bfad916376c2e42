------------------------------- MODULE Intake -------------------------------
(***************************************************************************)
(* One intake pass of the exploration worker (exploration.rs, run_once)    *)
(* with the sources it drains: the research mailbox (mail_input.rs) and    *)
(* the Drive folder (drive_input.rs), whose cursors say what was already   *)
(* taken; the ambient channels; the bounded pool of candidates waiting     *)
(* for review (sensing.rs); and the signals it publishes (signals.rs).     *)
(*                                                                         *)
(* An item stands for the fingerprint of a candidate, so two documents     *)
(* that repeat a section share an item.  Documents are numbered: mails by  *)
(* arrival, files by the date of the digest.  Cursors, pool and signals    *)
(* are persisted by the operation that changes them; `poolSaved` is a      *)
(* variable of its own because a browser's request writes the pool too.    *)
(* `decided` is a history variable: the items that were reviewed away,     *)
(* explored or left to expire.                                             *)
(***************************************************************************)
EXTENDS Naturals, Sequences, FiniteSets, SequencesExt, FiniteSetsExt

CONSTANTS
    Items,        \* what a candidate says, as far as its fingerprint tells
    MailItems,    \* the sections of each message; none if its sender is refused
    FileItems,    \* the sections of each Drive file
    Ambient,      \* the items an ambient channel may propose
    Capacity,     \* MAX_PENDING_CANDIDATES
    PollLimit,    \* MAX_POLL_CANDIDATES of the mailbox
    FileLimit,    \* max_files of the Drive configuration
    BatchSize,    \* candidates in one review
    MaxFaults,    \* bound: interruptions, failures and crashes in a behaviour
    MaxExpiries,  \* bound: candidates that outlive their day in the pool
    Browsers      \* bound: requests for the pool, whose write may come late

ASSUME IntakeAssumption ==
    /\ \A m \in DOMAIN MailItems : MailItems[m] \subseteq Items
    /\ \A f \in DOMAIN FileItems : FileItems[f] \subseteq Items
    /\ DOMAIN MailItems = 1 .. Len(MailItems)
    /\ DOMAIN FileItems = 1 .. Len(FileItems)
    /\ Ambient \subseteq Items
    /\ IsFiniteSet(Items)
    /\ {Capacity, PollLimit, FileLimit, BatchSize, MaxFaults, MaxExpiries,
        Browsers} \subseteq Nat

VARIABLES
    inbox,      \* messages 1 .. inbox have arrived
    folder,     \* files in the Drive folder
    mailSeen,   \* the mailbox cursor
    driveSeen,  \* the Drive cursor
    pool,       \* CandidatePool, in memory
    poolSaved,  \* the file behind it
    signals,    \* published inputs, oldest first
    decided,    \* history: items reviewed away, explored or expired
    pass,       \* the pass under way, as run_once keeps it
    detached,   \* room given to mailbox polls whose pass has gone
    writes,     \* pools a browser's request has still to write
    faults, expiries, browsed

docs == <<inbox, folder>>
cursors == <<mailSeen, driveSeen>>
queue == <<pool, poolSaved>>
ledger == <<signals, decided>>
loose == <<detached, writes>>
bounds == <<faults, expiries, browsed>>
vars == <<docs, cursors, queue, ledger, pass, loose, bounds>>

Mails == DOMAIN MailItems
Files == DOMAIN FileItems

Phases == {"idle", "gathering", "filing", "reviewing", "publishing",
           "exploring"}
Kinds == {"scheduled", "manual"}
Polls == {"running", "done", "interrupted"}

PassType ==
    [phase: Phases, kind: Kinds, input: BOOLEAN, room: 0 .. Capacity,
     mail: Polls, got: SUBSET Items,
     drive: Polls, files: SUBSET Files, filed: SUBSET Files,
     sense: Polls, proposed: SUBSET Ambient,
     batch: SUBSET Items, publish: SUBSET Items, reject: SUBSET Items,
     deep: SUBSET Items, defer: SUBSET Items]

NoPass ==
    [phase |-> "idle", kind |-> "scheduled", input |-> FALSE, room |-> 0,
     mail |-> "done", got |-> {}, drive |-> "done", files |-> {},
     filed |-> {}, sense |-> "done", proposed |-> {}, batch |-> {},
     publish |-> {}, reject |-> {}, deep |-> {}, defer |-> {}]

Init ==
    /\ inbox = 0 /\ folder = {}
    /\ mailSeen = {} /\ driveSeen = {}
    /\ pool = <<>> /\ poolSaved = <<>>
    /\ signals = <<>> /\ decided = {}
    /\ pass = NoPass
    /\ detached = {} /\ writes = {}
    /\ faults = 0 /\ expiries = 0 /\ browsed = 0

-----------------------------------------------------------------------------
(* The world outside. *)

MailArrives ==
    /\ inbox < Len(MailItems)
    /\ inbox' = inbox + 1
    /\ UNCHANGED <<cursors, queue, ledger, loose, bounds, folder, pass>>

FileArrives(f) ==
    /\ f \notin folder
    /\ folder' = folder \cup {f}
    /\ UNCHANGED <<cursors, queue, ledger, loose, bounds, inbox, pass>>

Fault == faults < MaxFaults /\ faults' = faults + 1

\* The user writes: the epoch the pass subscribed to has changed.
UserInput ==
    /\ pass.phase # "idle"
    /\ ~pass.input
    /\ Fault
    /\ pass' = [pass EXCEPT !.input = TRUE]
    /\ UNCHANGED <<docs, cursors, queue, ledger, loose, expiries, browsed>>

-----------------------------------------------------------------------------
(* The candidate pool. *)

Pooled == ToSet(pool)

Room == Capacity - Len(pool)

\* SensingStore::persist, within the operation that changed the pool
Persist(q) == pool' = q /\ poolSaved' = q

\* The orders in which one batch may be appended
Orders(S) == {q \in [1 .. Cardinality(S) -> S] : ToSet(q) = S}

\* enqueue_many skips known fingerprints and stops when the pool is full
Admissible(S, room) ==
    LET new == S \ Pooled
    IN  IF Cardinality(new) <= room THEN {new} ELSE kSubset(room, new)

\* Vec::retain: those of q that are in S, in their order
Retained(q, S) ==
    LET places == {k \in DOMAIN q : q[k] \in S}
        nth(n) == CHOOSE k \in places : Cardinality({j \in places : j < k}) = n - 1
    IN  [n \in 1 .. Cardinality(places) |-> q[nth(n)]]

Without(q, S) == Retained(q, Items \ S)

\* Mutant of Resettled: deferred candidates keep their place.
ResettledInPlace(terminal, deferred) == Without(pool, terminal)

\* Mutant of Resettled: deferred candidates leave the pool too.
ResettledAll(terminal, deferred) == Without(pool, terminal \cup deferred)

\* Mutant of Resettled: the review is not settled.
ResettledNone(terminal, deferred) == pool

\* settle_review: what was left out of the decisions goes behind the rest
Resettled(terminal, deferred) ==
    Without(pool, terminal \cup deferred) \o Retained(pool, deferred \ terminal)

\* prune_expired, in whichever pool operation of the pass comes first
Expire(i) ==
    /\ i \in Pooled
    /\ expiries < MaxExpiries
    /\ expiries' = expiries + 1
    /\ Persist(Without(pool, {i}))
    /\ decided' = decided \cup {i}
    /\ UNCHANGED <<docs, cursors, loose, signals, pass, faults, browsed>>

\* ExplorationManager::candidates: the request prunes the pool, encodes it
\* under the lock, and writes the file after releasing it.
Browse(i) ==
    /\ i \in Pooled
    /\ browsed < Browsers
    /\ browsed' = browsed + 1
    /\ pool' = Without(pool, {i})
    /\ decided' = decided \cup {i}
    /\ writes' = writes \cup {pool'}
    /\ UNCHANGED <<docs, cursors, poolSaved, signals, pass, detached, faults,
                   expiries>>

BrowseWrites(q) ==
    /\ q \in writes
    /\ poolSaved' = q
    /\ writes' = writes \ {q}
    /\ UNCHANGED <<docs, cursors, ledger, bounds, pool, pass, detached>>

-----------------------------------------------------------------------------
(* Gathering: the mailbox and Drive polls run beside the ambient channels. *)

Start(kind) ==
    /\ pass.phase = "idle"
    /\ pass' = [NoPass EXCEPT !.phase = "gathering", !.kind = kind,
                              !.room = Room, !.mail = "running",
                              !.drive = "running",
                              !.sense = IF kind = "scheduled" THEN "running"
                                                              ELSE "done"]
    /\ poolSaved' = IF kind = "scheduled" THEN pool ELSE poolSaved
    /\ UNCHANGED <<docs, cursors, ledger, loose, bounds, pool>>

\* Mutant of Accepted: the limit is the mailbox's alone.
AcceptedPastRoom(room) ==
    {m \in (1 .. inbox) \ mailSeen : Cardinality(MailItems[m]) <= PollLimit}

\* select_new_messages: newest first, whole messages, until one does not fit
Accepted(room) ==
    LET unseen == (1 .. inbox) \ mailSeen
        limit  == IF room < PollLimit THEN room ELSE PollLimit
        upTo(m) == {n \in unseen : n >= m}
    IN  {m \in unseen :
            MapThenSumSet(LAMBDA n : Cardinality(MailItems[n]), upTo(m))
                <= limit}

Sections(messages) == UNION {MailItems[m] : m \in messages}

MailPollEnds ==
    /\ pass.mail = "running"
    /\ LET taken == Accepted(pass.room)
       IN  /\ mailSeen' = mailSeen \cup taken
           /\ pass' = [pass EXCEPT !.mail = "done", !.got = Sections(taken)]
    /\ UNCHANGED <<docs, queue, ledger, loose, bounds, driveSeen>>

\* The oldest unseen files, as many as the pool has room for candidates
Selected(room) ==
    LET unseen == folder \ driveSeen
        limit  == IF room < FileLimit THEN room ELSE FileLimit
    IN  {f \in unseen : Cardinality({g \in unseen : g < f}) < limit}

DrivePollEnds ==
    /\ pass.drive = "running"
    /\ pass' = [pass EXCEPT !.drive = "done", !.files = Selected(pass.room)]
    /\ UNCHANGED <<docs, cursors, queue, ledger, loose, bounds>>

SensingEnds ==
    /\ pass.sense = "running"
    /\ \E proposed \in SUBSET Ambient :
            pass' = [pass EXCEPT !.sense = "done", !.proposed = proposed]
    /\ UNCHANGED <<docs, cursors, queue, ledger, loose, bounds>>

\* A poll that fails reports it and returns nothing.
PollFails ==
    /\ Fault
    /\ \/ pass.mail = "running" /\ pass' = [pass EXCEPT !.mail = "done"]
       \/ pass.drive = "running" /\ pass' = [pass EXCEPT !.drive = "done"]
    /\ UNCHANGED <<docs, cursors, queue, ledger, loose, expiries, browsed>>

\* The select! of a poll, and the adapters' own, see the newer input.
PollInterrupted ==
    /\ pass.input
    /\ \/ pass.mail = "running" /\ pass' = [pass EXCEPT !.mail = "interrupted"]
       \/ pass.drive = "running" /\ pass' = [pass EXCEPT !.drive = "interrupted"]
       \/ pass.sense = "running" /\ pass' = [pass EXCEPT !.sense = "interrupted"]
    /\ UNCHANGED <<docs, cursors, queue, ledger, loose, bounds>>

\* Codex is busy, or a channel fails: run_once returns and the polls it
\* spawned run on by themselves.
AbandonGathering ==
    /\ pass.sense = "running"
    /\ Fault
    /\ detached' = IF pass.mail = "running" THEN detached \cup {pass.room}
                                            ELSE detached
    /\ pass' = NoPass
    /\ UNCHANGED <<docs, cursors, queue, ledger, writes, expiries, browsed>>

\* A poll nobody waits for still moves the cursor, or comes to nothing.
DetachedPollEnds(room) ==
    /\ room \in detached
    /\ detached' = detached \ {room}
    /\ \/ mailSeen' = mailSeen \cup Accepted(room)
       \/ UNCHANGED mailSeen
    /\ UNCHANGED <<docs, queue, ledger, bounds, driveSeen, pass, writes>>

Gathered ==
    /\ pass.phase = "gathering"
    /\ "running" \notin {pass.mail, pass.drive, pass.sense}

Interrupted == "interrupted" \in {pass.mail, pass.drive, pass.sense}

DropGathered ==
    /\ Gathered
    /\ Interrupted
    /\ pass' = NoPass
    /\ UNCHANGED <<docs, cursors, queue, ledger, loose, bounds>>

-----------------------------------------------------------------------------
(* Filing: what was gathered enters the pool. *)

\* prioritize_candidate_batches puts the mailbox first
EnqueueGathered ==
    /\ Gathered
    /\ ~Interrupted
    /\ \E mail \in Admissible(pass.got, Room) :
       \E other \in Admissible(pass.proposed \ mail, Room - Cardinality(mail)) :
       \E a \in Orders(mail), b \in Orders(other) :
            Persist(pool \o a \o b)
    /\ pass' = [pass EXCEPT !.phase = "filing"]
    /\ UNCHANGED <<docs, cursors, ledger, loose, bounds>>

\* Mutant of Fits: the file fits when the pool is not full.
FitsInPart(f) == Len(pool) < Capacity

\* enqueue_complete_batch: all of the file's missing sections, or none
Fits(f) == Len(pool) + Cardinality(FileItems[f] \ Pooled) <= Capacity

FileNext ==
    /\ pass.phase = "filing"
    /\ pass.files # {}
    /\ LET f   == Min(pass.files)
           new == FileItems[f] \ Pooled
       IN  IF Fits(f)
           THEN /\ \E q \in Orders(new) :
                    IF new = {} THEN UNCHANGED <<queue>>
                                ELSE Persist(pool \o q)
                /\ pass' = [pass EXCEPT !.files = @ \ {f}, !.filed = @ \cup {f}]
           ELSE /\ pass' = [pass EXCEPT !.files = {}]
                /\ UNCHANGED <<queue>>
    /\ UNCHANGED <<docs, cursors, ledger, loose, bounds>>

Batch == ToSet(SubSeq(pool, 1, IF Len(pool) < BatchSize THEN Len(pool)
                                                        ELSE BatchSize))

\* acknowledge_files, then review_batch; an empty pool ends the intake
AcknowledgeFiles ==
    /\ pass.phase = "filing"
    /\ pass.files = {}
    /\ driveSeen' = driveSeen \cup pass.filed
    /\ pass' = IF pool = <<>>
               THEN NoPass
               ELSE [pass EXCEPT !.phase = "reviewing", !.batch = Batch]
    /\ UNCHANGED <<docs, queue, ledger, loose, bounds, mailSeen>>

-----------------------------------------------------------------------------
(* Review and what follows from it. *)

\* plan_sensing_routes: a candidate without a decision is deferred
Review ==
    /\ pass.phase = "reviewing"
    /\ ~pass.input
    /\ \E plan \in [pass.batch -> {"input", "discard", "deep", "none"}] :
        LET as(d) == {i \in pass.batch : plan[i] = d}
        IN  pass' = [pass EXCEPT !.phase = "publishing", !.publish = as("input"),
                                 !.reject = as("discard"), !.deep = as("deep"),
                                 !.defer = as("none")]
    /\ UNCHANGED <<docs, cursors, queue, ledger, loose, bounds>>

\* Mutant of Delivered: every admitted candidate becomes a signal.
DeliveredAgain(i) == Append(signals, i)

\* publish_with_presentation: already delivered, too old, or delivered now
Delivered(i) ==
    IF i \in ToSet(signals) THEN signals ELSE Append(signals, i)

Publish(i) ==
    /\ pass.phase = "publishing"
    /\ i \in pass.publish
    /\ \/ /\ signals' = Delivered(i)
          /\ pass' = [pass EXCEPT !.publish = @ \ {i}]
       \/ /\ pass' = [pass EXCEPT !.publish = @ \ {i}, !.reject = @ \cup {i}]
          /\ UNCHANGED signals
    /\ UNCHANGED <<docs, cursors, queue, loose, bounds, decided>>

\* Briefing topics are labelled and the review settled; candidates that
\* were routed to a deeper look stay where they are.
SettleReview ==
    /\ pass.phase = "publishing"
    /\ pass.publish = {}
    /\ LET terminal == pass.batch \ (pass.deep \cup pass.defer)
       IN  /\ Persist(Resettled(terminal, pass.defer))
           /\ decided' = decided \cup pass.reject
    /\ pass' = IF pass.deep = {} THEN NoPass
                                 ELSE [pass EXCEPT !.phase = "exploring"]
    /\ UNCHANGED <<docs, cursors, loose, bounds, signals>>

\* The exploration ends, with or without a message: its candidates are done.
Explore ==
    /\ pass.phase = "exploring"
    /\ ~pass.input
    /\ Persist(Without(pool, pass.deep))
    /\ decided' = decided \cup pass.deep
    /\ pass' = NoPass
    /\ UNCHANGED <<docs, cursors, loose, bounds, signals>>

\* Newer input supersedes a review or an exploration.
Supersede ==
    /\ pass.phase \in {"reviewing", "exploring"}
    /\ pass.input
    /\ pass' = NoPass
    /\ UNCHANGED <<docs, cursors, queue, ledger, loose, bounds>>

\* An error of the usage log, the reviewer, the signal store or Codex, or a
\* busy Codex, ends the pass where it stands.
PassFails ==
    /\ \/ Gathered
       \/ pass.phase \in {"filing", "reviewing", "publishing", "exploring"}
    /\ Fault
    /\ pass' = NoPass
    /\ UNCHANGED <<docs, cursors, queue, ledger, loose, expiries, browsed>>

\* The daemon stops and starts again.
Restart ==
    /\ Fault
    /\ pool' = poolSaved
    /\ pass' = NoPass
    /\ detached' = {} /\ writes' = {}
    /\ UNCHANGED <<docs, cursors, ledger, poolSaved, expiries, browsed>>

-----------------------------------------------------------------------------

Gather == MailPollEnds \/ DrivePollEnds \/ SensingEnds \/ PollInterrupted

Proceed ==
    \/ Gather \/ DropGathered \/ EnqueueGathered \/ FileNext
    \/ AcknowledgeFiles \/ Review \/ SettleReview \/ Explore \/ Supersede
    \/ \E i \in Items : Publish(i)

Next ==
    \/ MailArrives
    \/ \E f \in Files : FileArrives(f)
    \/ UserInput
    \/ \E kind \in Kinds : Start(kind)
    \/ Proceed
    \/ PollFails \/ AbandonGathering \/ PassFails \/ Restart
    \/ \E room \in detached : DetachedPollEnds(room)
    \/ \E i \in Items : Expire(i) \/ Browse(i)
    \/ \E q \in writes : BrowseWrites(q)

Spec == Init /\ [][Next]_vars

\* The scheduler starts a pass whenever one is due, a pass that is not
\* interrupted goes on.  Some statements assume of the reviewer, too, that it
\* does not defer forever.
Decide ==
    /\ Review
    /\ pass'.defer = {}

DecisiveReviewer == SF_vars(Decide)

FairSpec ==
    /\ Spec
    /\ WF_vars(Start("scheduled"))
    /\ WF_vars(Proceed)

-----------------------------------------------------------------------------

\* The pool stays within its capacity, holds no fingerprint twice, and every
\* other variable keeps its type (sensing.rs, MAX_PENDING_CANDIDATES).
TypeOK ==
    /\ inbox \in 0 .. Len(MailItems)
    /\ folder \subseteq Files
    /\ mailSeen \subseteq 1 .. inbox
    /\ driveSeen \subseteq folder
    /\ pool \in Seq(Items) /\ poolSaved \in Seq(Items)
    /\ Len(pool) <= Capacity /\ Cardinality(Pooled) = Len(pool)
    /\ signals \in Seq(Items)
    /\ decided \subseteq Items
    /\ pass \in PassType
    /\ detached \subseteq 0 .. Capacity
    /\ writes \subseteq Seq(Items)
    /\ faults \in 0 .. MaxFaults /\ expiries \in 0 .. MaxExpiries
    /\ browsed \in 0 .. Browsers

Kept(S) == S \subseteq Pooled \cup ToSet(signals) \cup decided

\* A Drive file behind the cursor is not lost: after any interruption,
\* failure or restart each of its sections is still queued, was
\* published, or was decided on (exploration.rs, "only then commit its local
\* remote-file cursor").
DriveFilesAreKept ==
    \A f \in driveSeen : Kept(FileItems[f])

\* A message behind the mailbox cursor is not lost either: its sections are
\* with the pass that took it, in the queue, published or decided on.
MailIsKept ==
    \A m \in mailSeen : Kept(MailItems[m] \ pass.got)

\* The room measured before the polls still holds when their results are
\* queued: no section of an accepted message is cut off by a full pool
\* (mail_input.rs, accept_new_messages; sensing.rs, enqueue_many).
AcceptedMailFits ==
    [][pass.phase = "gathering" /\ pass'.phase = "filing"
          => pass.got \subseteq ToSet(pool')]_vars

\* Whatever is proposed again, reviewed again after a failed pass or
\* published right before a crash, the reader gets an item once
\* (signals.rs, publish_with_presentation).
PublishedOnce ==
    \A i, j \in DOMAIN signals : signals[i] = signals[j] => i = j

\* A candidate in the pool is reviewed or leaves: deferred candidates do not
\* block those behind them (sensing.rs, settle_review).
CandidatesGetReviewed ==
    \A i \in Items : i \in Pooled ~> (i \in pass.batch \/ i \notin Pooled)

\* Every Drive file that can fit the pool is taken in the end.
FilesAreTaken ==
    DecisiveReviewer =>
        \A f \in Files : Cardinality(FileItems[f]) <= Capacity
            => (f \in folder ~> f \in driveSeen)

\* Every message is taken in the end (mail_input.rs, "The next poll will
\* retry it after the newer bounded batch has drained").
MessagesAreTaken ==
    \A m \in Mails : m <= inbox ~> m \in mailSeen

=============================================================================
