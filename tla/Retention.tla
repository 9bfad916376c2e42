------------------------------ MODULE Retention ------------------------------
(***************************************************************************)
(* The retention queue (src/src/continuity/retention.rs, retention/        *)
(* store.rs, retention/experience.rs).  A proposal to keep something is    *)
(* stored, checked against the current pages, handed to the model for      *)
(* review under a token that names the evidence, and written as a page     *)
(* only if the review still matches evidence read afresh.  An eligible     *)
(* outcome is captured as an experience, staged into a private outbox and  *)
(* delivered.  One mutex serialises the calls; what interferes is a crash, *)
(* a failed save, and a library that changes between two calls.            *)
(*                                                                         *)
(* The evidence a preflight reads is a version of the library; a pending   *)
(* record may be due for a background review at any time.                  *)
(***************************************************************************)
EXTENDS Naturals, FiniteSets

CONSTANTS
    Proposals,
    MaxWaiting,   \* unfinished proposals kept (128)
    MaxPending,   \* MAX_PENDING experiences
    MaxVersion, MaxRetentionFaults   \* bounds

VARIABLES
    queue,      \* QueueState.proposals in memory
    saved,      \* ... and in the file
    suspended,  \* experience delivery is paused: in memory and in the file
    outbox,     \* the staged experiences, files of their own
    delivered,
    pages,      \* the revisions each proposal was written as
    library,    \* the version of the evidence
    missing,    \* the proposals whose sources are retracted
    token,      \* the last review token the model was given for each proposal
    review,     \* the call that holds the mutex
    retentionFaults

disk == <<saved, outbox>>
world == <<pages, library, missing, delivered>>
retentionVars == <<queue, disk, suspended, world, token, review, retentionFaults>>

Absent == [status |-> "absent", issued |-> 0, held |-> FALSE, captured |-> FALSE]
New == [Absent EXCEPT !.status = "pending"]
Final == {"written", "covered", "discarded"}
NoReview == [at |-> "none"]
Open(q) == {p \in Proposals : q[p].status \in {"pending", "blocked"}}
Held(q) == {p \in Proposals : q[p].held}

Init ==
    /\ queue = [p \in Proposals |-> Absent] /\ saved = queue
    /\ suspended = [now |-> FALSE, file |-> FALSE]
    /\ outbox = {} /\ delivered = {}
    /\ pages = [p \in Proposals |-> {}] /\ library = 1 /\ missing = {}
    /\ token = [p \in Proposals |-> 0] /\ review = NoReview /\ retentionFaults = 0

\* RetentionQueue::save writes another file and renames it: all or nothing.
Save(q) ==
    \/ saved' = q /\ suspended' = [suspended EXCEPT !.file = suspended.now] /\ UNCHANGED retentionFaults
    \/ /\ retentionFaults < MaxRetentionFaults /\ retentionFaults' = retentionFaults + 1
       /\ UNCHANGED <<saved, suspended>>
SaveSucceeds == saved' # saved \/ queue' = saved'

Done == review' = NoReview
Checkpoint == review' = [at |-> "checkpoint"]

\* Record::defer and Record::fail: the review that was issued is void.
Deferred(r) == [r EXCEPT !.status = "pending", !.issued = 0]
Failed(r, invalid) == [Deferred(r) EXCEPT !.status = IF invalid THEN "blocked" ELSE "pending"]

\* retain_page: a final receipt is returned again, a new proposal is stored first.
Submit(p, with) ==
    /\ review = NoReview
    /\ \/ /\ queue[p].status \in Final /\ Checkpoint
          /\ UNCHANGED <<queue, saved, suspended, retentionFaults>>
       \/ /\ queue[p].status \in {"pending", "blocked"}
          /\ review' = [at |-> "preflight", p |-> p, with |-> with]
          /\ UNCHANGED <<queue, saved, suspended, retentionFaults>>
       \/ /\ queue[p].status = "absent" /\ Cardinality(Open(queue)) < MaxWaiting
          /\ queue' = [queue EXCEPT ![p] = New]
          /\ Save(queue')
          /\ review' = IF SaveSucceeds THEN [at |-> "preflight", p |-> p, with |-> with] ELSE NoReview
    /\ UNCHANGED <<outbox, world, token>>

\* Evidence that is gone blocks the proposal, any other error defers it.
PreflightFails(invalid) ==
    /\ review.at = "preflight" /\ (invalid <=> review.p \in missing)
    /\ queue' = [queue EXCEPT ![review.p] = Failed(@, invalid)]
    /\ Save(queue')
    /\ IF SaveSucceeds THEN Checkpoint ELSE Done
    /\ UNCHANGED <<outbox, world, token>>

\* Mutant of Matches: the token that was issued is enough.
MatchesIssued(p, with) == with # 0 /\ queue[p].issued = with

\* The token names the evidence just read, and it is the one that was issued.
Matches(p, with) == with = library /\ queue[p].issued = with

\* No matching review: a packet with the current evidence and its token.
IssueReview ==
    /\ review.at = "preflight" /\ review.p \notin missing /\ ~Matches(review.p, review.with)
    /\ queue' = [queue EXCEPT ![review.p] = [Deferred(@) EXCEPT !.issued = library]]
    /\ Save(queue')
    /\ IF SaveSucceeds THEN Checkpoint /\ token' = [token EXCEPT ![review.p] = library]
       ELSE Done /\ UNCHANGED token
    /\ UNCHANGED <<outbox, world>>

AcceptReview ==
    /\ review.at = "preflight" /\ review.p \notin missing /\ Matches(review.p, review.with)
    /\ \/ Done   \* validate_review refuses it
       \/ review' = [at |-> "judged", p |-> review.p, with |-> review.with, seen |-> library]
    /\ UNCHANGED <<queue, disk, suspended, world, token, retentionFaults>>

\* capture_retention_experience: once, while there is room and none waits to be staged
Captured(r, eligible) ==
    IF eligible /\ ~r.held /\ ~r.captured /\ Cardinality(outbox) + Cardinality(Held(queue)) < MaxPending
    THEN [r EXCEPT !.held = TRUE, !.captured = TRUE] ELSE r

Conclude(status, eligible) ==
    /\ review.at = "judged"
    /\ queue' = [queue EXCEPT ![review.p] =
           IF status = "deferred" THEN Captured(Deferred(@), eligible)
           ELSE [@ EXCEPT !.status = status, !.issued = 0]]
    /\ Save(queue')
    /\ IF SaveSucceeds THEN Checkpoint ELSE Done
    /\ UNCHANGED <<outbox, world, token>>

\* Mutant of Ingested: the page carries no external event id.
IngestedAnew(p) == pages[p] \cup {[copy |-> Cardinality(pages[p]) + 1, reviewed |-> review.with, read |-> review.seen]}

\* ingest_page: the same external event id is the same page.
Ingested(p) ==
    IF pages[p] # {} THEN pages[p] ELSE {[copy |-> 1, reviewed |-> review.with, read |-> review.seen]}

Ingest ==
    /\ review.at = "judged"
    /\ \/ /\ pages' = [pages EXCEPT ![review.p] = Ingested(review.p)]
          /\ review' = [review EXCEPT !.at = "ingested"]
          /\ UNCHANGED retentionFaults
       \/ /\ retentionFaults < MaxRetentionFaults /\ retentionFaults' = retentionFaults + 1
          /\ Done /\ UNCHANGED pages
    /\ UNCHANGED <<queue, disk, suspended, library, missing, delivered, token>>

RecordWritten(eligible) ==
    /\ review.at = "ingested"
    /\ queue' = [queue EXCEPT ![review.p] =
           Captured([@ EXCEPT !.status = "written", !.issued = 0], eligible)]
    /\ Save(queue')
    /\ IF SaveSucceeds THEN Checkpoint ELSE Done
    /\ UNCHANGED <<outbox, world, token>>

-----------------------------------------------------------------------------
(* retention_experience_checkpoint                                          *)

\* Mutant of StageOrder: the record is cleared and saved before the outbox has its file.
ReleaseFirst == <<"queue", "outbox">>
\* The request is in the outbox before the record lets go of it.
StageOrder == <<"outbox", "queue">>

StageStep(p, k) ==
    \/ /\ StageOrder[k] = "outbox"
       /\ outbox' = outbox \cup {p} /\ UNCHANGED <<queue, saved, suspended, retentionFaults>>
    \/ /\ StageOrder[k] = "queue"
       /\ queue' = [queue EXCEPT ![p].held = FALSE]
       /\ Save(queue') /\ UNCHANGED outbox

Stage(p) ==
    /\ review.at = "checkpoint" /\ ~suspended.now /\ p \in Held(queue)
    /\ StageStep(p, 1) /\ review' = [at |-> "staged", p |-> p]
    /\ UNCHANGED <<world, token>>

Release ==
    /\ review.at = "staged"
    /\ StageStep(review.p, 2) /\ review' = [at |-> "flush"]
    /\ UNCHANGED <<world, token>>

NothingToStage ==
    /\ review.at = "checkpoint"
    /\ IF suspended.now \/ (Held(queue) = {} /\ outbox = {}) THEN Done
       ELSE Held(queue) = {} /\ review' = [at |-> "flush"]
    /\ UNCHANGED <<queue, disk, suspended, world, token, retentionFaults>>

\* flush_one: delivered or kept; an error that is no transport error pauses for good.
Flush ==
    /\ review.at = "flush" /\ Done
    /\ \/ outbox = {} /\ UNCHANGED <<outbox, delivered, suspended>>
       \/ \E p \in outbox :
             /\ delivered' = delivered \cup {p} /\ outbox' = outbox \ {p} /\ UNCHANGED suspended
       \/ outbox # {} /\ UNCHANGED <<outbox, delivered, suspended>>
       \/ outbox # {} /\ suspended' = [now |-> TRUE, file |-> TRUE] /\ UNCHANGED <<outbox, delivered>>
    /\ saved' = queue
    /\ UNCHANGED <<queue, pages, library, missing, token, retentionFaults>>

-----------------------------------------------------------------------------
(* The background review, the library and crashes.                          *)

\* retention_retry_bundle, one proposal of its two at a time
Retry(p) ==
    /\ review = NoReview
    /\ queue[p].status = "pending"
    /\ \/ /\ p \in missing /\ queue' = [queue EXCEPT ![p] = Failed(@, TRUE)]
       \/ /\ p \notin missing /\ queue' = [queue EXCEPT ![p] = Deferred(@)]
    /\ Save(queue')
    /\ UNCHANGED <<outbox, world, token, review>>

\* A repair or another writer changes the pages the preflight reads.
ChangeLibrary ==
    /\ library < MaxVersion /\ library' = library + 1
    /\ UNCHANGED <<queue, disk, suspended, pages, missing, delivered, token, review, retentionFaults>>

RetractSources(p) ==
    /\ p \notin missing /\ missing' = missing \cup {p}
    /\ UNCHANGED <<queue, disk, suspended, pages, library, delivered, token, review, retentionFaults>>

Crash ==
    /\ retentionFaults < MaxRetentionFaults /\ retentionFaults' = retentionFaults + 1
    /\ queue' = saved /\ suspended' = [suspended EXCEPT !.now = suspended.file]
    /\ Done
    /\ UNCHANGED <<disk, world, token>>

Next ==
    \/ \E p \in Proposals :
          \/ \E with \in {0, token[p]} : Submit(p, with)
          \/ Stage(p) \/ Retry(p) \/ RetractSources(p)
    \/ \E b \in BOOLEAN :
          \/ PreflightFails(b) \/ RecordWritten(b)
          \/ \E s \in {"deferred", "covered", "discarded"} : Conclude(s, b)
    \/ IssueReview \/ AcceptReview \/ Ingest
    \/ Release \/ NothingToStage \/ Flush \/ ChangeLibrary \/ Crash

Spec == Init /\ [][Next]_retentionVars

-----------------------------------------------------------------------------
(* A page is written at most once, whatever is retried after a crash or a  *)
(* failed save, and by a review of the very evidence that was read when it *)
(* was submitted, not of evidence that has changed since the packet.       *)
WrittenOnceAsReviewed ==
    \A p \in Proposals :
        /\ Cardinality(pages[p]) <= 1
        /\ \A page \in pages[p] : page.reviewed = page.read

(* An experience that the file says was captured is still held by its      *)
(* record, or in the outbox, or delivered: no crash between the two files  *)
(* loses it.                                                               *)
EvidenceIsNotLost ==
    \A p \in Proposals : saved[p].captured => saved[p].held \/ p \in outbox \/ p \in delivered
=============================================================================
