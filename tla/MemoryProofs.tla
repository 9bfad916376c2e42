----------------------------- MODULE MemoryProofs -----------------------------
(***************************************************************************)
(* What the stores promise, for every value of the constants: the          *)
(* retention queue, the hunches, the token budgets, the compute rules, the *)
(* repair of Pages, the episodes, the maintained map, the transcript with  *)
(* its migration, its live window and its search, and the two recalls.     *)
(* The parts share no variable: a part's invariant is preserved by its own *)
(* steps, and the steps of the others leave its variables alone.           *)
(***************************************************************************)
EXTENDS MCMemory, SequenceTheorems, FiniteSetTheorems, WellFoundedInduction, TLAPS

-----------------------------------------------------------------------------
(* The retention queue.                                                      *)

Statuses == {"absent", "pending", "blocked", "written", "covered", "discarded"}
Record == [status : Statuses, issued : Nat, held : BOOLEAN, captured : BOOLEAN]
PageOf(v) == [copy |-> 1, reviewed |-> v, read |-> v]
Written == {{}} \cup {{PageOf(v)} : v \in Nat}

(* What the call that holds the mutex knows.                                 *)
Reviews ==
    {Proposed!NoReview, [at |-> "checkpoint"], [at |-> "flush"]}
    \cup [at : {"preflight"}, p : Proposals, with : Nat]
    \cup [at : {"judged", "ingested"}, p : Proposals, with : Nat, seen : Nat]
    \cup [at : {"staged"}, p : Proposals]

RetentionType ==
    /\ queue \in [Proposals -> Record] /\ saved \in [Proposals -> Record]
    /\ pages \in [Proposals -> Written]
    /\ library \in Nat /\ token \in [Proposals -> Nat]
    /\ review \in Reviews

(* A review that may write is of the evidence that was read.                 *)
JudgedAsRead == review.at = "judged" => review.with = review.seen

(* A record lets go of an experience only behind the outbox's file.          *)
StagedIsOut == review.at = "staged" => review.p \in outbox

(* What is captured in a state of the queue is still somewhere.              *)
Safe(q, kept) == \A p \in Proposals : q[p].captured => q[p].held \/ p \in kept
KeptEvidence == Safe(queue, outbox \cup delivered) /\ Safe(saved, outbox \cup delivered)

RetentionInv == RetentionType /\ JudgedAsRead /\ StagedIsOut /\ KeptEvidence

LEMMA RetentionInit == Init => RetentionInv
<1> SUFFICES ASSUME Proposed!Init PROVE RetentionInv
  BY DEF Init
<1> DEFINE r == [status |-> "absent", issued |-> 0, held |-> FALSE, captured |-> FALSE]
<1>1. r \in Record /\ r.captured = FALSE
  BY DEF Record, Statuses
<1>2. queue = [p \in Proposals |-> r] /\ saved = queue
  BY DEF Proposed!Init, Proposed!Absent
<1> HIDE DEF r
<1>3. review = [at |-> "none"] /\ review \in Reviews
  BY DEF Proposed!Init, Proposed!NoReview, Reviews
<1>4. pages \in [Proposals -> Written] /\ library \in Nat /\ token \in [Proposals -> Nat]
  BY DEF Proposed!Init, Written
<1>5. RetentionType
  BY <1>1, <1>2, <1>3, <1>4 DEF RetentionType
<1>6. KeptEvidence
  BY <1>1, <1>2 DEF KeptEvidence, Safe
<1> QED BY <1>3, <1>5, <1>6 DEF RetentionInv, JudgedAsRead, StagedIsOut

(* The three ways a review rewrites a record.                                *)
LEMMA DeferredRecord ==
    ASSUME NEW r \in Record
    PROVE  /\ Proposed!Deferred(r) \in Record
           /\ Proposed!Deferred(r).held = r.held /\ Proposed!Deferred(r).captured = r.captured
BY DEF Record, Statuses, Proposed!Deferred

LEMMA FailedRecord ==
    ASSUME NEW r \in Record, NEW invalid \in BOOLEAN
    PROVE  /\ Proposed!Failed(r, invalid) \in Record
           /\ Proposed!Failed(r, invalid).held = r.held /\ Proposed!Failed(r, invalid).captured = r.captured
<1> DEFINE d == Proposed!Deferred(r)
           s == IF invalid THEN "blocked" ELSE "pending"
<1>1. d \in Record /\ d.held = r.held /\ d.captured = r.captured
  BY DeferredRecord
<1>2. s \in Statuses
  BY DEF Statuses
<1>3. Proposed!Failed(r, invalid) = [d EXCEPT !.status = s]
  BY DEF Proposed!Failed
<1> HIDE DEF d, s
<1> QED BY <1>1, <1>2, <1>3 DEF Record

LEMMA IssuedRecord ==
    ASSUME NEW r \in Record, NEW s \in Statuses, NEW n \in Nat
    PROVE  /\ [r EXCEPT !.status = s, !.issued = n] \in Record
           /\ [r EXCEPT !.status = s, !.issued = n].held = r.held
           /\ [r EXCEPT !.status = s, !.issued = n].captured = r.captured
BY DEF Record

LEMMA CapturedRecord ==
    ASSUME NEW r \in Record, NEW eligible \in BOOLEAN, NEW c, c = Proposed!Captured(r, eligible)
    PROVE  /\ c \in Record
           /\ c.captured => c.held \/ (r.captured /\ c.held = r.held)
<1>1. CASE c = r
  BY <1>1
<1>2. CASE c = [r EXCEPT !.held = TRUE, !.captured = TRUE]
  BY <1>2 DEF Record
<1> QED BY <1>1, <1>2 DEF Proposed!Captured

(* A step that writes one record of the queue, and saves it or fails to.     *)
LEMMA Rewrites ==
    ASSUME RetentionInv, NEW p \in Proposals, NEW r \in Record, r.captured => r.held \/ p \in outbox \cup delivered,
           queue' = [queue EXCEPT ![p] = r], saved' = saved \/ saved' = queue',
           UNCHANGED <<outbox, delivered>>
    PROVE  /\ queue' \in [Proposals -> Record] /\ saved' \in [Proposals -> Record]
           /\ KeptEvidence'
BY DEF RetentionInv, RetentionType, KeptEvidence, Safe

LEMMA SaveWrites == ASSUME NEW q, Proposed!Save(q) PROVE saved' = saved \/ saved' = q
BY DEF Proposed!Save

LEMMA ReviewOf ==
    ASSUME RetentionInv
    PROVE  /\ review.at \in {"preflight", "judged", "ingested", "staged"} =>
                  review.p \in Proposals /\ queue[review.p] \in Record
           /\ review.at \in {"preflight", "judged", "ingested"} => review.with \in Nat
           /\ review.at = "judged" => review = [at |-> "judged", p |-> review.p, with |-> review.with, seen |-> review.seen]
                                      /\ review.seen = review.with
<1>1. review \in Reviews /\ queue \in [Proposals -> Record] /\ JudgedAsRead
  BY DEF RetentionInv, RetentionType
<1>2. CASE review \in {Proposed!NoReview, [at |-> "checkpoint"], [at |-> "flush"]}
  BY <1>2 DEF Proposed!NoReview
<1>3. CASE review \in [at : {"preflight"}, p : Proposals, with : Nat]
  BY <1>1, <1>3
<1>4. CASE review \in [at : {"judged", "ingested"}, p : Proposals, with : Nat, seen : Nat]
  BY <1>1, <1>4 DEF JudgedAsRead
<1>5. CASE review \in [at : {"staged"}, p : Proposals]
  BY <1>1, <1>5
<1> QED BY <1>1, <1>2, <1>3, <1>4, <1>5 DEF Reviews

(* The call ends, or goes on to the checkpoint or to the outbox.             *)
LEMMA GoesOn ==
    ASSUME RetentionInv, review' \in {Proposed!NoReview, [at |-> "checkpoint"], [at |-> "flush"]},
           queue' \in [Proposals -> Record], saved' \in [Proposals -> Record],
           pages' \in [Proposals -> Written], library' \in Nat, token' \in [Proposals -> Nat],
           KeptEvidence'
    PROVE  RetentionInv'
<1>1. review' \in Reviews /\ review'.at \notin {"judged", "staged"}
  BY DEF Reviews, Proposed!NoReview
<1> QED BY <1>1 DEF RetentionInv, RetentionType, JudgedAsRead, StagedIsOut

LEMMA Submits ==
    ASSUME RetentionInv, NEW p \in Proposals, NEW with \in {0, token[p]}, Proposed!Submit(p, with)
    PROVE  RetentionInv'
<1> DEFINE asks == [at |-> "preflight", p |-> p, with |-> with]
<1>1. with \in Nat
  BY DEF RetentionInv, RetentionType
<1>2. asks \in Reviews /\ asks.at = "preflight"
  BY <1>1 DEF Reviews
<1> HIDE DEF asks
<1>3. UNCHANGED <<outbox, pages, library, missing, delivered, token>>
  BY DEF Proposed!Submit, Proposed!world
<1>4. review' \in {Proposed!NoReview, [at |-> "checkpoint"], asks}
  BY DEF Proposed!Submit, Proposed!Checkpoint, asks
<1>5. queue' \in [Proposals -> Record] /\ saved' \in [Proposals -> Record] /\ KeptEvidence'
  <2>1. CASE UNCHANGED <<queue, saved>>
    BY <1>3, <2>1 DEF RetentionInv, RetentionType, KeptEvidence, Safe
  <2>2. CASE queue' = [queue EXCEPT ![p] = Proposed!New] /\ Proposed!Save(queue')
    <3> DEFINE r == [status |-> "pending", issued |-> 0, held |-> FALSE, captured |-> FALSE]
               a == [status |-> "absent", issued |-> 0, held |-> FALSE, captured |-> FALSE]
    <3>1. a \in Record /\ ~a.captured
      BY DEF Record, Statuses
    <3>2. Proposed!New = [a EXCEPT !.status = "pending"]
      BY DEF Proposed!New, Proposed!Absent
    <3> HIDE DEF a
    <3>3. Proposed!New \in Record /\ ~Proposed!New.captured
      BY <3>1, <3>2 DEF Record, Statuses
    <3> QED BY <1>3, <2>2, <3>3, SaveWrites, Rewrites
  <2> QED BY <2>1, <2>2 DEF Proposed!Submit
<1>6. RetentionType'
  BY <1>2, <1>3, <1>4, <1>5 DEF RetentionInv, RetentionType, Reviews
<1>7. review'.at \notin {"judged", "staged"}
  BY <1>2, <1>4 DEF Proposed!NoReview
<1> QED BY <1>5, <1>6, <1>7 DEF RetentionInv, JudgedAsRead, StagedIsOut

(* A verdict on the record under review, which goes to the checkpoint.       *)
LEMMA Concludes ==
    ASSUME RetentionInv, NEW b \in BOOLEAN,
           \/ Proposed!PreflightFails(b) \/ Proposed!RecordWritten(b)
           \/ \E s \in {"deferred", "covered", "discarded"} : Proposed!Conclude(s, b)
           \/ Proposed!IssueReview
    PROVE  RetentionInv'
<1>1. review.at \in {"preflight", "judged", "ingested"}
  BY DEF Proposed!PreflightFails, Proposed!RecordWritten, Proposed!Conclude, Proposed!IssueReview
<1> DEFINE p == review.p
           old == queue[p]
<1>2. p \in Proposals /\ old \in Record /\ (old.captured => old.held \/ p \in outbox \cup delivered)
  BY <1>1, ReviewOf DEF RetentionInv, KeptEvidence, Safe
<1>3. /\ UNCHANGED <<outbox, pages, library, missing, delivered>> /\ Proposed!Save(queue')
      /\ review' \in {Proposed!NoReview, [at |-> "checkpoint"]}
  BY DEF Proposed!PreflightFails, Proposed!RecordWritten, Proposed!Conclude, Proposed!IssueReview,
         Proposed!world, Proposed!Done, Proposed!Checkpoint
<1>4. library \in Nat /\ token' \in [Proposals -> Nat]
  BY <1>2 DEF RetentionInv, RetentionType, Proposed!PreflightFails, Proposed!RecordWritten, Proposed!Conclude,
     Proposed!IssueReview, Proposed!world
<1>5. ASSUME NEW r \in Record, queue' = [queue EXCEPT ![p] = r], r.captured => r.held \/ (old.captured /\ r.held = old.held)
      PROVE  RetentionInv'
  <2>1. queue' \in [Proposals -> Record] /\ saved' \in [Proposals -> Record] /\ KeptEvidence'
    BY <1>2, <1>3, <1>5, SaveWrites, Rewrites
  <2>2. pages' \in [Proposals -> Written] /\ library' \in Nat
    BY <1>3 DEF RetentionInv, RetentionType
  <2> QED BY <1>3, <1>4, <2>1, <2>2, GoesOn
<1>6. CASE Proposed!PreflightFails(b)
  <2>1. queue' = [queue EXCEPT ![p] = Proposed!Failed(old, b)]
    BY <1>6 DEF Proposed!PreflightFails
  <2> QED BY <1>2, <1>5, <2>1, FailedRecord
<1>7. CASE Proposed!RecordWritten(b)
  <2> DEFINE w == [old EXCEPT !.status = "written", !.issued = 0]
             c == Proposed!Captured(w, b)
  <2>1. w \in Record /\ w.held = old.held /\ w.captured = old.captured
    BY <1>2, IssuedRecord DEF Statuses
  <2>2. queue' = [queue EXCEPT ![p] = c]
    BY <1>7 DEF Proposed!RecordWritten
  <2> HIDE DEF w
  <2>3. c \in Record /\ (c.captured => c.held \/ (w.captured /\ c.held = w.held))
    BY <2>1, CapturedRecord
  <2> HIDE DEF c
  <2> QED BY <1>5, <2>1, <2>2, <2>3
<1>8. ASSUME NEW s \in {"deferred", "covered", "discarded"}, Proposed!Conclude(s, b) PROVE RetentionInv'
  <2>1. CASE s = "deferred"
    <3> DEFINE w == Proposed!Deferred(old)
               c == Proposed!Captured(w, b)
    <3>1. w \in Record /\ w.held = old.held /\ w.captured = old.captured
      BY <1>2, DeferredRecord
    <3>2. queue' = [queue EXCEPT ![p] = c]
      BY <1>8, <2>1 DEF Proposed!Conclude
    <3> HIDE DEF w
    <3>3. c \in Record /\ (c.captured => c.held \/ (w.captured /\ c.held = w.held))
      BY <3>1, CapturedRecord
    <3> HIDE DEF c
    <3> QED BY <1>5, <3>1, <3>2, <3>3
  <2>2. CASE s # "deferred"
    <3> DEFINE w == [old EXCEPT !.status = s, !.issued = 0]
    <3>1. w \in Record /\ w.held = old.held /\ w.captured = old.captured
      <4>1. s \in Statuses /\ 0 \in Nat
        BY <2>2 DEF Statuses
      <4> QED BY <1>2, <4>1, IssuedRecord
    <3>2. queue' = [queue EXCEPT ![p] = w]
      BY <1>8, <2>2 DEF Proposed!Conclude
    <3> HIDE DEF w
    <3> QED BY <1>5, <3>1, <3>2
  <2> QED BY <2>1, <2>2
<1>9. CASE Proposed!IssueReview
  <2> DEFINE d == Proposed!Deferred(old)
             w == [d EXCEPT !.issued = library]
  <2>1. d \in Record /\ d.held = old.held /\ d.captured = old.captured
    BY <1>2, DeferredRecord
  <2>2. queue' = [queue EXCEPT ![p] = w]
    BY <1>9 DEF Proposed!IssueReview
  <2> HIDE DEF d
  <2>3. w \in Record /\ w.held = d.held /\ w.captured = d.captured
    BY <1>4, <2>1 DEF Record
  <2> HIDE DEF w
  <2> QED BY <1>5, <2>1, <2>2, <2>3
<1> QED BY <1>6, <1>7, <1>8, <1>9

LEMMA AcceptsReview == ASSUME RetentionInv, Proposed!AcceptReview PROVE RetentionInv'
<1>1. /\ UNCHANGED <<queue, saved, outbox, pages, library, missing, delivered, token>>
      /\ review.at = "preflight" /\ review.with = library
  BY DEF Proposed!AcceptReview, Proposed!disk, Proposed!world, Proposed!Matches
<1>2. review.p \in Proposals /\ library \in Nat
  BY <1>1, ReviewOf DEF RetentionInv, RetentionType
<1>3. KeptEvidence' /\ RetentionInv
  BY <1>1 DEF RetentionInv, KeptEvidence, Safe
<1>4. CASE Proposed!Done
  BY <1>1, <1>3, <1>4, GoesOn DEF RetentionInv, RetentionType, Proposed!Done
<1>5. CASE review' = [at |-> "judged", p |-> review.p, with |-> review.with, seen |-> library]
  <2>1. review' \in Reviews /\ review'.at = "judged" /\ review'.with = review'.seen
    BY <1>1, <1>2, <1>5 DEF Reviews
  <2> QED BY <1>1, <1>3, <2>1 DEF RetentionInv, RetentionType, JudgedAsRead, StagedIsOut
<1> QED BY <1>4, <1>5 DEF Proposed!AcceptReview

(* The page is written once, from the evidence that was read.                *)
LEMMA Ingests == ASSUME RetentionInv, Proposed!Ingest PROVE RetentionInv'
<1>1. /\ UNCHANGED <<queue, saved, outbox, library, missing, delivered, token>> /\ review.at = "judged"
  BY DEF Proposed!Ingest, Proposed!disk
<1>2. /\ review.p \in Proposals /\ review.with \in Nat /\ review.seen = review.with
      /\ review = [at |-> "judged", p |-> review.p, with |-> review.with, seen |-> review.seen]
  BY <1>1, ReviewOf
<1>3. KeptEvidence' /\ pages \in [Proposals -> Written]
  BY <1>1 DEF RetentionInv, RetentionType, KeptEvidence, Safe
<1>4. CASE Proposed!Done /\ UNCHANGED pages
  BY <1>1, <1>3, <1>4, GoesOn DEF RetentionInv, RetentionType, Proposed!Done
<1>5. CASE /\ pages' = [pages EXCEPT ![review.p] = Proposed!Ingested(review.p)]
           /\ review' = [review EXCEPT !.at = "ingested"]
  <2>1. Proposed!Ingested(review.p) \in Written
    BY <1>2, <1>3 DEF Proposed!Ingested, Written, PageOf
  <2>2. pages' \in [Proposals -> Written]
    BY <1>2, <1>3, <1>5, <2>1
  <2> DEFINE r == [at |-> "judged", p |-> review.p, with |-> review.with, seen |-> review.seen]
             n == [r EXCEPT !.at = "ingested"]
  <2>3. n \in Reviews /\ n.at = "ingested"
    <3>1. r \in [at : {"judged", "ingested"}, p : Proposals, with : Nat, seen : Nat]
      BY <1>2
    <3> HIDE DEF r
    <3> QED BY <3>1 DEF Reviews
  <2>4. review' = n
    BY <1>2, <1>5
  <2> HIDE DEF n
  <2> QED BY <1>1, <1>3, <2>2, <2>3, <2>4 DEF RetentionInv, RetentionType, JudgedAsRead, StagedIsOut
<1> QED BY <1>4, <1>5 DEF Proposed!Ingest

(* A checkpoint puts the experience into the outbox before the record lets   *)
(* go of it.                                                                 *)
LEMMA OrderOfStages == Proposed!StageOrder[1] = "outbox" /\ Proposed!StageOrder[2] = "queue"
BY DEF Proposed!StageOrder

LEMMA Stages == ASSUME RetentionInv, NEW p \in Proposals, Proposed!Stage(p) PROVE RetentionInv'
<1>1. /\ outbox' = outbox \cup {p} /\ UNCHANGED <<queue, saved, pages, library, missing, delivered, token>>
  BY OrderOfStages DEF Proposed!Stage, Proposed!StageStep, Proposed!world
<1>2. review' = [at |-> "staged", p |-> p]
  BY DEF Proposed!Stage
<1>3. review' \in Reviews /\ review'.at = "staged" /\ review'.p \in outbox'
  BY <1>1, <1>2 DEF Reviews
<1>4. KeptEvidence'
  BY <1>1 DEF RetentionInv, KeptEvidence, Safe
<1> QED BY <1>1, <1>3, <1>4 DEF RetentionInv, RetentionType, JudgedAsRead, StagedIsOut

LEMMA Releases == ASSUME RetentionInv, Proposed!Release PROVE RetentionInv'
<1>1. review.p \in Proposals /\ queue[review.p] \in Record /\ review.p \in outbox
  BY ReviewOf DEF RetentionInv, StagedIsOut, Proposed!Release
<1>2. /\ queue' = [queue EXCEPT ![review.p].held = FALSE] /\ Proposed!Save(queue') /\ review' = [at |-> "flush"]
      /\ UNCHANGED <<outbox, pages, library, missing, delivered, token>>
  BY OrderOfStages DEF Proposed!Release, Proposed!StageStep, Proposed!world
<1> DEFINE r == [queue[review.p] EXCEPT !.held = FALSE]
<1>3. queue' = [queue EXCEPT ![review.p] = r]
  BY <1>2
<1>4. r \in Record
  BY <1>1 DEF Record
<1> HIDE DEF r
<1>5. queue' \in [Proposals -> Record] /\ saved' \in [Proposals -> Record] /\ KeptEvidence'
  BY <1>1, <1>2, <1>3, <1>4, SaveWrites, Rewrites
<1>6. pages' \in [Proposals -> Written] /\ library' \in Nat /\ token' \in [Proposals -> Nat]
  BY <1>2 DEF RetentionInv, RetentionType
<1> QED BY <1>2, <1>5, <1>6, GoesOn

LEMMA Flushes == ASSUME RetentionInv, Proposed!Flush PROVE RetentionInv'
<1>1. /\ review' = Proposed!NoReview /\ saved' = queue /\ UNCHANGED <<queue, pages, library, token>>
      /\ outbox \cup delivered \subseteq outbox' \cup delivered'
  BY DEF Proposed!Flush, Proposed!Done
<1>2. KeptEvidence'
  BY <1>1 DEF RetentionInv, KeptEvidence, Safe
<1> QED BY <1>1, <1>2, GoesOn DEF RetentionInv, RetentionType

LEMMA Retries == ASSUME RetentionInv, NEW p \in Proposals, Proposed!Retry(p) PROVE RetentionInv'
<1>1. /\ UNCHANGED <<outbox, pages, library, missing, delivered, token, review>> /\ Proposed!Save(queue')
      /\ review = Proposed!NoReview
      /\ \E invalid \in BOOLEAN : queue' = [queue EXCEPT ![p] = IF invalid THEN Proposed!Failed(queue[p], TRUE)
                                                                ELSE Proposed!Deferred(queue[p])]
  BY DEF Proposed!Retry, Proposed!world
<1>2. queue[p] \in Record /\ (queue[p].captured => queue[p].held \/ p \in outbox \cup delivered)
  BY DEF RetentionInv, RetentionType, KeptEvidence, Safe
<1>3. PICK r \in {Proposed!Failed(queue[p], TRUE), Proposed!Deferred(queue[p])} : queue' = [queue EXCEPT ![p] = r]
  BY <1>1
<1>4. r \in Record /\ r.held = queue[p].held /\ r.captured = queue[p].captured
  BY <1>2, FailedRecord, DeferredRecord
<1>5. queue' \in [Proposals -> Record] /\ saved' \in [Proposals -> Record] /\ KeptEvidence'
  BY <1>1, <1>2, <1>3, <1>4, SaveWrites, Rewrites
<1> QED BY <1>1, <1>5, GoesOn DEF RetentionInv, RetentionType

(* What leaves the queue and its file as they are, and a crash, which takes  *)
(* the queue back to its file.                                               *)
LEMMA LeavesQueue ==
    ASSUME RetentionInv,
           \/ Proposed!NothingToStage \/ Proposed!ChangeLibrary \/ Proposed!Crash
           \/ \E p \in Proposals : Proposed!RetractSources(p)
           \/ UNCHANGED retentionVars
    PROVE  RetentionInv'
<1>1. CASE Proposed!NothingToStage
  <2>1. /\ UNCHANGED <<queue, saved, outbox, pages, library, missing, delivered, token>>
        /\ review' \in {Proposed!NoReview, [at |-> "flush"]}
    BY <1>1 DEF Proposed!NothingToStage, Proposed!Done, Proposed!disk, Proposed!world
  <2> QED BY <2>1, GoesOn DEF RetentionInv, RetentionType, KeptEvidence, Safe
<1>2. CASE Proposed!Crash
  <2>1. /\ queue' = saved /\ UNCHANGED <<saved, outbox, pages, library, missing, delivered, token>>
        /\ review' = Proposed!NoReview
    BY <1>2 DEF Proposed!Crash, Proposed!Done, Proposed!disk, Proposed!world
  <2> QED BY <2>1, GoesOn DEF RetentionInv, RetentionType, KeptEvidence, Safe
<1>3. CASE Proposed!ChangeLibrary \/ (\E p \in Proposals : Proposed!RetractSources(p)) \/ UNCHANGED retentionVars
  <2>1. UNCHANGED <<queue, saved, outbox, pages, delivered, token, review>> /\ library' \in {library, library + 1}
    BY <1>3 DEF Proposed!ChangeLibrary, Proposed!RetractSources, Proposed!disk, retentionVars
  <2>2. library' \in Nat
    BY <2>1 DEF RetentionInv, RetentionType
  <2> QED BY <2>1, <2>2 DEF RetentionInv, RetentionType, KeptEvidence, Safe, JudgedAsRead, StagedIsOut
<1> QED BY <1>1, <1>2, <1>3

LEMMA RetainedCardinality == \A some : Proposed!Cardinality(some) = Cardinality(some)
BY DEF Proposed!Cardinality, Cardinality

(* A proposal is written at most once, by a review of the very evidence that *)
(* was read when it was submitted, and the evidence of a captured experience *)
(* is in the record, the outbox or the Store, whatever crashes, failed saves *)
(* and changes of the library come between the calls: for every number of    *)
(* proposals, versions and faults (continuity/retention.rs, store.rs).       *)
THEOREM RetentionStaysExact == Spec => []RetentionIsExact
<1>1. RetentionInv /\ [Next]_memoryVars => RetentionInv'
  <2> SUFFICES ASSUME RetentionInv, [Next]_memoryVars PROVE RetentionInv'
    OBVIOUS
  <2>1. CASE Proposed!Next
    BY <2>1, Submits, Concludes, AcceptsReview, Ingests, Stages, Releases, Flushes, Retries, LeavesQueue
       DEF Proposed!Next
  <2> QED BY <2>1, LeavesQueue DEF Next, memoryVars
<1>2. RetentionInv => RetentionIsExact
  <2> SUFFICES ASSUME RetentionInv, NEW p \in Proposals
               PROVE  /\ Cardinality(pages[p]) <= 1 /\ \A page \in pages[p] : page.reviewed = page.read
                      /\ saved[p].captured => saved[p].held \/ p \in outbox \/ p \in delivered
    BY RetainedCardinality DEF RetentionIsExact, Proposed!WrittenOnceAsReviewed, Proposed!EvidenceIsNotLost
  <2>1. pages[p] = {} \/ \E v : pages[p] = {PageOf(v)}
    BY DEF RetentionInv, RetentionType, Written
  <2>2. Cardinality(pages[p]) <= 1
    BY <2>1, FS_EmptySet, FS_Singleton
  <2> QED BY <2>1, <2>2 DEF PageOf, RetentionInv, KeptEvidence, Safe
<1> QED BY RetentionInit, <1>1, <1>2, PTL DEF Spec

-----------------------------------------------------------------------------
(* The hunches.                                                              *)

Rev == [id : Nat \ {0}, page : HunchPages, base : Nat, active : BOOLEAN, attention : Curiosity!Attention]
Patch == [page : HunchPages, base : Nat \ {0}, active : BOOLEAN, attention : Curiosity!Attention]

HunchType ==
    /\ documents \in [HunchPages -> {Curiosity!Absent} \cup Rev]
    /\ \A p \in HunchPages : documents[p] # Curiosity!Absent => documents[p].page = p
    /\ history \subseteq Rev
    /\ issued \in Nat \ {0}
    /\ writing \in [Curiosity!Writers -> {Curiosity!Nothing} \cup Patch]

(* What can be read of a page is no newer than its document, and follows a   *)
(* revision that is older still.                                             *)
InLine ==
    \A d \in Curiosity!Readable :
        /\ d \in Rev /\ d.id <= issued /\ d.base < d.id
        /\ documents[d.page] # Curiosity!Absent /\ d.id <= documents[d.page].id

(* What a run wrote and what a message showed can be read.                   *)
Traced(ids) == \A s \in ids : \E d \in Curiosity!Readable : d.id = s
IdsOf(revisions_) == {d.id : d \in revisions_}
WroteIsTraced == Traced(IdsOf(codexRun.wrote)) /\ "wrote" \in DOMAIN codexRun

HunchInv ==
    HunchType /\ InLine /\ Curiosity!NoRevisionIsForked /\ WroteIsTraced /\ Curiosity!ShownStaysReadable

LEMMA HunchInit == Init => HunchInv
<1> SUFFICES ASSUME Curiosity!Init PROVE HunchInv
  BY DEF Init
<1> DEFINE r(p) == Curiosity!Revision(p, 1, 0, TRUE, "ready")
<1>1. PICK old \in {{}} \cup {{p} : p \in HunchPages} :
          documents = [p \in HunchPages |-> IF p \in old THEN r(p) ELSE Curiosity!Absent]
  BY DEF Curiosity!Init
<1>2. \A p \in HunchPages : r(p) \in Rev /\ r(p).page = p /\ r(p).id = 1 /\ r(p).base = 0 /\ r(p) # Curiosity!Absent
  <2> SUFFICES ASSUME NEW p \in HunchPages
               PROVE  r(p) \in Rev /\ r(p).page = p /\ r(p).id = 1 /\ r(p).base = 0 /\ r(p) # Curiosity!Absent
    OBVIOUS
  <2>1. r(p) \in Rev /\ r(p).page = p /\ r(p).id = 1 /\ r(p).base = 0
    BY DEF Curiosity!Revision, Rev, Curiosity!Attention
  <2>2. Curiosity!Absent.id = 0
    BY DEF Curiosity!Absent
  <2> HIDE DEF r
  <2> QED BY <2>1, <2>2
<1> HIDE DEF r
<1>3. /\ history = {} /\ issued = 1 /\ writing = [w \in Curiosity!Writers |-> Curiosity!Nothing]
      /\ codexRun.wrote = {} /\ "wrote" \in DOMAIN codexRun /\ shownIn = {}
  BY DEF Curiosity!Init, Curiosity!NoRun
<1>4. HunchType
  BY <1>1, <1>2, <1>3 DEF HunchType
<1>5. \A d \in Curiosity!Readable : \E p \in HunchPages : documents[p] = r(p) /\ d = r(p)
  BY <1>1, <1>3 DEF Curiosity!Readable, Curiosity!Current, Curiosity!Kept
<1>6. InLine
  BY <1>2, <1>3, <1>5 DEF InLine
<1>7. Curiosity!NoRevisionIsForked
  BY <1>2, <1>5 DEF Curiosity!NoRevisionIsForked
<1>8. IdsOf(codexRun.wrote) = {} /\ UNION shownIn = {}
  BY <1>3 DEF IdsOf
<1> QED BY <1>3, <1>4, <1>6, <1>7, <1>8 DEF HunchInv, WroteIsTraced, Traced, Curiosity!ShownStaysReadable

(* A new revision of a page: the one it replaces, if any, is archived, and   *)
(* nothing that could be read is lost.                                       *)
Replaces(n) ==
    /\ n \in Rev /\ n.id = issued + 1 /\ n.base = documents[n.page].id
    /\ documents' = [documents EXCEPT ![n.page] = n]
    /\ history' = history \cup {d \in Curiosity!Current : d.page = n.page}
    /\ issued' = issued + 1

LEMMA ReplacesKeeps ==
    ASSUME HunchType, InLine, Curiosity!NoRevisionIsForked, NEW n, Replaces(n)
    PROVE  /\ Curiosity!Readable' = Curiosity!Readable \cup {n}
           /\ InLine' /\ Curiosity!NoRevisionIsForked'
           /\ documents' \in [HunchPages -> {Curiosity!Absent} \cup Rev]
           /\ \A p \in HunchPages : documents'[p] # Curiosity!Absent => documents'[p].page = p
           /\ history' \subseteq Rev /\ issued' \in Nat \ {0}
<1>1. /\ n \in Rev /\ n.page \in HunchPages /\ n.id = issued + 1 /\ n.base = documents[n.page].id
      /\ issued \in Nat \ {0} /\ n # Curiosity!Absent
  <2>1. n \in Rev /\ n.page \in HunchPages /\ n.id = issued + 1 /\ n.base = documents[n.page].id /\ issued \in Nat \ {0}
    BY DEF Replaces, HunchType, Rev
  <2> QED BY <2>1 DEF Curiosity!Absent
<1>2. /\ documents' \in [HunchPages -> {Curiosity!Absent} \cup Rev]
      /\ documents'[n.page] = n /\ \A p \in HunchPages \ {n.page} : documents'[p] = documents[p]
  BY <1>1 DEF Replaces, HunchType
<1>3. \A p \in HunchPages : documents'[p] # Curiosity!Absent => documents'[p].page = p
  BY <1>1, <1>2 DEF HunchType
<1>4. \A d : d \in Curiosity!Current <=> \E p \in HunchPages : documents[p] # Curiosity!Absent /\ d = documents[p]
  BY DEF Curiosity!Current, Curiosity!Kept
<1>5. \A d : d \in Curiosity!Current' <=> \E p \in HunchPages : documents'[p] # Curiosity!Absent /\ d = documents'[p]
  BY DEF Curiosity!Current, Curiosity!Kept
<1>6. n \in Curiosity!Current'
  BY <1>1, <1>2, <1>5
<1>7. Curiosity!Readable' = Curiosity!Readable \cup {n}
  <2>1. ASSUME NEW d \in Curiosity!Current, d.page # n.page PROVE d \in Curiosity!Current'
    <3>1. PICK p \in HunchPages : documents[p] # Curiosity!Absent /\ d = documents[p]
      BY <1>4, <2>1
    <3>2. p # n.page
      BY <2>1, <3>1 DEF HunchType
    <3> QED BY <1>2, <1>5, <3>1, <3>2
  <2>2. ASSUME NEW d \in Curiosity!Current' PROVE d = n \/ d \in Curiosity!Current
    <3>1. PICK p \in HunchPages : documents'[p] # Curiosity!Absent /\ d = documents'[p]
      BY <1>5, <2>2
    <3> QED BY <1>2, <1>4, <3>1
  <2>3. history' = history \cup {d \in Curiosity!Current : d.page = n.page}
    BY DEF Replaces
  <2> QED BY <1>6, <2>1, <2>2, <2>3 DEF Curiosity!Readable
<1>8. documents[n.page].id \in Nat /\ documents[n.page].id <= issued
  <2>1. CASE documents[n.page] = Curiosity!Absent
    BY <1>1, <2>1 DEF Curiosity!Absent
  <2>2. CASE documents[n.page] # Curiosity!Absent
    <3>1. documents[n.page] \in Curiosity!Readable
      BY <1>1, <1>4, <2>2 DEF Curiosity!Readable
    <3> QED BY <3>1 DEF InLine, Rev
  <2> QED BY <2>1, <2>2
<1>9. InLine'
  <2> SUFFICES ASSUME NEW d \in Curiosity!Readable'
               PROVE  /\ d \in Rev /\ d.id <= issued' /\ d.base < d.id
                      /\ documents'[d.page] # Curiosity!Absent /\ d.id <= documents'[d.page].id
    BY DEF InLine
  <2>1. issued' = issued + 1
    BY DEF Replaces
  <2>2. CASE d = n
    BY <1>1, <1>2, <1>8, <2>1, <2>2 DEF Rev
  <2>3. CASE d \in Curiosity!Readable
    <3>1. /\ d \in Rev /\ d.id \in Nat /\ d.page \in HunchPages /\ d.id <= issued /\ d.base < d.id
          /\ documents[d.page] # Curiosity!Absent /\ d.id <= documents[d.page].id
      BY <2>3 DEF InLine, Rev
    <3>2. CASE d.page = n.page
      BY <1>1, <1>2, <2>1, <3>1, <3>2
    <3>3. CASE d.page # n.page
      BY <1>1, <1>2, <2>1, <3>1, <3>3
    <3> QED BY <3>2, <3>3
  <2> QED BY <1>7, <2>2, <2>3
<1>10. Curiosity!NoRevisionIsForked'
  <2> SUFFICES ASSUME NEW d \in Curiosity!Readable', NEW e \in Curiosity!Readable', d.page = e.page, d.base = e.base
               PROVE  d = e
    BY DEF Curiosity!NoRevisionIsForked
  <2>1. ASSUME NEW f \in Curiosity!Readable, f.page = n.page PROVE f.base # n.base
    <3>1. f.base \in Nat /\ f.id \in Nat /\ f.base < f.id /\ f.id <= documents[n.page].id
      BY <2>1 DEF InLine, Rev
    <3> QED BY <1>1, <1>8, <3>1
  <2> QED BY <1>7, <2>1 DEF Curiosity!NoRevisionIsForked
<1>11. history' \subseteq Rev
  BY <1>4 DEF Replaces, HunchType
<1>12. issued' \in Nat \ {0}
  BY <1>1 DEF Replaces
<1> QED BY <1>2, <1>3, <1>7, <1>9, <1>10, <1>11, <1>12

(* A step that revises nothing: what is kept stays, what a run wrote and a   *)
(* message shows comes from what was traced.                                 *)
LEMMA RevisesNothing ==
    ASSUME HunchInv, UNCHANGED <<documents, history, issued>>,
           writing' \in [Curiosity!Writers -> {Curiosity!Nothing} \cup Patch],
           IdsOf(codexRun.wrote)' \subseteq IdsOf(codexRun.wrote), "wrote" \in DOMAIN codexRun',
           \A s \in UNION shownIn' : s \in UNION shownIn \/ s \in IdsOf(codexRun.wrote)
    PROVE  HunchInv'
<1>1. Curiosity!Readable' = Curiosity!Readable
  BY DEF Curiosity!Readable, Curiosity!Current, Curiosity!Kept
<1>2. HunchType' /\ InLine' /\ Curiosity!NoRevisionIsForked'
  BY <1>1 DEF HunchInv, HunchType, InLine, Curiosity!NoRevisionIsForked
<1>3. WroteIsTraced'
  BY <1>1 DEF HunchInv, WroteIsTraced, Traced
<1>4. Curiosity!ShownStaysReadable'
  <2> SUFFICES ASSUME NEW s \in UNION shownIn' PROVE \E d \in Curiosity!Readable' : d.id = s
    BY DEF Curiosity!ShownStaysReadable
  <2>1. s \in UNION shownIn \/ s \in IdsOf(codexRun.wrote)
    OBVIOUS
  <2>2. \E d \in Curiosity!Readable : d.id = s
    BY <2>1 DEF HunchInv, WroteIsTraced, Traced, Curiosity!ShownStaysReadable
  <2> QED BY <1>1, <2>2
<1> QED BY <1>2, <1>3, <1>4 DEF HunchInv

(* A step that revises a page: the run that did so wrote what can be read.   *)
LEMMA Revises ==
    ASSUME HunchInv, NEW n, Replaces(n),
           writing' \in [Curiosity!Writers -> {Curiosity!Nothing} \cup Patch],
           IdsOf(codexRun.wrote)' \subseteq IdsOf(codexRun.wrote) \cup {n.id}, "wrote" \in DOMAIN codexRun',
           UNION shownIn' = UNION shownIn
    PROVE  HunchInv'
<1>1. /\ Curiosity!Readable' = Curiosity!Readable \cup {n}
      /\ InLine' /\ Curiosity!NoRevisionIsForked'
      /\ documents' \in [HunchPages -> {Curiosity!Absent} \cup Rev]
      /\ \A p \in HunchPages : documents'[p] # Curiosity!Absent => documents'[p].page = p
      /\ history' \subseteq Rev /\ issued' \in Nat \ {0}
  BY ReplacesKeeps DEF HunchInv
<1>2. HunchType'
  BY <1>1 DEF HunchType
<1>3. WroteIsTraced'
  BY <1>1 DEF HunchInv, WroteIsTraced, Traced
<1>4. Curiosity!ShownStaysReadable'
  BY <1>1 DEF HunchInv, Curiosity!ShownStaysReadable
<1> QED BY <1>1, <1>2, <1>3, <1>4 DEF HunchInv

(* A writer reads the revision it will write over, or writes over it, or     *)
(* finds that it is no longer the current one.                               *)
LEMMA ReadsPatch ==
    ASSUME HunchInv, NEW w \in Curiosity!Writers, NEW d \in Curiosity!Readable, NEW active \in BOOLEAN,
           NEW attention \in Curiosity!Attention, Curiosity!Reads(w, d, active, attention)
    PROVE  writing' \in [Curiosity!Writers -> {Curiosity!Nothing} \cup Patch]
<1> DEFINE x == [page |-> d.page, base |-> d.id, active |-> active, attention |-> attention]
<1>1. d \in Rev /\ writing \in [Curiosity!Writers -> {Curiosity!Nothing} \cup Patch]
  BY DEF HunchInv, InLine, HunchType
<1>2. x \in Patch
  BY <1>1 DEF Patch, Rev
<1>3. writing' = [writing EXCEPT ![w] = x]
  BY DEF Curiosity!Reads
<1> HIDE DEF x
<1> QED BY <1>1, <1>2, <1>3

LEMMA WritesReplace ==
    ASSUME HunchInv, NEW w \in Curiosity!Writers, Curiosity!Writes(w)
    PROVE  /\ writing' \in [Curiosity!Writers -> {Curiosity!Nothing} \cup Patch]
           /\ \E n : Replaces(n) /\ n.id = issued'
<1>1. writing[w] \in Patch /\ HunchType
  BY DEF HunchInv, HunchType, Curiosity!Writes
<1> DEFINE p == writing[w].page
           b == writing[w].base
           n == Curiosity!Revision(p, issued + 1, b, writing[w].active, writing[w].attention)
<1>2. /\ documents[p].id = b /\ issued' = issued + 1 /\ documents' = [documents EXCEPT ![p] = n]
      /\ history' = history \cup {d \in Curiosity!Current : d.page = p /\ d.id = b}
      /\ writing' = [writing EXCEPT ![w] = Curiosity!Nothing]
  BY DEF Curiosity!Writes, Curiosity!Expected, Curiosity!Archived
<1>3. n \in Rev /\ n.id = issued + 1 /\ n.base = b /\ n.page = p
  BY <1>1 DEF Curiosity!Revision, Rev, Patch, HunchType
<1>4. \A d \in Curiosity!Current : d.page = p => d.id = b
  BY <1>1, <1>2 DEF Curiosity!Current, Curiosity!Kept, HunchType
<1> HIDE DEF n, p, b
<1>5. Replaces(n)
  BY <1>2, <1>3, <1>4 DEF Replaces
<1>6. writing' \in [Curiosity!Writers -> {Curiosity!Nothing} \cup Patch]
  BY <1>1, <1>2 DEF HunchType
<1> QED BY <1>2, <1>3, <1>5, <1>6

LEMMA RefusedPatch ==
    ASSUME HunchInv, NEW w \in Curiosity!Writers, Curiosity!Refused(w)
    PROVE  writing' \in [Curiosity!Writers -> {Curiosity!Nothing} \cup Patch]
BY DEF HunchInv, HunchType, Curiosity!Refused

(* What a run wrote, with the revision it has just written.                  *)
LEMMA WroteIds ==
    ASSUME NEW p, codexRun' = [codexRun EXCEPT !.wrote = Curiosity!Wrote(p)], "wrote" \in DOMAIN codexRun
    PROVE  /\ IdsOf(codexRun.wrote)' \subseteq IdsOf(codexRun.wrote) \cup {issued'}
           /\ "wrote" \in DOMAIN codexRun'
BY DEF IdsOf, Curiosity!Wrote

LEMMA RevisionSteps ==
    ASSUME HunchInv,
           \/ \E p \in HunchPages : Curiosity!OpenHunch(p)
           \/ Curiosity!ToolWrites \/ Curiosity!SurfacedWritten \/ Curiosity!FeedbackWritten
    PROVE  HunchInv'
<1>1. "wrote" \in DOMAIN codexRun /\ HunchType
  BY DEF HunchInv, WroteIsTraced
<1>2. ASSUME NEW p \in HunchPages, Curiosity!OpenHunch(p) PROVE HunchInv'
  <2> DEFINE n == Curiosity!Revision(p, issued + 1, 0, TRUE, "ready")
  <2>1. n \in Rev /\ n.id = issued + 1 /\ n.base = 0 /\ n.page = p
    BY <1>1 DEF Curiosity!Revision, Rev, HunchType, Curiosity!Attention
  <2>2. /\ documents[p] = Curiosity!Absent /\ issued' = issued + 1
        /\ documents' = [documents EXCEPT ![p] = n] /\ UNCHANGED <<history, writing, shownIn>>
        /\ codexRun' = [codexRun EXCEPT !.wrote = Curiosity!Wrote(p)]
    BY <1>2 DEF Curiosity!OpenHunch
  <2> HIDE DEF n
  <2>3. \A d \in Curiosity!Current : d.page # p
    BY <1>1, <2>2 DEF Curiosity!Current, Curiosity!Kept, HunchType
  <2>4. documents[p].id = 0
    BY <2>2 DEF Curiosity!Absent
  <2>5. Replaces(n)
    BY <2>1, <2>2, <2>3, <2>4 DEF Replaces
  <2>6. IdsOf(codexRun.wrote)' \subseteq IdsOf(codexRun.wrote) \cup {n.id} /\ "wrote" \in DOMAIN codexRun'
    BY <1>1, <2>1, <2>2, WroteIds
  <2> QED BY <1>1, <2>2, <2>5, <2>6, Revises DEF HunchType
<1>3. CASE Curiosity!ToolWrites
  <2>1. /\ Curiosity!Writes("tool") /\ UNCHANGED shownIn
        /\ codexRun' = [codexRun EXCEPT !.wrote = Curiosity!Wrote(writing["tool"].page)]
    BY <1>3 DEF Curiosity!ToolWrites
  <2>2. PICK n : Replaces(n) /\ n.id = issued'
    BY <2>1, WritesReplace DEF Curiosity!Writers
  <2>3. writing' \in [Curiosity!Writers -> {Curiosity!Nothing} \cup Patch]
    BY <2>1, WritesReplace DEF Curiosity!Writers
  <2>4. IdsOf(codexRun.wrote)' \subseteq IdsOf(codexRun.wrote) \cup {n.id} /\ "wrote" \in DOMAIN codexRun'
    BY <1>1, <2>1, <2>2, WroteIds
  <2> QED BY <2>1, <2>2, <2>3, <2>4, Revises
<1>4. ASSUME NEW w \in Curiosity!Writers, Curiosity!Writes(w), UNCHANGED <<codexRun, shownIn>> PROVE HunchInv'
  <2>1. PICK n : Replaces(n) /\ n.id = issued'
    BY <1>4, WritesReplace
  <2>2. writing' \in [Curiosity!Writers -> {Curiosity!Nothing} \cup Patch]
    BY <1>4, WritesReplace
  <2>3. IdsOf(codexRun.wrote)' = IdsOf(codexRun.wrote)
    BY <1>4 DEF IdsOf
  <2> QED BY <1>1, <1>4, <2>1, <2>2, <2>3, Revises
<1>5. CASE Curiosity!SurfacedWritten \/ Curiosity!FeedbackWritten
  <2>1. \E w \in Curiosity!Writers : Curiosity!Writes(w) /\ UNCHANGED <<codexRun, shownIn>>
    BY <1>5 DEF Curiosity!SurfacedWritten, Curiosity!FeedbackWritten, Curiosity!Writers
  <2> QED BY <1>4, <2>1
<1> QED BY <1>2, <1>3, <1>5

LEMMA ReadingSteps ==
    ASSUME HunchInv,
           \/ \E d \in Curiosity!Readable :
                 Curiosity!ReviseHunch(d) \/ Curiosity!RetireHunch(d)
                 \/ Curiosity!AcknowledgeHunchFeedback(d) \/ Curiosity!MarkSurfaced(d)
           \/ \E s \in 1..MaxHunchRevisions : Curiosity!MarkFeedback(s)
           \/ Curiosity!ToolRefused \/ Curiosity!SurfacedRefused \/ Curiosity!FeedbackRefused
    PROVE  HunchInv'
<1>1. UNCHANGED <<documents, history, issued, codexRun, shownIn>>
  BY DEF Curiosity!ReviseHunch, Curiosity!RetireHunch, Curiosity!AcknowledgeHunchFeedback, Curiosity!MarkSurfaced,
         Curiosity!MarkFeedback, Curiosity!ToolRefused, Curiosity!SurfacedRefused, Curiosity!FeedbackRefused,
         Curiosity!Refused
<1>2. \A d \in Curiosity!Readable : d.active \in BOOLEAN /\ d.attention \in Curiosity!Attention
  BY DEF HunchInv, InLine, Rev
<1>3. Curiosity!Current \subseteq Curiosity!Readable /\ writing \in [Curiosity!Writers -> {Curiosity!Nothing} \cup Patch]
  BY DEF Curiosity!Readable, HunchInv, HunchType
<1>4. {"ready", "awaiting_user", "feedback_pending", "cooldown"} \subseteq Curiosity!Attention /\ {"tool", "pass", "send"} \subseteq Curiosity!Writers
  BY DEF Curiosity!Attention, Curiosity!Writers
<1>5. ASSUME \E w \in Curiosity!Writers, d \in Curiosity!Readable, active \in BOOLEAN, attention \in Curiosity!Attention :
                 Curiosity!Reads(w, d, active, attention)
      PROVE  writing' \in [Curiosity!Writers -> {Curiosity!Nothing} \cup Patch]
  BY <1>5, ReadsPatch
<1>6. writing' \in [Curiosity!Writers -> {Curiosity!Nothing} \cup Patch]
  <2>1. ASSUME NEW d \in Curiosity!Readable, Curiosity!ReviseHunch(d)
        PROVE  writing' \in [Curiosity!Writers -> {Curiosity!Nothing} \cup Patch]
    <3>1. PICK active \in {TRUE, d.active}, attention \in {"cooldown", d.attention} :
              Curiosity!Reads("tool", d, active, attention)
      BY <2>1 DEF Curiosity!ReviseHunch
    <3>2. active \in BOOLEAN /\ attention \in Curiosity!Attention /\ "tool" \in Curiosity!Writers
      BY <1>2, <1>4
    <3> QED BY <1>5, <3>1, <3>2
  <2>2. ASSUME NEW d \in Curiosity!Readable, Curiosity!RetireHunch(d) \/ Curiosity!AcknowledgeHunchFeedback(d)
        PROVE  writing' \in [Curiosity!Writers -> {Curiosity!Nothing} \cup Patch]
    <3>1. PICK active \in {FALSE, d.active}, attention \in {"cooldown", d.attention} :
              Curiosity!Reads("tool", d, active, attention)
      BY <2>2 DEF Curiosity!RetireHunch, Curiosity!AcknowledgeHunchFeedback
    <3>2. active \in BOOLEAN /\ attention \in Curiosity!Attention /\ "tool" \in Curiosity!Writers
      BY <1>2, <1>4
    <3> QED BY <1>5, <3>1, <3>2
  <2>3. ASSUME NEW d \in Curiosity!Readable, Curiosity!MarkSurfaced(d)
        PROVE  writing' \in [Curiosity!Writers -> {Curiosity!Nothing} \cup Patch]
    <3>1. UNCHANGED writing \/ Curiosity!Reads("pass", d, TRUE, "awaiting_user")
      BY <2>3 DEF Curiosity!MarkSurfaced
    <3> QED BY <1>3, <1>4, <1>5, <3>1
  <2>4. ASSUME NEW s, Curiosity!MarkFeedback(s)
        PROVE  writing' \in [Curiosity!Writers -> {Curiosity!Nothing} \cup Patch]
    <3>1. UNCHANGED writing \/ \E d \in Curiosity!Current : Curiosity!Reads("send", d, TRUE, "feedback_pending")
      BY <2>4 DEF Curiosity!MarkFeedback
    <3> QED BY <1>3, <1>4, <1>5, <3>1
  <2>5. ASSUME \E w \in Curiosity!Writers : Curiosity!Refused(w)
        PROVE  writing' \in [Curiosity!Writers -> {Curiosity!Nothing} \cup Patch]
    BY <2>5, RefusedPatch
  <2> QED BY <1>4, <2>1, <2>2, <2>3, <2>4, <2>5
          DEF Curiosity!ToolRefused, Curiosity!SurfacedRefused, Curiosity!FeedbackRefused
<1>7. IdsOf(codexRun.wrote)' = IdsOf(codexRun.wrote) /\ "wrote" \in DOMAIN codexRun'
  BY <1>1 DEF IdsOf, HunchInv, WroteIsTraced
<1> QED BY <1>1, <1>6, <1>7, RevisesNothing

LEMMA RunSteps ==
    ASSUME HunchInv,
           \/ \E origin \in {"interactive", "autonomous", "reflection"} : Curiosity!BeginRun(origin)
           \/ Curiosity!RunEnds \/ Curiosity!PublishOutreach \/ Curiosity!ReflectionEnds \/ Curiosity!Restart
           \/ (\E m \in shownIn : Curiosity!Answer(m)) \/ Curiosity!RecordFeedback \/ UNCHANGED hunchVars
    PROVE  HunchInv'
<1>1. UNCHANGED <<documents, history, issued>>
  BY DEF Curiosity!BeginRun, Curiosity!RunEnds, Curiosity!PublishOutreach, Curiosity!ReflectionEnds, Curiosity!Restart,
         Curiosity!Answer, Curiosity!RecordFeedback, hunchVars
<1>2. writing' \in [Curiosity!Writers -> {Curiosity!Nothing} \cup Patch]
  BY DEF Curiosity!BeginRun, Curiosity!RunEnds, Curiosity!PublishOutreach, Curiosity!ReflectionEnds, Curiosity!Restart,
         Curiosity!Answer, Curiosity!RecordFeedback, hunchVars, HunchInv, HunchType
<1>3. \/ codexRun' = codexRun
      \/ codexRun'.wrote = {} /\ "wrote" \in DOMAIN codexRun'
  BY DEF Curiosity!BeginRun, Curiosity!RunEnds, Curiosity!PublishOutreach, Curiosity!ReflectionEnds, Curiosity!Restart,
         Curiosity!Answer, Curiosity!RecordFeedback, hunchVars, Curiosity!NoRun
<1>4. IdsOf(codexRun.wrote)' \subseteq IdsOf(codexRun.wrote) /\ "wrote" \in DOMAIN codexRun'
  BY <1>3 DEF IdsOf, HunchInv, WroteIsTraced
<1>5. shownIn' = shownIn \/ shownIn' = shownIn \cup {IdsOf(codexRun.wrote)}
  BY DEF Curiosity!BeginRun, Curiosity!RunEnds, Curiosity!PublishOutreach, Curiosity!ReflectionEnds, Curiosity!Restart,
         Curiosity!Answer, Curiosity!RecordFeedback, hunchVars, IdsOf
<1>6. \A s \in UNION shownIn' : s \in UNION shownIn \/ s \in IdsOf(codexRun.wrote)
  <2> SUFFICES ASSUME NEW s \in UNION shownIn' PROVE s \in UNION shownIn \/ s \in IdsOf(codexRun.wrote)
    OBVIOUS
  <2> PICK m \in shownIn' : s \in m
    OBVIOUS
  <2>1. m \in shownIn \/ m = IdsOf(codexRun.wrote)
    BY <1>5
  <2> QED BY <2>1
<1> QED BY <1>1, <1>2, <1>4, <1>6, RevisesNothing

(* The revisions of a hunch form one line, although tools, passes and the    *)
(* handler of an answer each read a revision long before they write over it, *)
(* and whatever a message showed can still be read, for any number of pages, *)
(* revisions and restarts (curiosity.rs, symbiont_state.rs).                 *)
THEOREM HunchesAreWhole == Spec => []HunchesStayWhole
<1>1. HunchInv /\ [Next]_memoryVars => HunchInv'
  <2> SUFFICES ASSUME HunchInv, [Next]_memoryVars PROVE HunchInv'
    OBVIOUS
  <2>1. CASE Curiosity!Next
    BY <2>1, RevisionSteps, ReadingSteps, RunSteps DEF Curiosity!Next
  <2>2. CASE UNCHANGED hunchVars
    BY <2>2, RunSteps
  <2> QED BY <2>1, <2>2 DEF Next, memoryVars
<1>2. HunchInv => HunchesStayWhole
  <2> SUFFICES ASSUME HunchInv PROVE Curiosity!TypeOK
    BY DEF HunchInv, HunchesStayWhole
  <2>1. \A d \in Curiosity!Readable : d.id \in 1..issued /\ d.page \in HunchPages /\ d.attention \in Curiosity!Attention
    BY DEF HunchInv, HunchType, InLine, Rev
  <2>2. UNION shownIn \subseteq 1..issued
    BY <2>1 DEF HunchInv, Curiosity!ShownStaysReadable
  <2> QED BY <2>1, <2>2 DEF Curiosity!TypeOK
<1> QED BY HunchInit, <1>1, <1>2, PTL DEF Spec

-----------------------------------------------------------------------------
(* The compute rules.                                                        *)

Policy == [id : Nat \X Nat, topic : RuleTopics, lane : Ruled!Deep, enabled : {TRUE}]
Steps == {"none", "changed", "encoded", "written", "done"}

(* The edits that have begun, and the rules they may have made up ids for.   *)
Begun == {e \in Ruled!Edits : saving[e].step # "none"}
Good(some, begun) ==
    /\ some \in Seq(Policy) /\ Ruled!Valid(some)
    /\ \A i \in 1..Len(some) : some[i].id = <<0, 1>> \/ some[i].id[1] \in begun

PolicyType == saving \in [Ruled!Edits -> [step : Steps, text : Seq(Policy)]]
RulesAreGood ==
    /\ Good(policies, Begun) /\ Good(policyFile, Begun)
    /\ \A some \in policyTemp : Good(some, Begun)
    /\ \A e \in Ruled!Edits : Good(saving[e].text, Begun)
LaneIsHigh ==
    /\ turnLane \in {0, 2, 3, 4} /\ demanded \subseteq {3, 4}
    /\ turnLane # 0 => \A lane \in demanded : turnLane >= lane

PolicyInv == PolicyType /\ RulesAreGood /\ LaneIsHigh

LEMMA DeepLanes == Ruled!Deep = {3, 4}
BY DEF Ruled!Deep

LEMMA GoodGrows == ASSUME NEW some, NEW a, NEW b, a \subseteq b, Good(some, a) PROVE Good(some, b)
BY DEF Good


LEMMA NoRules == ASSUME NEW begun PROVE <<>> \in Seq(Policy) /\ Good(<<>>, begun)
<1>1. <<>> \in Seq(Policy) /\ Len(<<>>) = 0 /\ 1..0 = {} /\ DOMAIN <<>> = {}
  OBVIOUS
<1> QED BY <1>1, MemoryAssumption DEF Good, Ruled!Valid, MemoryAssumption

(* A set of numbers has a least member: the libraries prove that < is       *)
(* well-founded.                                                             *)
LEMMA LeastIndex ==
    ASSUME NEW some, some \subseteq Nat, some # {}
    PROVE  \E k \in some : \A j \in some : k <= j
<1>1. \A a, b \in Nat : a < b => <<a, b>> \in OpToRel(<, Nat)
  BY Zenon DEF OpToRel
<1>2. PICK r : IsWellFoundedOn(r, Nat) /\ \A a, b \in Nat : a < b => <<a, b>> \in r
  BY <1>1, NatLessThanWellFounded, Zenon
<1>3. PICK k \in some : \A j \in some : ~ (<<j, k>> \in r)
  BY <1>2, WFMin
<1>4. \A j \in some : k <= j
  <2> SUFFICES ASSUME NEW j \in some PROVE k <= j
    OBVIOUS
  <2>1. j \in Nat /\ k \in Nat
    OBVIOUS
  <2>2. ~ (j < k)
    BY <1>2, <1>3, <2>1
  <2> QED BY <2>1, <2>2
<1> QED BY <1>4

LEMMA GreatestIndex ==
    ASSUME NEW some, some # {}, NEW n \in Nat, some \subseteq 0..n
    PROVE  \E x \in some : \A y \in some : x >= y /\ y <= x
<1> DEFINE room == {n - m : m \in some}
<1>1. room \subseteq Nat /\ room # {}
  <2>1. \A m \in some : n - m \in Nat
    OBVIOUS
  <2> QED BY <2>1
<1> HIDE DEF room
<1>2. PICK k \in room : \A j \in room : k <= j
  BY <1>1, LeastIndex
<1>3. PICK x \in some : k = n - x
  BY DEF room
<1>4. ASSUME NEW y \in some PROVE x >= y /\ y <= x
  <2>1. n - y \in room
    BY DEF room
  <2>2. n - x <= n - y /\ x \in Nat /\ y \in Nat
    BY <1>2, <1>3, <2>1
  <2> QED BY <2>2
<1> QED BY <1>4

(* Induction and recursion up to a bound, with a set and a function for what *)
(* the library states with operators.                                        *)
LEMMA UpTo ==
    ASSUME NEW n \in Nat, NEW good, 0 \in good, \A i \in 1..n : i - 1 \in good => i \in good
    PROVE  \A i \in 0..n : i \in good
<1> DEFINE bad == {i \in 0..n : i \notin good}
<1> SUFFICES ASSUME bad # {} PROVE FALSE
  OBVIOUS
<1>1. bad \subseteq Nat
  OBVIOUS
<1>2. PICK k \in bad : \A j \in bad : k <= j
  <2> HIDE DEF bad
  <2> QED BY <1>1, LeastIndex
<1>3. k \in 1..n /\ k - 1 \in 0..n /\ ~(k <= k - 1)
  BY <1>2
<1>4. k - 1 \in good
  BY <1>2, <1>3
<1> QED BY <1>2, <1>3, <1>4

Recursive(f, n, S, first, step) ==
    f \in [0..n -> S] /\ f[0] = first /\ \A i \in 1..n : f[i] = step[i][f[i - 1]]

LEMMA Recursion ==
    ASSUME NEW S, NEW n \in Nat, NEW first \in S, NEW step \in [1..n -> [S -> S]]
    PROVE  \E f : Recursive(f, n, S, first, step)
<1> DEFINE Built(f, k) == /\ f \in [0..k -> S] /\ f[0] = first
                          /\ \A i \in 1..k : f[i] = step[i][f[i - 1]]
           good == {k \in 0..n : \E f : Built(f, k)}
<1>1. 0 \in good
  <2> DEFINE f == [i \in 0..0 |-> first]
  <2>1. Built(f, 0)
    OBVIOUS
  <2> HIDE DEF Built, f
  <2> QED BY <2>1
<1>2. ASSUME NEW k \in 1..n, k - 1 \in good PROVE k \in good
  <2>1. PICK f : Built(f, k - 1)
    BY <1>2
  <2> DEFINE next == step[k][f[k - 1]]
             g == [i \in 0..k |-> IF i = k THEN next ELSE f[i]]
  <2>2. k \in Nat /\ k - 1 \in 0..(k - 1) /\ 0 \in 0..(k - 1)
    OBVIOUS
  <2>3. next \in S
    BY <2>1, <2>2
  <2>4. /\ \A i \in 0..k : g[i] \in S
        /\ g[k] = next /\ \A i \in 0..(k - 1) : g[i] = f[i]
    <3> HIDE DEF next
    <3>1. \A i \in 0..k : i = k \/ i \in 0..(k - 1)
      BY <2>2
    <3>2. \A i \in 0..(k - 1) : i \in 0..k /\ i # k /\ f[i] \in S
      BY <2>1, <2>2
    <3>3. k \in 0..k
      BY <2>2
    <3> HIDE DEF Built
    <3> QED BY <2>3, <3>1, <3>2, <3>3
  <2>5. g \in [0..k -> S]
    <3> HIDE DEF next
    <3> QED BY <2>4
  <2> HIDE DEF g
  <2>6. g[0] = first
    BY <2>1, <2>2, <2>4
  <2>7. ASSUME NEW i \in 1..k PROVE g[i] = step[i][g[i - 1]]
    <3>1. i - 1 \in 0..(k - 1) /\ g[i - 1] = f[i - 1]
      BY <2>2, <2>4
    <3>2. CASE i = k
      BY <2>4, <3>1, <3>2
    <3>3. CASE i # k
      <4>1. i \in 1..(k - 1) /\ g[i] = f[i]
        BY <2>2, <2>4, <3>3
      <4> QED BY <2>1, <3>1, <4>1
    <3> QED BY <3>2, <3>3
  <2>8. Built(g, k)
    BY <2>5, <2>6, <2>7
  <2> HIDE DEF Built
  <2> QED BY <2>8
<1> HIDE DEF good, Built
<1>3. \A k \in 0..n : k \in good
  BY <1>1, <1>2, UpTo
<1> QED BY <1>3 DEF good, Built, Recursive

LEMMA AppendedRule ==
    ASSUME NEW q \in Seq(Policy), NEW n \in Policy, NEW r, r = Append(q, n)
    PROVE  /\ r \in Seq(Policy) /\ Len(r) = Len(q) + 1
           /\ \A i \in 1..Len(q) : r[i] = q[i]
           /\ r[Len(q) + 1] = n
OBVIOUS


LEMMA PolicyInit == Init => PolicyInv
<1> SUFFICES ASSUME Ruled!Init PROVE PolicyInv
  BY DEF Init
<1>1. /\ policies = <<>> /\ policyFile = <<>> /\ policyTemp = {} /\ turnLane = 0 /\ demanded = {}
      /\ saving = [e \in Ruled!Edits |-> [step |-> "none", text |-> <<>>]]
  BY DEF Ruled!Init
<1>2. <<>> \in Seq(Policy) /\ Good(<<>>, Begun)
  BY NoRules
<1>3. PolicyType
  BY <1>1, <1>2 DEF PolicyType, Steps
<1>4. RulesAreGood
  BY <1>1, <1>2 DEF RulesAreGood
<1>5. LaneIsHigh
  BY <1>1 DEF LaneIsHigh
<1> QED BY <1>3, <1>4, <1>5 DEF PolicyInv

(* An edit goes on: what has begun stays so.                                 *)
LEMMA GoesOnEditing ==
    ASSUME PolicyType, NEW e \in Ruled!Edits, NEW r \in [step : Steps, text : Seq(Policy)], r.step # "none",
           saving' = [saving EXCEPT ![e] = r]
    PROVE  PolicyType' /\ Begun \subseteq Begun' /\ e \in Begun'
           /\ \A d \in Ruled!Edits : saving'[d] = IF d = e THEN r ELSE saving[d]
BY DEF PolicyType, Begun

(* The rules change in memory.                                               *)
LEMMA Edited ==
    ASSUME PolicyInv, NEW e \in Ruled!Edits, Ruled!Unsaved(e),
           Good(policies', Begun \cup {e}), UNCHANGED <<turnLane, demanded>>
    PROVE  PolicyInv'
<1> DEFINE r == [saving[e] EXCEPT !.step = "changed"]
<1>1. /\ saving' = [saving EXCEPT ![e] = r] /\ UNCHANGED <<policyFile, policyTemp>>
  BY DEF Ruled!Unsaved
<1>2. r \in [step : Steps, text : Seq(Policy)] /\ r.step = "changed" /\ r.text = saving[e].text
  BY DEF PolicyInv, PolicyType, Steps
<1> HIDE DEF r
<1>3. /\ PolicyType' /\ Begun \subseteq Begun' /\ e \in Begun'
      /\ \A d \in Ruled!Edits : saving'[d] = IF d = e THEN r ELSE saving[d]
  BY <1>1, <1>2, GoesOnEditing DEF PolicyInv
<1>4. Good(policies', Begun')
  BY <1>3, GoodGrows
<1>5. RulesAreGood'
  <2>1. Good(policyFile, Begun')
    BY <1>3, GoodGrows DEF PolicyInv, RulesAreGood
  <2>2. \A some \in policyTemp : Good(some, Begun')
    BY <1>3, GoodGrows DEF PolicyInv, RulesAreGood
  <2>3. \A d \in Ruled!Edits : Good(saving'[d].text, Begun')
    BY <1>2, <1>3, GoodGrows DEF PolicyInv, RulesAreGood
  <2> QED BY <1>1, <1>4, <2>1, <2>2, <2>3 DEF RulesAreGood
<1> QED BY <1>3, <1>5 DEF PolicyInv, LaneIsHigh

LEMMA DraftsAreRules ==
    ASSUME NEW draft \in Ruled!Drafts, NEW id, NEW fresh \in Nat \X Nat, id \in Nat \X Nat
    PROVE  /\ Ruled!FromDraft(draft, id, fresh) \in Policy
           /\ Ruled!FromDraft(draft, id, fresh).id = IF id # <<0, 0>> THEN id ELSE fresh
<1> DEFINE k == IF id # Ruled!New THEN id ELSE fresh
<1>1. draft \in [id : {<<0, 1>>, <<0, 0>>}, topic : RuleTopics, lane : Ruled!Deep, enabled : {TRUE}]
  BY DEF Ruled!Drafts, Ruled!Ids, Ruled!New
<1>2. Ruled!FromDraft(draft, id, fresh) = [draft EXCEPT !.id = k]
  BY DEF Ruled!FromDraft
<1>3. k \in Nat \X Nat /\ k = IF id # <<0, 0>> THEN id ELSE fresh
  BY DEF Ruled!New
<1> HIDE DEF k
<1> QED BY <1>1, <1>2, <1>3 DEF Policy

LEMMA DraftId == ASSUME NEW draft \in Ruled!Drafts PROVE draft.id \in {<<0, 0>>, <<0, 1>>}
BY DEF Ruled!Drafts, Ruled!Ids, Ruled!New

(* An edit that has not begun has made up no id.                             *)
LEMMA IdleIsFresh ==
    ASSUME PolicyInv, NEW e \in Ruled!Edits, Ruled!Idle(e)
    PROVE  /\ e \in Nat /\ e # 0 /\ e \notin Begun
           /\ \A i \in 1..Len(policies) : policies[i].id[1] # e \/ policies[i].id = <<0, 1>>
BY DEF PolicyInv, RulesAreGood, Good, Begun, Ruled!Idle, Ruled!Edits

LEMMA PageReplaces ==
    ASSUME PolicyInv, NEW e \in Ruled!Edits, Ruled!Replace(e)
    PROVE  PolicyInv'
<1>1. e \in Nat /\ e # 0 /\ UNCHANGED <<turnLane, demanded>> /\ Ruled!Unsaved(e)
  BY IdleIsFresh DEF Ruled!Replace, Ruled!route
<1>2. PICK drafts \in {<<>>} \cup [1 .. 1 -> Ruled!Drafts] \cup [1 .. 2 -> Ruled!Drafts] :
          /\ policies' = [i \in DOMAIN drafts |-> Ruled!FromDraft(drafts[i], drafts[i].id, <<e, i>>)]
          /\ Ruled!Valid(policies')
  BY DEF Ruled!Replace
<1>3. PICK n \in Nat : DOMAIN drafts = 1..n
  <2>1. DOMAIN <<>> = 1..0
    OBVIOUS
  <2>2. CASE drafts = <<>>
    BY <2>1, <2>2
  <2>3. CASE drafts \in [1 .. 1 -> Ruled!Drafts]
    BY <2>3
  <2>4. CASE drafts \in [1 .. 2 -> Ruled!Drafts]
    BY <2>4
  <2> QED BY <1>2, <2>2, <2>3, <2>4
<1>4. \A i \in 1..n : drafts[i] \in Ruled!Drafts
  <2>1. DOMAIN <<>> = {}
    OBVIOUS
  <2>2. CASE drafts = <<>>
    BY <1>3, <2>1, <2>2
  <2>3. CASE drafts \in [1 .. 1 -> Ruled!Drafts]
    BY <1>3, <2>3
  <2>4. CASE drafts \in [1 .. 2 -> Ruled!Drafts]
    BY <1>3, <2>4
  <2> QED BY <1>2, <2>2, <2>3, <2>4
<1>5. ASSUME NEW i \in 1..n
      PROVE  policies'[i] \in Policy /\ (policies'[i].id = <<0, 1>> \/ policies'[i].id[1] \in Begun \cup {e})
  <2>1. drafts[i] \in Ruled!Drafts /\ drafts[i].id \in {<<0, 0>>, <<0, 1>>} /\ <<e, i>> \in Nat \X Nat
    BY <1>1, <1>4, DraftId
  <2>2. policies'[i] = Ruled!FromDraft(drafts[i], drafts[i].id, <<e, i>>)
    BY <1>2, <1>3
  <2>3. policies'[i] \in Policy /\ policies'[i].id = IF drafts[i].id # <<0, 0>> THEN drafts[i].id ELSE <<e, i>>
    BY <2>1, <2>2, DraftsAreRules
  <2> QED BY <2>1, <2>3
<1>6. policies' \in Seq(Policy) /\ Len(policies') = n
  BY <1>2, <1>3, <1>5
<1>7. Good(policies', Begun \cup {e})
  BY <1>2, <1>5, <1>6 DEF Good
<1> QED BY <1>1, <1>7, Edited

LEMMA RuleUpserted ==
    ASSUME PolicyInv, NEW e \in Ruled!Edits, Ruled!Upsert(e)
    PROVE  PolicyInv'
<1>1. /\ e \in Nat /\ e # 0 /\ e \notin Begun /\ UNCHANGED <<turnLane, demanded>> /\ Ruled!Unsaved(e)
      /\ \A i \in 1..Len(policies) : policies[i].id[1] # e \/ policies[i].id = <<0, 1>>
  BY IdleIsFresh DEF Ruled!Upsert, Ruled!route
<1>2. /\ policies \in Seq(Policy) /\ Len(policies) \in Nat /\ DOMAIN policies = 1..Len(policies) /\ Ruled!Valid(policies)
      /\ \A i \in 1..Len(policies) :
            policies[i] \in Policy /\ (policies[i].id = <<0, 1>> \/ policies[i].id[1] \in Begun)
  BY DEF PolicyInv, RulesAreGood, Good
<1>3. 0 \notin Begun
  BY DEF Begun, Ruled!Edits
<1>4. PICK draft \in Ruled!Drafts :
          \/ \E i \in Ruled!Replaced(draft) :
                 policies' = [policies EXCEPT ![i] = Ruled!FromDraft(draft, policies[i].id, <<e, 1>>)]
          \/ /\ Ruled!Replaced(draft) = {} /\ Len(policies) < MaxPolicies
             /\ policies' = Append(policies, Ruled!FromDraft(draft, draft.id, <<e, 1>>))
  <2>1. PICK draft \in Ruled!Drafts :
           \/ /\ Ruled!Replaced(draft) # {}
              /\ LET i == CHOOSE i \in Ruled!Replaced(draft) : \A j \in Ruled!Replaced(draft) : i <= j
                 IN  policies' = [policies EXCEPT ![i] = Ruled!FromDraft(draft, policies[i].id, <<e, 1>>)]
           \/ /\ Ruled!Replaced(draft) = {} /\ Len(policies) < MaxPolicies
              /\ policies' = Append(policies, Ruled!FromDraft(draft, draft.id, <<e, 1>>))
    BY DEF Ruled!Upsert
  <2>2. Ruled!Replaced(draft) \subseteq 1..Len(policies)
    BY <1>2 DEF Ruled!Replaced
  <2>3. CASE Ruled!Replaced(draft) # {}
    <3> DEFINE i == CHOOSE i \in Ruled!Replaced(draft) : \A j \in Ruled!Replaced(draft) : i <= j
    <3>1. \E k \in Ruled!Replaced(draft) : \A j \in Ruled!Replaced(draft) : k <= j
      <4>1. Ruled!Replaced(draft) \subseteq Nat
        BY <1>2, <2>2
      <4> QED BY <2>3, <4>1, LeastIndex
    <3>2. i \in Ruled!Replaced(draft)
      BY <3>1
    <3>3. policies' = [policies EXCEPT ![i] = Ruled!FromDraft(draft, policies[i].id, <<e, 1>>)]
      BY <2>1, <2>3
    <3> HIDE DEF i
    <3> QED BY <3>2, <3>3
  <2>4. CASE Ruled!Replaced(draft) = {}
    BY <2>1, <2>4
  <2> QED BY <2>3, <2>4
<1>5. draft.id \in {<<0, 0>>, <<0, 1>>} /\ <<e, 1>> \in Nat \X Nat
  BY <1>1, DraftId
<1>6. ASSUME NEW i \in Ruled!Replaced(draft),
             policies' = [policies EXCEPT ![i] = Ruled!FromDraft(draft, policies[i].id, <<e, 1>>)]
      PROVE  Good(policies', Begun \cup {e})
  <2> DEFINE n == Ruled!FromDraft(draft, policies[i].id, <<e, 1>>)
  <2>1. i \in 1..Len(policies)
    BY <1>2 DEF Ruled!Replaced
  <2>2. policies[i].id \in Nat \X Nat /\ policies[i].id # <<0, 0>>
    <3>1. policies[i].id \in Nat \X Nat
      BY <1>2, <2>1 DEF Policy
    <3>2. policies[i].id = <<0, 1>> \/ policies[i].id[1] # 0
      BY <1>2, <1>3, <2>1
    <3> QED BY <3>1, <3>2
  <2>3. n \in Policy /\ n.id = policies[i].id
    BY <1>5, <2>2, DraftsAreRules
  <2> HIDE DEF n
  <2>4. /\ policies' \in Seq(Policy) /\ Len(policies') = Len(policies) /\ DOMAIN policies' = 1..Len(policies)
        /\ \A j \in 1..Len(policies) : policies'[j] = IF j = i THEN n ELSE policies[j]
    BY <1>2, <1>6, <2>1, <2>3 DEF n
  <2>5. \A j \in 1..Len(policies) : policies'[j].id = policies[j].id
    BY <2>3, <2>4
  <2> QED BY <1>2, <2>4, <2>5 DEF Good, Ruled!Valid
<1>7. ASSUME Ruled!Replaced(draft) = {}, Len(policies) < MaxPolicies,
             policies' = Append(policies, Ruled!FromDraft(draft, draft.id, <<e, 1>>))
      PROVE  Good(policies', Begun \cup {e})
  <2> DEFINE n == Ruled!FromDraft(draft, draft.id, <<e, 1>>)
  <2>1. n \in Policy /\ n.id = IF draft.id # <<0, 0>> THEN draft.id ELSE <<e, 1>>
    BY <1>5, DraftsAreRules
  <2> HIDE DEF n
  <2>2. /\ policies' \in Seq(Policy) /\ Len(policies') = Len(policies) + 1
        /\ \A j \in 1..Len(policies) : policies'[j] = policies[j]
        /\ policies'[Len(policies) + 1] = n
    BY <1>2, <1>7, <2>1, AppendedRule DEF n
  <2>3. \A j \in 1..Len(policies) : policies[j].id # n.id
    <3>1. \A j \in 1..Len(policies) : policies[j].id # draft.id
      BY <1>2, <1>7 DEF Ruled!Replaced
    <3>2. CASE draft.id # <<0, 0>>
      BY <2>1, <3>1, <3>2
    <3>3. CASE draft.id = <<0, 0>>
      <4>1. n.id = <<e, 1>> /\ <<e, 1>>[1] = e /\ <<e, 1>> # <<0, 1>>
        BY <1>1, <2>1, <3>3
      <4> QED BY <1>1, <4>1
    <3> QED BY <3>2, <3>3
  <2>4. n.id = <<0, 1>> \/ n.id[1] = e
    BY <1>5, <2>1
  <2>5. Len(policies') \in Nat /\ DOMAIN policies' = 1..Len(policies') /\ 1..Len(policies') = 1..(Len(policies) + 1)
    BY <1>2, <2>2
  <2>6. \A i \in 1..Len(policies') : i \in 1..Len(policies) \/ i = Len(policies) + 1
    <3>1. Len(policies) \in Nat /\ Len(policies') = Len(policies) + 1
      BY <1>2, <2>2
    <3> QED BY <3>1
  <2>7. Ruled!Valid(policies')
    <3>1. Len(policies') <= MaxPolicies
      BY <1>2, <1>7, <2>2, MemoryAssumption DEF MemoryAssumption
    <3>2. ASSUME NEW i \in 1..Len(policies'), NEW j \in 1..Len(policies'), policies'[i].id = policies'[j].id
          PROVE  i = j
      <4>1. CASE i \in 1..Len(policies) /\ j \in 1..Len(policies)
        BY <1>2, <2>2, <3>2, <4>1 DEF Ruled!Valid
      <4>2. CASE i \in 1..Len(policies) /\ j = Len(policies) + 1
        BY <2>2, <2>3, <3>2, <4>2
      <4>3. CASE i = Len(policies) + 1 /\ j \in 1..Len(policies)
        BY <2>2, <2>3, <3>2, <4>3
      <4> QED BY <2>6, <4>1, <4>2, <4>3
    <3> QED BY <2>5, <3>1, <3>2 DEF Ruled!Valid
  <2>8. \A i \in 1..Len(policies') : policies'[i].id = <<0, 1>> \/ policies'[i].id[1] \in Begun \cup {e}
    <3> SUFFICES ASSUME NEW i \in 1..Len(policies')
                 PROVE  policies'[i].id = <<0, 1>> \/ policies'[i].id[1] \in Begun \cup {e}
      OBVIOUS
    <3>1. CASE i \in 1..Len(policies)
      <4>1. policies'[i] = policies[i]
        BY <2>2, <3>1
      <4> QED BY <1>2, <3>1, <4>1
    <3>2. CASE i = Len(policies) + 1
      <4>1. policies'[i] = n
        BY <2>2, <3>2
      <4> QED BY <2>4, <4>1
    <3> QED BY <2>6, <3>1, <3>2
  <2> QED BY <2>2, <2>7, <2>8 DEF Good
<1>8. Good(policies', Begun \cup {e})
  BY <1>4, <1>6, <1>7
<1> QED BY <1>1, <1>8, Edited

(* A rule is dropped: those after it move up by one place.                   *)
LEMMA RuleDropped ==
    ASSUME NEW q \in Seq(Policy), NEW k \in 1..Len(q), NEW r, r = Ruled!RemoveAt(q, k)
    PROVE  /\ r \in Seq(Policy) /\ Len(r) = Len(q) - 1
           /\ \A i \in 1..Len(r) : r[i] = IF i < k THEN q[i] ELSE q[i + 1]
<1> DEFINE a == SubSeq(q, 1, k - 1)
           b == SubSeq(q, k + 1, Len(q))
<1>1. r = a \o b
  BY DEF Ruled!RemoveAt
<1>2. Len(q) \in Nat /\ k \in Nat /\ k >= 1 /\ k <= Len(q)
  OBVIOUS
<1>3. a \in Seq(Policy) /\ Len(a) = k - 1 /\ \A i \in 1..(k - 1) : a[i] = q[i]
  BY <1>2, SubSeqProperties
<1>4. b \in Seq(Policy) /\ Len(b) = Len(q) - k /\ \A i \in 1..(Len(q) - k) : b[i] = q[k + i]
  BY <1>2, SubSeqProperties
<1> HIDE DEF a, b
<1>5. /\ a \o b \in Seq(Policy) /\ Len(a \o b) = Len(a) + Len(b)
      /\ \A i \in 1..(Len(a) + Len(b)) : (a \o b)[i] = IF i <= Len(a) THEN a[i] ELSE b[i - Len(a)]
  BY <1>3, <1>4, ConcatProperties
<1>6. Len(a) + Len(b) = Len(q) - 1
  BY <1>2, <1>3, <1>4
<1>7. ASSUME NEW i \in 1..(Len(q) - 1) PROVE (a \o b)[i] = IF i < k THEN q[i] ELSE q[i + 1]
  <2>1. CASE i < k
    BY <1>2, <1>3, <1>5, <1>6, <2>1
  <2>2. CASE ~ (i < k)
    <3>1. i - (k - 1) \in 1..(Len(q) - k) /\ k + (i - (k - 1)) = i + 1 /\ ~ (i <= Len(a))
      BY <1>2, <1>3, <2>2
    <3>2. (a \o b)[i] = b[i - (k - 1)]
      BY <1>3, <1>5, <1>6, <3>1
    <3>3. b[i - (k - 1)] = q[k + (i - (k - 1))]
      BY <1>4, <3>1
    <3> QED BY <2>2, <3>1, <3>2, <3>3
  <2> QED BY <2>1, <2>2
<1> QED BY <1>1, <1>5, <1>6, <1>7

LEMMA Dropped ==
    ASSUME PolicyInv, NEW e \in Ruled!Edits, Ruled!Drop(e)
    PROVE  PolicyInv'
<1>1. UNCHANGED <<turnLane, demanded>> /\ Ruled!Unsaved(e)
  BY DEF Ruled!Drop, Ruled!route
<1>2. /\ policies \in Seq(Policy) /\ Len(policies) \in Nat /\ DOMAIN policies = 1..Len(policies)
      /\ Len(policies) <= MaxPolicies /\ MaxPolicies \in Nat
      /\ \A i, j \in 1..Len(policies) : policies[i].id = policies[j].id => i = j
      /\ \A i \in 1..Len(policies) : policies[i].id = <<0, 1>> \/ policies[i].id[1] \in Begun
  BY MemoryAssumption DEF PolicyInv, RulesAreGood, Good, Ruled!Valid, MemoryAssumption
<1>3. PICK k \in 1..Len(policies) : policies' = Ruled!RemoveAt(policies, k)
  BY <1>2 DEF Ruled!Drop
<1>4. /\ policies' \in Seq(Policy) /\ Len(policies') = Len(policies) - 1
      /\ \A i \in 1..Len(policies') : policies'[i] = IF i < k THEN policies[i] ELSE policies[i + 1]
  <2>1. \A r : r = Ruled!RemoveAt(policies, k) =>
            /\ r \in Seq(Policy) /\ Len(r) = Len(policies) - 1
            /\ \A i \in 1..Len(r) : r[i] = IF i < k THEN policies[i] ELSE policies[i + 1]
    BY <1>2, RuleDropped
  <2> QED BY <1>3, <2>1
<1> DEFINE old(i) == IF i < k THEN i ELSE i + 1
<1>5. ASSUME NEW i \in 1..Len(policies') PROVE old(i) \in 1..Len(policies) /\ policies'[i] = policies[old(i)]
  <2>1. i \in 1..(Len(policies) - 1)
    BY <1>4
  <2>2. old(i) \in 1..Len(policies)
    BY <1>2, <2>1
  <2> QED BY <1>4, <2>2
<1>6. \A i, j \in 1..Len(policies') : old(i) = old(j) => i = j
  BY <1>2, <1>4
<1> HIDE DEF old
<1>7. Ruled!Valid(policies')
  <2>1. \A i, j \in 1..Len(policies') : policies'[i].id = policies'[j].id => i = j
    BY <1>2, <1>5, <1>6
  <2>2. DOMAIN policies' = 1..Len(policies') /\ Len(policies') <= MaxPolicies
    BY <1>2, <1>4
  <2> QED BY <2>1, <2>2 DEF Ruled!Valid
<1>8. \A i \in 1..Len(policies') : policies'[i].id = <<0, 1>> \/ policies'[i].id[1] \in Begun \cup {e}
  BY <1>2, <1>5
<1>9. Good(policies', Begun \cup {e})
  BY <1>4, <1>7, <1>8 DEF Good
<1> QED BY <1>1, <1>9, Edited

(* A write goes on: it encodes, puts the text beside the file, renames it.   *)
LEMMA Saves ==
    ASSUME PolicyInv, NEW e \in Ruled!Edits, Ruled!Encode(e) \/ Ruled!WriteTemp(e) \/ Ruled!Rename(e)
    PROVE  PolicyInv'
<1>1. /\ saving \in [Ruled!Edits -> [step : Steps, text : Seq(Policy)]] /\ <<>> \in Seq(Policy)
      /\ saving[e].text \in Seq(Policy) /\ policies \in Seq(Policy)
  BY NoRules DEF PolicyInv, PolicyType, RulesAreGood, Good
<1>2. UNCHANGED <<policies, turnLane, demanded>>
  BY DEF Ruled!Encode, Ruled!WriteTemp, Ruled!Rename, Ruled!route
<1>3. PICK r \in [step : Steps, text : Seq(Policy)] :
          /\ r.step # "none" /\ saving' = [saving EXCEPT ![e] = r]
          /\ r.text \in {<<>>, policies, saving[e].text}
  <2>1. CASE Ruled!Encode(e)
    <3> DEFINE r == [step |-> "encoded", text |-> policies]
    <3>1. r \in [step : Steps, text : Seq(Policy)] /\ r.step # "none" /\ r.text = policies
      BY <1>1 DEF Steps
    <3>2. saving' = [saving EXCEPT ![e] = r]
      BY <2>1 DEF Ruled!Encode
    <3> HIDE DEF r
    <3> QED BY <3>1, <3>2
  <2>2. CASE Ruled!WriteTemp(e)
    <3> DEFINE r == [saving[e] EXCEPT !.step = "written"]
    <3>1. r \in [step : Steps, text : Seq(Policy)] /\ r.step # "none" /\ r.text = saving[e].text
      BY <1>1 DEF Steps
    <3>2. saving' = [saving EXCEPT ![e] = r]
      BY <2>2 DEF Ruled!WriteTemp
    <3> HIDE DEF r
    <3> QED BY <3>1, <3>2
  <2>3. CASE Ruled!Rename(e)
    <3> DEFINE r == [step |-> "done", text |-> <<>>]
    <3>1. r \in [step : Steps, text : Seq(Policy)] /\ r.step # "none" /\ r.text = <<>>
      BY <1>1 DEF Steps
    <3>2. saving' = [saving EXCEPT ![e] = r]
      BY <2>3 DEF Ruled!Rename
    <3> HIDE DEF r
    <3> QED BY <3>1, <3>2
  <2> QED BY <2>1, <2>2, <2>3
<1>4. /\ PolicyType' /\ Begun \subseteq Begun' /\ e \in Begun'
      /\ \A d \in Ruled!Edits : saving'[d] = IF d = e THEN r ELSE saving[d]
  BY <1>3, GoesOnEditing DEF PolicyInv
<1>5. \A some : Good(some, Begun) => Good(some, Begun')
  BY <1>4, GoodGrows
<1>6. Good(<<>>, Begun')
  BY NoRules
<1>7. Good(policies', Begun') /\ \A d \in Ruled!Edits : Good(saving'[d].text, Begun')
  BY <1>2, <1>3, <1>4, <1>5, <1>6 DEF PolicyInv, RulesAreGood
<1>8. \A some \in policyTemp' : some \in policyTemp \/ some = saving[e].text
  BY DEF Ruled!Encode, Ruled!WriteTemp, Ruled!Rename
<1>9. policyFile' = policyFile \/ policyFile' \in policyTemp
  BY DEF Ruled!Encode, Ruled!WriteTemp, Ruled!Rename
<1>10. Good(policyFile', Begun') /\ \A some \in policyTemp' : Good(some, Begun')
  BY <1>5, <1>8, <1>9 DEF PolicyInv, RulesAreGood
<1> QED BY <1>2, <1>4, <1>7, <1>10 DEF PolicyInv, RulesAreGood, LaneIsHigh

LEMMA StartsAgain == ASSUME PolicyInv, Ruled!Restart PROVE PolicyInv'
<1>1. /\ UNCHANGED <<policyFile, policyTemp>> /\ policies' = policyFile /\ turnLane' = 0 /\ demanded' = {}
  BY DEF Ruled!Restart
<1>2. <<>> \in Seq(Policy) /\ saving \in [Ruled!Edits -> [step : Steps, text : Seq(Policy)]]
  BY NoRules DEF PolicyInv, PolicyType
<1>3. /\ DOMAIN saving' = Ruled!Edits
      /\ saving' = [d \in Ruled!Edits |-> saving'[d]]
      /\ \A d \in Ruled!Edits :
            saving'[d] = IF saving[d].step = "none" THEN saving[d] ELSE [step |-> "done", text |-> <<>>]
  BY DEF Ruled!Restart
<1>4. [step |-> "done", text |-> <<>>] \in [step : Steps, text : Seq(Policy)]
  BY <1>2 DEF Steps
<1>5. \A d \in Ruled!Edits : saving'[d] \in [step : Steps, text : Seq(Policy)]
  BY <1>2, <1>3, <1>4
<1>6. PolicyType'
  BY <1>3, <1>5 DEF PolicyType
<1>7. Begun' = Begun
  BY <1>3 DEF Begun
<1>8. \A d \in Ruled!Edits : saving'[d].text = saving[d].text \/ saving'[d].text = <<>>
  BY <1>3
<1>9. \A d \in Ruled!Edits : Good(saving'[d].text, Begun)
  BY <1>8, NoRules DEF PolicyInv, RulesAreGood
<1> QED BY <1>1, <1>6, <1>7, <1>9 DEF PolicyInv, RulesAreGood, LaneIsHigh

(* The lane of a turn is the highest of a set of lanes that is never empty.  *)
LEMMA HighestLane ==
    ASSUME NEW lanes, lanes \subseteq {2, 3, 4}, lanes # {}
    PROVE  /\ (CHOOSE l \in lanes : \A m \in lanes : m <= l) \in lanes
           /\ \A m \in lanes : m <= (CHOOSE l \in lanes : \A k \in lanes : k <= l)
<1>1. \E l \in lanes : \A m \in lanes : m <= l
  <2>1. CASE 4 \in lanes
    BY <2>1
  <2>2. CASE 4 \notin lanes /\ 3 \in lanes
    BY <2>2
  <2>3. CASE 4 \notin lanes /\ 3 \notin lanes
    <3>1. PICK l \in lanes : TRUE
      OBVIOUS
    <3>2. \A m \in lanes : m = 2
      BY <2>3
    <3> QED BY <3>1, <3>2
  <2> QED BY <2>1, <2>2, <2>3
<1> QED BY <1>1

LEMMA Routed == ASSUME PolicyInv, Ruled!ResolveComputeRoute PROVE PolicyInv'
<1>1. UNCHANGED <<policies, policyFile, policyTemp, saving>>
  BY DEF Ruled!ResolveComputeRoute, Ruled!rules
<1>2. PICK said_ \in SUBSET RuleTopics, picked \in SUBSET Ruled!Deep :
          LET lanes == picked \cup Ruled!Matched(said_) \cup {Ruled!Conversation}
          IN  /\ turnLane' = CHOOSE l \in lanes : \A m \in lanes : m <= l
              /\ demanded' = picked \cup {policies[i].lane : i \in Ruled!Demanding(said_)}
  BY DEF Ruled!ResolveComputeRoute
<1> DEFINE asked_ == {policies[i].lane : i \in Ruled!Demanding(said_)}
           lanes == picked \cup Ruled!Matched(said_) \cup {Ruled!Conversation}
<1>3. \A i \in DOMAIN policies : policies[i].lane \in {3, 4}
  <2>1. policies \in Seq(Policy) /\ DOMAIN policies = 1..Len(policies)
    BY DEF PolicyInv, RulesAreGood, Good
  <2>2. \A i \in DOMAIN policies : policies[i] \in Policy
    BY <2>1
  <2> QED BY <2>2, DeepLanes DEF Policy
<1>4. asked_ \subseteq {3, 4}
  BY <1>3 DEF Ruled!Demanding
<1>5. Ruled!Matched(said_) = {l \in asked_ : \A m \in asked_ : m <= l}
  BY DEF Ruled!Matched
<1>6. turnLane' = (CHOOSE l \in lanes : \A m \in lanes : m <= l) /\ demanded' = picked \cup asked_
  BY <1>2
<1> HIDE DEF asked_
<1>7. lanes \subseteq {2, 3, 4} /\ 2 \in lanes /\ picked \subseteq {3, 4}
  BY <1>4, <1>5, DeepLanes DEF Ruled!Conversation
<1>8. picked \subseteq lanes /\ (\A a \in asked_ : \E m \in lanes : a <= m)
  <2>1. \A a \in asked_ : \E m \in Ruled!Matched(said_) : a <= m
    <3>1. CASE 4 \in asked_
      <4>1. 4 \in Ruled!Matched(said_)
        BY <1>4, <1>5, <3>1
      <4> QED BY <1>4, <4>1
    <3>2. CASE 4 \notin asked_
      <4>1. \A a \in asked_ : a = 3
        BY <1>4, <3>2
      <4>2. \A a \in asked_ : a \in Ruled!Matched(said_)
        BY <1>5, <4>1
      <4> QED BY <4>1, <4>2
    <3> QED BY <3>1, <3>2
  <2> QED BY <2>1
<1> HIDE DEF lanes
<1>9. turnLane' \in lanes /\ \A m \in lanes : m <= turnLane'
  BY <1>6, <1>7, HighestLane
<1>10. LaneIsHigh'
  <2>1. turnLane' \in {2, 3, 4}
    BY <1>7, <1>9
  <2>2. demanded' \subseteq {3, 4}
    BY <1>4, <1>6, <1>7
  <2>3. ASSUME NEW lane \in demanded' PROVE turnLane' >= lane
    <3>1. CASE lane \in picked
      BY <1>7, <1>8, <1>9, <2>1, <3>1
    <3>2. CASE lane \in asked_
      <4>1. PICK m \in lanes : lane <= m
        BY <1>8, <3>2
      <4>2. m <= turnLane' /\ m \in {2, 3, 4} /\ lane \in {3, 4}
        BY <1>4, <1>7, <1>9, <3>2
      <4> QED BY <2>1, <4>1, <4>2
    <3> QED BY <1>6, <3>1, <3>2
  <2> QED BY <2>1, <2>2, <2>3 DEF LaneIsHigh
<1>11. PolicyType' /\ RulesAreGood'
  BY <1>1 DEF PolicyInv, PolicyType, RulesAreGood, Begun
<1> QED BY <1>10, <1>11 DEF PolicyInv

LEMMA TurnSteps ==
    ASSUME PolicyInv,
           \/ Ruled!EndTurn \/ \E lane \in Ruled!Deep : Ruled!Escalate(lane)
           \/ UNCHANGED policyVars
    PROVE  PolicyInv'
<1>1. UNCHANGED <<policies, policyFile, policyTemp, saving>>
  BY DEF Ruled!EndTurn, Ruled!Escalate, Ruled!rules, policyVars
<1>2. LaneIsHigh'
  <2>1. CASE Ruled!EndTurn
    BY <2>1 DEF Ruled!EndTurn, LaneIsHigh
  <2>2. CASE \E lane \in Ruled!Deep : Ruled!Escalate(lane)
    <3>1. PICK lane \in {3, 4} : Ruled!Escalate(lane)
      BY <2>2, DeepLanes
    <3>2. turnLane # 0 /\ lane > turnLane /\ turnLane' = lane /\ demanded' = demanded
      BY <3>1 DEF Ruled!Escalate
    <3> QED BY <3>2 DEF PolicyInv, LaneIsHigh
  <2>3. CASE UNCHANGED policyVars
    BY <2>3 DEF PolicyInv, LaneIsHigh, policyVars
  <2> QED BY <2>1, <2>2, <2>3
<1>3. PolicyType' /\ RulesAreGood'
  BY <1>1 DEF PolicyInv, PolicyType, RulesAreGood, Begun
<1> QED BY <1>2, <1>3 DEF PolicyInv

(* The settings page and the model's tools change the rules between each     *)
(* other and write them in any order, through one temporary file: the file   *)
(* stays one the program starts with, and no turn runs in a lower lane than  *)
(* was demanded of it, for any number of rules, edits and restarts           *)
(* (compute_policy.rs, resolve_compute_route of web.rs).                     *)
THEOREM DemandsAreMet == Spec => []RulesAreKept
<1>1. PolicyInv /\ [Next]_memoryVars => PolicyInv'
  <2> SUFFICES ASSUME PolicyInv, [Next]_memoryVars PROVE PolicyInv'
    OBVIOUS
  <2>1. CASE Ruled!Next
    BY <2>1, PageReplaces, RuleUpserted, Dropped, Saves, StartsAgain, Routed, TurnSteps DEF Ruled!Next
  <2>2. CASE UNCHANGED policyVars
    BY <2>2, TurnSteps
  <2> QED BY <2>1, <2>2 DEF Next, memoryVars
<1>2. PolicyInv => RulesAreKept
  BY DEF PolicyInv, RulesAreGood, LaneIsHigh, Good, RulesAreKept, Ruled!RulesAreKept
<1> QED BY PolicyInit, <1>1, <1>2, PTL DEF Spec

-----------------------------------------------------------------------------
(* The token budgets.                                                        *)

CallKinds == {"none", "note", "intervention"}
Row == [n : Nat, by : Workers \cup {"chat", "council"}, run : Nat, manual : BOOLEAN, day : Nat, kind : CallKinds,
        produced : BOOLEAN, before : Nat]
WorkStates ==
    {Budget!Resting} \cup [at : {"running"}, run : Nat, manual : BOOLEAN]
    \cup [at : {"answered", "admitted", "done"}, run : Nat, manual : BOOLEAN, n : Nat, day : Nat, kind : CallKinds,
          produced : BOOLEAN]

RowsOf(some, who, d) == {r \in some : r.by \in who /\ r.day = d}

(* The calls of a worker over its limit; the first day its next one can be   *)
(* counted on.                                                               *)
Over(some, w) == {r \in some : r.by = w /\ ~r.manual /\ r.before >= Budget!Limit(w)}
FirstDay(state, d) == IF state.at = "running" THEN d ELSE state.day

UsageType ==
    /\ day \in Nat /\ completed \in Nat
    /\ IsFiniteSet(ledger) /\ \A r \in ledger : r \in Row /\ r.day <= day
    /\ work \in [Workers -> WorkStates]
    /\ \A w \in Workers : work[w].at \in {"resting", "running"} \/ work[w].day <= day

(* What is over a limit was spent together, and stays so.                    *)
SpentTogether ==
    \A w \in Workers : \A r \in Over(ledger, w) :
        Cardinality(RowsOf(ledger, Budget!Together(w), r.day)) >= Budget!Limit(w)

(* A run within the budget began after all days on which another was over.   *)
BegunAfter ==
    \A w \in Workers : work[w].at # "resting" /\ ~work[w].manual =>
        \A r \in Over(ledger, w) : r.run = work[w].run \/ r.day < FirstDay(work[w], day)

OverOnce == \A w \in Workers : \A r, q \in Over(ledger, w) : r.day = q.day => r.run = q.run

UsageInv == UsageType /\ SpentTogether /\ BegunAfter /\ OverOnce

LEMMA UsageCardinality == \A some : Budget!Cardinality(some) = Cardinality(some)
BY DEF Budget!Cardinality, Cardinality

LEMMA SpentRows == \A who, d : Budget!Spent(who, d) = Cardinality(RowsOf(ledger, who, d))
BY UsageCardinality DEF Budget!Spent, RowsOf

LEMMA MoreIsSpent ==
    ASSUME NEW a, NEW b, NEW who, NEW them, NEW d, a \subseteq b, who \subseteq them, IsFiniteSet(b)
    PROVE  /\ Cardinality(RowsOf(a, who, d)) \in Nat /\ Cardinality(RowsOf(b, them, d)) \in Nat
           /\ Cardinality(RowsOf(a, who, d)) <= Cardinality(RowsOf(b, them, d))
<1>1. RowsOf(a, who, d) \subseteq RowsOf(b, them, d) /\ RowsOf(b, them, d) \subseteq b
  BY DEF RowsOf
<1>2. IsFiniteSet(RowsOf(b, them, d))
  BY <1>1, FS_Subset
<1> HIDE DEF RowsOf
<1>3. IsFiniteSet(RowsOf(a, who, d)) /\ Cardinality(RowsOf(a, who, d)) <= Cardinality(RowsOf(b, them, d))
  BY <1>1, <1>2, FS_Subset
<1> QED BY <1>2, <1>3, FS_CardinalityType

LEMMA LimitsAreNumbers == \A w : Budget!Limit(w) \in Nat
BY MemoryAssumption DEF MemoryAssumption, Budget!Limit

LEMMA SharedBudgets == \A w \in Workers : Budget!Together(w) \subseteq Budget!Budget(w)
BY MemoryAssumption DEF MemoryAssumption, Budget!Together, Budget!Budget, Budget!Autonomous

LEMMA UsageInit == Init => UsageInv
<1> SUFFICES ASSUME Budget!Init PROVE UsageInv
  BY DEF Init
<1>1. day = 0 /\ completed = 0 /\ ledger = {} /\ work = [w \in Workers |-> Budget!Resting]
  BY DEF Budget!Init
<1>2. Budget!Resting \in WorkStates /\ Budget!Resting.at = "resting"
  BY DEF WorkStates, Budget!Resting
<1>3. UsageType
  BY <1>1, <1>2, FS_EmptySet DEF UsageType
<1>4. \A w : Over(ledger, w) = {}
  BY <1>1 DEF Over
<1> QED BY <1>3, <1>4 DEF UsageInv, SpentTogether, BegunAfter, OverOnce

(* A worker goes on with its run, or rests; days pass.                       *)
WorksOn(now, then, today, later) ==
    \/ then.at = "resting"
    \/ /\ now.at # "resting" /\ then.run = now.run /\ then.manual = now.manual
       /\ FirstDay(now, today) <= FirstDay(then, later)

(* What a worker's state says of the days.                                   *)
LEMMA DaysOfWork ==
    ASSUME UsageType, NEW w \in Workers, work[w].at # "resting"
    PROVE  FirstDay(work[w], day) \in Nat /\ FirstDay(work[w], day) <= day
BY DEF UsageType, WorkStates, Budget!Resting, FirstDay

LEMMA WorkGoesOn ==
    ASSUME UsageInv, UNCHANGED ledger, completed' \in Nat, day' \in Nat, day <= day',
           work' \in [Workers -> WorkStates],
           \A w \in Workers : work'[w].at \in {"resting", "running"} \/ work'[w].day <= day',
           \A w \in Workers : WorksOn(work[w], work'[w], day, day')
    PROVE  UsageInv'
<1>1. \A r \in ledger : r \in Row /\ r.day \in Nat /\ r.day <= day /\ day \in Nat
  BY DEF UsageInv, UsageType, Row
<1>2. UsageType'
  BY <1>1 DEF UsageInv, UsageType
<1>3. SpentTogether' /\ OverOnce'
  BY DEF UsageInv, SpentTogether, OverOnce
<1>4. BegunAfter'
  <2> SUFFICES ASSUME NEW w \in Workers, work'[w].at # "resting", ~work'[w].manual,
                      NEW r \in Over(ledger, w), r.run # work'[w].run
               PROVE  r.day < FirstDay(work'[w], day')
    BY DEF BegunAfter
  <2>1. /\ work[w].at # "resting" /\ work[w].run = work'[w].run /\ work[w].manual = work'[w].manual
        /\ FirstDay(work[w], day) <= FirstDay(work'[w], day')
    BY DEF WorksOn
  <2>2. r.day < FirstDay(work[w], day)
    BY <2>1 DEF UsageInv, BegunAfter
  <2>3. FirstDay(work[w], day) \in Nat /\ FirstDay(work'[w], day') \in Nat
    BY <1>2, <2>1, DaysOfWork DEF UsageInv, UsageType, WorkStates, Budget!Resting, FirstDay
  <2>4. r.day \in Nat
    BY <1>1 DEF Over
  <2> QED BY <2>1, <2>2, <2>3, <2>4
<1> QED BY <1>2, <1>3, <1>4 DEF UsageInv

(* A call is counted: it is another's, or the run's that is done with it.    *)
LEMMA RowAdded ==
    ASSUME UsageInv, NEW row \in Row, row.day <= day, ledger' = ledger \cup {row},
           completed' \in Nat, UNCHANGED day, work' \in [Workers -> WorkStates],
           \A w \in Workers : work'[w].at \in {"resting", "running"} \/ work'[w].day <= day',
           \A w \in Workers : WorksOn(work[w], work'[w], day, day'),
           row.by \in Workers => /\ work[row.by].at = "done" /\ work[row.by].run = row.run
                                 /\ work[row.by].manual = row.manual /\ work[row.by].day = row.day
                                 /\ row.before = Cardinality(RowsOf(ledger, Budget!Together(row.by), row.day))
    PROVE  UsageInv'
<1>1. /\ day \in Nat /\ IsFiniteSet(ledger)
      /\ \A r \in ledger : r \in Row /\ r.day \in Nat /\ r.day <= day
  BY DEF UsageInv, UsageType, Row
<1>2. IsFiniteSet(ledger') /\ \A r \in ledger' : r \in ledger \/ r = row
  BY <1>1, FS_AddElement
<1>3. UsageType'
  BY <1>1, <1>2 DEF UsageInv, UsageType
<1>4. \A w \in Workers : \A r \in Over(ledger', w) : r \in Over(ledger, w) \/ (r = row /\ row.by = w /\ row \in Over({row}, w))
  BY <1>2 DEF Over
<1>5. ASSUME NEW w \in Workers, NEW d
      PROVE  /\ Cardinality(RowsOf(ledger, Budget!Together(w), d)) \in Nat
             /\ Cardinality(RowsOf(ledger', Budget!Together(w), d)) \in Nat
             /\ Cardinality(RowsOf(ledger, Budget!Together(w), d)) <= Cardinality(RowsOf(ledger', Budget!Together(w), d))
  <2>1. ledger \subseteq ledger'
    OBVIOUS
  <2> QED BY <1>2, <2>1, MoreIsSpent
<1>6. ASSUME NEW w \in Workers, NEW r \in Over(ledger', w)
      PROVE  Cardinality(RowsOf(ledger', Budget!Together(w), r.day)) >= Budget!Limit(w)
  <2>1. Cardinality(RowsOf(ledger, Budget!Together(w), r.day)) >= Budget!Limit(w)
    <3>1. CASE r \in Over(ledger, w)
      BY <3>1 DEF UsageInv, SpentTogether
    <3>2. CASE r = row /\ row.by = w /\ row \in Over({row}, w)
      BY <3>2 DEF Over
    <3> QED BY <1>4, <1>6, <3>1, <3>2
  <2>2. Budget!Limit(w) \in Nat
    BY LimitsAreNumbers
  <2> DEFINE before == Cardinality(RowsOf(ledger, Budget!Together(w), r.day))
             after == Cardinality(RowsOf(ledger', Budget!Together(w), r.day))
  <2>3. before \in Nat /\ after \in Nat /\ before <= after
    BY <1>5
  <2>4. before >= Budget!Limit(w)
    BY <2>1
  <2> HIDE DEF before
  <2>5. after >= Budget!Limit(w)
    <3> HIDE DEF after
    <3> QED BY <2>2, <2>3, <2>4
  <2> QED BY <2>5
<1>7. SpentTogether'
  <2>1. \A w : Budget!Together(w)' = Budget!Together(w) /\ Budget!Limit(w)' = Budget!Limit(w)
    BY DEF Budget!Together, Budget!Limit
  <2> QED BY <1>6, <2>1 DEF SpentTogether
<1>8. ASSUME NEW w \in Workers, NEW r \in Over(ledger, w), row.by = w, row \in Over({row}, w), r.day = row.day
      PROVE  r.run = row.run
  <2>1. work[w].at = "done" /\ ~work[w].manual /\ work[w].run = row.run /\ work[w].day = row.day
    BY <1>8 DEF Over
  <2>2. r.run = work[w].run \/ r.day < work[w].day
    BY <2>1 DEF UsageInv, BegunAfter, FirstDay
  <2>3. r.day \in Nat
    BY <1>1 DEF Over
  <2> QED BY <1>8, <2>1, <2>2, <2>3
<1>9. OverOnce'
  <2> SUFFICES ASSUME NEW w \in Workers, NEW r \in Over(ledger', w), NEW q \in Over(ledger', w), r.day = q.day
               PROVE  r.run = q.run
    BY DEF OverOnce
  <2>1. CASE r \in Over(ledger, w) /\ q \in Over(ledger, w)
    BY <2>1 DEF UsageInv, OverOnce
  <2> QED BY <1>4, <1>8, <2>1
<1>10. BegunAfter'
  <2> SUFFICES ASSUME NEW w \in Workers, work'[w].at # "resting", ~work'[w].manual,
                      NEW r \in Over(ledger', w), r.run # work'[w].run
               PROVE  r.day < FirstDay(work'[w], day')
    BY DEF BegunAfter
  <2>1. /\ work[w].at # "resting" /\ work[w].run = work'[w].run /\ work[w].manual = work'[w].manual
        /\ FirstDay(work[w], day) <= FirstDay(work'[w], day')
    BY DEF WorksOn
  <2>2. r \in Over(ledger, w)
    BY <1>4, <2>1
  <2>3. r.day < FirstDay(work[w], day)
    BY <2>1, <2>2 DEF UsageInv, BegunAfter
  <2>4. FirstDay(work[w], day) \in Nat /\ FirstDay(work'[w], day') \in Nat
    BY <1>1, <1>3, <2>1, DaysOfWork DEF UsageInv, UsageType, WorkStates, Budget!Resting, FirstDay
  <2>5. r.day \in Nat
    BY <1>1, <2>2 DEF Over
  <2> QED BY <2>1, <2>3, <2>4, <2>5
<1> QED BY <1>3, <1>7, <1>9, <1>10 DEF UsageInv

LEMMA RunBegins ==
    ASSUME UsageInv, NEW w \in Workers, NEW manual \in BOOLEAN, Budget!Begin(w, manual)
    PROVE  UsageInv'
<1> DEFINE new == [at |-> "running", run |-> completed, manual |-> manual]
<1>1. /\ work' = [work EXCEPT ![w] = new] /\ UNCHANGED <<day, completed, ledger>>
      /\ ~manual => Budget!Spent(Budget!Budget(w), day) < Budget!Limit(w)
  BY DEF Budget!Begin, Budget!MayBegin
<1>2. /\ new \in WorkStates /\ new.at = "running" /\ new.run = completed /\ new.manual = manual
  BY DEF UsageInv, UsageType, WorkStates
<1> HIDE DEF new
<1>3. \A v \in Workers : work'[v] = IF v = w THEN new ELSE work[v]
  BY <1>1 DEF UsageInv, UsageType
<1>4. UsageType'
  BY <1>1, <1>2, <1>3 DEF UsageInv, UsageType
<1>5. ASSUME ~manual, NEW r \in Over(ledger, w) PROVE r.day < day
  <2>1. Cardinality(RowsOf(ledger, Budget!Together(w), r.day)) >= Budget!Limit(w)
    BY DEF UsageInv, SpentTogether
  <2>2. Cardinality(RowsOf(ledger, Budget!Budget(w), day)) < Budget!Limit(w)
    BY <1>1, <1>5, SpentRows
  <2>3. /\ Cardinality(RowsOf(ledger, Budget!Together(w), day)) \in Nat
        /\ Cardinality(RowsOf(ledger, Budget!Budget(w), day)) \in Nat
        /\ Cardinality(RowsOf(ledger, Budget!Together(w), day)) <= Cardinality(RowsOf(ledger, Budget!Budget(w), day))
    BY SharedBudgets, MoreIsSpent DEF UsageInv, UsageType
  <2>4. r.day # day
    BY <2>1, <2>2, <2>3, LimitsAreNumbers
  <2>5. r.day \in Nat /\ day \in Nat /\ r.day <= day
    BY DEF UsageInv, UsageType, Over, Row
  <2> QED BY <2>4, <2>5
<1>6. BegunAfter'
  <2> SUFFICES ASSUME NEW v \in Workers, work'[v].at # "resting", ~work'[v].manual,
                      NEW r \in Over(ledger, v), r.run # work'[v].run
               PROVE  r.day < FirstDay(work'[v], day)
    BY <1>1 DEF BegunAfter
  <2>1. CASE v = w
    BY <1>2, <1>3, <1>5, <2>1 DEF FirstDay
  <2>2. CASE v # w
    BY <1>3, <2>2 DEF UsageInv, BegunAfter
  <2> QED BY <2>1, <2>2
<1>7. SpentTogether' /\ OverOnce'
  BY <1>1 DEF UsageInv, SpentTogether, OverOnce
<1> QED BY <1>4, <1>6, <1>7 DEF UsageInv

LEMMA CallEnds ==
    ASSUME UsageInv, NEW w \in Workers, NEW kind \in CallKinds, Budget!Complete(w, kind)
    PROVE  UsageInv'
<1> DEFINE new == [at |-> "answered", run |-> work[w].run, manual |-> work[w].manual,
                   n |-> completed + 1, day |-> day, kind |-> kind, produced |-> FALSE]
<1>1. /\ work' = [work EXCEPT ![w] = new] /\ UNCHANGED <<day, ledger>> /\ completed' = completed + 1
      /\ work[w].at = "running"
  BY DEF Budget!Complete
<1>2. day \in Nat /\ completed \in Nat /\ work[w] \in [at : {"running"}, run : Nat, manual : BOOLEAN]
  BY <1>1 DEF UsageInv, UsageType, WorkStates, Budget!Resting
<1>3. /\ new \in WorkStates /\ new.at = "answered" /\ new.run = work[w].run /\ new.manual = work[w].manual
      /\ new.day = day
  BY <1>2 DEF WorkStates
<1> HIDE DEF new
<1>4. \A v \in Workers : work'[v] = IF v = w THEN new ELSE work[v]
  BY <1>1 DEF UsageInv, UsageType
<1>5. work' \in [Workers -> WorkStates] /\ completed' \in Nat /\ day' \in Nat /\ day <= day'
  BY <1>1, <1>2, <1>3 DEF UsageInv, UsageType
<1>6. ASSUME NEW v \in Workers
      PROVE  /\ work'[v].at \in {"resting", "running"} \/ work'[v].day <= day'
             /\ WorksOn(work[v], work'[v], day, day')
  <2>1. CASE v = w
    BY <1>1, <1>2, <1>3, <1>4, <2>1 DEF WorksOn, FirstDay
  <2>2. CASE v # w
    <3>1. work'[v] = work[v] /\ day' = day
      BY <1>1, <1>4, <2>2
    <3>2. work[v].at # "resting" => FirstDay(work[v], day) \in Nat
      BY DaysOfWork DEF UsageInv
    <3> QED BY <3>1, <3>2 DEF UsageInv, UsageType, WorksOn
  <2> QED BY <2>1, <2>2
<1> QED BY <1>1, <1>5, <1>6, WorkGoesOn

(* A call that fails, is admitted or published.                              *)
LEMMA CallGoesOn ==
    ASSUME UsageInv, NEW w \in Workers, Budget!Fail(w) \/ Budget!Admit(w) \/ Budget!Publish(w)
    PROVE  UsageInv'
<1>1. UNCHANGED <<day, completed, ledger>>
  BY DEF Budget!Fail, Budget!Admit, Budget!Publish
<1>2. PICK new \in WorkStates :
          /\ work' = [work EXCEPT ![w] = new]
          /\ \/ new.at = "resting"
             \/ /\ work[w].at \in {"answered", "admitted"} /\ new.at \in {"answered", "admitted", "done"}
                /\ new.run = work[w].run /\ new.manual = work[w].manual /\ new.day = work[w].day
  <2>1. CASE Budget!Fail(w)
    <3>1. Budget!Resting \in WorkStates /\ Budget!Resting.at = "resting"
      BY DEF WorkStates, Budget!Resting
    <3> QED BY <2>1, <3>1 DEF Budget!Fail
  <2> DEFINE Called == [at : {"answered", "admitted", "done"}, run : Nat, manual : BOOLEAN, n : Nat, day : Nat,
                        kind : CallKinds, produced : BOOLEAN]
  <2>2. work[w].at \in {"answered", "admitted"} => work[w] \in Called
    BY DEF UsageInv, UsageType, WorkStates, Budget!Resting
  <2>3. CASE Budget!Admit(w)
    <3>1. PICK at \in {"admitted", "done"} : work' = [work EXCEPT ![w].at = at]
      BY <2>3 DEF Budget!Admit
    <3> DEFINE new == [work[w] EXCEPT !.at = at]
    <3>2. work' = [work EXCEPT ![w] = new] /\ work[w].at = "answered"
      BY <2>3, <3>1 DEF Budget!Admit
    <3>3. /\ new \in Called /\ new.at = at /\ new.run = work[w].run /\ new.manual = work[w].manual
          /\ new.day = work[w].day
      BY <2>2, <3>2
    <3> HIDE DEF new
    <3>4. new \in WorkStates
      BY <3>3 DEF WorkStates
    <3> HIDE DEF Called
    <3> QED BY <3>2, <3>3, <3>4
  <2>4. CASE Budget!Publish(w)
    <3> DEFINE new == [work[w] EXCEPT !.at = "done", !.produced = TRUE]
    <3>1. work' = [work EXCEPT ![w] = new] /\ work[w].at = "admitted"
      BY <2>4 DEF Budget!Publish
    <3>2. /\ new \in Called /\ new.at = "done" /\ new.run = work[w].run /\ new.manual = work[w].manual
          /\ new.day = work[w].day
      BY <2>2, <3>1
    <3> HIDE DEF new
    <3>3. new \in WorkStates
      BY <3>2 DEF WorkStates
    <3> HIDE DEF Called
    <3> QED BY <3>1, <3>2, <3>3
  <2> QED BY <2>1, <2>3, <2>4
<1>3. \A v \in Workers : work'[v] = IF v = w THEN new ELSE work[v]
  BY <1>2 DEF UsageInv, UsageType
<1>4. work' \in [Workers -> WorkStates] /\ completed' \in Nat /\ day' \in Nat /\ day <= day' /\ ledger' = ledger
  BY <1>1, <1>2 DEF UsageInv, UsageType
<1>5. ASSUME NEW v \in Workers
      PROVE  /\ work'[v].at \in {"resting", "running"} \/ work'[v].day <= day'
             /\ WorksOn(work[v], work'[v], day, day')
  <2>1. work[v].at # "resting" => FirstDay(work[v], day) \in Nat
    BY DaysOfWork DEF UsageInv
  <2>2. work[v].at \in {"resting", "running"} \/ work[v].day <= day
    BY DEF UsageInv, UsageType
  <2>3. CASE v = w
    BY <1>1, <1>2, <1>3, <2>1, <2>2, <2>3 DEF WorksOn, FirstDay
  <2>4. CASE v # w
    <3>1. work'[v] = work[v] /\ day' = day
      BY <1>1, <1>3, <2>4
    <3> QED BY <2>1, <2>2, <3>1 DEF WorksOn
  <2> QED BY <2>3, <2>4
<1> QED BY <1>4, <1>5, WorkGoesOn

LEMMA CallCounted == ASSUME UsageInv, NEW w \in Workers, Budget!Record(w) PROVE UsageInv'
<1> DEFINE c == work[w]
           row == [n |-> c.n, by |-> w, run |-> c.run, manual |-> c.manual, day |-> c.day, kind |-> c.kind,
                   produced |-> c.produced, before |-> Budget!Spent(Budget!Together(w), c.day)]
<1>1. /\ ledger' = ledger \cup {row} /\ UNCHANGED <<day, completed>> /\ work[w].at = "done"
  BY DEF Budget!Record
<1>2. /\ work[w] \in [at : {"answered", "admitted", "done"}, run : Nat, manual : BOOLEAN, n : Nat, day : Nat,
                      kind : CallKinds, produced : BOOLEAN]
      /\ work[w].day <= day /\ day \in Nat /\ completed \in Nat
  BY <1>1 DEF UsageInv, UsageType, WorkStates, Budget!Resting
<1>3. /\ Budget!Spent(Budget!Together(w), work[w].day) = Cardinality(RowsOf(ledger, Budget!Together(w), work[w].day))
      /\ Cardinality(RowsOf(ledger, Budget!Together(w), work[w].day)) \in Nat
  BY SpentRows, MoreIsSpent DEF UsageInv, UsageType
<1>4. /\ row \in Row /\ row.by = w /\ row.run = work[w].run /\ row.manual = work[w].manual /\ row.day = work[w].day
      /\ row.before = Budget!Spent(Budget!Together(w), work[w].day)
  BY <1>2, <1>3 DEF Row
<1> HIDE DEF row
<1>5. PICK new \in WorkStates :
          /\ work' = [work EXCEPT ![w] = new]
          /\ new.at = "resting" \/ (new.at = "running" /\ new.run = work[w].run /\ new.manual = work[w].manual)
  <2>1. CASE work' = [work EXCEPT ![w] = Budget!Resting]
    <3>1. Budget!Resting \in WorkStates /\ Budget!Resting.at = "resting"
      BY DEF WorkStates, Budget!Resting
    <3> QED BY <2>1, <3>1
  <2> DEFINE new == [at |-> "running", run |-> work[w].run, manual |-> work[w].manual]
  <2>2. CASE work' = [work EXCEPT ![w] = new]
    <3>1. new \in WorkStates /\ new.at = "running" /\ new.run = work[w].run /\ new.manual = work[w].manual
      BY <1>2 DEF WorkStates
    <3> HIDE DEF new
    <3> QED BY <2>2, <3>1
  <2> QED BY <2>1, <2>2 DEF Budget!Record
<1>6. \A v \in Workers : work'[v] = IF v = w THEN new ELSE work[v]
  BY <1>5 DEF UsageInv, UsageType
<1>7. work' \in [Workers -> WorkStates] /\ completed' \in Nat /\ day' = day
  BY <1>1, <1>2, <1>5 DEF UsageInv, UsageType
<1>8. ASSUME NEW v \in Workers
      PROVE  /\ work'[v].at \in {"resting", "running"} \/ work'[v].day <= day'
             /\ WorksOn(work[v], work'[v], day, day')
  <2>1. work[v].at # "resting" => FirstDay(work[v], day) \in Nat
    BY DaysOfWork DEF UsageInv
  <2>2. work[v].at \in {"resting", "running"} \/ work[v].day <= day
    BY DEF UsageInv, UsageType
  <2>3. CASE v = w
    BY <1>1, <1>2, <1>5, <1>6, <1>7, <2>3 DEF WorksOn, FirstDay
  <2>4. CASE v # w
    <3>1. work'[v] = work[v] /\ day' = day
      BY <1>6, <1>7, <2>4
    <3> QED BY <2>1, <2>2, <3>1 DEF WorksOn
  <2> QED BY <2>3, <2>4
<1>9. /\ row.day <= day
      /\ row.by \in Workers => /\ work[row.by].at = "done" /\ work[row.by].run = row.run
                               /\ work[row.by].manual = row.manual /\ work[row.by].day = row.day
                               /\ row.before = Cardinality(RowsOf(ledger, Budget!Together(row.by), row.day))
  BY <1>1, <1>2, <1>3, <1>4
<1> QED BY <1>1, <1>4, <1>7, <1>8, <1>9, RowAdded

LEMMA ChatCounted ==
    ASSUME UsageInv, NEW by \in {"chat", "council"}, Budget!Chat(by)
    PROVE  UsageInv'
<1> DEFINE row == [n |-> completed + 1, by |-> by, run |-> completed + 1, manual |-> TRUE, day |-> day,
                   kind |-> "none", produced |-> FALSE, before |-> 0]
<1>1. ledger' = ledger \cup {row} /\ completed' = completed + 1 /\ UNCHANGED <<day, work>>
  BY DEF Budget!Chat
<1>2. day \in Nat /\ completed \in Nat
  BY DEF UsageInv, UsageType
<1>3. row \in Row /\ row.by = by /\ row.day = day
  BY <1>2 DEF Row, CallKinds
<1>4. by \notin Workers
  BY MemoryAssumption DEF MemoryAssumption
<1> HIDE DEF row
<1>5. /\ work' \in [Workers -> WorkStates] /\ completed' \in Nat /\ row.day <= day /\ row.by \notin Workers
      /\ \A v \in Workers : work'[v].at \in {"resting", "running"} \/ work'[v].day <= day'
  BY <1>1, <1>2, <1>3, <1>4 DEF UsageInv, UsageType
<1>6. ASSUME NEW v \in Workers PROVE WorksOn(work[v], work'[v], day, day')
  <2>1. work[v].at # "resting" => FirstDay(work[v], day) \in Nat
    BY DaysOfWork DEF UsageInv
  <2> QED BY <1>1, <2>1 DEF WorksOn
<1> QED BY <1>1, <1>3, <1>5, <1>6, RowAdded

LEMMA DaysPass ==
    ASSUME UsageInv,
           \/ (\E r \in ledger : Budget!LookForMessage(r)) \/ (\E request \in restoring : Budget!Redeliver(request))
           \/ Budget!Retract \/ Budget!Midnight \/ Budget!Restart \/ UNCHANGED usageVars
    PROVE  UsageInv'
<1>1. ledger' = ledger /\ completed' = completed
  BY DEF Budget!LookForMessage, Budget!Redeliver, Budget!Retract, Budget!Midnight, Budget!Restart, usageVars
<1>2. work' = work \/ work' = [w \in Workers |-> Budget!Resting]
  BY DEF Budget!LookForMessage, Budget!Redeliver, Budget!Retract, Budget!Midnight, Budget!Restart, usageVars
<1>3. day' = day \/ day' = day + 1
  BY DEF Budget!LookForMessage, Budget!Redeliver, Budget!Retract, Budget!Midnight, Budget!Restart, usageVars
<1>4. day \in Nat /\ completed \in Nat /\ work \in [Workers -> WorkStates]
  BY DEF UsageInv, UsageType
<1>5. Budget!Resting \in WorkStates /\ Budget!Resting.at = "resting"
  BY DEF WorkStates, Budget!Resting
<1>6. day' \in Nat /\ day <= day' /\ completed' \in Nat /\ work' \in [Workers -> WorkStates]
  BY <1>1, <1>2, <1>3, <1>4, <1>5
<1>7. ASSUME NEW v \in Workers
      PROVE  /\ work'[v].at \in {"resting", "running"} \/ work'[v].day <= day'
             /\ WorksOn(work[v], work'[v], day, day')
  <2>1. work'[v] = work[v] \/ work'[v].at = "resting"
    BY <1>2, <1>5
  <2>2. CASE work'[v].at = "resting"
    BY <2>2 DEF WorksOn
  <2>3. CASE work'[v] = work[v] /\ work[v].at # "resting"
    <3>1. FirstDay(work[v], day) \in Nat /\ FirstDay(work[v], day) <= day
      BY <2>3, DaysOfWork DEF UsageInv
    <3>2. FirstDay(work[v], day) <= FirstDay(work[v], day')
      BY <1>4, <1>6, <3>1 DEF FirstDay
    <3>3. work'[v].at = "running" \/ work'[v].day <= day'
      BY <1>4, <1>6, <2>3, <3>1 DEF FirstDay
    <3> QED BY <2>3, <3>2, <3>3 DEF WorksOn
  <2> QED BY <2>1, <2>2, <2>3
<1> QED BY <1>1, <1>6, <1>7, WorkGoesOn

(* The workers share a daily limit of tokens, run side by side and count a   *)
(* call only when it has ended: on each day at most one run of each worker   *)
(* goes over it, the one that was under way, for any workers, limits, days,  *)
(* failures and restarts (usage.rs, evaluate_gate of exploration.rs).        *)
THEOREM BudgetsHold == Spec => []TokensStopAtTheLimit
<1>1. UsageInv /\ [Next]_memoryVars => UsageInv'
  <2> SUFFICES ASSUME UsageInv, [Next]_memoryVars PROVE UsageInv'
    OBVIOUS
  <2>1. CASE Budget!Next
    BY <2>1, RunBegins, CallEnds, CallGoesOn, CallCounted, ChatCounted, DaysPass DEF Budget!Next, CallKinds
  <2>2. CASE UNCHANGED usageVars
    BY <2>2, DaysPass
  <2> QED BY <2>1, <2>2 DEF Next, memoryVars
<1>2. UsageInv => TokensStopAtTheLimit
  <2> SUFFICES ASSUME UsageInv, NEW w \in Workers, NEW d \in 0 .. MaxDay
               PROVE  Cardinality({r.run : r \in {q \in ledger : /\ q.by = w /\ q.day = d /\ ~q.manual
                                                                 /\ q.before >= Budget!Limit(w)}}) <= 1
    BY UsageCardinality DEF TokensStopAtTheLimit, Budget!TokensStopAtTheLimit
  <2> DEFINE over == {q \in ledger : q.by = w /\ q.day = d /\ ~q.manual /\ q.before >= Budget!Limit(w)}
             runs == {r.run : r \in over}
  <2>1. \A r, q \in over : r.run = q.run
    BY DEF UsageInv, OverOnce, Over
  <2>2. runs = {} \/ \E k \in runs : runs = {k}
    BY <2>1
  <2> HIDE DEF runs
  <2>3. Cardinality(runs) <= 1
    <3>1. CASE runs = {}
      BY <3>1, FS_EmptySet
    <3>2. CASE runs # {}
      <4>1. PICK k : runs = {k}
        BY <2>2, <3>2
      <4>2. Cardinality({k}) = 1
        BY FS_Singleton
      <4> QED BY <4>1, <4>2
    <3> QED BY <3>1, <3>2
  <2> QED BY <2>3 DEF runs
<1> QED BY UsageInit, <1>1, <1>2, PTL DEF Spec
-----------------------------------------------------------------------------
(* The repair of Pages.                                                      *)

RepairTasks == {"content", "language"}
RepairPages == Repair!Pages
Revision == [content : Repair!Contents, from : SUBSET Quotable, by : {"content", "language", "other"}]
Proposal == [page : RepairPages, expected : Nat, action : {"revise", "keep"}, sources : SUBSET Quotable,
             applied : Nat, note : {"none", "stale", "applied"}, content : Repair!Contents]
Offer == [page : RepairPages, expected : Nat, content : Repair!Contents, direct : SUBSET Quotable,
          allowed : SUBSET Quotable]
Preview == [at : {"preview"}, task : RepairTasks, left : Seq(Offer)]
Apply == [at : {"apply", "checked", "repaired"}, task : RepairTasks, left : Seq(Nat)]

RepairType ==
    /\ repaired \in [RepairPages -> Seq(Revision)]
    /\ \A p \in RepairPages : repaired[p] # <<>>
    /\ spoken \subseteq Quotable
    /\ repairLedger \in [RepairTasks -> Seq(Proposal)]
    /\ repairRun \in {Repair!None} \cup Preview \cup Apply

(* The ledger is about Revisions there are or were.                          *)
LedgerOK ==
    \A t \in RepairTasks : \A i \in DOMAIN repairLedger[t] :
        LET e == repairLedger[t][i]
        IN  /\ e.expected \in DOMAIN repaired[e.page]
            /\ t = "language" => e.sources = repaired[e.page][e.expected].from
            /\ e.applied # 0 => e.applied \in DOMAIN repaired[e.page]

(* What a preview has still to review is not in the ledger, and no Page is   *)
(* there twice.                                                              *)
PreviewOK ==
    repairRun.at = "preview" =>
        /\ \A k \in DOMAIN repairRun.left :
               LET c == repairRun.left[k]
               IN  /\ c.expected \in DOMAIN repaired[c.page]
                   /\ c.direct = repaired[c.page][c.expected].from
                   /\ \A i \in DOMAIN repairLedger[repairRun.task] :
                          LET e == repairLedger[repairRun.task][i]
                          IN  e.page = c.page => e.expected # c.expected /\ e.applied # c.expected
        /\ \A k, l \in DOMAIN repairRun.left : repairRun.left[k].page = repairRun.left[l].page => k = l

(* An apply goes through entries of the ledger.  Once its entry is checked,  *)
(* only others write the Page before it does; what it wrote was reviewed by  *)
(* nobody yet.                                                               *)
ApplyOK ==
    repairRun.at \in {"apply", "checked", "repaired"} =>
        /\ repairRun.left # <<>>
        /\ \A k \in DOMAIN repairRun.left : repairRun.left[k] \in DOMAIN repairLedger[repairRun.task]
        /\ repairRun.at = "checked" =>
               \/ Len(repaired[Repair!Entry.page]) = Repair!Entry.expected
               \/ \E i \in DOMAIN repaired[Repair!Entry.page] :
                      i > Repair!Entry.expected /\ repaired[Repair!Entry.page][i].by = "other"
        /\ repairRun.at = "repaired" =>
               /\ Repair!Entry.expected + 1 \in DOMAIN repaired[Repair!Entry.page]
               /\ \A i \in DOMAIN repairLedger[repairRun.task] :
                      repairLedger[repairRun.task][i].page = Repair!Entry.page =>
                          repairLedger[repairRun.task][i].expected <= Repair!Entry.expected

SourcesOK ==
    \A p \in RepairPages : \A i \in DOMAIN repaired[p] :
        repaired[p][i].by = "language" => i > 1 /\ repaired[p][i].from = repaired[p][i - 1].from

RepairInv == RepairType /\ LedgerOK /\ PreviewOK /\ ApplyOK /\ SourcesOK /\ Repair!ReviewedOnce

LEMMA RepairInit == Repair!Init => RepairInv
<1> SUFFICES ASSUME Repair!Init PROVE RepairInv
  OBVIOUS
<1> DEFINE first(p) == [content |-> "english", from |-> Cited[p], by |-> "other"]
<1>1. ASSUME NEW p \in RepairPages PROVE first(p) \in Revision /\ first(p).by = "other"
  <2>1. Cited[p] \subseteq Quotable
    BY RepairAssumption DEF RepairPages, Repair!Pages, Repair!ToSet
  <2> QED BY <2>1 DEF Revision, Repair!Contents
<1>2. repaired = [p \in RepairPages |-> <<first(p)>>]
  BY DEF Repair!Init, RepairPages
<1> HIDE DEF first
<1>3. /\ repaired \in [RepairPages -> Seq(Revision)]
      /\ \A p \in RepairPages : repaired[p] # <<>> /\ DOMAIN repaired[p] = {1} /\ repaired[p][1].by = "other"
  BY <1>1, <1>2
<1>4. repairRun = Repair!None /\ repairRun.at = "none"
  BY DEF Repair!Init, Repair!None
<1>5. /\ repairLedger = [t \in RepairTasks |-> <<>>]
      /\ \A t \in RepairTasks : DOMAIN repairLedger[t] = {}
  BY DEF Repair!Init, RepairTasks
<1>6. RepairType
  BY <1>3, <1>4, <1>5 DEF RepairType, Repair!Init
<1>7. LedgerOK /\ Repair!ReviewedOnce
  BY <1>5 DEF LedgerOK, Repair!ReviewedOnce, RepairTasks
<1>8. PreviewOK /\ ApplyOK /\ SourcesOK
  BY <1>3, <1>4 DEF PreviewOK, ApplyOK, SourcesOK
<1> QED BY <1>6, <1>7, <1>8 DEF RepairInv

(* A run that ends, while nothing else changes. *)
LEMMA RepairRunEnds ==
    ASSUME RepairInv, repairRun' = Repair!None, UNCHANGED <<repaired, spoken, repairLedger>>
    PROVE  RepairInv'
<1>1. repairRun'.at = "none"
  BY DEF Repair!None
<1>2. RepairType'
  BY DEF RepairInv, RepairType
<1>3. LedgerOK' /\ SourcesOK' /\ Repair!ReviewedOnce'
  BY DEF RepairInv, LedgerOK, SourcesOK, Repair!ReviewedOnce
<1>4. PreviewOK' /\ ApplyOK'
  BY <1>1 DEF PreviewOK, ApplyOK
<1> QED BY <1>2, <1>3, <1>4 DEF RepairInv

(* What is retracted is in no part of the invariant. *)
LEMMA RepairRetract ==
    ASSUME RepairInv, spoken' \subseteq spoken, UNCHANGED <<repaired, repairLedger, repairRun>>
    PROVE  RepairInv'
  BY DEF RepairInv, RepairType, LedgerOK, SourcesOK, Repair!ReviewedOnce, PreviewOK, ApplyOK, Repair!Entry

LEMMA RepairCardinality == \A some : Repair!Cardinality(some) = Cardinality(some)
BY DEF Repair!Cardinality, Cardinality

(* Where a run's positions come from: each is one of the set, and none is    *)
(* taken twice.                                                              *)
LEMMA TakenInOrder ==
    ASSUME NEW n \in Nat, NEW positions \in SUBSET (1..n), NEW left \in Repair!InOrder(positions), left # <<>>
    PROVE  /\ \E m \in Nat : m > 0 /\ Repair!Taken(left) = 1..m
           /\ \A i \in Repair!Taken(left) : left[i] \in positions
           /\ \A i, j \in Repair!Taken(left) : left[i] = left[j] => i = j
<1>1. IsFiniteSet(1..n)
  BY FS_Interval
<1>2. IsFiniteSet(positions)
  BY <1>1, FS_Subset
<1>3. Repair!Cardinality(positions) = Cardinality(positions)
  BY RepairCardinality
<1>4. PICK c \in Nat : c = Repair!Cardinality(positions)
  BY <1>2, <1>3, FS_CardinalityType
<1>5. left \in [1..c -> positions] /\ \A i, j \in 1..c : i < j => left[i] < left[j]
  BY <1>4 DEF Repair!InOrder
<1>6. left \in Seq(positions) /\ Len(left) = c /\ c > 0
  BY <1>4, <1>5
<1> DEFINE m == IF c < MaxPages THEN c ELSE MaxPages
<1>7. m \in Nat /\ m > 0 /\ m <= c /\ Repair!Taken(left) = 1..m
  BY <1>4, <1>6, RepairAssumption DEF Repair!Taken
<1> HIDE DEF m
<1>8. ASSUME NEW i \in 1..m, NEW j \in 1..m, left[i] = left[j] PROVE i = j
  <2>1. i \in 1..c /\ j \in 1..c
    BY <1>4, <1>7
  <2>2. left[i] \in positions /\ left[j] \in positions
    BY <1>5, <2>1
  <2>3. left[i] \in Nat /\ left[j] \in Nat
    <3>1. \A k \in positions : k \in Nat
      OBVIOUS
    <3> QED BY <2>2, <3>1
  <2>4. ~(i < j) /\ ~(j < i)
    BY <1>5, <1>8, <2>1, <2>3
  <2> QED BY <1>4, <2>1, <2>4
<1> QED BY <1>5, <1>7, <1>8

(* What a preview is to review is the current Revision of each Page. *)
LEMMA CandidateIs ==
    ASSUME RepairType, NEW p \in RepairPages, NEW c, c = Repair!Candidate(p)
    PROVE  /\ c \in Offer /\ c.page = p /\ c.expected = Len(repaired[p])
           /\ c.expected \in DOMAIN repaired[p] /\ c.direct = repaired[p][c.expected].from
<1>1. repaired[p] \in Seq(Revision) /\ repaired[p] # <<>>
  BY DEF RepairType
<1>2. PICK n \in Nat : n = Len(repaired[p]) /\ n > 0 /\ DOMAIN repaired[p] = 1..n
  BY <1>1
<1>3. Repair!Current(p) = repaired[p][n] /\ Repair!RevisionOf(p) = n
  BY <1>2 DEF Repair!Current, Repair!RevisionOf, Repair!Last
<1>4. repaired[p][n] \in Revision
  BY <1>1, <1>2
<1>5. Repair!Resolved(p) \subseteq Quotable
  BY DEF Repair!Resolved, Repair!Near, RepairType
<1>6. c = [page |-> p, expected |-> n, content |-> repaired[p][n].content, direct |-> repaired[p][n].from,
           allowed |-> Repair!Resolved(p)]
  BY <1>3 DEF Repair!Candidate
<1>7. repaired[p][n].content \in Repair!Contents /\ repaired[p][n].from \in SUBSET Quotable
  BY <1>4 DEF Revision
<1>8. c \in Offer
  BY <1>5, <1>6, <1>7 DEF Offer
<1> QED BY <1>2, <1>6, <1>8

LEMMA RepairStartPreview ==
    ASSUME RepairInv, NEW t \in RepairTasks, Repair!StartPreview(t)
    PROVE  RepairInv'
<1> DEFINE fresh == {k \in DOMAIN Inventory :
                        Repair!Concerns(t, Inventory[k])
                        /\ <<Inventory[k], Repair!RevisionOf(Inventory[k])>> \notin Repair!Known(t)}
<1>1. PICK left \in Repair!InOrder(fresh) :
          /\ left # <<>>
          /\ repairRun' = [at |-> "preview", task |-> t,
                           left |-> [i \in Repair!Taken(left) |-> Repair!Candidate(Inventory[left[i]])]]
  BY DEF Repair!StartPreview
<1>2. UNCHANGED <<repaired, spoken, repairLedger>>
  BY DEF Repair!StartPreview
<1>3. Len(Inventory) \in Nat /\ DOMAIN Inventory = 1..Len(Inventory)
  BY RepairAssumption
<1>4. fresh \in SUBSET (1..Len(Inventory))
  BY <1>3
<1> HIDE DEF fresh
<1>5. PICK m \in Nat : m > 0 /\ Repair!Taken(left) = 1..m
  BY <1>1, <1>3, <1>4, TakenInOrder
<1>6. /\ \A i \in 1..m : left[i] \in fresh
      /\ \A i, j \in 1..m : left[i] = left[j] => i = j
  BY <1>1, <1>3, <1>4, <1>5, TakenInOrder
<1>7. ASSUME NEW k \in fresh
      PROVE  Inventory[k] \in RepairPages /\ k \in DOMAIN Inventory
             /\ <<Inventory[k], Len(repaired[Inventory[k]])>> \notin Repair!Known(t)
  BY <1>7 DEF fresh, RepairPages, Repair!Pages, Repair!ToSet, Repair!RevisionOf
<1> DEFINE c(i) == Repair!Candidate(Inventory[left[i]])
           p(i) == Inventory[left[i]]
<1>8. ASSUME NEW i \in 1..m
      PROVE  /\ c(i) \in Offer /\ c(i).page = p(i) /\ c(i).expected = Len(repaired[p(i)]) /\ p(i) \in RepairPages
             /\ c(i).expected \in DOMAIN repaired[p(i)] /\ c(i).direct = repaired[p(i)][c(i).expected].from
  BY <1>6, <1>7, CandidateIs DEF RepairInv
<1>9. ASSUME NEW i \in 1..m, NEW j \in DOMAIN repairLedger[t], repairLedger[t][j].page = c(i).page
      PROVE  repairLedger[t][j].expected # c(i).expected /\ repairLedger[t][j].applied # c(i).expected
  <2> DEFINE e == repairLedger[t][j]
  <2>1. <<p(i), Len(repaired[p(i)])>> \notin Repair!Known(t)
    BY <1>6, <1>7
  <2>2. e \in Repair!ToSet(repairLedger[t]) /\ e.page = p(i)
    BY <1>8, <1>9 DEF Repair!ToSet
  <2>3. <<e.page, e.expected>> \in Repair!Known(t)
    BY <2>2 DEF Repair!Known
  <2>4. e.applied # 0 => <<e.page, e.applied>> \in Repair!Known(t)
    BY <2>2 DEF Repair!Known
  <2>5. c(i).expected # 0 /\ c(i).expected = Len(repaired[p(i)])
    BY <1>8 DEF RepairInv, RepairType
  <2> HIDE DEF e, c, p
  <2>6. e.expected # c(i).expected /\ e.applied # c(i).expected
    BY <2>1, <2>2, <2>3, <2>4, <2>5
  <2> QED BY <2>6 DEF e
<1>10. ASSUME NEW i \in 1..m, NEW j \in 1..m, c(i).page = c(j).page PROVE i = j
  <2>1. Inventory[left[i]] = Inventory[left[j]]
    BY <1>8, <1>10
  <2>2. left[i] \in DOMAIN Inventory /\ left[j] \in DOMAIN Inventory
    BY <1>6, <1>7
  <2> QED BY <1>6, <2>1, <2>2, RepairAssumption
<1> HIDE DEF c
<1>11. repairRun' = [at |-> "preview", task |-> t, left |-> [i \in 1..m |-> c(i)]]
  BY <1>1, <1>5 DEF c
<1>12. PICK left2 : left2 = [i \in 1..m |-> c(i)]
  OBVIOUS
<1>13. /\ left2 \in Seq(Offer) /\ DOMAIN left2 = 1..m /\ \A i \in 1..m : left2[i] = c(i)
       /\ repairRun' = [at |-> "preview", task |-> t, left |-> left2]
  BY <1>8, <1>11, <1>12
<1>14. repairRun' \in Preview
  BY <1>13 DEF Preview
<1>15. RepairType'
  BY <1>2, <1>14 DEF RepairInv, RepairType
<1>16. LedgerOK' /\ SourcesOK' /\ Repair!ReviewedOnce'
  BY <1>2 DEF RepairInv, LedgerOK, SourcesOK, Repair!ReviewedOnce
<1>17. ApplyOK'
  BY <1>13 DEF ApplyOK
<1>18. repairRun'.at = "preview" /\ repairRun'.left = left2 /\ repairRun'.task = t
  BY <1>13
<1>19. PreviewOK'
  <2>1. ASSUME NEW k \in 1..m
        PROVE  /\ left2[k].expected \in DOMAIN repaired[left2[k].page]
               /\ left2[k].direct = repaired[left2[k].page][left2[k].expected].from
               /\ \A i \in DOMAIN repairLedger[t] : repairLedger[t][i].page = left2[k].page =>
                      repairLedger[t][i].expected # left2[k].expected /\ repairLedger[t][i].applied # left2[k].expected
    BY <1>8, <1>9, <1>13
  <2>2. \A k, l \in 1..m : left2[k].page = left2[l].page => k = l
    BY <1>10, <1>13
  <2> QED BY <1>2, <1>13, <1>18, <2>1, <2>2 DEF PreviewOK
<1> QED BY <1>15, <1>16, <1>17, <1>19 DEF RepairInv

LEMMA RepairStartApply ==
    ASSUME RepairInv, NEW t \in RepairTasks, Repair!StartApply(t)
    PROVE  RepairInv'
<1> DEFINE waiting == {i \in DOMAIN repairLedger[t] : Repair!Waits(repairLedger[t][i])}
<1>1. PICK all \in Repair!InOrder(waiting) :
          all # <<>> /\ repairRun' = [at |-> "apply", task |-> t, left |-> [i \in Repair!Taken(all) |-> all[i]]]
  BY DEF Repair!StartApply
<1>2. UNCHANGED <<repaired, spoken, repairLedger>>
  BY DEF Repair!StartApply
<1>3. PICK n \in Nat : DOMAIN repairLedger[t] = 1..n
  BY DEF RepairInv, RepairType
<1>4. waiting \in SUBSET (1..n) /\ waiting \subseteq DOMAIN repairLedger[t]
  BY <1>3
<1> HIDE DEF waiting
<1>5. PICK m \in Nat : m > 0 /\ Repair!Taken(all) = 1..m
  BY <1>1, <1>3, <1>4, TakenInOrder
<1>6. \A i \in 1..m : all[i] \in DOMAIN repairLedger[t] /\ all[i] \in Nat
  <2>1. \A i \in 1..m : all[i] \in waiting
    BY <1>1, <1>3, <1>4, <1>5, TakenInOrder
  <2>2. \A i \in waiting : i \in DOMAIN repairLedger[t] /\ i \in Nat
    BY <1>3, <1>4
  <2> QED BY <2>1, <2>2
<1>7. PICK left : left = [i \in 1..m |-> all[i]]
  OBVIOUS
<1>8. /\ left \in Seq(Nat) /\ left # <<>> /\ DOMAIN left = 1..m /\ \A i \in 1..m : left[i] \in DOMAIN repairLedger[t]
      /\ repairRun' = [at |-> "apply", task |-> t, left |-> left]
  <2>1. left \in [1..m -> Nat] /\ DOMAIN left = 1..m /\ 1 \in 1..m
    BY <1>5, <1>6, <1>7
  <2>2. left \in Seq(Nat) /\ left # <<>>
    BY <1>5, <2>1
  <2>3. repairRun' = [at |-> "apply", task |-> t, left |-> left]
    BY <1>1, <1>5, <1>7
  <2> QED BY <1>6, <1>7, <2>1, <2>2, <2>3
<1>9. repairRun' \in Apply
  BY <1>8 DEF Apply
<1>10. RepairType'
  BY <1>2, <1>9 DEF RepairInv, RepairType
<1>11. LedgerOK' /\ SourcesOK' /\ Repair!ReviewedOnce'
  BY <1>2 DEF RepairInv, LedgerOK, SourcesOK, Repair!ReviewedOnce
<1>12. repairRun'.at = "apply" /\ repairRun'.left = left /\ repairRun'.task = t
  BY <1>8
<1>13. PreviewOK' /\ ApplyOK'
  BY <1>2, <1>8, <1>12 DEF PreviewOK, ApplyOK
<1> QED BY <1>10, <1>11, <1>13 DEF RepairInv

(* What the ledger and the run hold. *)
LEMMA ProposalsAre ==
    RepairType => \A t \in RepairTasks : \A i \in DOMAIN repairLedger[t] : repairLedger[t][i] \in Proposal
<1> SUFFICES ASSUME RepairType, NEW t \in RepairTasks, NEW i \in DOMAIN repairLedger[t]
             PROVE  repairLedger[t][i] \in Proposal
  OBVIOUS
<1>1. repairLedger[t] \in Seq(Proposal)
  BY DEF RepairType
<1> QED BY <1>1

LEMMA OffersAre ==
    repairRun \in Preview => repairRun.left \in Seq(Offer) /\ \A k \in DOMAIN repairRun.left : repairRun.left[k] \in Offer
<1> SUFFICES ASSUME repairRun \in Preview
             PROVE  repairRun.left \in Seq(Offer) /\ \A k \in DOMAIN repairRun.left : repairRun.left[k] \in Offer
  OBVIOUS
<1>1. repairRun.left \in Seq(Offer)
  BY DEF Preview
<1> QED BY <1>1

(* A Page with a Revision more. *)
LEMMA PageGrows ==
    ASSUME RepairType, NEW p \in RepairPages, NEW r \in Revision,
           repaired' = [repaired EXCEPT ![p] = Append(@, r)]
    PROVE  /\ repaired' \in [RepairPages -> Seq(Revision)]
           /\ \A q \in RepairPages :
                  /\ repaired'[q] # <<>>
                  /\ \A i \in DOMAIN repaired[q] : i \in DOMAIN repaired'[q] /\ repaired'[q][i] = repaired[q][i]
                  /\ \A i \in DOMAIN repaired'[q] :
                         \/ i \in DOMAIN repaired[q]
                         \/ q = p /\ i = Len(repaired[p]) + 1 /\ repaired'[q][i] = r
           /\ Len(repaired[p]) + 1 \in DOMAIN repaired'[p] /\ repaired'[p][Len(repaired[p]) + 1] = r
<1>1. repaired \in [RepairPages -> Seq(Revision)] /\ \A q \in RepairPages : repaired[q] # <<>>
  BY DEF RepairType
<1>2. repaired[p] \in Seq(Revision)
  BY <1>1
<1> DEFINE longer == Append(repaired[p], r)
<1>3. /\ longer \in Seq(Revision) /\ longer # <<>>
      /\ \A i \in DOMAIN repaired[p] : i \in DOMAIN longer /\ longer[i] = repaired[p][i]
      /\ \A i \in DOMAIN longer :
             i \in DOMAIN repaired[p] \/ i = Len(repaired[p]) + 1
      /\ Len(repaired[p]) + 1 \in DOMAIN longer /\ longer[Len(repaired[p]) + 1] = r
  BY <1>2
<1>4. repaired' = [repaired EXCEPT ![p] = longer]
  OBVIOUS
<1> HIDE DEF longer
<1>5. repaired'[p] = longer /\ \A q \in RepairPages : q # p => repaired'[q] = repaired[q]
  BY <1>1, <1>4
<1>6. repaired' \in [RepairPages -> Seq(Revision)]
  BY <1>1, <1>3, <1>4
<1>7. ASSUME NEW q \in RepairPages
      PROVE  /\ repaired'[q] # <<>>
             /\ \A i \in DOMAIN repaired[q] : i \in DOMAIN repaired'[q] /\ repaired'[q][i] = repaired[q][i]
             /\ \A i \in DOMAIN repaired'[q] :
                    \/ i \in DOMAIN repaired[q]
                    \/ q = p /\ i = Len(repaired[p]) + 1 /\ repaired'[q][i] = r
  <2>1. CASE q = p
    BY <1>3, <1>5, <2>1
  <2>2. CASE q # p
    BY <1>1, <1>5, <2>2
  <2> QED BY <2>1, <2>2
<1> QED BY <1>3, <1>5, <1>6, <1>7

(* What a new Revision leaves as it was. *)
LEMMA GrowthKeeps ==
    ASSUME RepairInv, UNCHANGED <<spoken, repairLedger>>,
           NEW p \in RepairPages, NEW r \in Revision,
           repaired' = [repaired EXCEPT ![p] = Append(@, r)],
           r.by = "language" => r.from = repaired[p][Len(repaired[p])].from
    PROVE  LedgerOK' /\ SourcesOK' /\ Repair!ReviewedOnce'
<1>1. \A t \in RepairTasks : \A i \in DOMAIN repairLedger[t] : repairLedger[t][i].page \in RepairPages
  BY ProposalsAre DEF RepairInv, Proposal
<1>2. \A q \in RepairPages : \A i \in DOMAIN repaired[q] :
          i \in DOMAIN repaired'[q] /\ repaired'[q][i] = repaired[q][i]
  BY PageGrows DEF RepairInv
<1>3. LedgerOK'
  BY <1>1, <1>2 DEF RepairInv, LedgerOK
<1>4. ASSUME NEW q \in RepairPages, NEW i \in DOMAIN repaired'[q], repaired'[q][i].by = "language"
      PROVE  i > 1 /\ repaired'[q][i].from = repaired'[q][i - 1].from
  <2>1. CASE i \in DOMAIN repaired[q]
    <3>1. repaired[q][i].by = "language" /\ repaired'[q][i] = repaired[q][i]
      BY <1>2, <1>4, <2>1
    <3>2. i > 1 /\ repaired[q][i].from = repaired[q][i - 1].from
      BY <2>1, <3>1 DEF RepairInv, SourcesOK
    <3>3. i - 1 \in DOMAIN repaired[q]
      BY <2>1, <3>2 DEF RepairInv, RepairType
    <3> QED BY <1>2, <3>1, <3>2, <3>3
  <2>2. CASE q = p /\ i = Len(repaired[p]) + 1 /\ repaired'[q][i] = r
    <3>1. Len(repaired[p]) \in DOMAIN repaired[p] /\ Len(repaired[p]) \in Nat \ {0}
      BY DEF RepairInv, RepairType
    <3>2. r.from = repaired[p][Len(repaired[p])].from
      BY <1>4, <2>2
    <3>3. repaired'[p][Len(repaired[p])] = repaired[p][Len(repaired[p])]
      BY <1>2, <3>1
    <3>4. i - 1 = Len(repaired[p]) /\ i > 1
      BY <2>2, <3>1
    <3> QED BY <2>2, <3>2, <3>3, <3>4
  <2> QED BY <2>1, <2>2, PageGrows DEF RepairInv
<1>5. SourcesOK'
  BY <1>4 DEF SourcesOK
<1>6. Repair!ReviewedOnce'
  BY DEF RepairInv, Repair!ReviewedOnce
<1> QED BY <1>3, <1>5, <1>6

(* The entry of an apply. *)
LEMMA EntryIs ==
    ASSUME RepairInv, repairRun.at \in {"apply", "checked", "repaired"}
    PROVE  /\ repairRun \in Apply /\ repairRun.task \in RepairTasks /\ repairRun.left # <<>>
           /\ Head(repairRun.left) \in DOMAIN repairLedger[repairRun.task]
           /\ Repair!Entry = repairLedger[repairRun.task][Head(repairRun.left)]
           /\ Repair!Entry \in Proposal
<1>1. repairRun \in Apply
  BY DEF RepairInv, RepairType, Preview, Repair!None
<1>2. repairRun.left # <<>> /\ repairRun.left \in Seq(Nat) /\ repairRun.task \in RepairTasks
  BY <1>1 DEF RepairInv, ApplyOK, Apply
<1>3. 1 \in DOMAIN repairRun.left /\ Head(repairRun.left) = repairRun.left[1]
  BY <1>2
<1>4. Head(repairRun.left) \in DOMAIN repairLedger[repairRun.task]
  BY <1>3 DEF RepairInv, ApplyOK
<1>5. repairLedger[repairRun.task][Head(repairRun.left)] \in Proposal
  BY <1>2, <1>4 DEF RepairInv, RepairType
<1> QED BY <1>1, <1>2, <1>4, <1>5 DEF Repair!Entry

LEMMA RepairEdit ==
    ASSUME RepairInv, NEW p \in RepairPages, Repair!Edit(p, "english")
    PROVE  RepairInv'
<1> DEFINE r == [content |-> "english", from |-> Repair!Current(p).from, by |-> "other"]
<1>1. repaired' = [repaired EXCEPT ![p] = Append(@, r)] /\ UNCHANGED <<spoken, repairLedger, repairRun>>
  BY DEF Repair!Edit
<1>2. r \in Revision /\ r.by = "other"
  <2>1. repaired[p] \in Seq(Revision) /\ repaired[p] # <<>>
    BY DEF RepairInv, RepairType
  <2>2. Repair!Current(p) \in Revision
    BY <2>1 DEF Repair!Current, Repair!Last
  <2> QED BY <2>2 DEF Revision, Repair!Contents
<1> HIDE DEF r
<1>3. LedgerOK' /\ SourcesOK' /\ Repair!ReviewedOnce'
  BY <1>1, <1>2, GrowthKeeps
<1>4. RepairType'
  BY <1>1, <1>2, PageGrows DEF RepairInv, RepairType
<1>5. \A q \in RepairPages : \A i \in DOMAIN repaired[q] :
          i \in DOMAIN repaired'[q] /\ repaired'[q][i] = repaired[q][i]
  BY <1>1, <1>2, PageGrows DEF RepairInv
<1>6. PreviewOK'
  <2> SUFFICES ASSUME repairRun.at = "preview" PROVE PreviewOK'
    BY <1>1 DEF PreviewOK
  <2>1. repairRun \in Preview
    BY DEF RepairInv, RepairType, Apply, Repair!None
  <2>2. \A k \in DOMAIN repairRun.left : repairRun.left[k].page \in RepairPages
    BY <2>1, OffersAre DEF Offer
  <2> QED BY <1>1, <1>5, <2>2 DEF RepairInv, PreviewOK
<1>7. ApplyOK'
  <2> SUFFICES ASSUME repairRun.at \in {"apply", "checked", "repaired"} PROVE ApplyOK'
    BY <1>1 DEF ApplyOK
  <2>1. PICK e : e = Repair!Entry
    OBVIOUS
  <2>2. e \in Proposal /\ e.page \in RepairPages /\ e.expected \in Nat
    BY <2>1, EntryIs DEF Proposal
  <2>3. Repair!Entry' = e
    BY <1>1, <2>1 DEF Repair!Entry
  <2>4. ASSUME repairRun.at = "checked"
        PROVE  \/ Len(repaired'[e.page]) = e.expected
               \/ \E i \in DOMAIN repaired'[e.page] : i > e.expected /\ repaired'[e.page][i].by = "other"
    <3>1. CASE \E i \in DOMAIN repaired[e.page] : i > e.expected /\ repaired[e.page][i].by = "other"
      BY <1>5, <2>2, <3>1
    <3>2. CASE Len(repaired[e.page]) = e.expected /\ e.page # p
      <4>1. repaired'[e.page] = repaired[e.page]
        BY <1>1, <2>2, <3>2 DEF RepairInv, RepairType
      <4> QED BY <3>2, <4>1
    <3>3. CASE Len(repaired[e.page]) = e.expected /\ e.page = p
      <4>1. Len(repaired[p]) + 1 \in DOMAIN repaired'[p] /\ repaired'[p][Len(repaired[p]) + 1] = r
        BY <1>1, <1>2, PageGrows DEF RepairInv
      <4>2. Len(repaired[p]) + 1 > e.expected
        BY <2>2, <3>3
      <4> QED BY <1>2, <3>3, <4>1, <4>2
    <3> QED BY <2>1, <2>4, <3>1, <3>2, <3>3 DEF RepairInv, ApplyOK
  <2>5. ASSUME repairRun.at = "repaired" PROVE e.expected + 1 \in DOMAIN repaired'[e.page]
    BY <1>5, <2>1, <2>2, <2>5 DEF RepairInv, ApplyOK
  <2> QED BY <1>1, <2>1, <2>3, <2>4, <2>5 DEF RepairInv, ApplyOK
<1> QED BY <1>3, <1>4, <1>6, <1>7 DEF RepairInv

LEMMA RepairCheck ==
    ASSUME RepairInv, Repair!Check
    PROVE  RepairInv'
<1>1. repairRun.at = "apply" /\ UNCHANGED <<repaired, spoken, repairLedger>>
      /\ repairRun' = [repairRun EXCEPT !.at = "checked"]
      /\ Repair!RevisionOf(Repair!Entry.page) = Repair!Entry.expected
  BY DEF Repair!Check, Repair!Fresh
<1>2. repairRun \in Apply /\ Repair!Entry \in Proposal
  BY <1>1, EntryIs
<1>3. /\ repairRun' \in Apply /\ repairRun'.at = "checked"
      /\ repairRun'.left = repairRun.left /\ repairRun'.task = repairRun.task
  BY <1>1, <1>2 DEF Apply
<1>4. Repair!Entry' = Repair!Entry
  BY <1>1, <1>3 DEF Repair!Entry
<1>5. RepairType'
  BY <1>1, <1>3 DEF RepairInv, RepairType
<1>6. LedgerOK' /\ SourcesOK' /\ Repair!ReviewedOnce'
  BY <1>1 DEF RepairInv, LedgerOK, SourcesOK, Repair!ReviewedOnce
<1>7. PreviewOK'
  BY <1>3 DEF PreviewOK
<1>8. ApplyOK'
  BY <1>1, <1>3, <1>4 DEF RepairInv, ApplyOK, Repair!RevisionOf
<1> QED BY <1>5, <1>6, <1>7, <1>8 DEF RepairInv

LEMMA RepairWrites ==
    ASSUME RepairInv, Repair!Repair
    PROVE  RepairInv'
<1>1. repairRun.at = "checked" /\ UNCHANGED <<spoken, repairLedger>>
  BY DEF Repair!Repair
<1>2. CASE repairRun' = Repair!None /\ UNCHANGED repaired
  BY <1>1, <1>2, RepairRunEnds
<1>3. CASE ~(repairRun' = Repair!None /\ UNCHANGED repaired)
  <2>1. PICK e : e = Repair!Entry
    OBVIOUS
  <2> DEFINE r == [content |-> e.content, from |-> e.sources, by |-> repairRun.task]
             n == Len(repaired[e.page])
  <2>2. /\ n = e.expected
        /\ repaired' = [repaired EXCEPT ![e.page] = Append(@, r)]
        /\ repairRun' = [repairRun EXCEPT !.at = "repaired"]
    BY <1>3, <2>1 DEF Repair!Repair, Repair!RevisionOf
  <2>3. /\ repairRun \in Apply /\ repairRun.task \in RepairTasks
        /\ Head(repairRun.left) \in DOMAIN repairLedger[repairRun.task]
        /\ e = repairLedger[repairRun.task][Head(repairRun.left)] /\ e \in Proposal
    BY <1>1, <2>1, EntryIs
  <2>4. e.page \in RepairPages /\ e.expected \in Nat
    BY <2>3 DEF Proposal
  <2>5. r \in Revision
    BY <2>3 DEF Proposal, Revision, RepairTasks
  <2>6. r.by = "language" => r.from = repaired[e.page][n].from
    BY <2>2, <2>3 DEF RepairInv, LedgerOK
  <2> HIDE DEF r
  <2>7. LedgerOK' /\ SourcesOK' /\ Repair!ReviewedOnce'
    BY <1>1, <2>2, <2>4, <2>5, <2>6, GrowthKeeps
  <2>8. /\ repairRun' \in Apply /\ repairRun'.at = "repaired"
        /\ repairRun'.left = repairRun.left /\ repairRun'.task = repairRun.task
    BY <2>2, <2>3 DEF Apply
  <2>9. Repair!Entry' = e
    BY <1>1, <2>1, <2>8 DEF Repair!Entry
  <2>10. RepairType'
    BY <1>1, <2>2, <2>4, <2>5, <2>8, PageGrows DEF RepairInv, RepairType
  <2>11. e.expected + 1 \in DOMAIN repaired'[e.page]
    BY <2>2, <2>4, <2>5, PageGrows DEF RepairInv
  <2>12. ASSUME NEW i \in DOMAIN repairLedger[repairRun.task], repairLedger[repairRun.task][i].page = e.page
         PROVE  repairLedger[repairRun.task][i].expected <= e.expected
    <3>1. repairLedger[repairRun.task][i].expected \in DOMAIN repaired[e.page]
      BY <2>3, <2>12 DEF RepairInv, LedgerOK
    <3>2. DOMAIN repaired[e.page] = 1..n
      BY <2>4 DEF RepairInv, RepairType
    <3> QED BY <2>2, <2>4, <3>1, <3>2
  <2>13. PreviewOK'
    BY <2>8 DEF PreviewOK
  <2>14. ApplyOK'
    BY <1>1, <2>8, <2>9, <2>11, <2>12 DEF RepairInv, ApplyOK
  <2> QED BY <2>7, <2>10, <2>13, <2>14 DEF RepairInv
<1> QED BY <1>2, <1>3

(* What a note changes: the applied Revision of one entry. *)
LEMMA NotedIs ==
    ASSUME RepairInv, repairRun.at \in {"apply", "checked", "repaired"},
           NEW applied \in Nat, NEW note \in {"stale", "applied"}, Repair!Noted(applied, note)
    PROVE  /\ repairLedger' \in [RepairTasks -> Seq(Proposal)]
           /\ \A t \in RepairTasks :
                  /\ DOMAIN repairLedger'[t] = DOMAIN repairLedger[t]
                  /\ \A i \in DOMAIN repairLedger[t] :
                         /\ repairLedger'[t][i].page = repairLedger[t][i].page
                         /\ repairLedger'[t][i].expected = repairLedger[t][i].expected
                         /\ repairLedger'[t][i].sources = repairLedger[t][i].sources
                         /\ \/ repairLedger'[t][i].applied = repairLedger[t][i].applied
                            \/ /\ t = repairRun.task /\ i = Head(repairRun.left)
                               /\ repairLedger'[t][i].applied = applied
<1> DEFINE h == Head(repairRun.left)
           e == repairLedger[repairRun.task][h]
           noted == [e EXCEPT !.applied = applied, !.note = note]
           list == [repairLedger[repairRun.task] EXCEPT ![h] = noted]
<1>1. repairRun.task \in RepairTasks /\ h \in DOMAIN repairLedger[repairRun.task] /\ e \in Proposal
  BY EntryIs
<1>2. repairLedger' = [repairLedger EXCEPT ![repairRun.task] = list]
  BY DEF Repair!Noted
<1>3. /\ noted \in Proposal /\ noted.page = e.page /\ noted.expected = e.expected /\ noted.sources = e.sources
      /\ noted.applied = applied
  BY <1>1 DEF Proposal
<1> HIDE DEF noted
<1>4. repairLedger \in [RepairTasks -> Seq(Proposal)]
  BY DEF RepairInv, RepairType
<1>5. /\ list \in Seq(Proposal) /\ DOMAIN list = DOMAIN repairLedger[repairRun.task] /\ list[h] = noted
      /\ \A i \in DOMAIN list : i # h => list[i] = repairLedger[repairRun.task][i]
  <2>1. repairLedger[repairRun.task] \in Seq(Proposal)
    BY <1>1, <1>4
  <2> QED BY <1>1, <1>3, <2>1
<1> HIDE DEF list
<1>6. repairLedger' \in [RepairTasks -> Seq(Proposal)] /\ repairLedger'[repairRun.task] = list
      /\ \A t \in RepairTasks : t # repairRun.task => repairLedger'[t] = repairLedger[t]
  BY <1>1, <1>2, <1>4, <1>5
<1>7. ASSUME NEW t \in RepairTasks
      PROVE  /\ DOMAIN repairLedger'[t] = DOMAIN repairLedger[t]
             /\ \A i \in DOMAIN repairLedger[t] :
                    /\ repairLedger'[t][i].page = repairLedger[t][i].page
                    /\ repairLedger'[t][i].expected = repairLedger[t][i].expected
                    /\ repairLedger'[t][i].sources = repairLedger[t][i].sources
                    /\ \/ repairLedger'[t][i].applied = repairLedger[t][i].applied
                       \/ t = repairRun.task /\ i = h /\ repairLedger'[t][i].applied = applied
  <2>1. CASE t # repairRun.task
    BY <1>6, <2>1
  <2>2. CASE t = repairRun.task
    BY <1>3, <1>5, <1>6, <2>2
  <2> QED BY <2>1, <2>2
<1> QED BY <1>6, <1>7

LEMMA RepairNotes ==
    ASSUME RepairInv, repairRun.at \in {"apply", "checked", "repaired"},
           NEW applied \in Nat, NEW note \in {"stale", "applied"}, Repair!Noted(applied, note), Repair!Advanced,
           UNCHANGED <<repaired, spoken>>,
           applied # 0 =>
               /\ applied \in DOMAIN repaired[Repair!Entry.page]
               /\ \A i \in DOMAIN repairLedger[repairRun.task] :
                      repairLedger[repairRun.task][i].page = Repair!Entry.page =>
                          repairLedger[repairRun.task][i].expected # applied
    PROVE  RepairInv'
<1> DEFINE h == Head(repairRun.left)
<1>1. /\ repairRun \in Apply /\ repairRun.task \in RepairTasks /\ repairRun.left # <<>>
      /\ h \in DOMAIN repairLedger[repairRun.task] /\ Repair!Entry = repairLedger[repairRun.task][h]
  BY EntryIs
<1>2. repairLedger' \in [RepairTasks -> Seq(Proposal)]
  BY NotedIs
<1>3. ASSUME NEW t \in RepairTasks
      PROVE  /\ DOMAIN repairLedger'[t] = DOMAIN repairLedger[t]
             /\ \A i \in DOMAIN repairLedger[t] :
                    /\ repairLedger'[t][i].page = repairLedger[t][i].page
                    /\ repairLedger'[t][i].expected = repairLedger[t][i].expected
                    /\ repairLedger'[t][i].sources = repairLedger[t][i].sources
                    /\ \/ repairLedger'[t][i].applied = repairLedger[t][i].applied
                       \/ t = repairRun.task /\ i = h /\ repairLedger'[t][i].applied = applied
  BY NotedIs
<1>4. \/ repairRun' = Repair!None
      \/ Len(repairRun.left) # 1
         /\ repairRun' = [at |-> "apply", task |-> repairRun.task, left |-> Tail(repairRun.left)]
  BY DEF Repair!Advanced
<1>5. repairRun.left \in Seq(Nat)
  BY <1>1 DEF Apply
<1>6. PICK rest : rest = Tail(repairRun.left)
  OBVIOUS
<1>7. Len(repairRun.left) # 1 =>
          rest \in Seq(Nat) /\ rest # <<>> /\ \A k \in DOMAIN rest : rest[k] \in DOMAIN repairLedger[repairRun.task]
  <2>1. ASSUME Len(repairRun.left) # 1 PROVE rest \in Seq(Nat) /\ rest # <<>>
    <3>1. rest \in Seq(Nat) /\ Len(rest) = Len(repairRun.left) - 1
      BY <1>1, <1>5, <1>6, HeadTailProperties
    <3>2. Len(repairRun.left) \in Nat /\ Len(repairRun.left) > 0
      BY <1>1, <1>5, EmptySeq, LenProperties
    <3>3. Len(rest) # 0
      BY <2>1, <3>1, <3>2
    <3> QED BY <3>1, <3>3, EmptySeq
  <2>2. \A k \in DOMAIN rest : k + 1 \in DOMAIN repairRun.left /\ rest[k] = repairRun.left[k + 1]
    BY <1>1, <1>5, <1>6
  <2> QED BY <2>1, <2>2 DEF RepairInv, ApplyOK
<1>8. repairRun' \in {Repair!None} \cup Apply /\ repairRun'.at \in {"none", "apply"}
  <2>1. CASE repairRun' = Repair!None
    BY <2>1 DEF Repair!None
  <2>2. CASE /\ Len(repairRun.left) # 1
             /\ repairRun' = [at |-> "apply", task |-> repairRun.task, left |-> rest]
    <3>1. repairRun' \in Apply
      BY <1>1, <1>7, <2>2 DEF Apply
    <3> QED BY <2>2, <3>1
  <2> QED BY <1>4, <1>6, <2>1, <2>2
<1>9. RepairType'
  BY <1>2, <1>8 DEF RepairInv, RepairType
<1>10. LedgerOK'
  <2>1. ASSUME NEW t \in RepairTasks, NEW i \in DOMAIN repairLedger'[t]
        PROVE  /\ repairLedger'[t][i].expected \in DOMAIN repaired[repairLedger'[t][i].page]
               /\ t = "language" =>
                      repairLedger'[t][i].sources = repaired[repairLedger'[t][i].page][repairLedger'[t][i].expected].from
               /\ repairLedger'[t][i].applied # 0 => repairLedger'[t][i].applied \in DOMAIN repaired[repairLedger'[t][i].page]
    BY <1>1, <1>3, <2>1 DEF RepairInv, LedgerOK
  <2> QED BY <2>1 DEF LedgerOK
<1>11. Repair!ReviewedOnce'
  <2>1. ASSUME NEW t \in RepairTasks, NEW i \in DOMAIN repairLedger'[t], NEW j \in DOMAIN repairLedger'[t],
               repairLedger'[t][i].page = repairLedger'[t][j].page, i # j
        PROVE  /\ repairLedger'[t][i].expected # repairLedger'[t][j].expected
               /\ repairLedger'[t][i].applied # repairLedger'[t][j].expected
    <3>1. i \in DOMAIN repairLedger[t] /\ j \in DOMAIN repairLedger[t]
          /\ repairLedger[t][i].page = repairLedger[t][j].page
      BY <1>3, <2>1
    <3>2. /\ repairLedger[t][i].expected # repairLedger[t][j].expected
          /\ repairLedger[t][i].applied # repairLedger[t][j].expected
      BY <2>1, <3>1 DEF RepairInv, Repair!ReviewedOnce, RepairTasks
    <3>3. repairLedger[t][j].expected # 0
      <4>1. repairLedger[t][j].page \in RepairPages
        BY <3>1, ProposalsAre DEF RepairInv, Proposal
      <4>2. repairLedger[t][j].expected \in DOMAIN repaired[repairLedger[t][j].page]
        BY <3>1 DEF RepairInv, LedgerOK
      <4> QED BY <4>1, <4>2 DEF RepairInv, RepairType
    <3>4. t = repairRun.task /\ i = h => applied # repairLedger[t][j].expected
      BY <1>1, <3>1, <3>3
    <3> QED BY <1>3, <3>1, <3>2, <3>4
  <2> QED BY <2>1 DEF Repair!ReviewedOnce, RepairTasks
<1>12. SourcesOK' /\ PreviewOK'
  BY <1>8 DEF RepairInv, SourcesOK, PreviewOK
<1>13. ApplyOK'
  <2> SUFFICES ASSUME repairRun'.at # "none" PROVE ApplyOK'
    BY <1>8 DEF ApplyOK
  <2>1. /\ repairRun'.at = "apply" /\ repairRun'.task = repairRun.task /\ repairRun'.left = rest
        /\ Len(repairRun.left) # 1
    <3>1. repairRun' # Repair!None
      BY DEF Repair!None
    <3>2. Len(repairRun.left) # 1
          /\ repairRun' = [at |-> "apply", task |-> repairRun.task, left |-> rest]
      BY <1>4, <1>6, <3>1
    <3> QED BY <3>2
  <2> QED BY <1>1, <1>3, <1>7, <2>1 DEF ApplyOK
<1> QED BY <1>9, <1>10, <1>11, <1>12, <1>13 DEF RepairInv

LEMMA RepairSkipStale ==
    ASSUME RepairInv, Repair!SkipStale
    PROVE  RepairInv'
<1>1. repairRun.at = "apply" /\ Repair!Noted(0, "stale") /\ Repair!Advanced /\ UNCHANGED <<repaired, spoken>>
  BY DEF Repair!SkipStale
<1> QED BY <1>1, RepairNotes

LEMMA RepairNoteApplied ==
    ASSUME RepairInv, Repair!NoteApplied
    PROVE  RepairInv'
<1>1. PICK e : e = Repair!Entry
  OBVIOUS
<1>2. /\ repairRun.at = "repaired" /\ Repair!Noted(e.expected + 1, "applied") /\ Repair!Advanced
      /\ UNCHANGED <<repaired, spoken>>
  BY <1>1 DEF Repair!NoteApplied
<1>3. e \in Proposal /\ repairRun.task \in RepairTasks
  BY <1>1, <1>2, EntryIs
<1>4. e.expected \in Nat /\ e.expected + 1 \in Nat
  <2>1. e.expected \in Nat
    BY <1>3 DEF Proposal
  <2> QED BY <2>1
<1>5. /\ e.expected + 1 \in DOMAIN repaired[e.page]
      /\ \A i \in DOMAIN repairLedger[repairRun.task] :
             repairLedger[repairRun.task][i].page = e.page => repairLedger[repairRun.task][i].expected <= e.expected
  BY <1>1, <1>2 DEF RepairInv, ApplyOK
<1>6. \A i \in DOMAIN repairLedger[repairRun.task] :
          repairLedger[repairRun.task][i].page = e.page => repairLedger[repairRun.task][i].expected # e.expected + 1
  BY <1>4, <1>5
<1> QED BY <1>1, <1>2, <1>4, <1>5, <1>6, RepairNotes

(* What the checks let through: of the candidate, and no apply yet.          *)
LEMMA ProposableIs ==
    ASSUME NEW t \in RepairTasks, NEW c \in Offer, NEW e \in Repair!Proposable(t, c)
    PROVE  /\ e \in Proposal /\ e.page = c.page /\ e.expected = c.expected /\ e.applied = 0
           /\ t = "language" => e.sources = c.direct
<1> DEFINE like == [page : {c.page}, expected : {c.expected}, action : {"revise", "keep"},
                    sources : Repair!Sources(t, c), applied : {0}, note : {"none"}, content : Repair!Contents]
<1>1. c.page \in RepairPages /\ c.expected \in Nat /\ c.content \in Repair!Contents /\ c.allowed \subseteq Quotable
  BY DEF Offer
<1>2. e \in like
  <2>1. CASE e \in [page : {c.page}, expected : {c.expected}, action : {"revise"}, sources : Repair!Sources(t, c),
                    applied : {0}, note : {"none"},
                    content : IF t = "language" THEN {"chinese"} ELSE Repair!Contents \ {c.content}]
    BY <2>1 DEF Repair!Contents
  <2>2. CASE e \in [page : {c.page}, expected : {c.expected}, action : IF t = "language" THEN {} ELSE {"keep"},
                    sources : Repair!Sources(t, c), applied : {0}, note : {"none"}, content : {c.content}]
    BY <1>1, <2>2
  <2> QED BY <2>1, <2>2 DEF Repair!Proposable
<1>3. e.page = c.page /\ e.expected = c.expected /\ e.applied = 0 /\ e.sources \in Repair!Sources(t, c)
  BY <1>2
<1>4. Repair!Sources(t, c) \subseteq SUBSET Quotable /\ (t = "language" => e.sources = c.direct)
  BY <1>1, <1>3 DEF Repair!Sources
<1>5. like \subseteq Proposal
  BY <1>1, <1>4 DEF Proposal
<1> QED BY <1>2, <1>3, <1>4, <1>5

LEMMA RepairReview ==
    ASSUME RepairInv, Repair!Review
    PROVE  RepairInv'
<1>1. repairRun.at = "preview" /\ UNCHANGED <<repaired, spoken>>
  BY DEF Repair!Review
<1>2. repairRun \in Preview
  BY <1>1 DEF RepairInv, RepairType, Apply, Repair!None
<1>3. PICK t \in RepairTasks, left \in Seq(Offer) : t = repairRun.task /\ left = repairRun.left
  BY <1>2 DEF Preview
<1>4. PICK c : c = Repair!Chunk
  OBVIOUS
<1>5. Len(left) \in Nat /\ DOMAIN left = 1..Len(left) /\ \A k \in 1..Len(left) : left[k] \in Offer
  BY <1>3
<1>6. c \in Nat /\ c <= Len(left)
  BY <1>3, <1>4, <1>5, RepairAssumption DEF Repair!Chunk
<1>7. PICK batch : batch = SubSeq(left, 1, c)
  OBVIOUS
<1>8. DOMAIN batch = 1..c /\ \A k \in 1..c : batch[k] = left[k]
  BY <1>3, <1>5, <1>6, <1>7
<1>9. PICK proposed \in Repair!Reviewed(t, batch) : repairLedger' = [repairLedger EXCEPT ![t] = @ \o proposed]
  BY <1>3, <1>4, <1>7 DEF Repair!Review
<1>10. DOMAIN proposed = 1..c /\ \A k \in 1..c : proposed[k] \in Repair!Proposable(t, left[k])
  BY <1>8, <1>9 DEF Repair!Reviewed
<1>11. ASSUME NEW k \in 1..c
       PROVE  /\ proposed[k] \in Proposal /\ proposed[k].page = left[k].page
              /\ proposed[k].expected = left[k].expected /\ proposed[k].applied = 0
              /\ t = "language" => proposed[k].sources = left[k].direct
  BY <1>5, <1>6, <1>10, ProposableIs
<1>12. proposed \in Seq(Proposal) /\ Len(proposed) = c
  <2>1. proposed = [k \in 1..c |-> proposed[k]]
    BY <1>8, <1>9 DEF Repair!Reviewed
  <2> QED BY <1>6, <1>11, <2>1
<1>13. PICK old \in Seq(Proposal) : old = repairLedger[t]
  BY DEF RepairInv, RepairType
<1>14. PICK n \in Nat : n = Len(old) /\ DOMAIN old = 1..n
  BY <1>13
<1> DEFINE new == old \o proposed
<1>15. /\ new \in Seq(Proposal) /\ DOMAIN new = 1..(n + c)
       /\ \A i \in 1..n : new[i] = old[i]
       /\ \A k \in 1..c : new[n + k] = proposed[k]
  BY <1>6, <1>12, <1>13, <1>14
<1>16. repairLedger' = [repairLedger EXCEPT ![t] = new]
  BY <1>9, <1>13
<1> HIDE DEF new
<1>17. repairLedger \in [RepairTasks -> Seq(Proposal)]
  BY DEF RepairInv, RepairType
<1>18. /\ repairLedger' \in [RepairTasks -> Seq(Proposal)] /\ repairLedger'[t] = new
       /\ \A u \in RepairTasks : u # t => repairLedger'[u] = repairLedger[u]
  BY <1>15, <1>16, <1>17
(* An entry of the new list is an old one or the proposal for a candidate. *)
<1>19. ASSUME NEW i \in DOMAIN new
       PROVE  \/ i \in DOMAIN repairLedger[t] /\ new[i] = repairLedger[t][i]
              \/ \E k \in 1..c : i = n + k /\ new[i] = proposed[k]
  <2>1. CASE i \in 1..n
    BY <1>13, <1>14, <1>15, <2>1
  <2>2. CASE i \notin 1..n
    <3>1. i - n \in 1..c /\ i = n + (i - n)
      BY <1>6, <1>15, <2>2
    <3> QED BY <1>15, <3>1
  <2> QED BY <2>1, <2>2
<1>20. ASSUME NEW k \in 1..c
       PROVE  /\ left[k].expected \in DOMAIN repaired[left[k].page]
              /\ left[k].direct = repaired[left[k].page][left[k].expected].from
              /\ left[k].expected # 0
              /\ \A i \in DOMAIN repairLedger[t] : repairLedger[t][i].page = left[k].page =>
                     repairLedger[t][i].expected # left[k].expected /\ repairLedger[t][i].applied # left[k].expected
  <2>1. k \in DOMAIN left /\ left[k] \in Offer
    BY <1>5, <1>6
  <2>2. left[k].expected \in DOMAIN repaired[left[k].page] /\ left[k].page \in RepairPages
    BY <1>1, <1>3, <2>1 DEF RepairInv, PreviewOK, Offer
  <2>3. left[k].expected # 0
    BY <2>2 DEF RepairInv, RepairType
  <2> QED BY <1>1, <1>3, <2>1, <2>2, <2>3 DEF RepairInv, PreviewOK
<1>21. \A k, l \in DOMAIN left : left[k].page = left[l].page => k = l
  BY <1>1, <1>3 DEF RepairInv, PreviewOK
<1>22. LedgerOK'
  <2>1. ASSUME NEW u \in RepairTasks, NEW i \in DOMAIN repairLedger'[u]
        PROVE  /\ repairLedger'[u][i].expected \in DOMAIN repaired[repairLedger'[u][i].page]
               /\ u = "language" =>
                      repairLedger'[u][i].sources = repaired[repairLedger'[u][i].page][repairLedger'[u][i].expected].from
               /\ repairLedger'[u][i].applied # 0 => repairLedger'[u][i].applied \in DOMAIN repaired[repairLedger'[u][i].page]
    <3>1. CASE u # t
      BY <1>18, <2>1, <3>1 DEF RepairInv, LedgerOK
    <3>2. CASE u = t /\ i \in DOMAIN repairLedger[t] /\ new[i] = repairLedger[t][i]
      BY <1>18, <3>2 DEF RepairInv, LedgerOK
    <3>3. CASE u = t /\ \E k \in 1..c : i = n + k /\ new[i] = proposed[k]
      BY <1>11, <1>18, <1>20, <3>3
    <3> QED BY <1>18, <1>19, <2>1, <3>1, <3>2, <3>3
  <2> QED BY <1>1, <2>1 DEF LedgerOK
<1>23. Repair!ReviewedOnce'
  <2>1. ASSUME NEW u \in RepairTasks, NEW i \in DOMAIN repairLedger'[u], NEW j \in DOMAIN repairLedger'[u],
               repairLedger'[u][i].page = repairLedger'[u][j].page, i # j
        PROVE  /\ repairLedger'[u][i].expected # repairLedger'[u][j].expected
               /\ repairLedger'[u][i].applied # repairLedger'[u][j].expected
    <3>1. CASE u # t
      BY <1>18, <2>1, <3>1 DEF RepairInv, Repair!ReviewedOnce, RepairTasks
    <3>2. CASE u = t
      <4> DEFINE OfLedger(x) == x \in DOMAIN repairLedger[t] /\ new[x] = repairLedger[t][x]
                 OfBatch(x) == \E k \in 1..c : x = n + k /\ new[x] = proposed[k]
      <4>1. (OfLedger(i) \/ OfBatch(i)) /\ (OfLedger(j) \/ OfBatch(j)) /\ new[i].page = new[j].page
        BY <1>18, <1>19, <2>1, <3>2
      <4>2. CASE OfLedger(i) /\ OfLedger(j)
        <5>1. /\ repairLedger[t][i].expected # repairLedger[t][j].expected
              /\ repairLedger[t][i].applied # repairLedger[t][j].expected
          BY <2>1, <4>1, <4>2 DEF RepairInv, Repair!ReviewedOnce, RepairTasks
        <5> QED BY <1>18, <3>2, <4>2, <5>1
      <4>3. CASE OfLedger(i) /\ OfBatch(j)
        <5>1. PICK k \in 1..c : j = n + k /\ new[j] = proposed[k]
          BY <4>3
        <5>2. new[j].page = left[k].page /\ new[j].expected = left[k].expected
          BY <1>11, <5>1
        <5>3. new[i].expected # left[k].expected /\ new[i].applied # left[k].expected
          BY <1>20, <4>1, <4>3, <5>2
        <5> QED BY <1>18, <3>2, <5>2, <5>3
      <4>4. CASE OfBatch(i) /\ OfLedger(j)
        <5>1. PICK k \in 1..c : i = n + k /\ new[i] = proposed[k]
          BY <4>4
        <5>2. repairLedger[t][j].expected # 0
          <6>1. repairLedger[t][j].page \in RepairPages
            BY <4>4, ProposalsAre DEF RepairInv, Proposal
          <6>2. repairLedger[t][j].expected \in DOMAIN repaired[repairLedger[t][j].page]
            BY <4>4 DEF RepairInv, LedgerOK
          <6> QED BY <6>1, <6>2 DEF RepairInv, RepairType
        <5>3. new[i].page = left[k].page /\ new[i].expected = left[k].expected /\ new[i].applied = 0
          BY <1>11, <5>1
        <5>4. new[j].expected # left[k].expected
          BY <1>20, <4>1, <4>4, <5>3
        <5> QED BY <1>18, <3>2, <4>4, <5>2, <5>3, <5>4
      <4>5. CASE OfBatch(i) /\ OfBatch(j)
        <5>1. PICK k \in 1..c : i = n + k /\ new[i] = proposed[k]
          BY <4>5
        <5>2. PICK l \in 1..c : j = n + l /\ new[j] = proposed[l]
          BY <4>5
        <5>3. left[k].page = left[l].page /\ k \in DOMAIN left /\ l \in DOMAIN left
          BY <1>5, <1>6, <1>11, <4>1, <5>1, <5>2
        <5>4. k = l
          BY <1>21, <5>3
        <5> QED BY <2>1, <5>1, <5>2, <5>4
      <4> QED BY <4>1, <4>2, <4>3, <4>4, <4>5
    <3> QED BY <3>1, <3>2
  <2> QED BY <2>1 DEF Repair!ReviewedOnce, RepairTasks
<1>24. SourcesOK'
  BY <1>1 DEF RepairInv, SourcesOK
<1>25. CASE repairRun' = Repair!None
  <2>1. repairRun'.at = "none"
    BY <1>25 DEF Repair!None
  <2>2. RepairType'
    BY <1>1, <1>18, <1>25 DEF RepairInv, RepairType
  <2>3. PreviewOK' /\ ApplyOK'
    BY <2>1 DEF PreviewOK, ApplyOK
  <2> QED BY <1>22, <1>23, <1>24, <2>2, <2>3 DEF RepairInv
<1>26. CASE repairRun' # Repair!None
  <2>1. PICK rest : rest = SubSeq(left, c + 1, Len(left))
    OBVIOUS
  <2>2. repairRun' = [repairRun EXCEPT !.left = rest]
    BY <1>3, <1>4, <1>26, <2>1 DEF Repair!Review
  <2>3. /\ rest \in Seq(Offer)
        /\ \A k \in DOMAIN rest : c + k \in DOMAIN left /\ k \in Nat \ {0} /\ rest[k] = left[c + k]
    BY <1>3, <1>5, <1>6, <2>1
  <2>4. /\ repairRun' \in Preview /\ repairRun'.at = "preview" /\ repairRun'.task = t /\ repairRun'.left = rest
    BY <1>2, <1>3, <2>2, <2>3 DEF Preview
  <2>5. RepairType'
    BY <1>1, <1>18, <2>4 DEF RepairInv, RepairType
  <2>6. ApplyOK'
    BY <2>4 DEF ApplyOK
  <2>7. ASSUME NEW k \in DOMAIN rest
        PROVE  /\ rest[k].expected \in DOMAIN repaired[rest[k].page]
               /\ rest[k].direct = repaired[rest[k].page][rest[k].expected].from
               /\ \A i \in DOMAIN new : new[i].page = rest[k].page =>
                      new[i].expected # rest[k].expected /\ new[i].applied # rest[k].expected
    <3>1. rest[k] = left[c + k] /\ c + k \in DOMAIN left /\ k > 0
      BY <2>3
    <3>2. /\ rest[k].expected \in DOMAIN repaired[rest[k].page]
          /\ rest[k].direct = repaired[rest[k].page][rest[k].expected].from
          /\ \A i \in DOMAIN repairLedger[t] : repairLedger[t][i].page = rest[k].page =>
                 repairLedger[t][i].expected # rest[k].expected /\ repairLedger[t][i].applied # rest[k].expected
      BY <1>1, <1>3, <3>1 DEF RepairInv, PreviewOK
    <3>3. ASSUME NEW l \in 1..c PROVE proposed[l].page # rest[k].page
      <4>1. l \in DOMAIN left /\ l # c + k
        BY <1>5, <1>6, <2>3
      <4>2. left[l].page # left[c + k].page
        BY <1>21, <3>1, <4>1
      <4> QED BY <1>11, <3>1, <4>2
    <3>4. \A i \in DOMAIN new : new[i].page = rest[k].page =>
              i \in DOMAIN repairLedger[t] /\ new[i] = repairLedger[t][i]
      BY <1>19, <3>3
    <3> QED BY <3>2, <3>4
  <2>8. \A k, l \in DOMAIN rest : rest[k].page = rest[l].page => k = l
    <3> SUFFICES ASSUME NEW k \in DOMAIN rest, NEW l \in DOMAIN rest, rest[k].page = rest[l].page PROVE k = l
      OBVIOUS
    <3>1. c + k = c + l
      BY <1>21, <2>3
    <3> QED BY <1>6, <2>3, <3>1
  <2>9. PreviewOK'
    BY <1>1, <1>18, <2>4, <2>7, <2>8 DEF PreviewOK
  <2> QED BY <1>22, <1>23, <1>24, <2>5, <2>6, <2>9 DEF RepairInv
<1> QED BY <1>25, <1>26

LEMMA RepairStep == RepairInv /\ [Repair!Next]_repairVars => RepairInv'
<1> SUFFICES ASSUME RepairInv, [Repair!Next]_repairVars PROVE RepairInv'
  OBVIOUS
<1>1. CASE UNCHANGED repairVars
  BY <1>1, RepairRetract DEF repairVars
<1>2. ASSUME NEW t \in RepairTasks, Repair!StartPreview(t) \/ Repair!StartApply(t) PROVE RepairInv'
  BY <1>2, RepairStartPreview, RepairStartApply
<1>3. CASE Repair!ReviewFails \/ Repair!Refuse \/ Repair!Stop
  BY <1>3, RepairRunEnds DEF Repair!ReviewFails, Repair!Refuse, Repair!Stop
<1>4. CASE Repair!Review \/ Repair!SkipStale \/ Repair!Check \/ Repair!Repair \/ Repair!NoteApplied
  BY <1>4, RepairReview, RepairSkipStale, RepairCheck, RepairWrites, RepairNoteApplied
<1>5. ASSUME NEW p \in RepairPages, Repair!Edit(p, "english") PROVE RepairInv'
  BY <1>5, RepairEdit
<1>6. ASSUME NEW m \in Quotable, Repair!Retract(m) PROVE RepairInv'
  BY <1>6, RepairRetract DEF Repair!Retract
<1> QED BY <1>1, <1>2, <1>3, <1>4, <1>5, <1>6 DEF Repair!Next, RepairTasks, RepairPages

(* What the end of a checked entry's run tells, but for a fault. *)
EndTells ==
    repairRun.at = "checked" /\ repairRun'.at = "none" /\ UNCHANGED repairFaults =>
        \E i \in DOMAIN repaired[Repair!Entry.page] :
            i > Repair!Entry.expected /\ repaired[Repair!Entry.page][i].by # repairRun.task

FaultsCounted == repairFaults \in Nat

LEMMA RepairCounts == FaultsCounted /\ [Repair!Next]_repairVars => FaultsCounted'
<1> SUFFICES ASSUME FaultsCounted, [Repair!Next]_repairVars PROVE repairFaults' \in Nat
  BY DEF FaultsCounted
<1>1. CASE Repair!Stop
  BY <1>1 DEF FaultsCounted, Repair!Stop
<1>2. CASE ~Repair!Stop
  <2>1. repairFaults' = repairFaults
    BY <1>2 DEF Repair!Next, Repair!StartPreview, Repair!StartApply, Repair!Review, Repair!ReviewFails,
           Repair!SkipStale, Repair!Refuse, Repair!Check, Repair!Repair, Repair!NoteApplied, Repair!Edit,
           Repair!Retract, repairVars
  <2> QED BY <2>1 DEF FaultsCounted
<1> QED BY <1>1, <1>2

LEMMA NextEndTells == RepairInv /\ FaultsCounted /\ [Repair!Next]_repairVars => EndTells
<1> SUFFICES ASSUME RepairInv, FaultsCounted, [Repair!Next]_repairVars,
                    repairRun.at = "checked", repairRun'.at = "none", UNCHANGED repairFaults
             PROVE  \E i \in DOMAIN repaired[Repair!Entry.page] :
                        i > Repair!Entry.expected /\ repaired[Repair!Entry.page][i].by # repairRun.task
  BY DEF EndTells
<1>1. repairRun \in Apply /\ repairRun.task \in RepairTasks /\ Repair!Entry \in Proposal
  BY EntryIs
<1>2. ~Repair!Stop
  BY DEF FaultsCounted, Repair!Stop
<1>3. repairRun.at # "none" /\ repairRun' # repairRun
  OBVIOUS
<1>4. repairRun # Repair!None
  BY DEF Repair!None
<1>5. Repair!Repair
  BY <1>2, <1>3, <1>4 DEF Repair!Next, Repair!StartPreview, Repair!StartApply, Repair!Review, Repair!ReviewFails,
         Repair!SkipStale, Repair!Refuse, Repair!Check, Repair!NoteApplied, Repair!Edit, Repair!Retract,
         repairVars
<1>6. Repair!RevisionOf(Repair!Entry.page) # Repair!Entry.expected
  <2>1. [repairRun EXCEPT !.at = "repaired"].at = "repaired"
    BY <1>1 DEF Apply
  <2> QED BY <1>5, <2>1 DEF Repair!Repair
<1>7. PICK i \in DOMAIN repaired[Repair!Entry.page] :
          i > Repair!Entry.expected /\ repaired[Repair!Entry.page][i].by = "other"
  BY <1>6 DEF RepairInv, ApplyOK, Repair!RevisionOf
<1> QED BY <1>1, <1>7 DEF RepairTasks

(* Whatever the Pages, the messages and the sizes of batches and runs, and   *)
(* however runs end: a Revision is reviewed once per task, and no repair     *)
(* reviews what it wrote and noted; a language repair cites what the         *)
(* Revision it replaced did; and no run ends at a Revision of its own        *)
(* (pcp_repair.rs, preview, apply).                                          *)
THEOREM RepairsStaySound == Spec => RepairsAreSound
<1>1. Init => RepairInv /\ FaultsCounted
  <2>1. Init => Repair!Init
    BY DEF Init
  <2> QED BY <2>1, RepairInit DEF Repair!Init, FaultsCounted
<1>2. [Next]_memoryVars => [Repair!Next]_repairVars
  BY DEF Next, memoryVars, repairVars
<1>3. Spec => [](RepairInv /\ FaultsCounted)
  BY <1>1, <1>2, RepairStep, RepairCounts, PTL DEF Spec
<1>4. RepairInv => Repair!ReviewedOnce /\ Repair!LanguageKeepsSources
  BY DEF RepairInv, SourcesOK, Repair!LanguageKeepsSources, RepairPages
<1>5. RepairInv /\ FaultsCounted /\ [Repair!Next]_repairVars => [EndTells]_repairVars
  BY NextEndTells
<1>6. Spec => [][EndTells]_repairVars
  BY <1>2, <1>3, <1>5, PTL DEF Spec
<1> QED BY <1>3, <1>4, <1>6, PTL DEF RepairsAreSound, Repair!StaleIsSkipped, Repair!repairVars, EndTells, repairVars

-----------------------------------------------------------------------------
(* The episodes.                                                             *)

Episode == [title : Titles, parents : SUBSET Nat, messages : SUBSET Ledger!Messages]

(* An id is given out once and never forgotten: it is an episode's, or an    *)
(* alias that leads to an episode directly.                                  *)
AliasesAreShort ==
    /\ \E n \in 0..MaxEpisodes : DOMAIN attached = 1..n
    /\ DOMAIN attached = DOMAIN aliases \cup DOMAIN episodes
    /\ DOMAIN aliases \cap DOMAIN episodes = {}
    /\ \A id \in DOMAIN aliases : aliases[id] \in DOMAIN episodes

(* What is attached under an id is in the episode the id leads to.           *)
AttachedIsKept ==
    \A id \in DOMAIN attached : attached[id] \subseteq episodes[Ledger!Hop(id)].messages

EpisodeInv ==
    /\ AliasesAreShort /\ AttachedIsKept
    /\ \A id \in DOMAIN episodes :
          /\ episodes[id] \in Episode /\ IsFiniteSet(episodes[id].messages)
          /\ episodes[id].parents \subseteq DOMAIN episodes
    /\ Ledger!TitlesAreDistinct

LEMMA EpisodeInit == Ledger!Init => EpisodeInv
<1> SUFFICES ASSUME Ledger!Init PROVE EpisodeInv
  OBVIOUS
<1>1. /\ DOMAIN episodes = {} /\ DOMAIN aliases = {} /\ DOMAIN attached = {}
  BY DEF Ledger!Init
<1>2. 0 \in 0..MaxEpisodes /\ 1..0 = {}
  BY MemoryAssumption DEF MemoryAssumption
<1> QED BY <1>1, <1>2 DEF EpisodeInv, AliasesAreShort, AttachedIsKept, Ledger!TitlesAreDistinct, Ledger!Live

(* However long a chain of aliases may be followed, it has one link.         *)
LEMMA OneLink ==
  ASSUME EpisodeInv, NEW id \in DOMAIN attached
  PROVE  Ledger!Resolved(id) = Ledger!Hop(id) /\ Ledger!Hop(id) \in DOMAIN episodes
<1> DEFINE there == Ledger!Hop(id)
           g == [n \in 0..MaxEpisodes |-> IF n = 0 THEN id ELSE there]
           after[n \in 0..MaxEpisodes] == IF n = 0 THEN id ELSE Ledger!Hop(after[n - 1])
<1>1. MaxEpisodes \in Nat /\ 1 <= MaxEpisodes
  BY MemoryAssumption DEF MemoryAssumption, EpisodeInv, AliasesAreShort
<1>2. there \in DOMAIN episodes /\ Ledger!Hop(there) = there
  BY DEF EpisodeInv, AliasesAreShort, Ledger!Hop
<1>3. g = [n \in 0..MaxEpisodes |-> IF n = 0 THEN id ELSE Ledger!Hop(g[n - 1])]
  <2>1. ASSUME NEW n \in 0..MaxEpisodes, n # 0 PROVE Ledger!Hop(g[n - 1]) = there
    BY <1>1, <1>2, <2>1
  <2> QED BY <1>1, <2>1
<1>4. after = [n \in 0..MaxEpisodes |-> IF n = 0 THEN id ELSE Ledger!Hop(after[n - 1])]
  <2> HIDE DEF g
  <2> QED BY <1>3
<1>5. Ledger!Resolved(id) = after[MaxEpisodes]
  BY DEF Ledger!Resolved
<1> HIDE DEF after
<1>6. \A n \in 0..MaxEpisodes : after[n] = g[n]
  <2> DEFINE bad == {n \in 0..MaxEpisodes : after[n] # g[n]}
  <2> SUFFICES ASSUME bad # {} PROVE FALSE
    OBVIOUS
  <2>1. PICK n \in bad : \A m \in bad : n <= m
    <3>1. bad \subseteq Nat
      BY <1>1
    <3> HIDE DEF bad
    <3> QED BY <3>1, LeastIndex
  <2>2. n \in 0..MaxEpisodes /\ after[n] # g[n] /\ n # 0
    BY <1>1, <1>4, <2>1
  <2>3. n - 1 \in 0..MaxEpisodes /\ n - 1 \notin bad
    BY <1>1, <2>1, <2>2
  <2>4. after[n] = Ledger!Hop(g[n - 1])
    BY <1>1, <1>4, <2>2, <2>3
  <2> HIDE DEF g
  <2> QED BY <1>3, <2>2, <2>4
<1> QED BY <1>1, <1>2, <1>5, <1>6

LEMMA EpisodeCardinality == \A some : Ledger!Cardinality(some) = Cardinality(some)
BY DEF Ledger!Cardinality, Cardinality

LEMMA FiniteLive == ASSUME EpisodeInv PROVE IsFiniteSet(DOMAIN episodes) /\ DOMAIN episodes \subseteq Nat
<1>1. PICK n \in 0..MaxEpisodes : DOMAIN attached = 1..n
  BY DEF EpisodeInv, AliasesAreShort
<1>2. n \in Nat /\ IsFiniteSet(1..n) /\ 1..n \subseteq Nat
  BY FS_Interval, MemoryAssumption DEF MemoryAssumption
<1>3. DOMAIN episodes \in SUBSET (1..n)
  BY <1>1 DEF EpisodeInv, AliasesAreShort
<1> QED BY <1>2, <1>3, FS_Subset

(* What some episodes hold together is finite.                               *)
LEMMA FiniteUnion ==
  ASSUME EpisodeInv, NEW some, some \subseteq DOMAIN episodes
  PROVE  IsFiniteSet(UNION {episodes[i].messages : i \in some})
<1> DEFINE held == {episodes[i].messages : i \in some}
           f == [i \in some |-> episodes[i].messages]
<1>1. IsFiniteSet(some)
  BY FiniteLive, FS_Subset
<1>2. f \in Surjection(some, held)
  BY DEF Surjection
<1>3. IsFiniteSet(held)
  <2> HIDE DEF f, held
  <2> QED BY <1>1, <1>2, FS_Surjection
<1>4. \A h \in held : IsFiniteSet(h)
  BY DEF EpisodeInv
<1>5. IsFiniteSet(UNION held)
  <2> HIDE DEF held
  <2> QED BY <1>3, <1>4, FS_UNION
<1> QED BY <1>5

(* Among the episodes of a title one holds the most messages, and of those   *)
(* that do one is the oldest.                                                *)
LEMMA CanonicalIs ==
  ASSUME EpisodeInv, NEW id \in DOMAIN episodes
  PROVE  /\ Ledger!Canonical(id) \in Ledger!Twins(id)
         /\ \A j \in Ledger!Twins(id) : Ledger!Before(Ledger!Canonical(id), j)
<1> DEFINE twins == Ledger!Twins(id)
           held == UNION {episodes[i].messages : i \in DOMAIN episodes}
           size(i) == Cardinality(episodes[i].messages)
           room == {Cardinality(held) - size(i) : i \in twins}
<1>1. id \in twins /\ twins \subseteq DOMAIN episodes /\ twins \subseteq Nat
  BY FiniteLive DEF Ledger!Twins, Ledger!Live
<1>2. IsFiniteSet(held) /\ Cardinality(held) \in Nat
  <2>1. IsFiniteSet(held)
    BY FiniteUnion
  <2> HIDE DEF held
  <2> QED BY <2>1, FS_CardinalityType
<1>3. ASSUME NEW i \in twins PROVE size(i) \in Nat /\ Cardinality(held) - size(i) \in Nat
  <2> DEFINE mine == episodes[i].messages
  <2>1. mine \in SUBSET held /\ IsFiniteSet(mine)
    BY <1>1 DEF EpisodeInv
  <2> HIDE DEF held, mine
  <2>2. Cardinality(mine) \in Nat /\ Cardinality(mine) <= Cardinality(held)
    BY <1>2, <2>1, FS_Subset, FS_CardinalityType
  <2> QED BY <1>2, <2>2 DEF mine
<1> HIDE DEF held, twins
<1>4. PICK k \in room : \A j \in room : k <= j
  <2>1. room \subseteq Nat /\ room # {}
    BY <1>1, <1>3
  <2> HIDE DEF room
  <2> QED BY <2>1, LeastIndex
<1> DEFINE full == {i \in twins : Cardinality(held) - size(i) = k}
<1>5. PICK first \in full : \A j \in full : first <= j
  <2>1. full \subseteq Nat /\ full # {}
    BY <1>1, <1>4
  <2> HIDE DEF full
  <2> QED BY <2>1, LeastIndex
<1>6. first \in twins /\ \A j \in twins : Ledger!Before(first, j)
  <2> SUFFICES ASSUME NEW j \in twins PROVE Ledger!Before(first, j)
    BY <1>5
  <2>1. /\ size(first) \in Nat /\ size(j) \in Nat /\ first \in Nat /\ j \in Nat
        /\ Cardinality(held) - size(first) <= Cardinality(held) - size(j)
        /\ (Cardinality(held) - size(first) = Cardinality(held) - size(j) => first <= j)
    BY <1>1, <1>3, <1>4, <1>5
  <2>2. size(first) > size(j) \/ (size(first) = size(j) /\ first <= j)
    BY <1>2, <2>1
  <2> QED BY <2>2, EpisodeCardinality DEF Ledger!Before
<1> QED BY <1>6 DEF Ledger!Canonical, twins

LEMMA SameCanonical ==
  ASSUME EpisodeInv, NEW i \in DOMAIN episodes, NEW j \in Ledger!Twins(i)
  PROVE  /\ j \in DOMAIN episodes
         /\ Ledger!Twins(j) = Ledger!Twins(i) /\ Ledger!Canonical(j) = Ledger!Canonical(i)
<1>1. j \in DOMAIN episodes /\ Ledger!Twins(j) = Ledger!Twins(i)
  BY DEF Ledger!Twins, Ledger!Live
<1> DEFINE a == Ledger!Canonical(i)
           b == Ledger!Canonical(j)
<1>2. /\ a \in Ledger!Twins(i) /\ b \in Ledger!Twins(i)
      /\ Ledger!Before(a, b) /\ Ledger!Before(b, a)
  BY <1>1, CanonicalIs
<1>3. a \in DOMAIN episodes /\ b \in DOMAIN episodes
  BY <1>2 DEF Ledger!Twins, Ledger!Live
<1> HIDE DEF a, b
<1>4. /\ Cardinality(episodes[a].messages) \in Nat /\ Cardinality(episodes[b].messages) \in Nat
      /\ a \in Nat /\ b \in Nat
  BY <1>3, FiniteLive, FS_CardinalityType DEF EpisodeInv
<1>5. a = b
  BY <1>2, <1>4, EpisodeCardinality DEF Ledger!Before
<1> QED BY <1>1, <1>5 DEF a, b

(* The canonical episode is its own, so it is none that is dropped.          *)
LEMMA CanonicalStays ==
  ASSUME EpisodeInv, NEW id \in DOMAIN episodes
  PROVE  /\ Ledger!Canonical(id) \in DOMAIN episodes \ Ledger!Duplicates
         /\ id \in Ledger!Twins(Ledger!Canonical(id))
         /\ id \notin Ledger!Duplicates => Ledger!Canonical(id) = id
<1>1. Ledger!Canonical(id) \in Ledger!Twins(id) /\ id \in Ledger!Twins(id)
  BY CanonicalIs DEF Ledger!Twins, Ledger!Live
<1>2. /\ Ledger!Canonical(id) \in DOMAIN episodes
      /\ Ledger!Twins(Ledger!Canonical(id)) = Ledger!Twins(id)
      /\ Ledger!Canonical(Ledger!Canonical(id)) = Ledger!Canonical(id)
  BY <1>1, SameCanonical
<1> QED BY <1>1, <1>2 DEF Ledger!Duplicates, Ledger!Live

LEMMA MergedIs ==
  ASSUME EpisodeInv, NEW id \in DOMAIN episodes
  PROVE  LET e == Ledger!Merged(id)
             twins == Ledger!Twins(id)
         IN  /\ e \in Episode /\ IsFiniteSet(e.messages) /\ e.title = episodes[id].title
             /\ e.parents \subseteq DOMAIN episodes \ Ledger!Duplicates
             /\ \A i \in twins : episodes[i].messages \subseteq e.messages
<1> DEFINE twins == Ledger!Twins(id)
           held == UNION {episodes[i].messages : i \in twins}
           above == {Ledger!Canonical(p) : p \in UNION {episodes[i].parents : i \in twins} \ twins}
           old == episodes[id]
           e == [old EXCEPT !.messages = held, !.parents = above]
<1>1. Ledger!Merged(id) = e
  BY DEF Ledger!Merged
<1>2. twins \subseteq DOMAIN episodes /\ old \in Episode
  BY DEF Ledger!Twins, Ledger!Live, EpisodeInv
<1>3. IsFiniteSet(held) /\ held \in SUBSET Ledger!Messages
  <2>1. held \in SUBSET Ledger!Messages
    BY <1>2 DEF EpisodeInv, Episode
  <2> QED BY <1>2, <2>1, FiniteUnion
<1>4. above \subseteq DOMAIN episodes \ Ledger!Duplicates /\ above \in SUBSET Nat
  <2>1. \A p \in UNION {episodes[i].parents : i \in twins} : p \in DOMAIN episodes
    BY <1>2 DEF EpisodeInv
  <2> QED BY <2>1, CanonicalStays, FiniteLive
<1>5. \A i \in twins : episodes[i].messages \subseteq held
  OBVIOUS
<1> HIDE DEF held, above, old
<1>6. e \in Episode /\ e.messages = held /\ e.parents = above /\ e.title = old.title
  BY <1>2, <1>3, <1>4 DEF Episode
<1> HIDE DEF e
<1> QED BY <1>1, <1>3, <1>4, <1>5, <1>6 DEF old, twins

(* The store is opened: what was merged away leads where its messages went.  *)
LEMMA Consolidates == ASSUME EpisodeInv, Ledger!Open PROVE EpisodeInv'
<1> DEFINE dropped == Ledger!Duplicates
           kept == DOMAIN episodes \ dropped
           merged == [id \in kept |-> Ledger!Merged(id)]
           moved == Ledger!Repointed
<1>1. episodes' = merged /\ aliases' = moved /\ attached' = attached
  BY DEF Ledger!Open, Ledger!Live
<1>2. DOMAIN moved = DOMAIN aliases \cup dropped /\ dropped \subseteq DOMAIN episodes
  BY DEF Ledger!Repointed, Ledger!Duplicates, Ledger!Live
<1>3. ASSUME NEW i \in dropped
      PROVE  moved[i] = Ledger!Canonical(i) /\ moved[i] \in kept /\ i \in Ledger!Twins(moved[i])
  BY <1>2, <1>3, CanonicalStays DEF Ledger!Repointed
<1>4. ASSUME NEW i \in DOMAIN aliases
      PROVE  /\ moved[i] \in kept
             /\ aliases[i] \in DOMAIN episodes /\ aliases[i] \in Ledger!Twins(moved[i])
  <2>1. aliases[i] \in DOMAIN episodes /\ i \notin dropped
    BY <1>2 DEF EpisodeInv, AliasesAreShort
  <2>2. moved[i] = IF aliases[i] \in dropped THEN Ledger!Canonical(aliases[i]) ELSE aliases[i]
    BY <1>2, <2>1 DEF Ledger!Repointed
  <2>3. aliases[i] \in Ledger!Twins(aliases[i])
    BY <2>1 DEF Ledger!Twins, Ledger!Live
  <2> QED BY <2>1, <2>2, <2>3, CanonicalStays
<1>5. ASSUME NEW i \in kept
      PROVE  /\ merged[i] \in Episode /\ IsFiniteSet(merged[i].messages)
             /\ merged[i].title = episodes[i].title /\ merged[i].parents \subseteq kept
             /\ \A j \in Ledger!Twins(i) : episodes[j].messages \subseteq merged[i].messages
  BY MergedIs
<1> HIDE DEF dropped, merged, moved
<1>6. DOMAIN merged = kept
  BY DEF merged
<1>7. AliasesAreShort'
  <2>1. DOMAIN moved \cup kept = DOMAIN attached /\ DOMAIN moved \cap kept = {}
    BY <1>2 DEF EpisodeInv, AliasesAreShort
  <2>2. \A i \in DOMAIN moved : moved[i] \in kept
    BY <1>2, <1>3, <1>4
  <2> QED BY <1>1, <1>6, <2>1, <2>2 DEF EpisodeInv, AliasesAreShort
<1>8. AttachedIsKept'
  <2>1. ASSUME NEW i \in DOMAIN attached
        PROVE  attached[i] \subseteq merged[IF i \in DOMAIN moved THEN moved[i] ELSE i].messages
    <3>1. attached[i] \subseteq episodes[IF i \in DOMAIN aliases THEN aliases[i] ELSE i].messages
      BY DEF EpisodeInv, AttachedIsKept, Ledger!Hop
    <3>2. CASE i \in DOMAIN aliases
      BY <1>2, <1>4, <1>5, <3>1, <3>2
    <3>3. CASE i \in dropped
      <4>1. i \notin DOMAIN aliases
        BY <1>2, <3>3 DEF EpisodeInv, AliasesAreShort
      <4> QED BY <1>2, <1>3, <1>5, <3>1, <3>3, <4>1
    <3>4. CASE i \notin DOMAIN aliases /\ i \notin dropped
      <4>1. i \in kept /\ i \in Ledger!Twins(i)
        BY <3>4 DEF EpisodeInv, AliasesAreShort, Ledger!Twins, Ledger!Live
      <4> QED BY <1>2, <1>5, <3>1, <3>4, <4>1
    <3> QED BY <3>2, <3>3, <3>4
  <2> QED BY <1>1, <2>1 DEF AttachedIsKept, Ledger!Hop
<1>9. \A i \in kept : merged[i] \in Episode /\ IsFiniteSet(merged[i].messages) /\ merged[i].parents \subseteq kept
  BY <1>5
<1>10. Ledger!TitlesAreDistinct'
  <2>1. \A i, j \in kept : merged[i].title = merged[j].title => i = j
    BY <1>5 DEF EpisodeInv, Ledger!TitlesAreDistinct, Ledger!Live
  <2> QED BY <1>1, <1>6, <2>1 DEF Ledger!TitlesAreDistinct, Ledger!Live
<1> QED BY <1>1, <1>6, <1>7, <1>8, <1>9, <1>10 DEF EpisodeInv

LEMMA ExpandedIs ==
  ASSUME NEW m \in Ledger!Messages
  PROVE  /\ Ledger!Expanded({m}) \in SUBSET Ledger!Messages
         /\ IsFiniteSet(Ledger!Expanded({m}))
<1> DEFINE turn == {m, <<"user", m[2]>>, <<"assistant", m[2]>>}
<1>1. turn \subseteq Ledger!Messages
  BY DEF Ledger!Messages
<1>2. Ledger!Expanded({m}) \subseteq turn
  BY DEF Ledger!Expanded
<1>3. IsFiniteSet(turn)
  <2>1. \A x, y, z : IsFiniteSet({x, y, z})
    <3> SUFFICES ASSUME NEW x, NEW y, NEW z PROVE IsFiniteSet({x, y, z})
      OBVIOUS
    <3>1. IsFiniteSet({x} \cup {y})
      BY FS_Singleton, FS_AddElement
    <3>2. IsFiniteSet(({x} \cup {y}) \cup {z})
      BY <3>1, FS_AddElement
    <3>3. {x, y, z} = ({x} \cup {y}) \cup {z}
      OBVIOUS
    <3> QED BY <3>2, <3>3
  <2> QED BY <2>1, Zenon
<1> HIDE DEF turn
<1> QED BY <1>1, <1>2, <1>3, FS_Subset

(* An episode gains a message, a title or parents, and what it gains is      *)
(* attached under an id that leads to it.                                    *)
LEMMA Grows ==
  ASSUME EpisodeInv, NEW id, NEW given, NEW e, NEW more,
         id \in DOMAIN episodes \/ (id \notin DOMAIN attached /\ DOMAIN attached \cup {id} \in {1..n : n \in 0..MaxEpisodes}),
         (given \in DOMAIN attached /\ Ledger!Hop(given) = id) \/ given = id,
         e \in Episode, IsFiniteSet(e.messages), e.parents \subseteq DOMAIN episodes,
         more \subseteq e.messages, id \in DOMAIN episodes => episodes[id].messages \subseteq e.messages,
         \A i \in DOMAIN episodes : episodes[i].title = e.title => i = id,
         DOMAIN episodes' = DOMAIN episodes \cup {id},
         \A y \in DOMAIN episodes' : episodes'[y] = IF y = id THEN e ELSE episodes[y],
         Ledger!Attach(given, more), aliases' = aliases
  PROVE  EpisodeInv'
<1>1. /\ DOMAIN attached' = DOMAIN attached \cup {given}
      /\ \A y \in DOMAIN attached' : attached'[y] = IF y = given
             THEN (IF given \in DOMAIN attached THEN attached[given] ELSE {}) \cup more ELSE attached[y]
  BY DEF Ledger!Attach, Ledger!Issued, Ledger!Put
<1>2. /\ DOMAIN attached' = DOMAIN attached \cup {id} /\ id \notin DOMAIN aliases
      /\ (given \in DOMAIN attached /\ Ledger!Hop(given) = id) \/ (given = id /\ given \notin DOMAIN attached)
  <2>1. \A i \in DOMAIN attached : Ledger!Hop(i) \in DOMAIN episodes
    BY DEF EpisodeInv, AliasesAreShort, Ledger!Hop
  <2>2. DOMAIN episodes \subseteq DOMAIN attached /\ DOMAIN aliases \subseteq DOMAIN attached
        /\ DOMAIN aliases \cap DOMAIN episodes = {}
    BY DEF EpisodeInv, AliasesAreShort
  <2>3. CASE id \in DOMAIN episodes
    BY <1>1, <2>2, <2>3 DEF Ledger!Hop
  <2>4. CASE id \notin DOMAIN episodes
    BY <1>1, <2>1, <2>2, <2>4
  <2> QED BY <2>3, <2>4
<1>3. AliasesAreShort'
  <2>1. \E n \in 0..MaxEpisodes : DOMAIN attached' = 1..n
    <3>1. CASE id \in DOMAIN episodes
      BY <1>2, <3>1 DEF EpisodeInv, AliasesAreShort
    <3> QED BY <1>2, <3>1
  <2>2. /\ DOMAIN attached' = DOMAIN aliases' \cup DOMAIN episodes'
        /\ DOMAIN aliases' \cap DOMAIN episodes' = {}
        /\ \A i \in DOMAIN aliases' : aliases'[i] \in DOMAIN episodes'
    BY <1>2 DEF EpisodeInv, AliasesAreShort
  <2> QED BY <2>1, <2>2 DEF AliasesAreShort
<1>4. AttachedIsKept'
  <2> SUFFICES ASSUME NEW y \in DOMAIN attached'
               PROVE  attached'[y] \subseteq episodes'[Ledger!Hop(y)].messages
    BY DEF AttachedIsKept, Ledger!Hop
  <2>1. CASE y \in DOMAIN attached
    <3>1. Ledger!Hop(y) \in DOMAIN episodes /\ attached[y] \subseteq episodes[Ledger!Hop(y)].messages
      BY <2>1 DEF EpisodeInv, AliasesAreShort, AttachedIsKept, Ledger!Hop
    <3>2. episodes[Ledger!Hop(y)].messages \subseteq episodes'[Ledger!Hop(y)].messages
      BY <3>1
    <3>3. y = given => more \subseteq episodes'[Ledger!Hop(y)].messages
      BY <1>2, <2>1
    <3> QED BY <1>1, <2>1, <3>1, <3>2, <3>3
  <2>2. CASE y \notin DOMAIN attached
    <3>1. y = given /\ y = id /\ Ledger!Hop(y) = id
      BY <1>1, <1>2, <2>2 DEF Ledger!Hop
    <3> QED BY <1>1, <2>2, <3>1
  <2> QED BY <2>1, <2>2
<1>5. \A i \in DOMAIN episodes' :
          /\ episodes'[i] \in Episode /\ IsFiniteSet(episodes'[i].messages)
          /\ episodes'[i].parents \subseteq DOMAIN episodes'
  BY DEF EpisodeInv
<1>6. Ledger!TitlesAreDistinct'
  BY DEF EpisodeInv, Ledger!TitlesAreDistinct, Ledger!Live
<1> QED BY <1>3, <1>4, <1>5, <1>6 DEF EpisodeInv

LEMMA Upserts ==
  ASSUME EpisodeInv, NEW given \in DOMAIN attached \cup {0}, NEW t \in Titles,
         NEW named \in SUBSET DOMAIN attached, NEW m \in Ledger!Messages,
         Ledger!UpsertEpisode(given, t, named, {m})
  PROVE  EpisodeInv'
<1> DEFINE parents == {Ledger!Resolved(p) : p \in named}
           same == CHOOSE i \in Ledger!TitledAs(t) : TRUE
           next == Ledger!Cardinality(Ledger!Issued) + 1
           id == IF given # 0 THEN Ledger!Resolved(given)
                 ELSE IF Ledger!TitledAs(t) # {} THEN same ELSE next
           more == Ledger!Expanded({m})
           e == [title |-> t, parents |-> parents,
                 messages |-> (IF id \in Ledger!Live THEN episodes[id].messages ELSE {}) \cup more]
<1>1. /\ id \in Ledger!Ids /\ Ledger!TitleIsFree(t, id) /\ Ledger!ParentsAllowed(id, parents)
      /\ given # 0 => id \in Ledger!Live
      /\ episodes' = Ledger!Put(episodes, id, e) /\ Ledger!Attach(id, more) /\ aliases' = aliases
  BY DEF Ledger!UpsertEpisode
<1>2. id \in DOMAIN episodes \/ (id \notin DOMAIN attached /\ DOMAIN attached \cup {id} \in {1..n : n \in 0..MaxEpisodes})
  <2>1. CASE given # 0
    BY <1>1, <2>1 DEF Ledger!Live
  <2>2. CASE given = 0 /\ Ledger!TitledAs(t) # {}
    BY <2>2 DEF Ledger!TitledAs, Ledger!Live
  <2>3. CASE given = 0 /\ Ledger!TitledAs(t) = {}
    <3>1. PICK n \in 0..MaxEpisodes : DOMAIN attached = 1..n
      BY DEF EpisodeInv, AliasesAreShort
    <3>2. n \in Nat /\ MaxEpisodes \in Nat /\ Cardinality(1..n) = n
      BY FS_Interval, MemoryAssumption DEF MemoryAssumption
    <3>3. id = n + 1
      BY <2>3, <3>1, <3>2, EpisodeCardinality DEF Ledger!Issued
    <3>4. id \in 0..MaxEpisodes
      BY <1>1, <3>2, <3>3 DEF Ledger!Ids
    <3> HIDE DEF id
    <3>5. id \notin 1..n /\ (1..n) \cup {id} = 1..id
      BY <3>2, <3>3
    <3> QED BY <3>1, <3>4, <3>5
  <2> QED BY <2>1, <2>2, <2>3
<1> HIDE DEF id
<1>3. parents \subseteq DOMAIN episodes
  BY <1>1 DEF Ledger!ParentsAllowed, Ledger!Live
<1>4. more \in SUBSET Ledger!Messages /\ IsFiniteSet(more)
  BY ExpandedIs
<1> DEFINE before == IF id \in Ledger!Live THEN episodes[id].messages ELSE {}
<1>5. before \in SUBSET Ledger!Messages /\ IsFiniteSet(before)
  BY FS_EmptySet DEF EpisodeInv, Episode, Ledger!Live
<1> HIDE DEF parents, more, before
<1>6. IsFiniteSet(before \cup more)
  BY <1>4, <1>5, FS_Union
<1> DEFINE made == [title |-> t, parents |-> parents, messages |-> before \cup more]
<1>7. made \in Episode
  BY <1>3, <1>4, <1>5, FiniteLive DEF Episode
<1>8. e = made
  BY DEF before
<1>9. made.title = t /\ made.parents = parents /\ made.messages = before \cup more
  OBVIOUS
<1> HIDE DEF made, e
<1>10. /\ DOMAIN episodes' = DOMAIN episodes \cup {id}
       /\ \A y \in DOMAIN episodes' : episodes'[y] = IF y = id THEN made ELSE episodes[y]
  <2>1. episodes' = Ledger!Put(episodes, id, made)
    BY <1>1, <1>8
  <2> QED BY <2>1 DEF Ledger!Put
<1>11. id \in DOMAIN episodes => episodes[id].messages \subseteq made.messages
  BY <1>9 DEF before, Ledger!Live
<1>12. \A i \in DOMAIN episodes : episodes[i].title = made.title => i = id
  BY <1>1, <1>9 DEF Ledger!TitleIsFree, Ledger!TitledAs, Ledger!Live
<1>13. more \subseteq made.messages /\ IsFiniteSet(made.messages) /\ made.parents \subseteq DOMAIN episodes
  BY <1>3, <1>6, <1>9
<1> QED BY <1>1, <1>2, <1>7, <1>10, <1>11, <1>12, <1>13, Grows

LEMMA Attaches ==
  ASSUME EpisodeInv, NEW given \in DOMAIN attached, NEW m \in Ledger!Messages,
         Ledger!AttachMessages(given, {m})
  PROVE  EpisodeInv'
<1> DEFINE id == Ledger!Hop(given)
           more == Ledger!Expanded({m})
           old == episodes[id]
           e == [old EXCEPT !.messages = old.messages \cup more]
<1>1. Ledger!Resolved(given) = id /\ id \in DOMAIN episodes
  BY OneLink
<1>2. /\ episodes' = [episodes EXCEPT ![id] = e] /\ Ledger!Attach(given, more) /\ aliases' = aliases
  BY <1>1 DEF Ledger!AttachMessages
<1>3. more \in SUBSET Ledger!Messages /\ IsFiniteSet(more)
  BY ExpandedIs
<1>4. old \in Episode /\ IsFiniteSet(old.messages) /\ old.parents \subseteq DOMAIN episodes
  BY <1>1 DEF EpisodeInv
<1> HIDE DEF more, old, id
<1>5. e \in Episode /\ e.messages = old.messages \cup more /\ e.title = old.title /\ e.parents = old.parents
  BY <1>3, <1>4 DEF Episode
<1> HIDE DEF e
<1>6. IsFiniteSet(e.messages)
  BY <1>3, <1>4, <1>5, FS_Union
<1>7. \A i \in DOMAIN episodes : episodes[i].title = e.title => i = id
  BY <1>1, <1>5 DEF old, EpisodeInv, Ledger!TitlesAreDistinct, Ledger!Live
<1>8. /\ DOMAIN episodes' = DOMAIN episodes \cup {id}
      /\ \A y \in DOMAIN episodes' : episodes'[y] = IF y = id THEN e ELSE episodes[y]
  BY <1>1, <1>2
<1>9. given \in DOMAIN attached /\ Ledger!Hop(given) = id
  BY DEF id
<1>10. more \subseteq e.messages /\ episodes[id].messages \subseteq e.messages /\ e.parents \subseteq DOMAIN episodes
  BY <1>4, <1>5 DEF old
<1> QED BY <1>1, <1>2, <1>5, <1>6, <1>7, <1>8, <1>9, <1>10, Grows

LEMMA EpisodeStep == EpisodeInv /\ [Ledger!Next]_episodeVars => EpisodeInv'
<1> SUFFICES ASSUME EpisodeInv, [Ledger!Next]_episodeVars PROVE EpisodeInv'
  OBVIOUS
<1>1. ASSUME NEW given \in Ledger!Issued \cup {0}, NEW m \in Ledger!Messages, given # 0, Ledger!AttachMessages(given, {m})
      PROVE  EpisodeInv'
  BY <1>1, Attaches DEF Ledger!Issued
<1>2. ASSUME NEW given \in Ledger!Issued \cup {0}, NEW m \in Ledger!Messages, NEW t \in Titles,
             NEW p \in SUBSET Ledger!Issued, Ledger!UpsertEpisode(given, t, p, {m})
      PROVE  EpisodeInv'
  BY <1>2, Upserts DEF Ledger!Issued
<1>3. CASE Ledger!Open
  BY <1>3, Consolidates
<1>4. CASE UNCHANGED <<episodes, aliases, attached>>
  BY <1>4 DEF EpisodeInv, AliasesAreShort, AttachedIsKept, Ledger!Hop, Ledger!TitlesAreDistinct, Ledger!Live
<1>5. \/ \E given \in Ledger!Issued \cup {0}, m \in Ledger!Messages :
            \/ given # 0 /\ Ledger!AttachMessages(given, {m})
            \/ \E t \in Titles, p \in SUBSET Ledger!Issued : Ledger!UpsertEpisode(given, t, p, {m})
      \/ Ledger!Open
      \/ UNCHANGED <<episodes, aliases, attached>>
  BY DEF Ledger!Next, Ledger!UpsertHypothesis, Ledger!RecordMessage, Ledger!RetractMessage, episodeVars
<1> QED BY <1>1, <1>2, <1>3, <1>4, <1>5

(* Whatever the titles, the messages and the number of episodes, and however *)
(* often the store is opened: an id that was ever given out leads, in one    *)
(* step, to an episode that holds every message attached under it, parents   *)
(* exist, and no two episodes share a title (reflection/store.rs).           *)
THEOREM EpisodesKeepApart == Spec => []EpisodesStayApart
<1>1. Init => EpisodeInv
  BY EpisodeInit DEF Init
<1>2. [Next]_memoryVars => [Ledger!Next]_episodeVars
  BY DEF Next, memoryVars, episodeVars
<1>3. EpisodeInv => EpisodesStayApart
  <2> SUFFICES ASSUME EpisodeInv PROVE EpisodesStayApart
    OBVIOUS
  <2>1. ASSUME NEW id \in DOMAIN attached
        PROVE  Ledger!Resolved(id) \in DOMAIN episodes /\ attached[id] \subseteq episodes[Ledger!Resolved(id)].messages
    BY OneLink DEF EpisodeInv, AttachedIsKept
  <2> QED BY <2>1 DEF EpisodesStayApart, EpisodeInv, Ledger!IdsStayMeaningful, Ledger!Issued, Ledger!Live
<1> QED BY <1>1, <1>2, <1>3, EpisodeStep, PTL DEF Spec
-----------------------------------------------------------------------------
(* The maintained map.                                                       *)

Document == [id : Nat, sources : SUBSET Nat, by : {"nobody", "model", "user"}]
MaintenanceRun ==
    {[kind |-> "none"]} \cup [kind : {"operational"}, latest : Nat, shown : SUBSET Nat]
    \cup [kind : {"profile"}, of : Nat]

MaintenanceType ==
    /\ messages \in Seq(Nat) /\ projections \in [{"map", "loops"} -> Document]
    /\ profileReview \in Nat /\ revisions \in Nat /\ maintenance \in MaintenanceRun
    /\ asked \in SUBSET [of : Nat, message : Nat]
    /\ \A k \in {"map", "loops"} : projections[k].id <= revisions

(* What is assessed, in memory and on disk, was shown unless it did not fit; *)
(* what the run began with is, or will be.                                   *)
Assessed(m, by) == m \in 0..Len(messages) /\ (m # 0 /\ Maintained!Fits(m, m) => m \in by)
AssessedOK ==
    /\ Assessed(assessed, offered) /\ Assessed(checkpoint, offered) /\ offered \subseteq 1..Len(messages)
    /\ maintenance.kind = "operational" =>
          Assessed(maintenance.latest, maintenance.shown) /\ maintenance.shown \subseteq 1..Len(messages)

(* Questions are of maps that were reviewed, and a review is of a later one. *)
QuestionsOK ==
    /\ \A q \in asked : q.of <= profileReview
    /\ maintenance.kind = "profile" =>
          /\ maintenance.of <= projections["map"].id /\ maintenance.of <= profileReview
          /\ \A q \in asked : q.of < projections["map"].id /\ (maintenance.of # 0 => q.of < maintenance.of)

MaintenanceInv == MaintenanceType /\ AssessedOK /\ QuestionsOK /\ Maintained!OneQuestionPerMap

LEMMA MaintenanceInit == Maintained!Init => MaintenanceInv
<1> SUFFICES ASSUME Maintained!Init PROVE MaintenanceInv
  OBVIOUS
<1>1. /\ messages = <<>> /\ profileReview = 0 /\ revisions = 0 /\ asked = {} /\ assessed = 0 /\ checkpoint = 0
      /\ offered = {} /\ maintenance = [kind |-> "none"]
      /\ projections = [k \in {"map", "loops"} |-> [id |-> 0, sources |-> {}, by |-> "nobody"]]
  BY DEF Maintained!Init, Maintained!NoRun, Maintained!NoDocument, Maintained!Documents
<1>2. MaintenanceType
  <2>1. messages \in Seq(Nat)
    BY <1>1
  <2>2. projections \in [{"map", "loops"} -> Document] /\ \A k \in {"map", "loops"} : projections[k].id <= revisions
    BY <1>1 DEF Document
  <2>3. maintenance \in MaintenanceRun
    BY <1>1 DEF MaintenanceRun
  <2> QED BY <1>1, <2>1, <2>2, <2>3 DEF MaintenanceType
<1>3. AssessedOK
  BY <1>1 DEF AssessedOK, Assessed
<1>4. QuestionsOK /\ Maintained!OneQuestionPerMap
  BY <1>1 DEF QuestionsOK, Maintained!OneQuestionPerMap
<1> QED BY <1>2, <1>3, <1>4 DEF MaintenanceInv

LEMMA NotMaintenance ==
  MaintenanceType => (maintenance.kind = "none" <=> maintenance = [kind |-> "none"])
BY DEF MaintenanceType, MaintenanceRun

(* A message is added at the end: what fitted fits.                          *)
LEMMA MessageAdded ==
  ASSUME MaintenanceType, NEW more \in Nat, messages' = Append(messages, Maintained!End(Maintained!Latest) + more)
  PROVE  /\ messages' \in Seq(Nat) /\ Len(messages') = Len(messages) + 1 /\ Len(messages) \in Nat
         /\ \A n \in 0..Len(messages) : Maintained!Fits(n, n)' <=> Maintained!Fits(n, n)
<1>1. Maintained!End(Maintained!Latest) \in Nat /\ Len(messages) \in Nat /\ DOMAIN messages = 1..Len(messages)
  BY DEF MaintenanceType, Maintained!End
<1>2. messages' \in Seq(Nat) /\ Len(messages') = Len(messages) + 1
  <2>1. PICK x \in Nat : x = Maintained!End(Maintained!Latest) + more
    BY <1>1
  <2> QED BY <2>1 DEF MaintenanceType
<1>3. \A n \in 0..Len(messages) : Maintained!End(n)' = Maintained!End(n)
  BY <1>1, <1>2 DEF MaintenanceType, Maintained!End
<1>4. ASSUME NEW n \in 0..Len(messages) PROVE Maintained!Fits(n, n)' <=> Maintained!Fits(n, n)
  <2>1. (IF n > SourceEvents THEN n - SourceEvents ELSE 0) \in 0..Len(messages)
    BY <1>1, MaintenanceAssumption DEF MaintenanceAssumption
  <2> QED BY <1>3, <2>1 DEF Maintained!Fits
<1> QED BY <1>1, <1>2, <1>4

LEMMA AssessedStays ==
  ASSUME MaintenanceType, UNCHANGED messages \/ \E more \in Nat : messages' = Append(messages, Maintained!End(Maintained!Latest) + more),
         NEW m, NEW by, Assessed(m, by)
  PROVE  /\ m \in 0..Len(messages') /\ (m # 0 /\ Maintained!Fits(m, m)' => m \in by)
         /\ 1..Len(messages) \subseteq 1..Len(messages')
<1>1. CASE UNCHANGED messages
  BY <1>1 DEF Assessed, Maintained!Fits, Maintained!End
<1>2. ASSUME NEW more \in Nat, messages' = Append(messages, Maintained!End(Maintained!Latest) + more)
      PROVE /\ m \in 0..Len(messages') /\ (m # 0 /\ Maintained!Fits(m, m)' => m \in by)
            /\ 1..Len(messages) \subseteq 1..Len(messages')
  BY <1>2, MessageAdded DEF Assessed
<1> QED BY <1>1, <1>2

LEMMA ConversationGrows ==
  ASSUME MaintenanceInv, NEW more \in Nat, messages' = Append(messages, Maintained!End(Maintained!Latest) + more),
         UNCHANGED <<assessed, checkpoint, offered>>,
         maintenance' = maintenance \/ maintenance'.kind = "none"
  PROVE  messages' \in Seq(Nat) /\ AssessedOK'
<1>1. MaintenanceType /\ AssessedOK
  BY DEF MaintenanceInv
<1>2. Assessed(assessed, offered)' /\ Assessed(checkpoint, offered)' /\ offered \subseteq 1..Len(messages')
  BY <1>1, AssessedStays DEF AssessedOK, Assessed
<1>3. maintenance'.kind = "operational" =>
          Assessed(maintenance.latest, maintenance.shown)' /\ maintenance'.shown \subseteq 1..Len(messages')
  BY <1>1, AssessedStays DEF AssessedOK, Assessed
<1> QED BY <1>1, <1>2, <1>3, MessageAdded DEF AssessedOK

LEMMA MessagesCome ==
  ASSUME MaintenanceInv, NEW size \in Sizes, Maintained!Message(size) PROVE MaintenanceInv'
<1>1. /\ messages' = Append(messages, Maintained!End(Maintained!Latest) + size) /\ size \in Nat
      /\ UNCHANGED <<projections, profileReview, assessed, checkpoint, due, maintenance, offered, asked, revisions>>
  BY MaintenanceAssumption DEF MaintenanceAssumption, Maintained!Message
<1>2. messages' \in Seq(Nat) /\ AssessedOK'
  BY <1>1, ConversationGrows
<1> QED BY <1>1, <1>2 DEF MaintenanceInv, MaintenanceType, QuestionsOK, Maintained!OneQuestionPerMap

(* The latest message is shown, unless what is before it left it no room.    *)
LEMMA RunsBegin ==
  ASSUME MaintenanceInv, Maintained!BeginOperational \/ Maintained!BeginProfileReview PROVE MaintenanceInv'
<1>1. UNCHANGED <<messages, projections, profileReview, assessed, checkpoint, offered, asked, revisions>>
  BY DEF Maintained!BeginOperational, Maintained!BeginProfileReview
<1>2. messages \in Seq(Nat) /\ Len(messages) \in Nat /\ DOMAIN messages = 1..Len(messages)
  BY DEF MaintenanceInv, MaintenanceType
<1>3. CASE Maintained!BeginOperational
  <2>1. PICK bundle : bundle = Maintained!Bundle
    OBVIOUS
  <2>2. maintenance' = [kind |-> "operational", latest |-> Len(messages), shown |-> bundle] /\ Len(messages) > 0
    BY <1>3, <2>1 DEF Maintained!BeginOperational, Maintained!Latest
  <2>3. bundle \subseteq 1..Len(messages)
    BY <1>2, <2>1 DEF Maintained!Bundle, Maintained!RecentFrom
  <2>4. Maintained!Fits(Len(messages), Len(messages)) => Len(messages) \in bundle
    BY <1>2, <2>1, <2>2, MaintenanceAssumption
       DEF MaintenanceAssumption, Maintained!Bundle, Maintained!RecentFrom, Maintained!Latest
  <2>5. /\ maintenance' \in MaintenanceRun /\ maintenance'.kind = "operational"
        /\ maintenance'.latest = Len(messages) /\ maintenance'.shown = bundle
    BY <1>2, <2>2, <2>3 DEF MaintenanceRun
  <2>6. Assessed(Len(messages), bundle)
    BY <1>2, <2>4 DEF Assessed
  <2>7. AssessedOK'
    BY <1>1, <2>3, <2>5, <2>6 DEF MaintenanceInv, AssessedOK, Assessed, Maintained!Fits, Maintained!End
  <2> QED BY <1>1, <2>5, <2>7 DEF MaintenanceInv, MaintenanceType, QuestionsOK, Maintained!OneQuestionPerMap
<1>4. CASE Maintained!BeginProfileReview
  <2>1. maintenance' = [kind |-> "profile", of |-> 0] /\ ~ (profileReview >= projections["map"].id)
    BY <1>4 DEF Maintained!BeginProfileReview, Maintained!ReviewIsCurrent
  <2>2. maintenance' \in MaintenanceRun /\ maintenance'.kind = "profile" /\ maintenance'.of = 0
    BY <2>1 DEF MaintenanceRun
  <2>3. profileReview \in Nat /\ projections["map"].id \in Nat /\ asked \in SUBSET [of : Nat, message : Nat]
    BY DEF MaintenanceInv, MaintenanceType, Document
  <2>4. QuestionsOK'
    BY <1>1, <2>1, <2>2, <2>3 DEF MaintenanceInv, QuestionsOK
  <2>5. AssessedOK'
    BY <1>1, <2>2 DEF MaintenanceInv, AssessedOK, Assessed, Maintained!Fits, Maintained!End
  <2> QED BY <1>1, <2>2, <2>4, <2>5 DEF MaintenanceInv, MaintenanceType, Maintained!OneQuestionPerMap
<1> QED BY <1>3, <1>4

LEMMA DocumentsChange ==
  ASSUME MaintenanceInv, NEW k \in {"map", "loops"}, Maintained!UpdateProjection(k) \/ Maintained!UserEdits(k)
  PROVE  MaintenanceInv'
<1>1. UNCHANGED <<messages, profileReview, assessed, checkpoint, maintenance, offered, asked>>
  BY DEF Maintained!UpdateProjection, Maintained!UserEdits
<1>2. PICK sources \in SUBSET Nat, author \in {"model", "user"} : Maintained!Upsert(k, sources, author)
  <2>1. DOMAIN messages \subseteq Nat
    BY DEF MaintenanceInv, MaintenanceType
  <2>2. Maintained!RecentFrom(1) \subseteq Nat
    BY <2>1 DEF Maintained!RecentFrom
  <2> QED BY <2>1, <2>2 DEF Maintained!UpdateProjection, Maintained!UserEdits
<1> DEFINE d == [id |-> revisions + 1, sources |-> sources, by |-> author]
<1>3. revisions' = revisions + 1 /\ projections' = [projections EXCEPT ![k] = d] /\ revisions \in Nat
  BY <1>2 DEF Maintained!Upsert, MaintenanceInv, MaintenanceType
<1>4. d \in Document /\ d.id = revisions + 1
  BY <1>3 DEF Document
<1> HIDE DEF d
<1>5. projections \in [{"map", "loops"} -> Document] /\ \A j \in {"map", "loops"} : projections[j].id <= revisions
  BY DEF MaintenanceInv, MaintenanceType
<1>6. \A j \in {"map", "loops"} : projections[j].id \in Nat
  BY <1>5 DEF Document
<1>7. /\ projections' \in [{"map", "loops"} -> Document] /\ \A j \in {"map", "loops"} : projections'[j].id <= revisions'
      /\ projections'["map"].id \in Nat /\ projections["map"].id <= projections'["map"].id
  BY <1>3, <1>4, <1>5, <1>6
<1>8. MaintenanceType'
  BY <1>1, <1>3, <1>7 DEF MaintenanceInv, MaintenanceType
<1>9. QuestionsOK'
  <2>1. \A q \in asked : q.of \in Nat
    BY DEF MaintenanceInv, MaintenanceType
  <2>2. maintenance.kind = "profile" => maintenance.of \in Nat
    BY DEF MaintenanceInv, MaintenanceType, MaintenanceRun
  <2> QED BY <1>1, <1>6, <1>7, <2>1, <2>2 DEF MaintenanceInv, QuestionsOK
<1>10. AssessedOK' /\ Maintained!OneQuestionPerMap'
  BY <1>1 DEF MaintenanceInv, AssessedOK, Assessed, Maintained!Fits, Maintained!End, Maintained!OneQuestionPerMap
<1> QED BY <1>8, <1>9, <1>10 DEF MaintenanceInv

LEMMA RunIs ==
  ASSUME MaintenanceType
  PROVE  /\ maintenance.kind = "profile" => maintenance = [kind |-> "profile", of |-> maintenance.of] /\ maintenance.of \in Nat
         /\ maintenance.kind = "operational" =>
               maintenance = [kind |-> "operational", latest |-> maintenance.latest, shown |-> maintenance.shown]
BY DEF MaintenanceType, MaintenanceRun

LEMMA ReviewRecorded ==
  ASSUME MaintenanceInv, Maintained!RecordProfileReview PROVE MaintenanceInv'
<1> DEFINE id == projections["map"].id
<1>1. /\ UNCHANGED <<messages, projections, assessed, checkpoint, offered, asked, revisions>>
      /\ profileReview' = id /\ maintenance' = [maintenance EXCEPT !.of = id] /\ maintenance.kind = "profile"
  BY DEF Maintained!RecordProfileReview
<1>2. id \in Nat /\ profileReview \in Nat /\ \A q \in asked : q.of \in Nat
  BY DEF MaintenanceInv, MaintenanceType, Document
<1>3. maintenance' \in MaintenanceRun /\ maintenance'.kind = "profile" /\ maintenance'.of = id
  <2>1. PICK old \in Nat : maintenance = [kind |-> "profile", of |-> old]
    BY <1>1, RunIs DEF MaintenanceInv
  <2> HIDE DEF id
  <2>2. maintenance' = [kind |-> "profile", of |-> id]
    BY <1>1, <2>1
  <2> QED BY <1>2, <2>2 DEF MaintenanceRun
<1>4. QuestionsOK'
  BY <1>1, <1>2, <1>3 DEF MaintenanceInv, QuestionsOK
<1>5. AssessedOK'
  BY <1>1, <1>3 DEF MaintenanceInv, AssessedOK, Assessed, Maintained!Fits, Maintained!End
<1> QED BY <1>1, <1>2, <1>3, <1>4, <1>5 DEF MaintenanceInv, MaintenanceType, Maintained!OneQuestionPerMap

LEMMA ReviewCloses ==
  ASSUME MaintenanceInv, NEW asks \in BOOLEAN, Maintained!ReviewEnds(asks) PROVE MaintenanceInv'
<1>1. /\ UNCHANGED <<projections, profileReview, assessed, checkpoint, offered, revisions>>
      /\ maintenance.kind = "profile" /\ maintenance' = [kind |-> "none"] /\ (asks => maintenance.of # 0)
      /\ maintenance' \in MaintenanceRun /\ maintenance'.kind = "none"
  BY DEF Maintained!ReviewEnds, Maintained!NoRun, MaintenanceRun
<1>2. CASE ~asks
  <2>1. UNCHANGED <<messages, asked>>
    BY <1>2 DEF Maintained!ReviewEnds
  <2> QED BY <1>1, <2>1 DEF MaintenanceInv, MaintenanceType, AssessedOK, Assessed, Maintained!Fits, Maintained!End,
         QuestionsOK, Maintained!OneQuestionPerMap
<1>3. CASE asks
  <2> DEFINE q == [of |-> maintenance.of, message |-> Len(messages) + 1]
  <2>1. messages' = Append(messages, Maintained!End(Maintained!Latest) + 1) /\ asked' = asked \cup {q}
    BY <1>3 DEF Maintained!ReviewEnds, Maintained!Latest
  <2>2. messages' \in Seq(Nat) /\ AssessedOK'
    BY <1>1, <2>1, ConversationGrows
  <2>3. maintenance.of \in Nat /\ Len(messages) \in Nat
    BY <1>1, RunIs DEF MaintenanceInv, MaintenanceType
  <2>4. q \in [of : Nat, message : Nat] /\ q.of = maintenance.of
    BY <2>3
  <2> HIDE DEF q
  <2>5. MaintenanceType'
    BY <1>1, <2>1, <2>2, <2>4 DEF MaintenanceInv, MaintenanceType
  <2>6. \A r \in asked : r.of < q.of /\ r.of \in Nat
    BY <1>1, <1>3, <2>4 DEF MaintenanceInv, MaintenanceType, QuestionsOK
  <2>7. q.of <= profileReview /\ q.of \in Nat
    BY <1>1, <2>3, <2>4 DEF MaintenanceInv, QuestionsOK
  <2>8. QuestionsOK' /\ Maintained!OneQuestionPerMap'
    BY <1>1, <2>1, <2>6, <2>7 DEF MaintenanceInv, QuestionsOK, Maintained!OneQuestionPerMap
  <2> QED BY <2>2, <2>5, <2>8 DEF MaintenanceInv
<1> QED BY <1>2, <1>3

LEMMA MaintenanceCloses ==
  ASSUME MaintenanceInv, NEW kept \in BOOLEAN, Maintained!MaintenanceEnds(kept) PROVE MaintenanceInv'
<1>1. /\ UNCHANGED <<messages, projections, profileReview, asked, revisions>>
      /\ maintenance.kind = "operational" /\ maintenance' = [kind |-> "none"]
      /\ maintenance' \in MaintenanceRun /\ maintenance'.kind = "none"
      /\ offered' = offered \cup maintenance.shown
      /\ assessed' \in {assessed, maintenance.latest} /\ checkpoint' \in {checkpoint, maintenance.latest}
  BY DEF Maintained!MaintenanceEnds, Maintained!NoRun, MaintenanceRun, Maintained!AssessedThrough
<1>2. /\ Assessed(assessed, offered) /\ Assessed(checkpoint, offered) /\ offered \subseteq 1..Len(messages)
      /\ Assessed(maintenance.latest, maintenance.shown) /\ maintenance.shown \subseteq 1..Len(messages)
  BY <1>1 DEF MaintenanceInv, AssessedOK
<1>3. ASSUME NEW m, Assessed(m, offered) \/ Assessed(m, maintenance.shown)
      PROVE  m \in 0..Len(messages') /\ (m # 0 /\ Maintained!Fits(m, m)' => m \in offered')
  BY <1>1, <1>3 DEF Assessed, Maintained!Fits, Maintained!End
<1>4. AssessedOK'
  BY <1>1, <1>2, <1>3 DEF AssessedOK, Assessed, Maintained!Fits, Maintained!End
<1> QED BY <1>1, <1>4 DEF MaintenanceInv, MaintenanceType, QuestionsOK, Maintained!OneQuestionPerMap

LEMMA MaintenanceStep == MaintenanceInv /\ [Maintained!Next]_maintenanceVars => MaintenanceInv'
<1> SUFFICES ASSUME MaintenanceInv, [Maintained!Next]_maintenanceVars PROVE MaintenanceInv'
  OBVIOUS
<1>1. CASE \/ UNCHANGED maintenanceVars \/ Maintained!Interrupted \/ Maintained!Restart
           \/ \E kind \in {"operational", "profile"} : Maintained!DayPasses(kind)
  <2>1. /\ UNCHANGED <<messages, projections, profileReview, checkpoint, offered, asked, revisions>>
        /\ assessed' \in {assessed, checkpoint}
        /\ maintenance' = maintenance \/ (maintenance' = [kind |-> "none"] /\ maintenance' \in MaintenanceRun /\ maintenance'.kind = "none")
    BY <1>1 DEF maintenanceVars, Maintained!Interrupted, Maintained!Restart, Maintained!DayPasses,
       Maintained!NoRun, MaintenanceRun
  <2>2. AssessedOK'
    BY <2>1 DEF MaintenanceInv, AssessedOK, Assessed, Maintained!Fits, Maintained!End
  <2>3. QuestionsOK'
    BY <2>1 DEF MaintenanceInv, QuestionsOK
  <2> QED BY <2>1, <2>2, <2>3 DEF MaintenanceInv, MaintenanceType, Maintained!OneQuestionPerMap
<1>2. CASE Maintained!Next
  BY <1>1, <1>2, MessagesCome, RunsBegin, DocumentsChange, ReviewRecorded, ReviewCloses, MaintenanceCloses
     DEF Maintained!Next, Maintained!Documents
<1> QED BY <1>1, <1>2

(* Whatever the limits, the messages and the edits, and however runs end:    *)
(* what counts as assessed was shown by a run that came to its end, unless   *)
(* the messages before it filled its bundle; and a version of the map leads  *)
(* to one question at most (context_maintenance.rs).                         *)
THEOREM MapsAreAssessed == Spec => []MapIsAssessed
<1>1. Init => MaintenanceInv
  BY MaintenanceInit DEF Init
<1>2. [Next]_memoryVars => [Maintained!Next]_maintenanceVars
  BY DEF Next, memoryVars, maintenanceVars
<1>3. MaintenanceInv => MapIsAssessed
  <2> SUFFICES ASSUME MaintenanceInv PROVE MapIsAssessed
    OBVIOUS
  <2>1. \A k \in {"map", "loops"} : projections[k].id \in 0..revisions
    BY DEF MaintenanceInv, MaintenanceType, Document
  <2>2. Maintained!TypeOK
    BY <2>1 DEF MaintenanceInv, AssessedOK, Assessed, Maintained!TypeOK, Maintained!Latest, Maintained!Documents
  <2>3. Maintained!AssessedWasShown
    BY DEF MaintenanceInv, AssessedOK, Assessed, Maintained!AssessedWasShown
  <2> QED BY <2>2, <2>3 DEF MaintenanceInv, MapIsAssessed
<1> QED BY <1>1, <1>2, <1>3, MaintenanceStep, PTL DEF Spec

-----------------------------------------------------------------------------
(* The migration of the transcript.                                          *)

Entry == [retracted : BOOLEAN]
MigrationRun ==
    {[at |-> "idle"]} \cup [at : {"reading", "judged"}, after : Nat, through : Nat]

TranscriptType ==
    /\ entries \in Seq(Entry) /\ watermark \in 0..Len(entries) /\ judged \subseteq 1..Len(entries)
    /\ migration \in MigrationRun
    /\ migration.at # "idle" => migration.after <= migration.through /\ migration.through <= Len(entries)

(* What lies behind the watermark, or behind the run that will move it, was  *)
(* shown to the model or is retracted.                                       *)
Migrates(n) == \A m \in 1..n : m \in judged \/ entries[m].retracted
MigrationInv == TranscriptType /\ Migrates(watermark) /\ (migration.at # "idle" => Migrates(migration.after))

LEMMA LargestOf ==
  ASSUME NEW some, some # {}, NEW n \in Nat, some \subseteq 0..n
  PROVE  Migrated!Max(some) \in some /\ \A m \in some : m <= Migrated!Max(some)
BY GreatestIndex DEF Migrated!Max

LEMMA MigrationInit == Migrated!Init => MigrationInv
<1> SUFFICES ASSUME Migrated!Init PROVE MigrationInv
  OBVIOUS
<1>1. entries = <<>> /\ watermark = 0 /\ migration = [at |-> "idle"] /\ judged = {}
  BY DEF Migrated!Init, Migrated!Quiet
<1>2. entries \in Seq(Entry) /\ Len(entries) = 0 /\ migration \in MigrationRun
  BY <1>1 DEF MigrationRun
<1> QED BY <1>1, <1>2 DEF MigrationInv, TranscriptType, Migrates

LEMMA EntriesAre ==
  ASSUME MigrationInv
  PROVE  /\ Len(entries) \in Nat /\ DOMAIN entries = 1..Len(entries)
         /\ \A m \in DOMAIN entries : entries[m] \in Entry
         /\ Migrated!Visible \subseteq 1..Len(entries)
BY DEF MigrationInv, TranscriptType, Migrated!Visible

(* Entries are added and retracted, none comes back.                         *)
LEMMA EntriesChange ==
  ASSUME MigrationInv, UNCHANGED <<watermark, migration, judged>>,
         entries' \in Seq(Entry), Len(entries) <= Len(entries'),
         \A m \in DOMAIN entries : entries[m].retracted => entries'[m].retracted
  PROVE  MigrationInv'
<1>1. /\ Len(entries) \in Nat /\ DOMAIN entries = 1..Len(entries) /\ Len(entries') \in Nat
      /\ 1..Len(entries) \subseteq 1..Len(entries')
  BY EntriesAre
<1>2. TranscriptType'
  BY <1>1 DEF MigrationInv, TranscriptType, MigrationRun
<1>3. ASSUME NEW n \in 0..Len(entries), Migrates(n) PROVE \A m \in 1..n : m \in judged' \/ entries'[m].retracted
  BY <1>1, <1>3 DEF Migrates
<1>4. watermark \in 0..Len(entries) /\ (migration.at # "idle" => migration.after \in 0..Len(entries))
  BY <1>1 DEF MigrationInv, TranscriptType, MigrationRun
<1> QED BY <1>2, <1>3, <1>4 DEF MigrationInv, Migrates

LEMMA EntryAppended == ASSUME MigrationInv, Migrated!AppendMessage PROVE MigrationInv'
<1>1. /\ entries' = Append(entries, [retracted |-> FALSE]) /\ UNCHANGED <<watermark, migration, judged>>
      /\ [retracted |-> FALSE] \in Entry
  BY DEF Migrated!AppendMessage, Entry
<1>2. entries \in Seq(Entry)
  BY DEF MigrationInv, TranscriptType
<1>3. /\ entries' \in Seq(Entry) /\ Len(entries) <= Len(entries')
      /\ \A m \in DOMAIN entries : entries'[m] = entries[m]
  BY <1>1, <1>2
<1> QED BY <1>1, <1>3, EntriesChange

LEMMA EntriesRetracted ==
  ASSUME MigrationInv, NEW m \in DOMAIN entries, Migrated!RetractFrom(m) PROVE MigrationInv'
<1>1. /\ entries' = [k \in DOMAIN entries |-> IF k >= m THEN [entries[k] EXCEPT !.retracted = TRUE] ELSE entries[k]]
      /\ UNCHANGED <<watermark, migration, judged>>
  BY DEF Migrated!RetractFrom
<1>2. PICK n \in Nat : DOMAIN entries = 1..n /\ n = Len(entries)
  BY EntriesAre
<1>3. \A k \in DOMAIN entries : /\ [entries[k] EXCEPT !.retracted = TRUE] \in Entry
                                /\ [entries[k] EXCEPT !.retracted = TRUE].retracted
  BY EntriesAre DEF Entry
<1>4. entries' \in [1..n -> Entry] /\ \A k \in DOMAIN entries : entries[k].retracted => entries'[k].retracted
  BY <1>1, <1>2, <1>3, EntriesAre
<1>5. entries' \in Seq(Entry) /\ Len(entries') = n
  BY <1>4
<1> QED BY <1>1, <1>2, <1>4, <1>5, EntriesChange

LEMMA MigrationBegins == ASSUME MigrationInv, Migrated!BeginMigration PROVE MigrationInv'
<1> DEFINE through == Migrated!Max(Migrated!Visible)
<1>1. /\ UNCHANGED <<entries, watermark, judged>> /\ watermark < through
      /\ migration' = [at |-> "reading", after |-> watermark, through |-> through] /\ Migrated!Visible # {}
  BY DEF Migrated!BeginMigration
<1>2. through \in 1..Len(entries)
  BY <1>1, EntriesAre, LargestOf
<1>3. watermark \in Nat /\ Len(entries) \in Nat
  BY EntriesAre DEF MigrationInv, TranscriptType
<1> HIDE DEF through
<1>4. /\ migration' \in MigrationRun /\ migration'.at # "idle" /\ migration'.after = watermark
      /\ migration'.through = through
  BY <1>1, <1>2, <1>3 DEF MigrationRun
<1> QED BY <1>1, <1>2, <1>3, <1>4 DEF MigrationInv, TranscriptType, Migrates

LEMMA MigratedCardinality == \A some : Migrated!Cardinality(some) = Cardinality(some)
BY DEF Migrated!Cardinality, Cardinality

(* A batch takes the first that are left: what is visible and no later than  *)
(* its end is in it.                                                         *)
LEMMA BatchIsWhole ==
  ASSUME MigrationInv, migration.at # "idle"
  PROVE  LET batch == Migrated!MigrationBatchOf
             end == Migrated!BatchEnd(batch)
         IN  /\ batch \subseteq 1..Len(entries) /\ end \in Nat /\ end <= migration.through
             /\ \A m \in Migrated!Visible : migration.after < m /\ m <= end => m \in batch
             /\ migration.after <= end
<1> DEFINE left == {m \in Migrated!Visible : migration.after < m /\ m <= migration.through}
           below(m) == {k \in left : k < m}
           batch == {m \in left : Migrated!Cardinality(below(m)) < MigrationBatch}
           end == Migrated!BatchEnd(batch)
<1>1. Migrated!MigrationBatchOf = batch
  BY DEF Migrated!MigrationBatchOf
<1>2. /\ migration.after \in Nat /\ migration.through \in Nat /\ migration.after <= migration.through
      /\ migration.through <= Len(entries) /\ Len(entries) \in Nat
  BY EntriesAre DEF MigrationInv, TranscriptType, MigrationRun
<1>3. left \subseteq 1..Len(entries) /\ left \subseteq Nat
  BY <1>2, EntriesAre
<1>4. \A m : IsFiniteSet(below(m)) /\ Cardinality(below(m)) \in Nat
  <2> SUFFICES ASSUME NEW m PROVE IsFiniteSet(below(m)) /\ Cardinality(below(m)) \in Nat
    OBVIOUS
  <2>1. below(m) \in SUBSET (1..Len(entries)) /\ IsFiniteSet(1..Len(entries))
    BY <1>2, <1>3, FS_Interval
  <2> HIDE DEF below
  <2> QED BY <2>1, FS_Subset, FS_CardinalityType
<1>5. ASSUME batch = {} PROVE left = {}
  <2> SUFFICES ASSUME left # {} PROVE FALSE
    OBVIOUS
  <2> HIDE DEF left
  <2>1. PICK m \in left : \A k \in left : m <= k
    BY <1>3, LeastIndex
  <2>2. below(m) = {}
    <3>1. ASSUME NEW k \in left, k < m PROVE FALSE
      <4>1. k \in Nat /\ m \in Nat /\ m <= k
        BY <1>3, <2>1
      <4> QED BY <3>1, <4>1
    <3> QED BY <3>1
  <2>3. Migrated!Cardinality(below(m)) = 0
    BY <2>2, FS_EmptySet, MigratedCardinality
  <2> QED BY <1>5, <2>1, <2>3, TranscriptAssumption DEF TranscriptAssumption
<1>6. CASE batch = {}
  BY <1>1, <1>2, <1>5, <1>6 DEF Migrated!BatchEnd
<1>7. CASE batch # {}
  <2>1. batch \subseteq left /\ batch \subseteq 0..Len(entries)
    BY <1>2, <1>3
  <2>2. end \in batch /\ \A m \in batch : m <= end
    <3> HIDE DEF batch
    <3> QED BY <1>2, <1>7, <2>1, LargestOf DEF Migrated!BatchEnd
  <2>3. ASSUME NEW m \in left, m <= end PROVE m \in batch
    <3>1. below(m) \in SUBSET below(end)
      <4>1. end \in Nat /\ m \in Nat
        BY <1>3, <2>1, <2>2
      <4>2. \A k \in left : k < m => k < end
        <5> HIDE DEF left, end
        <5> QED BY <1>3, <2>3, <4>1
      <4> QED BY <4>2
    <3>2. Cardinality(below(m)) <= Cardinality(below(end)) /\ Cardinality(below(m)) \in Nat /\ Cardinality(below(end)) \in Nat
      <4> HIDE DEF below
      <4> QED BY <1>4, <3>1, FS_Subset
    <3>3. Cardinality(below(end)) < MigrationBatch
      BY <2>2, MigratedCardinality
    <3>4. Cardinality(below(m)) < MigrationBatch
      <4> HIDE DEF below
      <4> QED BY <3>2, <3>3, TranscriptAssumption DEF TranscriptAssumption
    <3> QED BY <2>3, <3>4, MigratedCardinality
  <2>5. /\ batch \subseteq 1..Len(entries) /\ end \in Nat /\ end <= migration.through /\ migration.after <= end
    <3>1. end \in left
      BY <2>1, <2>2
    <3>2. end \in Nat /\ end <= migration.through /\ migration.after < end
      <4> HIDE DEF end
      <4> QED BY <1>3, <3>1
    <3> HIDE DEF end, left
    <3> QED BY <1>2, <1>3, <2>1, <3>2
  <2>4. \A m \in Migrated!Visible : migration.after < m /\ m <= end => m \in left
    <3> SUFFICES ASSUME NEW m \in Migrated!Visible, migration.after < m, m <= end PROVE m <= migration.through
      OBVIOUS
    <3>1. m \in Nat
      BY <1>2, EntriesAre
    <3> HIDE DEF end
    <3> QED BY <1>2, <2>5, <3>1
  <2> HIDE DEF batch, left, end
  <2> QED BY <1>1, <2>3, <2>4, <2>5 DEF end
<1> QED BY <1>6, <1>7

LEMMA BatchJudged == ASSUME MigrationInv, Migrated!JudgeBatch PROVE MigrationInv'
<1>1. PICK batch, end : batch = Migrated!MigrationBatchOf /\ end = Migrated!BatchEnd(batch)
  OBVIOUS
<1>2. /\ UNCHANGED <<entries, watermark>> /\ judged' = judged \cup batch /\ migration.at = "reading"
      /\ migration' = [migration EXCEPT !.at = "judged", !.after = end]
  BY <1>1 DEF Migrated!JudgeBatch
<1>3. /\ batch \subseteq 1..Len(entries) /\ end \in Nat /\ end <= migration.through
      /\ \A m \in Migrated!Visible : migration.after < m /\ m <= end => m \in batch
  BY <1>1, <1>2, BatchIsWhole
<1>4. PICK a \in Nat, t \in Nat : migration = [at |-> "reading", after |-> a, through |-> t]
  BY <1>2 DEF MigrationInv, TranscriptType, MigrationRun
<1>5. migration' = [at |-> "judged", after |-> end, through |-> t]
  BY <1>2, <1>4
<1>6. migration' \in MigrationRun /\ migration'.at = "judged" /\ migration'.after = end /\ migration'.through = t
  BY <1>3, <1>5 DEF MigrationRun
<1>7. migration.through = t /\ migration.after = a /\ t <= Len(entries) /\ Len(entries) \in Nat /\ watermark \in 0..Len(entries)
      /\ judged \subseteq 1..Len(entries)
  BY <1>2, <1>4, EntriesAre DEF MigrationInv, TranscriptType
<1>8. TranscriptType'
  BY <1>2, <1>3, <1>6, <1>7 DEF MigrationInv, TranscriptType
<1>9. ASSUME NEW m \in 1..end PROVE m \in judged' \/ entries'[m].retracted
  <2>1. CASE m <= a
    <3>1. m \in 1..a
      BY <1>3, <1>9, <2>1
    <3> QED BY <1>2, <1>7, <3>1 DEF MigrationInv, Migrates
  <2>2. CASE m > a
    <3>1. m \in DOMAIN entries
      BY <1>3, <1>7, EntriesAre
    <3> QED BY <1>2, <1>3, <1>7, <2>2, <3>1 DEF Migrated!Visible
  <2> QED BY <1>3, <2>1, <2>2
<1>10. Migrates(watermark)'
  BY <1>2 DEF MigrationInv, Migrates
<1> QED BY <1>6, <1>8, <1>9, <1>10 DEF MigrationInv, Migrates

LEMMA WatermarkMoves == ASSUME MigrationInv, Migrated!Advance PROVE MigrationInv'
<1>1. /\ UNCHANGED <<entries, judged>> /\ migration.at = "judged"
      /\ watermark' = Migrated!Max({watermark, migration.after})
      /\ migration' = IF migration.after < migration.through THEN [migration EXCEPT !.at = "reading"] ELSE [at |-> "idle"]
  BY DEF Migrated!Advance, Migrated!Quiet
<1>2. PICK a \in Nat, t \in Nat : migration = [at |-> "judged", after |-> a, through |-> t]
  BY <1>1 DEF MigrationInv, TranscriptType, MigrationRun
<1>3. /\ migration.after = a /\ migration.through = t /\ a <= t /\ t <= Len(entries) /\ Len(entries) \in Nat
      /\ watermark \in 0..Len(entries)
  BY <1>1, <1>2, EntriesAre DEF MigrationInv, TranscriptType
<1>4. migration' = [at |-> "idle"] \/ migration' = [at |-> "reading", after |-> a, through |-> t]
  BY <1>1, <1>2
<1>5. migration' \in MigrationRun /\ (migration'.at # "idle" => migration'.after = a /\ migration'.through = t)
  BY <1>4 DEF MigrationRun
<1>6. watermark' \in {watermark, a}
  <2>1. {watermark, a} \subseteq 0..Len(entries) /\ {watermark, a} # {}
    BY <1>3
  <2> QED BY <1>1, <1>3, <2>1, LargestOf
<1>7. watermark' \in 0..Len(entries)
  BY <1>3, <1>6
<1>8. Migrates(watermark) /\ Migrates(a)
  BY <1>1, <1>3 DEF MigrationInv
<1>9. \A m \in 1..watermark' : m \in judged' \/ entries'[m].retracted
  BY <1>1, <1>6, <1>8 DEF Migrates
<1> QED BY <1>1, <1>3, <1>5, <1>7, <1>8, <1>9 DEF MigrationInv, TranscriptType, Migrates

LEMMA MigrationStep == MigrationInv /\ [Migrated!Next]_transcriptVars => MigrationInv'
<1> SUFFICES ASSUME MigrationInv, [Migrated!Next]_transcriptVars PROVE MigrationInv'
  OBVIOUS
<1>1. CASE \/ UNCHANGED transcriptVars \/ Migrated!Resolve \/ Migrated!Restart
           \/ \E m \in DOMAIN entries : Migrated!ReadPackets(m)
  <2>1. /\ UNCHANGED <<entries, watermark, judged>>
        /\ migration' = migration \/ migration' = [at |-> "idle"]
    BY <1>1 DEF transcriptVars, Migrated!Resolve, Migrated!Restart, Migrated!ReadPackets, Migrated!Quiet
  <2>2. [at |-> "idle"] \in MigrationRun /\ [at |-> "idle"].at = "idle"
    BY DEF MigrationRun
  <2> QED BY <2>1, <2>2 DEF MigrationInv, TranscriptType, Migrates
<1>2. CASE Migrated!Next
  BY <1>1, <1>2, EntryAppended, EntriesRetracted, MigrationBegins, BatchJudged, WatermarkMoves DEF Migrated!Next
<1> QED BY <1>1, <1>2

LEMMA MigrationHolds == MigrationInv => Migrated!TypeOK /\ Migrated!MigratedOrRetracted
BY EntriesAre DEF MigrationInv, TranscriptType, Migrates, Migrated!TypeOK, Migrated!MigratedOrRetracted

-----------------------------------------------------------------------------
(* The live conversation.                                                    *)

Said == [at : Nat, retracted : BOOLEAN]

ProjectionType ==
    /\ said \in Seq(Said) /\ live \in Seq(1..Len(said)) /\ Len(live) <= LiveLimit
    /\ publishing \subseteq 1..Len(said) /\ removing \subseteq 1..Len(said) /\ excused \subseteq 1..Len(said)
    /\ browser \in [shown : SUBSET (1..Len(said)), began : 0..Len(said), cursor : 0..Len(said), more : BOOLEAN]

(* The window holds a message once, behind its publication; whoever was      *)
(* overtaken on the way is excused.                                          *)
WindowOK ==
    /\ \A i, j \in 1..Len(live) : live[i] = live[j] => i = j
    /\ \A i \in 1..Len(live) : live[i] \notin publishing
    /\ \A i \in 1..Len(live) : \A k \in publishing : k < live[i] => live[i] \in excused
    /\ \A m \in removing : said[m].retracted

(* What the browser has still to see stands behind its cursor.               *)
Waits(m) == ~said[m].retracted /\ m \notin publishing /\ browser.began < m /\ m \notin browser.shown \cup excused
KeptOK ==
    /\ browser.cursor \in publishing => browser.cursor <= browser.began
    /\ \A m \in 1..Len(said) : Waits(m) =>
          \E i \in 1..Len(live) : live[i] = m /\ \A j \in 1..Len(live) : live[j] = browser.cursor => j < i

ProjectionInv == ProjectionType /\ WindowOK /\ KeptOK

LEMMA ProjectionInit == Projected!Init => ProjectionInv
<1> SUFFICES ASSUME Projected!Init PROVE ProjectionInv
  OBVIOUS
<1>1. /\ said = <<>> /\ publishing = {} /\ removing = {} /\ live = <<>> /\ excused = {}
      /\ browser = [shown |-> {}, began |-> 0, cursor |-> 0, more |-> FALSE]
  BY DEF Projected!Init, Projected!NoBrowser
<1>2. Len(said) = 0 /\ Len(live) = 0 /\ said \in Seq(Said) /\ live \in Seq(1..0)
  BY <1>1
<1>3. ProjectionType
  BY <1>1, <1>2, TranscriptAssumption DEF ProjectionType
<1> QED BY <1>1, <1>2, <1>3 DEF ProjectionInv, WindowOK, KeptOK

(* What is behind the cursor in the window.                                  *)
LEMMA CursorIs ==
  ASSUME ProjectionType
  PROVE  \E p \in 0..Len(live) :
            /\ Projected!LiveAfter(browser.cursor) = SubSeq(live, p + 1, Len(live))
            /\ p # 0 => live[p] = browser.cursor
            /\ p = 0 => \A i \in 1..Len(live) : live[i] # browser.cursor
<1> DEFINE c == browser.cursor
           places == {i \in 1..Len(live) : live[i] = c}
<1>1. Len(live) \in Nat
  BY DEF ProjectionType
<1>2. Projected!SelectInSeq(live, LAMBDA m : m = c) = IF places # {} THEN Projected!Min(places) ELSE 0
  BY DEF Projected!SelectInSeq
<1>3. places # {} => Projected!Min(places) \in places
  <2> SUFFICES ASSUME places # {} PROVE Projected!Min(places) \in places
    OBVIOUS
  <2>1. PICK k \in places : \A j \in places : k <= j
    <3>1. places \subseteq Nat
      BY <1>1
    <3> HIDE DEF places
    <3> QED BY <3>1, LeastIndex
  <2> HIDE DEF places
  <2> QED BY <2>1, Zenon DEF Projected!Min
<1> DEFINE p == IF places # {} THEN Projected!Min(places) ELSE 0
<1>4. Projected!LiveAfter(c) = SubSeq(live, p + 1, Len(live))
  BY <1>2 DEF Projected!LiveAfter
<1>5. p \in 0..Len(live) /\ (p # 0 => live[p] = c) /\ (p = 0 => \A i \in 1..Len(live) : live[i] # c)
  BY <1>1, <1>3
<1> HIDE DEF p, places
<1> QED BY <1>4, <1>5

LEMMA ProjectionHolds == ProjectionInv => Projected!TypeOK /\ Projected!PollingMissesNothing
<1> SUFFICES ASSUME ProjectionInv PROVE Projected!TypeOK /\ Projected!PollingMissesNothing
  OBVIOUS
<1> USE DEF ProjectionInv
<1>1. DOMAIN said = 1..Len(said) /\ Len(live) \in Nat /\ \A i \in 1..Len(live) : live[i] \in 1..Len(said)
  BY DEF ProjectionType
<1>2. Projected!Range(live) \subseteq 1..Len(said)
  BY <1>1 DEF Projected!Range, ProjectionType
<1>3. Projected!TypeOK
  BY <1>1, <1>2 DEF Projected!TypeOK, ProjectionType
<1>4. ASSUME Projected!LiveAfter(browser.cursor) = <<>>, NEW m \in Projected!Missed
      PROVE  m \in excused
  <2>1. /\ m \in 1..Len(said) /\ ~said[m].retracted /\ m \notin publishing /\ browser.began < m
        /\ m \notin browser.shown
    BY <1>1, <1>4 DEF Projected!Missed, Projected!Visible
  <2>2. PICK p \in 0..Len(live) :
            /\ Projected!LiveAfter(browser.cursor) = SubSeq(live, p + 1, Len(live))
            /\ p # 0 => live[p] = browser.cursor
            /\ p = 0 => \A i \in 1..Len(live) : live[i] # browser.cursor
    BY CursorIs
  <2>3. p >= Len(live)
    <3> SUFFICES ASSUME p < Len(live) PROVE FALSE
      BY <1>1, <2>2
    <3>1. Len(SubSeq(live, p + 1, Len(live))) = Len(live) - p
      BY <1>1 DEF ProjectionType
    <3> QED BY <1>1, <1>4, <2>2, <3>1
  <2> SUFFICES ASSUME m \notin excused PROVE FALSE
    OBVIOUS
  <2>4. PICK i \in 1..Len(live) : live[i] = m /\ \A j \in 1..Len(live) : live[j] = browser.cursor => j < i
    BY <2>1 DEF KeptOK, Waits
  <2>5. p \in 1..Len(live) /\ live[p] = browser.cursor
    BY <1>1, <2>2, <2>3, <2>4
  <2> QED BY <1>1, <2>3, <2>4, <2>5
<1> QED BY <1>3, <1>4 DEF Projected!PollingMissesNothing

-----------------------------------------------------------------------------
(* What the steps do to the window.                                          *)

LEMMA NumbersAre ==
  ASSUME ProjectionType
  PROVE  /\ Len(said) \in Nat /\ Len(live) \in Nat /\ DOMAIN said = 1..Len(said) /\ DOMAIN live = 1..Len(live)
         /\ \A m \in 1..Len(said) : said[m] \in Said
         /\ \A i \in 1..Len(live) : live[i] \in 1..Len(said)
         /\ browser.shown \subseteq 1..Len(said) /\ browser.began \in 0..Len(said) /\ browser.cursor \in 0..Len(said)
BY DEF ProjectionType

(* A message more, on its way.                                               *)
LEMMA SaidMore == ASSUME ProjectionInv, NEW later \in BOOLEAN, Projected!AppendMessage(later) PROVE ProjectionInv'
<1> DEFINE last == IF said = <<>> THEN 0 ELSE Projected!Last(said).at
           new == [at |-> IF later THEN last + 1 ELSE last, retracted |-> FALSE]
           n == Len(said)
<1>1. /\ said' = Append(said, new) /\ publishing' = publishing \cup {n + 1}
      /\ UNCHANGED <<removing, live, browser, excused>>
  BY DEF Projected!AppendMessage
<1>2. ProjectionType /\ WindowOK /\ KeptOK
  BY DEF ProjectionInv
<1>3. /\ n \in Nat /\ Len(live) \in Nat /\ \A m \in 1..n : said[m] \in Said
      /\ \A i \in 1..Len(live) : live[i] \in 1..n
      /\ browser.shown \subseteq 1..n /\ browser.began \in 0..n /\ browser.cursor \in 0..n
  BY <1>2, NumbersAre
<1>4. new \in Said
  <2>1. said # <<>> => said[n] \in Said
    BY <1>2, <1>3 DEF ProjectionType
  <2>2. last \in Nat
    BY <2>1 DEF Said, Projected!Last
  <2> HIDE DEF last
  <2> QED BY <2>2 DEF Said
<1> HIDE DEF new
<1>5. /\ said' \in Seq(Said) /\ Len(said') = n + 1 /\ \A m \in 1..n : said'[m] = said[m]
      /\ 1..n \subseteq 1..(n + 1) /\ 0..n \subseteq 0..(n + 1)
  BY <1>1, <1>2, <1>3, <1>4 DEF ProjectionType
<1>6. ProjectionType'
  <2>1. live' \in Seq(1..(n + 1)) /\ Len(live') <= LiveLimit
    BY <1>1, <1>2, <1>3, <1>5 DEF ProjectionType
  <2>2. browser' \in [shown : SUBSET (1..(n + 1)), began : 0..(n + 1), cursor : 0..(n + 1), more : BOOLEAN]
    BY <1>1, <1>2, <1>5 DEF ProjectionType
  <2>3. publishing' \subseteq 1..(n + 1) /\ removing' \subseteq 1..(n + 1) /\ excused' \subseteq 1..(n + 1)
    <3>1. publishing \subseteq 1..n /\ removing \subseteq 1..n /\ excused \subseteq 1..n
      BY <1>2 DEF ProjectionType
    <3>2. n + 1 \in 1..(n + 1)
      BY <1>3
    <3> HIDE DEF n
    <3> QED BY <1>1, <1>5, <3>1, <3>2
  <2> QED BY <1>5, <2>1, <2>2, <2>3 DEF ProjectionType
<1>7. WindowOK'
  <2>1. removing \subseteq 1..n
    BY <1>2 DEF ProjectionType
  <2> QED BY <1>1, <1>2, <1>3, <1>5, <2>1 DEF WindowOK
<1>8. KeptOK'
  <2>1. browser'.cursor \in publishing' => browser'.cursor <= browser'.began
    BY <1>1, <1>2, <1>3 DEF KeptOK
  <2>2. ASSUME NEW m \in 1..(n + 1), Waits(m)'
        PROVE  \E i \in 1..Len(live) : live[i] = m /\ \A j \in 1..Len(live) : live[j] = browser.cursor => j < i
    <3>1. m \in 1..n
      BY <1>1, <1>3, <2>2 DEF Waits
    <3>2. Waits(m)
      BY <1>1, <1>5, <2>2, <3>1 DEF Waits
    <3> QED BY <1>2, <3>1, <3>2 DEF KeptOK
  <2> QED BY <1>1, <1>5, <2>1, <2>2 DEF KeptOK
<1> QED BY <1>6, <1>7, <1>8 DEF ProjectionInv

(* A message that is published takes the last place of the window, and the   *)
(* first goes when there is no room.                                         *)
LEMMA Published == ASSUME ProjectionInv, NEW m \in publishing, Projected!Publish(m) PROVE ProjectionInv'
<1> DEFINE n == Len(said)
           l == Len(live)
           all == Append(live, m)
           full == l = LiveLimit
<1>1. /\ publishing' = publishing \ {m} /\ live' = IF Len(all) > LiveLimit THEN Tail(all) ELSE all
      /\ excused' = excused \cup (IF \E k \in publishing : k < m THEN {m} ELSE {})
                            \cup (IF l = LiveLimit THEN {Head(live)} ELSE {})
      /\ UNCHANGED <<said, removing, browser>>
  BY DEF Projected!Publish
<1>2. ProjectionType /\ WindowOK /\ KeptOK
  BY DEF ProjectionInv
<1>3. /\ n \in Nat /\ l \in Nat /\ l <= LiveLimit /\ LiveLimit \in Nat \ {0} /\ m \in 1..n
      /\ \A i \in 1..l : live[i] \in 1..n
  BY <1>2, NumbersAre, TranscriptAssumption DEF ProjectionType
<1>4. /\ all \in Seq(1..n) /\ Len(all) = l + 1 /\ all[l + 1] = m /\ \A i \in 1..l : all[i] = live[i]
  BY <1>2, <1>3 DEF ProjectionType
<1>5. full => live # <<>> /\ Head(live) = live[1] /\ 1 \in 1..l
  BY <1>2, <1>3 DEF ProjectionType
<1> DEFINE off == IF full THEN 1 ELSE 0
<1>6. /\ live' \in Seq(1..n) /\ Len(live') = l + 1 - off /\ Len(live') <= LiveLimit
      /\ \A i \in 1..(l + 1 - off) : live'[i] = all[i + off]
  <2>1. CASE full
    <3>1. live' = Tail(all) /\ all # <<>>
      BY <1>1, <1>3, <1>4, <2>1
    <3> HIDE DEF all
    <3> QED BY <1>3, <1>4, <2>1, <3>1
  <2>2. CASE ~full
    <3>1. live' = all
      BY <1>1, <1>3, <1>4, <2>2
    <3> HIDE DEF all
    <3> QED BY <1>3, <1>4, <2>2, <3>1
  <2> QED BY <2>1, <2>2
<1> HIDE DEF all
<1>7. excused \subseteq excused' /\ (full => live[1] \in excused') /\ excused' \subseteq 1..n
  BY <1>1, <1>2, <1>3, <1>5 DEF ProjectionType
<1>8. ProjectionType'
  BY <1>1, <1>2, <1>6, <1>7 DEF ProjectionType
<1>9. ASSUME NEW i \in 1..Len(live')
      PROVE  /\ i + off \in 1..(l + 1) /\ live'[i] = all[i + off]
             /\ i + off = l + 1 \/ (i + off \in 1..l /\ all[i + off] = live[i + off])
  BY <1>3, <1>4, <1>6
<1>10. \A i \in 1..(l + 1) : \A j \in 1..(l + 1) : all[i] = all[j] => i = j
  <2>1. \A i \in 1..l : all[i] # m
    BY <1>2, <1>4 DEF WindowOK
  <2> QED BY <1>2, <1>3, <1>4, <2>1 DEF WindowOK
<1>11. WindowOK'
  <2>1. \A i, j \in 1..Len(live') : live'[i] = live'[j] => i = j
    <3> SUFFICES ASSUME NEW i \in 1..Len(live'), NEW j \in 1..Len(live'), live'[i] = live'[j] PROVE i = j
      OBVIOUS
    <3>1. i + off = j + off
      BY <1>9, <1>10
    <3> QED BY <1>3, <1>6, <3>1
  <2>2. ASSUME NEW i \in 1..Len(live')
        PROVE  live'[i] \notin publishing' /\ \A k \in publishing' : k < live'[i] => live'[i] \in excused'
    <3>1. CASE i + off = l + 1
      BY <1>1, <1>4, <1>9, <2>2, <3>1
    <3>2. CASE i + off \in 1..l
      <4> DEFINE k == i + off
      <4>1. k \in 1..l /\ live'[i] = live[k]
        BY <1>4, <1>9, <2>2, <3>2
      <4>2. live[k] \notin publishing /\ \A x \in publishing : x < live[k] => live[k] \in excused
        BY <1>2, <4>1 DEF WindowOK
      <4> HIDE DEF k, off, full
      <4>3. publishing' \subseteq publishing
        BY <1>1
      <4> QED BY <1>7, <4>1, <4>2, <4>3
    <3> QED BY <1>9, <2>2, <3>1, <3>2
  <2>3. \A k \in removing' : said'[k].retracted
    BY <1>1, <1>2 DEF WindowOK
  <2> QED BY <2>1, <2>2, <2>3 DEF WindowOK
<1>12. KeptOK'
  <2>1. browser'.cursor \in publishing' => browser'.cursor <= browser'.began
    BY <1>1, <1>2 DEF KeptOK
  <2>2. ASSUME NEW k \in 1..n, Waits(k)'
        PROVE  \E i \in 1..Len(live') : live'[i] = k /\ \A j \in 1..Len(live') : live'[j] = browser.cursor => j < i
    <3>1. /\ ~said[k].retracted /\ k \notin publishing \ {m} /\ browser.began < k
          /\ k \notin browser.shown /\ k \notin excused' /\ k \notin excused
      BY <1>1, <1>7, <2>2 DEF Waits
    <3>2. CASE k = m
      <4>1. m # browser.cursor
        BY <1>2, <1>3, <3>1, <3>2, NumbersAre DEF KeptOK
      <4> DEFINE i == l + 1 - off
      <4>2. i \in 1..Len(live') /\ live'[i] = k
        BY <1>3, <1>4, <1>6, <3>2
      <4>3. \A j \in 1..Len(live') : live'[j] = browser.cursor => j < i
        BY <1>3, <1>6, <3>2, <4>1, <4>2
      <4> HIDE DEF i
      <4> QED BY <4>2, <4>3
    <3>3. CASE k # m
      <4>1. Waits(k)
        BY <3>1, <3>3 DEF Waits
      <4>2. PICK i \in 1..l : live[i] = k /\ \A j \in 1..l : live[j] = browser.cursor => j < i
        BY <1>2, <4>1 DEF KeptOK
      <4>3. m # browser.cursor
        <5> SUFFICES ASSUME m = browser.cursor PROVE FALSE
          OBVIOUS
        <5>1. m <= browser.began /\ browser.began \in Nat
          BY <1>2, <1>3, NumbersAre DEF KeptOK
        <5>2. m < k
          BY <1>3, <3>1, <5>1
        <5>3. k \in excused
          BY <1>2, <4>2, <5>2 DEF WindowOK
        <5> QED BY <3>1, <5>3
      <4>4. ~(full /\ i = 1)
        BY <1>7, <3>1, <4>2
      <4>5. i - off \in 1..Len(live') /\ live'[i - off] = k
        <5>1. i - off \in 1..(l + 1 - off) /\ (i - off) + off = i
          BY <1>3, <4>4
        <5>2. live'[i - off] = all[(i - off) + off]
          BY <1>6, <5>1
        <5> QED BY <1>4, <1>6, <4>2, <5>1, <5>2
      <4>6. ASSUME NEW j \in 1..Len(live'), live'[j] = browser.cursor PROVE j < i - off
        <5>1. j + off \in 1..l /\ live[j + off] = browser.cursor
          BY <1>4, <1>9, <4>3, <4>6
        <5> QED BY <1>3, <4>2, <5>1
      <4> QED BY <4>5, <4>6
    <3> QED BY <3>2, <3>3
  <2> QED BY <1>1, <2>1, <2>2 DEF KeptOK
<1> QED BY <1>8, <1>11, <1>12 DEF ProjectionInv

(* A retraction only takes messages away.                                    *)
LEMMA SomeRetracted ==
  ASSUME ProjectionInv, NEW m \in DOMAIN said, Projected!RetractFrom(m)
  PROVE  ProjectionInv'
<1> DEFINE n == Len(said)
           gone == {k \in Projected!Visible : k >= m}
           after == [k \in DOMAIN said |-> IF k >= m THEN [said[k] EXCEPT !.retracted = TRUE] ELSE said[k]]
<1>1. said' = after /\ removing' = removing \cup gone /\ UNCHANGED <<publishing, live, browser, excused>>
  BY DEF Projected!RetractFrom
<1>2. ProjectionType /\ WindowOK /\ KeptOK
  BY DEF ProjectionInv
<1>3. /\ n \in Nat /\ Len(live) \in Nat /\ DOMAIN said = 1..n /\ \A k \in 1..n : said[k] \in Said
      /\ \A i \in 1..Len(live) : live[i] \in 1..n
  BY <1>2, NumbersAre
<1>4. ASSUME NEW k \in 1..n
      PROVE  /\ after[k] \in Said /\ (said[k].retracted => after[k].retracted)
             /\ k \in gone => after[k].retracted
  BY <1>3, <1>4 DEF Said
<1>5. after \in Seq(Said) /\ Len(after) = n
  <2>1. \A k \in 1..n : after[k] \in Said
    BY <1>4
  <2>2. after \in [1..n -> Said]
    BY <1>3, <2>1
  <2> HIDE DEF after
  <2> QED BY <1>3, <2>2
<1>6. gone \subseteq 1..n
  BY <1>3 DEF Projected!Visible
<1> HIDE DEF after, gone
<1>7. ProjectionType'
  <2>1. removing' \subseteq 1..n
    BY <1>1, <1>2, <1>6 DEF ProjectionType
  <2> QED BY <1>1, <1>2, <1>5, <2>1 DEF ProjectionType
<1>8. WindowOK'
  <2>1. removing \subseteq 1..n
    BY <1>2 DEF ProjectionType
  <2>2. \A k \in removing' : said'[k].retracted
    BY <1>1, <1>2, <1>4, <1>6, <2>1 DEF WindowOK
  <2> QED BY <1>1, <1>2, <2>2 DEF WindowOK
<1>9. KeptOK'
  <2>1. ASSUME NEW k \in 1..n, Waits(k)' PROVE Waits(k)
    BY <1>1, <1>4, <2>1 DEF Waits
  <2> QED BY <1>1, <1>2, <1>5, <2>1 DEF KeptOK
<1> QED BY <1>7, <1>8, <1>9 DEF ProjectionInv

(* Vec::retain keeps the order of what stays.                                *)
LEMMA RetractedRemoved == ASSUME ProjectionInv, Projected!RemoveRetracted PROVE ProjectionInv'
<1> DEFINE n == Len(said)
           places == {i \in DOMAIN live : live[i] \notin removing}
           size == Projected!Cardinality(places)
<1>1. ProjectionType /\ WindowOK /\ KeptOK
  BY DEF ProjectionInv
<1>2. /\ n \in Nat /\ Len(live) \in Nat /\ DOMAIN live = 1..Len(live)
      /\ \A i \in 1..Len(live) : live[i] \in 1..n
  BY <1>1, NumbersAre
<1>3. size = Cardinality(places)
  BY DEF Projected!Cardinality, Cardinality
<1>4. places \subseteq 1..Len(live) /\ IsFiniteSet(places) /\ size \in Nat /\ size <= Len(live)
  <2>1. places \subseteq 1..Len(live)
    BY <1>2
  <2>2. IsFiniteSet(1..Len(live)) /\ Cardinality(1..Len(live)) = Len(live)
    <3>1. 1 \in Int /\ Len(live) \in Int
      BY <1>2
    <3>2. /\ IsFiniteSet(1..Len(live))
          /\ Cardinality(1..Len(live)) = IF 1 > Len(live) THEN 0 ELSE Len(live) - 1 + 1
      BY <3>1, FS_Interval
    <3> QED BY <1>2, <3>2
  <2> HIDE DEF places, size
  <2>3. IsFiniteSet(places) /\ Cardinality(places) <= Cardinality(1..Len(live))
    BY <2>1, <2>2, FS_Subset
  <2>4. Cardinality(places) \in Nat
    BY <2>3, FS_CardinalityType
  <2> QED BY <1>3, <2>1, <2>2, <2>3, <2>4
<1>5. /\ removing' = {}
      /\ \E stays \in [1..size -> places] :
            /\ \A i, j \in DOMAIN stays : i < j => stays[i] < stays[j]
            /\ live' = [i \in DOMAIN stays |-> live[stays[i]]]
      /\ UNCHANGED <<said, publishing, browser, excused>>
  BY DEF Projected!RemoveRetracted
<1> HIDE DEF size
<1>6. PICK stays \in [1..size -> places] :
            /\ \A i, j \in 1..size : i < j => stays[i] < stays[j]
            /\ live' = [i \in 1..size |-> live[stays[i]]]
  BY <1>5
<1>7. \A i \in 1..size : stays[i] \in places /\ stays[i] \in 1..Len(live) /\ live[stays[i]] \notin removing
  BY <1>2, <1>4, <1>6
<1>8. \A i, j \in 1..size : stays[i] = stays[j] => i = j
  <2> SUFFICES ASSUME NEW i \in 1..size, NEW j \in 1..size, stays[i] = stays[j] PROVE i = j
    OBVIOUS
  <2>1. ~(i < j) /\ ~(j < i)
    BY <1>2, <1>6, <1>7
  <2> QED BY <1>4, <2>1
<1>9. \A k \in places : \E i \in 1..size : stays[i] = k
  <2>1. stays \in Injection(1..size, places)
    <3> HIDE DEF places
    <3> QED BY <1>6, <1>8 DEF Injection, IsInjective
  <2>2. IsFiniteSet(1..size) /\ Cardinality(1..size) = size
    BY <1>4, FS_Interval
  <2> HIDE DEF places
  <2>3. stays \in Surjection(1..size, places)
    BY <1>3, <1>4, <2>1, <2>2, FS_Injection, Zenon
  <2> QED BY <2>3 DEF Surjection
<1>10. /\ Len(live') = size /\ live' \in Seq(1..n)
       /\ \A i \in 1..size : live'[i] = live[stays[i]]
  <2> DEFINE each(i) == live[stays[i]]
  <2>1. \A i \in 1..size : each(i) \in 1..n
    BY <1>2, <1>7
  <2>2. live' = [i \in 1..size |-> each(i)]
    BY <1>6
  <2> HIDE DEF each
  <2>3. [i \in 1..size |-> each(i)] \in Seq(1..n)
    BY <1>4, <2>1, SeqDef
  <2>4. Len(live') = size
    BY <1>4, <2>2, <2>3
  <2> QED BY <1>6, <2>2, <2>3, <2>4 DEF each
<1>11. ProjectionType'
  <2>1. Len(live') <= LiveLimit /\ live' \in Seq(1..n) /\ said' = said
    BY <1>1, <1>2, <1>4, <1>5, <1>10, TranscriptAssumption DEF ProjectionType
  <2> HIDE DEF places
  <2> QED BY <1>1, <1>5, <2>1 DEF ProjectionType
<1>12. WindowOK'
  BY <1>1, <1>5, <1>7, <1>8, <1>10 DEF WindowOK
<1>13. KeptOK'
  <2>1. ASSUME NEW m \in 1..n, Waits(m)'
        PROVE  \E i \in 1..Len(live') : live'[i] = m /\ \A j \in 1..Len(live') : live'[j] = browser.cursor => j < i
    <3>1. Waits(m) /\ m \notin removing
      BY <1>1, <1>5, <2>1 DEF Waits, WindowOK
    <3>2. PICK k \in 1..Len(live) : live[k] = m /\ \A j \in 1..Len(live) : live[j] = browser.cursor => j < k
      BY <1>1, <3>1 DEF KeptOK
    <3>3. PICK i \in 1..size : stays[i] = k
      BY <1>2, <1>9, <3>1, <3>2
    <3>4. ASSUME NEW j \in 1..size, live'[j] = browser.cursor PROVE j < i
      <4>1. stays[j] < stays[i]
        BY <1>7, <1>10, <3>2, <3>3, <3>4
      <4>2. ~(i < j) /\ i # j
        BY <1>2, <1>6, <1>7, <4>1
      <4> QED BY <1>4, <4>2
    <3> QED BY <1>10, <3>2, <3>3, <3>4
  <2> QED BY <1>1, <1>5, <2>1 DEF KeptOK
<1> QED BY <1>11, <1>12, <1>13 DEF ProjectionInv

-----------------------------------------------------------------------------
(* What the browser does: it begins anew, looks back, or goes on.            *)

LEMMA BrowserBegins == ASSUME ProjectionInv, Projected!Bootstrap PROVE ProjectionInv'
<1> DEFINE n == Len(said)
           newest == Projected!Max(Projected!Visible \cup {0})
           page == Projected!PageOf(Projected!Visible)
           more == Projected!Visible # page
<1>1. /\ browser' = [shown |-> page, began |-> newest, cursor |-> newest, more |-> more]
      /\ UNCHANGED <<said, publishing, removing, live, excused>>
  BY DEF Projected!Bootstrap
<1>2. ProjectionType /\ WindowOK /\ KeptOK
  BY DEF ProjectionInv
<1>3. n \in Nat /\ DOMAIN said = 1..n
  BY <1>2, NumbersAre
<1>4. newest \in 0..n /\ \A m \in Projected!Visible : m <= newest /\ m \in 1..n
  <2> DEFINE some == Projected!Visible \cup {0}
  <2>1. some # {} /\ some \subseteq 0..n
    BY <1>3 DEF Projected!Visible
  <2>2. Projected!Max(some) \in some /\ \A m \in some : m <= Projected!Max(some)
    <3> HIDE DEF some
    <3> QED BY <1>3, <2>1, GreatestIndex DEF Projected!Max
  <2> QED BY <1>3, <2>1, <2>2 DEF Projected!Visible
<1>5. page \subseteq 1..n
  BY <1>3 DEF Projected!PageOf, Projected!Visible
<1> HIDE DEF newest, page, more
<1>6. more \in BOOLEAN
  BY DEF more
<1>7. ProjectionType'
  BY <1>1, <1>2, <1>4, <1>5, <1>6 DEF ProjectionType
<1>8. WindowOK'
  BY <1>1, <1>2 DEF WindowOK
<1>9. KeptOK'
  <2>1. ASSUME NEW m \in 1..n, Waits(m)' PROVE FALSE
    <3>1. m \in Projected!Visible /\ newest < m
      BY <1>1, <1>3, <2>1 DEF Waits, Projected!Visible
    <3> QED BY <1>4, <3>1
  <2> QED BY <1>1, <1>4, <2>1 DEF KeptOK
<1> QED BY <1>7, <1>8, <1>9 DEF ProjectionInv

(* What is shown only grows, and the cursor stays.                           *)
LEMMA BrowserLooksBack == ASSUME ProjectionInv, Projected!LoadOlder PROVE ProjectionInv'
<1> DEFINE oldest == Projected!Min({said[m].at : m \in browser.shown})
           readable == {m \in Projected!Visible : said[m].at < oldest}
           page == Projected!PageOf(readable)
           more == readable # page
<1>1. /\ browser' = [browser EXCEPT !.shown = @ \cup page, !.more = more]
      /\ UNCHANGED <<said, publishing, removing, live, excused>>
  BY DEF Projected!LoadOlder
<1>2. ProjectionType /\ WindowOK /\ KeptOK
  BY DEF ProjectionInv
<1>3. page \subseteq 1..Len(said)
  BY <1>2, NumbersAre DEF Projected!PageOf, Projected!Visible
<1>4. more \in BOOLEAN
  OBVIOUS
<1> HIDE DEF page, more
<1>5. /\ browser' \in [shown : SUBSET (1..Len(said)), began : 0..Len(said), cursor : 0..Len(said), more : BOOLEAN]
      /\ browser'.began = browser.began /\ browser'.cursor = browser.cursor
      /\ browser.shown \subseteq browser'.shown
  BY <1>1, <1>2, <1>3, <1>4 DEF ProjectionType
<1>6. ProjectionType'
  BY <1>1, <1>2, <1>5 DEF ProjectionType
<1>7. WindowOK'
  BY <1>1, <1>2 DEF WindowOK
<1>8. KeptOK'
  <2>1. ASSUME NEW m \in 1..Len(said), Waits(m)' PROVE Waits(m)
    BY <1>1, <1>5, <2>1 DEF Waits
  <2> QED BY <1>1, <1>2, <1>5, <2>1 DEF KeptOK
<1> QED BY <1>6, <1>7, <1>8 DEF ProjectionInv

(* A poll shows all that stands behind the cursor.                           *)
LEMMA BrowserPolls == ASSUME ProjectionInv, Projected!Poll PROVE ProjectionInv'
<1> DEFINE n == Len(said)
           l == Len(live)
           new == Projected!LiveAfter(browser.cursor)
           last == Projected!Last(new)
<1>1. /\ new # <<>> /\ browser' = [browser EXCEPT !.shown = @ \cup Projected!Range(new), !.cursor = last]
      /\ UNCHANGED <<said, publishing, removing, live, excused>>
  BY DEF Projected!Poll
<1>2. ProjectionType /\ WindowOK /\ KeptOK
  BY DEF ProjectionInv
<1>3. /\ n \in Nat /\ l \in Nat /\ \A i \in 1..l : live[i] \in 1..n
  BY <1>2, NumbersAre
<1>4. PICK p \in 0..l :
            /\ new = SubSeq(live, p + 1, l)
            /\ p # 0 => live[p] = browser.cursor
            /\ p = 0 => \A i \in 1..l : live[i] # browser.cursor
  BY <1>2, CursorIs
<1> HIDE DEF new
<1>5. /\ Len(new) = l - p /\ DOMAIN new = 1..(l - p) /\ \A i \in 1..(l - p) : new[i] = live[p + i]
      /\ l - p \in Nat \ {0}
  <2>1. /\ Len(SubSeq(live, p + 1, l)) = l - p /\ \A i \in 1..(l - p) : SubSeq(live, p + 1, l)[i] = live[p + i]
        /\ SubSeq(live, p + 1, l) \in Seq(1..n)
    BY <1>2, <1>3 DEF ProjectionType
  <2>2. l - p # 0
    BY <1>1, <1>4, <2>1
  <2> QED BY <1>3, <1>4, <2>1, <2>2
<1>6. last = live[l] /\ l \in 1..l
  <2>1. last = new[l - p]
    BY <1>5 DEF Projected!Last
  <2> QED BY <1>3, <1>4, <1>5, <2>1
<1>7. /\ Projected!Range(new) \subseteq 1..n
      /\ \A i \in 1..l : p < i => live[i] \in Projected!Range(new)
  <2>1. Projected!Range(new) \subseteq 1..n
    BY <1>3, <1>4, <1>5 DEF Projected!Range
  <2>2. ASSUME NEW i \in 1..l, p < i PROVE live[i] \in Projected!Range(new)
    <3>1. i - p \in DOMAIN new /\ new[i - p] = live[p + (i - p)] /\ p + (i - p) = i
      BY <1>3, <1>4, <1>5, <2>2
    <3>2. live[i] = new[i - p]
      BY <3>1
    <3> QED BY <3>1, <3>2 DEF Projected!Range
  <2> QED BY <2>1, <2>2
<1> HIDE DEF last
<1>8. /\ browser' \in [shown : SUBSET (1..n), began : 0..n, cursor : 0..n, more : BOOLEAN]
      /\ browser'.began = browser.began /\ browser'.cursor = live[l]
      /\ browser'.shown = browser.shown \cup Projected!Range(new)
  <2> DEFINE seen == Projected!Range(new)
  <2>1. last \in 0..n /\ seen \subseteq 1..n
    BY <1>3, <1>6, <1>7
  <2>2. browser' = [browser EXCEPT !.shown = @ \cup seen, !.cursor = last]
    BY <1>1
  <2> HIDE DEF seen
  <2>3. /\ browser' \in [shown : SUBSET (1..n), began : 0..n, cursor : 0..n, more : BOOLEAN]
        /\ browser'.began = browser.began /\ browser'.cursor = last /\ browser'.shown = browser.shown \cup seen
    BY <1>2, <2>1, <2>2 DEF ProjectionType
  <2> QED BY <1>6, <2>3 DEF seen
<1>9. ProjectionType'
  BY <1>1, <1>2, <1>8 DEF ProjectionType
<1>10. WindowOK'
  BY <1>1, <1>2 DEF WindowOK
<1>11. KeptOK'
  <2>1. ASSUME NEW m \in 1..n, Waits(m)' PROVE FALSE
    <3>1. Waits(m) /\ m \notin Projected!Range(new)
      BY <1>1, <1>8, <2>1 DEF Waits
    <3>2. PICK i \in 1..l : live[i] = m /\ \A j \in 1..l : live[j] = browser.cursor => j < i
      BY <1>2, <3>1 DEF KeptOK
    <3>3. p < i
      BY <1>3, <1>4, <3>2
    <3> QED BY <1>7, <3>1, <3>2, <3>3
  <2>2. browser'.cursor \notin publishing'
    BY <1>1, <1>2, <1>6, <1>8 DEF WindowOK
  <2> QED BY <1>1, <2>1, <2>2 DEF KeptOK
<1> QED BY <1>9, <1>10, <1>11 DEF ProjectionInv

LEMMA ProcessRestarts == ASSUME ProjectionInv, Projected!Restart PROVE ProjectionInv'
<1>1. /\ excused' = DOMAIN said /\ publishing' = {} /\ removing' = {} /\ live' = <<>> /\ UNCHANGED <<said, browser>>
  BY DEF Projected!Restart
<1>2. ProjectionType
  BY DEF ProjectionInv
<1>3. Len(said) \in Nat /\ DOMAIN said = 1..Len(said) /\ Len(live') = 0 /\ live' \in Seq(1..Len(said))
  BY <1>1, <1>2, NumbersAre
<1>4. ProjectionType'
  BY <1>1, <1>2, <1>3, TranscriptAssumption DEF ProjectionType
<1>5. WindowOK' /\ KeptOK'
  BY <1>1, <1>3 DEF WindowOK, KeptOK, Waits
<1> QED BY <1>4, <1>5 DEF ProjectionInv

LEMMA ProjectionStep == ProjectionInv /\ [Projected!Next]_liveVars => ProjectionInv'
<1> SUFFICES ASSUME ProjectionInv, [Projected!Next]_liveVars PROVE ProjectionInv'
  OBVIOUS
<1>1. CASE UNCHANGED liveVars
  BY <1>1 DEF ProjectionInv, ProjectionType, WindowOK, KeptOK, Waits, liveVars
<1>2. ASSUME NEW later \in BOOLEAN, Projected!AppendMessage(later) PROVE ProjectionInv'
  BY <1>2, SaidMore
<1>3. ASSUME NEW m \in DOMAIN said, Projected!Publish(m) PROVE ProjectionInv'
  <2>1. m \in publishing
    BY <1>3 DEF Projected!Publish
  <2> QED BY <1>3, <2>1, Published
<1>4. ASSUME NEW m \in DOMAIN said, Projected!RetractFrom(m) PROVE ProjectionInv'
  BY <1>4, SomeRetracted
<1>5. CASE Projected!RemoveRetracted
  BY <1>5, RetractedRemoved
<1>6. CASE Projected!Bootstrap \/ Projected!LoadOlder \/ Projected!Poll \/ Projected!Restart
  BY <1>6, BrowserBegins, BrowserLooksBack, BrowserPolls, ProcessRestarts
<1> QED BY <1>1, <1>2, <1>3, <1>4, <1>5, <1>6 DEF Projected!Next

-----------------------------------------------------------------------------
(* The search over the transcript.                                           *)

StoredMessage == [role : {"user", "assistant"}, far : BOOLEAN, about : BOOLEAN, retracted : BOOLEAN]
Searching ==
    {[at |-> "idle"]} \cup [at : {"query"}, space : Spaces]
    \cup [at : {"embed"}, space : Spaces, pending : SUBSET Nat, newest : Nat]
    \cup [at : {"load"}, space : Spaces, newest : Nat]
Searchers == {"search", "backfill"}

SearchType ==
    /\ rows \in Seq(StoredMessage) /\ space \in Spaces
    /\ vectors \subseteq (1..Len(rows)) \X Spaces
    /\ index \in [Searchers -> Searching]
    /\ \A j \in Searchers : index[j].at = "embed" => index[j].pending \subseteq 1..Len(rows)

(* The newest message a search knows of is embedded, or is about to be.      *)
NewestOK ==
    LET run == index["search"]
    IN  /\ run.at = "embed" => run.newest \in run.pending \/ <<run.newest, run.space>> \in vectors
        /\ run.at = "load" => run.newest = 0 \/ <<run.newest, run.space>> \in vectors

(* Two messages of one episode, and a window of such.                        *)
Joined(k, m) == Searched!SameEpisode(k, m) /\ Searched!SameEpisode(m, k)
Stretch(w) == w \subseteq 1..Len(rows) /\ \A k, m \in w : Joined(k, m)

SearchInv ==
    /\ SearchType /\ NewestOK /\ Searched!NewestIsSearchable
    /\ \A w \in answer.windows : Stretch(w)

LEMMA RowsAre ==
  ASSUME SearchType
  PROVE  /\ Len(rows) \in Nat /\ DOMAIN rows = 1..Len(rows) /\ \A m \in 1..Len(rows) : rows[m] \in StoredMessage
         /\ Searched!Visible \subseteq 1..Len(rows) /\ Searched!OfUser \subseteq Searched!Visible
BY DEF SearchType, Searched!Visible, Searched!OfUser

LEMMA SearchInit == Searched!Init => SearchInv
<1> SUFFICES ASSUME Searched!Init PROVE SearchInv
  OBVIOUS
<1>1. /\ rows = <<>> /\ vectors = {} /\ space \in Spaces
      /\ index = [j \in {"search", "backfill"} |-> [at |-> "idle"]]
      /\ answer.windows = {} /\ answer.indexed = FALSE
  BY DEF Searched!Init, Searched!Quiet, Searched!NoAnswer
<1>2. SearchType
  <2>1. index \in [Searchers -> Searching]
    BY <1>1 DEF Searchers, Searching
  <2>2. \A j \in Searchers : index[j].at = "idle"
    BY <1>1 DEF Searchers
  <2> QED BY <1>1, <2>1, <2>2 DEF SearchType
<1>3. NewestOK /\ Searched!NewestIsSearchable
  BY <1>1 DEF NewestOK, Searched!NewestIsSearchable
<1> QED BY <1>1, <1>2, <1>3 DEF SearchInv

LEMMA SearchHolds == SearchInv => Searched!TypeOK /\ Searched!NewestIsSearchable /\ Searched!WindowsStay
<1> SUFFICES ASSUME SearchInv PROVE Searched!TypeOK /\ Searched!NewestIsSearchable /\ Searched!WindowsStay
  OBVIOUS
<1>1. DOMAIN rows = 1..Len(rows)
  BY RowsAre DEF SearchInv
<1> QED BY <1>1 DEF SearchInv, SearchType, Stretch, Joined, Searched!TypeOK, Searched!WindowsStay

-----------------------------------------------------------------------------
(* Windows.                                                                  *)

(* Between two messages of one episode there is no long gap, either way; so  *)
(* what is joined to the same message is joined.                             *)
LEMMA JoinedThrough ==
  ASSUME SearchType, NEW a \in 1..Len(rows), NEW b \in 1..Len(rows), NEW c \in 1..Len(rows), Joined(a, c), Joined(c, b)
  PROVE  Joined(a, b) /\ Joined(b, a)
<1>1. Len(rows) \in Nat /\ Searched!Visible \subseteq 1..Len(rows)
  BY RowsAre
<1>2. ASSUME NEW n \in Searched!Visible, (a < n /\ n <= b) \/ (b < n /\ n <= a) PROVE ~rows[n].far
  <2>1. (a < n /\ n <= c) \/ (c < n /\ n <= a) \/ (c < n /\ n <= b) \/ (b < n /\ n <= c)
    BY <1>1, <1>2
  <2> QED BY <2>1 DEF Joined, Searched!SameEpisode
<1> QED BY <1>2 DEF Joined, Searched!SameEpisode

LEMMA JoinedAlike ==
  ASSUME SearchType, NEW a \in 1..Len(rows), NEW b \in 1..Len(rows), Joined(a, b)
  PROVE  Joined(b, a) /\ Joined(a, a)
<1>1. Joined(b, a)
  BY DEF Joined
<1> QED BY <1>1, JoinedThrough

LEMMA WindowIs == ASSUME SearchType, NEW m \in 1..Len(rows) PROVE Stretch(Searched!Window(m))
<1> DEFINE w == Searched!Window(m)
<1>1. \A k \in w : k \in 1..Len(rows) /\ Joined(k, m)
  BY RowsAre DEF Searched!Window, Searched!WindowAcrossGaps, Joined
<1> HIDE DEF w
<1>2. ASSUME NEW k \in w, NEW n \in w PROVE Joined(k, n)
  <2>1. Joined(k, m) /\ Joined(m, n) /\ k \in 1..Len(rows) /\ n \in 1..Len(rows)
    BY <1>1, JoinedAlike
  <2> QED BY <2>1, JoinedThrough
<1> QED BY <1>1, <1>2 DEF Stretch, w

LEMMA OverlapIs ==
  ASSUME SearchType, NEW v, NEW w, Stretch(v), Stretch(w), v \cap w # {}
  PROVE  Stretch(v \cup w)
<1>1. PICK c \in v : c \in w
  OBVIOUS
<1>2. v \subseteq 1..Len(rows) /\ w \subseteq 1..Len(rows)
  BY DEF Stretch
<1>3. ASSUME NEW k \in v \cup w PROVE Joined(k, c) /\ Joined(c, k)
  BY <1>1 DEF Stretch
<1>4. ASSUME NEW k \in v \cup w, NEW m \in v \cup w PROVE Joined(k, m)
  <2>1. k \in 1..Len(rows) /\ m \in 1..Len(rows) /\ c \in 1..Len(rows)
    BY <1>1, <1>2
  <2> QED BY <1>3, <2>1, JoinedThrough
<1> QED BY <1>2, <1>4 DEF Stretch

Stretches == {w \in SUBSET (1..Len(rows)) : Stretch(w)}

LEMMA PlacedIs ==
  ASSUME SearchType, NEW windows \in Seq(Stretches), NEW m \in 1..Len(rows)
  PROVE  Searched!Placed(windows, m) \in Seq(Stretches)
<1> DEFINE w == Searched!Window(m)
           places == {i \in 1..Len(windows) : windows[i] \cap w # {}}
           into == IF places # {} THEN Searched!Min(places) ELSE 0
<1>1. w \in Stretches
  BY WindowIs DEF Stretches, Stretch
<1>2. Len(windows) \in Nat /\ \A i \in 1..Len(windows) : windows[i] \in Stretches
  OBVIOUS
<1>3. into # 0 => into \in places
  <2> SUFFICES ASSUME places # {} PROVE Searched!Min(places) \in places
    OBVIOUS
  <2>1. places \subseteq Nat
    BY <1>2
  <2> HIDE DEF places
  <2>2. PICK k \in places : \A j \in places : k <= j
    BY <2>1, LeastIndex
  <2> QED BY <2>2, Zenon DEF Searched!Min
<1>4. Searched!Placed(windows, m) =
        IF into > 0 THEN [windows EXCEPT ![into] = windows[into] \cup w]
        ELSE IF Len(windows) < MaxClusters THEN Append(windows, w) ELSE windows
  BY DEF Searched!Placed, Searched!SelectInSeq
<1>5. CASE into > 0
  <2>1. into \in 1..Len(windows) /\ windows[into] \cap w # {}
    BY <1>3, <1>5
  <2>2. windows[into] \cup w \in Stretches
    <3>1. Stretch(windows[into]) /\ Stretch(w)
      BY <1>1, <1>2, <2>1 DEF Stretches
    <3>2. Stretch(windows[into] \cup w)
      BY <2>1, <3>1, OverlapIs
    <3> QED BY <3>2 DEF Stretches, Stretch
  <2> DEFINE union == windows[into] \cup w
  <2>3. union \in Stretches
    BY <2>2
  <2> HIDE DEF union, into, w, places
  <2>4. [windows EXCEPT ![into] = union] \in Seq(Stretches)
    BY <2>1, <2>3
  <2> QED BY <1>4, <1>5, <2>4 DEF union
<1>6. CASE ~(into > 0)
  <2> HIDE DEF into, w, places
  <2>1. Append(windows, w) \in Seq(Stretches)
    BY <1>1
  <2> QED BY <1>4, <1>6, <2>1
<1> QED BY <1>5, <1>6

(* The windows after each candidate are a recursive function; there is one,  *)
(* since what it is up to one candidate determines it at the next.           *)
LEMMA WindowsAre ==
  ASSUME SearchType, NEW c \in Seq(1..Len(rows))
  PROVE  Searched!Windows(c) \in Seq(Stretches)
<1> DEFINE N == Len(c)
           S == Seq(Stretches)
           step == [n \in 1..N |-> [w \in S |-> Searched!Placed(w, c[n])]]
           after[n \in 0..N] == IF n = 0 THEN <<>> ELSE Searched!Placed(after[n - 1], c[n])
<1>1. N \in Nat /\ N \in 0..N /\ <<>> \in S /\ \A i \in 1..N : c[i] \in 1..Len(rows)
  OBVIOUS
<1>2. Searched!Windows(c) = after[N]
  BY DEF Searched!Windows
<1> HIDE DEF S, N
<1>3. ASSUME NEW n \in 1..N, NEW w \in S PROVE Searched!Placed(w, c[n]) \in S
  BY <1>1, PlacedIs DEF S
<1>4. PICK f : Recursive(f, N, S, <<>>, step)
  <2>1. step \in [1..N -> [S -> S]]
    BY <1>3
  <2> HIDE DEF step
  <2> QED BY <1>1, <2>1, Recursion
<1>5. /\ f \in [0..N -> S] /\ f[0] = <<>>
      /\ \A n \in 1..N : f[n] = Searched!Placed(f[n - 1], c[n])
  <2>1. \A n \in 1..N : n - 1 \in 0..N
    BY <1>1
  <2>2. \A n \in 1..N : f[n - 1] \in S
    BY <1>4, <2>1 DEF Recursive
  <2> QED BY <1>4, <2>2 DEF Recursive
<1> HIDE DEF step
<1>6. after = [n \in 0..N |-> IF n = 0 THEN <<>> ELSE Searched!Placed(after[n - 1], c[n])]
  <2> DEFINE whole == [n \in 0..N |-> IF n = 0 THEN <<>> ELSE Searched!Placed(f[n - 1], c[n])]
  <2>1. \A n \in 0..N : whole[n] = f[n]
    <3>1. \A n \in 0..N : n = 0 \/ n \in 1..N
      BY <1>1
    <3> QED BY <1>5, <3>1
  <2>2. f = whole
    <3>1. f = [n \in 0..N |-> f[n]]
      BY <1>5
    <3> QED BY <2>1, <3>1
  <2>3. f = [n \in 0..N |-> IF n = 0 THEN <<>> ELSE Searched!Placed(f[n - 1], c[n])]
    BY <2>2
  <2> QED BY <2>3
<1> HIDE DEF after
<1>7. ASSUME NEW n \in 0..N PROVE after[n] = IF n = 0 THEN <<>> ELSE Searched!Placed(after[n - 1], c[n])
  BY <1>6, Zenon
<1>8. \A n \in 0..N : after[n] \in S
  <2> DEFINE good == {n \in 0..N : after[n] \in S}
  <2>1. 0 \in good
    BY <1>1, <1>7
  <2>2. ASSUME NEW n \in 1..N, n - 1 \in good PROVE n \in good
    <3>1. n \in 0..N /\ n # 0
      BY <1>1
    <3>2. after[n] = Searched!Placed(after[n - 1], c[n])
      BY <1>7, <3>1
    <3> QED BY <1>3, <2>2, <3>1, <3>2
  <2> HIDE DEF good
  <2>3. \A n \in 0..N : n \in good
    BY <1>1, <2>1, <2>2, UpTo
  <2> QED BY <2>3 DEF good
<1> QED BY <1>1, <1>2, <1>8 DEF S

LEMMA AnswerIs ==
  ASSUME SearchInv, NEW newest, NEW served, NEW meant, Searched!Answers(newest, served, meant)
  PROVE  answer'.newest = newest /\ answer'.indexed = served /\ \A w \in answer'.windows : Stretch(w)
<1> DEFINE matching == {m \in Searched!Visible : rows[m].about \/ m \in meant}
           size == Searched!Cardinality(matching)
<1>1. SearchType /\ Len(rows) \in Nat /\ matching \subseteq 1..Len(rows)
  BY RowsAre DEF SearchInv
<1>2. size \in Nat
  <2>1. size = Cardinality(matching)
    BY DEF Searched!Cardinality, Cardinality
  <2>2. IsFiniteSet(1..Len(rows))
    BY <1>1, FS_Interval
  <2> HIDE DEF matching, size
  <2> QED BY <1>1, <2>1, <2>2, FS_Subset, FS_CardinalityType
<1>3. PICK ranked \in [1..size -> matching] :
         /\ answer'.windows = Searched!Range(Searched!Windows(ranked))
         /\ answer'.newest = newest /\ answer'.indexed = served
  BY DEF Searched!Answers, Searched!Ranked
<1> HIDE DEF size, matching
<1>4. ranked \in Seq(1..Len(rows))
  <2>1. ranked \in [1..size -> 1..Len(rows)]
    BY <1>1, <1>3
  <2> QED BY <1>2, <2>1, SeqDef
<1>5. Searched!Windows(ranked) \in Seq(Stretches)
  BY <1>1, <1>4, WindowsAre
<1> DEFINE windows == Searched!Windows(ranked)
<1>6. \A i \in DOMAIN windows : windows[i] \in Stretches
  BY <1>5
<1>7. \A w \in Searched!Range(windows) : w \in Stretches
  <2> HIDE DEF windows
  <2> QED BY <1>6 DEF Searched!Range
<1> QED BY <1>3, <1>7 DEF Stretches

-----------------------------------------------------------------------------
(* What the steps do to the search.                                          *)

(* A window stays one stretch when messages come or go.                      *)
LEMMA RowsChange ==
  ASSUME SearchInv, UNCHANGED <<vectors, space, index, answer>>,
         rows' \in Seq(StoredMessage), Len(rows) <= Len(rows'),
         \A m \in 1..Len(rows) : (rows[m].retracted => rows'[m].retracted) /\ rows'[m].far = rows[m].far
  PROVE  SearchInv'
<1>1. /\ SearchType /\ Len(rows) \in Nat /\ Len(rows') \in Nat /\ DOMAIN rows = 1..Len(rows)
      /\ DOMAIN rows' = 1..Len(rows') /\ 1..Len(rows) \subseteq 1..Len(rows')
  BY RowsAre DEF SearchInv
<1>2. SearchType'
  <2>1. vectors' \subseteq (1..Len(rows')) \X Spaces
    BY <1>1 DEF SearchType
  <2> QED BY <1>1, <2>1 DEF SearchType
<1>3. ASSUME NEW w, Stretch(w) PROVE Stretch(w)'
  <2>1. w \subseteq 1..Len(rows')
    BY <1>1, <1>3 DEF Stretch
  <2>2. ASSUME NEW k \in w, NEW m \in w, NEW n \in DOMAIN rows', ~rows'[n].retracted, k < n, n <= m
        PROVE  ~rows'[n].far
    <3>1. k \in 1..Len(rows) /\ m \in 1..Len(rows) /\ Searched!SameEpisode(k, m)
      BY <1>3, <2>2 DEF Stretch, Joined
    <3>2. n \in 1..Len(rows)
      BY <1>1, <2>2, <3>1
    <3>3. n \in Searched!Visible
      BY <1>1, <2>2, <3>2 DEF Searched!Visible
    <3> QED BY <2>2, <3>1, <3>2, <3>3 DEF Searched!SameEpisode
  <2>3. \A k \in w : \A m \in w : Searched!SameEpisode(k, m)'
    BY <2>2 DEF Searched!SameEpisode, Searched!Visible
  <2> QED BY <2>1, <2>3 DEF Stretch, Joined
<1>4. NewestOK' /\ Searched!NewestIsSearchable'
  BY DEF SearchInv, NewestOK, Searched!NewestIsSearchable
<1> QED BY <1>2, <1>3, <1>4 DEF SearchInv

LEMMA MessageStored ==
  ASSUME SearchInv, NEW kind \in Kinds, Searched!AppendMessage(kind) PROVE SearchInv'
<1> DEFINE new == [role |-> kind.role, far |-> kind.far, about |-> kind.about, retracted |-> FALSE]
<1>1. rows' = Append(rows, new) /\ UNCHANGED <<vectors, space, index, answer>>
  BY DEF Searched!AppendMessage
<1>2. new \in StoredMessage
  BY TranscriptAssumption DEF StoredMessage
<1>3. SearchType /\ Len(rows) \in Nat
  BY RowsAre DEF SearchInv
<1> HIDE DEF new
<1>4. /\ rows' \in Seq(StoredMessage) /\ Len(rows') = Len(rows) + 1
      /\ \A m \in 1..Len(rows) : rows'[m] = rows[m]
  BY <1>1, <1>2, <1>3 DEF SearchType
<1> QED BY <1>1, <1>3, <1>4, RowsChange

LEMMA MessagesRetracted ==
  ASSUME SearchInv, NEW m \in Searched!Visible, Searched!RetractFrom(m) PROVE SearchInv'
<1>1. /\ rows' = [k \in DOMAIN rows |-> IF k >= m THEN [rows[k] EXCEPT !.retracted = TRUE] ELSE rows[k]]
      /\ UNCHANGED <<vectors, space, index, answer>>
  BY DEF Searched!RetractFrom
<1>2. SearchType
  BY DEF SearchInv
<1>3. PICK n \in Nat : DOMAIN rows = 1..n /\ n = Len(rows)
  BY <1>2, RowsAre
<1>4. \A k \in 1..n : /\ [rows[k] EXCEPT !.retracted = TRUE] \in StoredMessage
                      /\ [rows[k] EXCEPT !.retracted = TRUE].retracted
                      /\ [rows[k] EXCEPT !.retracted = TRUE].far = rows[k].far
  BY <1>2, <1>3, RowsAre DEF StoredMessage
<1>5. /\ rows' \in [1..n -> StoredMessage]
      /\ \A k \in 1..n : (rows[k].retracted => rows'[k].retracted) /\ rows'[k].far = rows[k].far
  BY <1>1, <1>2, <1>3, <1>4, RowsAre
<1>6. rows' \in Seq(StoredMessage) /\ Len(rows') = n
  BY <1>5
<1> QED BY <1>1, <1>3, <1>5, <1>6, RowsChange

(* A step of one searcher, which may embed something or answer.              *)
LEMMA SearcherMoves ==
  ASSUME SearchInv, NEW j \in Searchers, NEW r \in Searching, index' = [index EXCEPT ![j] = r], UNCHANGED <<rows, space>>,
         vectors \subseteq vectors', vectors' \subseteq (1..Len(rows)) \X Spaces,
         r.at = "embed" => r.pending \subseteq 1..Len(rows),
         j = "search" => /\ r.at = "embed" => r.newest \in r.pending \/ <<r.newest, r.space>> \in vectors'
                         /\ r.at = "load" => r.newest = 0 \/ <<r.newest, r.space>> \in vectors',
         \A w \in answer'.windows : Stretch(w),
         answer'.indexed /\ answer'.newest # 0 => \E s \in Spaces : <<answer'.newest, s>> \in vectors'
  PROVE  SearchInv'
<1>1. index \in [Searchers -> Searching] /\ SearchType /\ NewestOK
  BY DEF SearchInv, SearchType
<1>2. index' \in [Searchers -> Searching] /\ \A i \in Searchers : index'[i] = IF i = j THEN r ELSE index[i]
  BY <1>1
<1>3. SearchType'
  <2>1. \A i \in Searchers : index'[i].at = "embed" => index'[i].pending \subseteq 1..Len(rows)
    BY <1>1, <1>2 DEF SearchType
  <2> QED BY <1>1, <1>2, <2>1 DEF SearchType
<1>4. NewestOK'
  <2>1. "search" \in Searchers
    BY DEF Searchers
  <2>2. CASE j = "search"
    <3>1. index'["search"] = r
      BY <1>2, <2>1, <2>2
    <3> QED BY <2>2, <3>1 DEF NewestOK
  <2>3. CASE j # "search"
    <3>1. index'["search"] = index["search"]
      BY <1>2, <2>1, <2>3
    <3> QED BY <1>1, <3>1 DEF NewestOK
  <2> QED BY <2>2, <2>3
<1>5. Searched!NewestIsSearchable'
  BY DEF Searched!NewestIsSearchable
<1>6. \A w \in answer'.windows : Stretch(w)'
  BY DEF Stretch, Joined, Searched!SameEpisode, Searched!Visible
<1> QED BY <1>3, <1>4, <1>5, <1>6 DEF SearchInv

LEMMA IndexIs ==
  ASSUME SearchInv, NEW j \in Searchers
  PROVE  /\ index[j] \in Searching /\ index[j].at \in {"idle", "query", "embed", "load"}
         /\ index[j].at # "idle" => index[j].space \in Spaces
         /\ index[j].at \in {"embed", "load"} => index[j].newest \in Nat
BY DEF SearchInv, SearchType, Searching

LEMMA NothingNew ==
  SearchInv => /\ \A w \in answer.windows : Stretch(w)
               /\ answer.indexed /\ answer.newest # 0 => \E s \in Spaces : <<answer.newest, s>> \in vectors
               /\ vectors \subseteq (1..Len(rows)) \X Spaces
BY DEF SearchInv, SearchType, Searched!NewestIsSearchable

LEMMA QueryEmbedded == ASSUME SearchInv, NEW j \in Searchers, Searched!EmbedQuery(j) PROVE SearchInv'
<1> DEFINE r == [at |-> "query", space |-> space]
<1>1. index' = [index EXCEPT ![j] = r] /\ UNCHANGED <<rows, vectors, space, answer>>
  BY DEF Searched!EmbedQuery
<1>2. r \in Searching /\ r.at = "query"
  BY DEF SearchInv, SearchType, Searching
<1> HIDE DEF r
<1> QED BY <1>1, <1>2, NothingNew, SearcherMoves

(* The newest message is the first to be embedded, unless it is already.     *)
LEMMA NewestIsPending ==
  ASSUME SearchInv, NEW s, NEW top, top \in Searched!OfUser, \A m \in Searched!OfUser : m <= top
  PROVE  top \in Searched!NewestFirst(Searched!Unindexed(s)) \/ <<top, s>> \in vectors
<1> SUFFICES ASSUME <<top, s>> \notin vectors PROVE top \in Searched!NewestFirst(Searched!Unindexed(s))
  OBVIOUS
<1>1. top \in Searched!Unindexed(s) /\ \A k \in Searched!Unindexed(s) : k \in Searched!OfUser
  BY DEF Searched!Unindexed
<1>2. Searched!OfUser \subseteq Nat
  BY RowsAre DEF SearchInv
<1>3. {k \in Searched!Unindexed(s) : k > top} = {}
  <2>1. ASSUME NEW k \in Searched!Unindexed(s) PROVE ~(k > top)
    BY <1>1, <1>2
  <2> QED BY <2>1
<1>4. Searched!Cardinality({}) = 0
  <2>1. Searched!Cardinality({}) = Cardinality({})
    BY DEF Searched!Cardinality, Cardinality
  <2> QED BY <2>1, FS_EmptySet
<1>5. Searched!Cardinality({k \in Searched!Unindexed(s) : k > top}) < IndexBatch
  BY <1>3, <1>4, TranscriptAssumption
<1> QED BY <1>1, <1>5 DEF Searched!NewestFirst

LEMMA LatestOf ==
  ASSUME NEW some, some # {}, NEW n \in Nat, some \subseteq 0..n
  PROVE  Searched!Max(some) \in some /\ \A m \in some : m <= Searched!Max(some)
BY GreatestIndex DEF Searched!Max

LEMMA PendingRead == ASSUME SearchInv, NEW j \in Searchers, Searched!ReadPending(j) PROVE SearchInv'
<1> DEFINE s == index[j].space
           pending == Searched!NewestFirst(Searched!Unindexed(s))
           users == Searched!OfUser
           top == Searched!Max(users)
           upper == Searched!Max(users \cup {0})
           embed == [at |-> "embed", space |-> s, pending |-> pending, newest |-> top]
           load == [at |-> "load", space |-> s, newest |-> upper]
           idle == [at |-> "idle"]
<1>1. /\ index[j].at = "query" /\ UNCHANGED <<rows, vectors, space, answer>>
      /\ index' = [index EXCEPT ![j] =
            IF pending # {} THEN embed ELSE IF j = "search" THEN load ELSE idle]
  <2>1. index' = [index EXCEPT ![j] =
               IF pending # {} THEN [at |-> "embed", space |-> @.space, pending |-> pending, newest |-> top]
               ELSE IF j = "search" THEN [at |-> "load", space |-> @.space, newest |-> upper]
               ELSE idle]
    BY DEF Searched!ReadPending, Searched!Quiet
  <2> HIDE DEF pending, top, upper, idle
  <2> QED BY <2>1 DEF Searched!ReadPending
<1>2. s \in Spaces
  BY <1>1, IndexIs
<1>3. users \subseteq 1..Len(rows) /\ Len(rows) \in Nat /\ pending \subseteq users
  BY RowsAre DEF SearchInv, Searched!NewestFirst, Searched!Unindexed
<1>4. users # {} => top \in users /\ \A m \in users : m <= top
  <2>1. users \subseteq 0..Len(rows)
    BY <1>3
  <2> HIDE DEF users
  <2> QED BY <1>3, <2>1, LatestOf
<1>5. upper \in users \cup {0} /\ \A m \in users : m <= upper
  <2> DEFINE some == users \cup {0}
  <2>1. some \subseteq 0..Len(rows) /\ some # {}
    BY <1>3
  <2> HIDE DEF some
  <2>2. Searched!Max(some) \in some /\ \A m \in some : m <= Searched!Max(some)
    BY <1>3, <2>1, LatestOf
  <2> QED BY <2>2 DEF some
<1>6. users # {} => top \in pending \/ <<top, s>> \in vectors
  BY <1>4, NewestIsPending
<1>7. upper # 0 => upper \in pending \/ <<upper, s>> \in vectors
  BY <1>5, NewestIsPending
<1> HIDE DEF s, pending, users, top, upper
<1>8. CASE pending # {}
  <2>1. embed \in Searching
    <3>1. pending \in SUBSET Nat /\ top \in Nat
      <4>1. top \in users
        BY <1>3, <1>4, <1>8
      <4>2. \A m \in users : m \in Nat
        BY <1>3
      <4>3. \A m \in pending : m \in Nat
        BY <1>3, <4>2
      <4> QED BY <4>1, <4>2, <4>3
    <3>2. embed \in [at : {"embed"}, space : Spaces, pending : SUBSET Nat, newest : Nat]
      BY <1>2, <3>1
    <3> HIDE DEF embed
    <3> QED BY <3>2 DEF Searching
  <2>2. users # {} /\ pending \subseteq 1..Len(rows)
    BY <1>3, <1>8
  <2>3. /\ embed.at = "embed" /\ embed.pending = pending /\ embed.newest = top /\ embed.space = s
        /\ index' = [index EXCEPT ![j] = embed]
    BY <1>1, <1>8
  <2> HIDE DEF embed
  <2> QED BY <1>1, <1>6, <2>1, <2>2, <2>3, NothingNew, SearcherMoves
<1>9. CASE pending = {} /\ j = "search"
  <2>1. load \in Searching
    BY <1>2, <1>3, <1>5 DEF Searching
  <2>2. load.at = "load" /\ load.newest = upper /\ load.space = s /\ index' = [index EXCEPT ![j] = load]
    BY <1>1, <1>9
  <2> HIDE DEF load
  <2> QED BY <1>1, <1>7, <1>9, <2>1, <2>2, NothingNew, SearcherMoves
<1>10. CASE pending = {} /\ j # "search"
  <2>1. idle \in Searching /\ idle.at = "idle" /\ index' = [index EXCEPT ![j] = idle]
    BY <1>1, <1>10 DEF Searching
  <2> HIDE DEF idle
  <2> QED BY <1>1, <1>10, <2>1, NothingNew, SearcherMoves
<1> QED BY <1>8, <1>9, <1>10

LEMMA BatchPersisted == ASSUME SearchInv, NEW j \in Searchers, Searched!Persist(j) PROVE SearchInv'
<1> DEFINE run == index[j]
           load == [at |-> "load", space |-> space, newest |-> run.newest]
           again == [at |-> "query", space |-> space]
           batch == {<<m, space>> : m \in run.pending}
<1>1. /\ run.at = "embed" /\ space = run.space /\ vectors' = vectors \cup batch
      /\ index' = [index EXCEPT ![j] = IF j = "search" THEN load ELSE again]
      /\ UNCHANGED <<rows, space, answer>>
  <2>1. index' = [index EXCEPT ![j] =
               IF j = "search" THEN [at |-> "load", space |-> @.space, newest |-> @.newest]
               ELSE [at |-> "query", space |-> @.space]]
    BY DEF Searched!Persist
  <2> QED BY <2>1 DEF Searched!Persist
<1>2. SearchType /\ NewestOK /\ space \in Spaces /\ run.newest \in Nat
  BY <1>1, IndexIs DEF SearchInv, SearchType
<1>3. batch \subseteq (1..Len(rows)) \X Spaces
  <2>1. \A m \in run.pending : m \in 1..Len(rows)
    BY <1>1, <1>2 DEF SearchType
  <2> HIDE DEF run
  <2> QED BY <1>2, <2>1
<1>4. /\ vectors \subseteq vectors' /\ vectors' \subseteq (1..Len(rows)) \X Spaces
      /\ \A w \in answer'.windows : Stretch(w)
      /\ answer'.indexed /\ answer'.newest # 0 => \E s \in Spaces : <<answer'.newest, s>> \in vectors'
  <2> HIDE DEF batch
  <2>1. vectors \subseteq (1..Len(rows)) \X Spaces
    BY NothingNew
  <2>2. vectors \subseteq vectors' /\ vectors' \subseteq (1..Len(rows)) \X Spaces
    BY <1>1, <1>3, <2>1
  <2> QED BY <1>1, <2>2, NothingNew
<1>5. CASE j = "search"
  <2>1. load \in Searching /\ load.at = "load" /\ load.newest = run.newest /\ load.space = space
    BY <1>2 DEF Searching
  <2>2. <<run.newest, space>> \in vectors'
    <3>1. run.newest \in run.pending \/ <<run.newest, space>> \in vectors
      BY <1>1, <1>2, <1>5 DEF NewestOK
    <3> QED BY <1>1, <3>1
  <2>3. index' = [index EXCEPT ![j] = load] /\ UNCHANGED <<rows, space>>
    BY <1>1, <1>5
  <2> HIDE DEF load, run, batch
  <2> QED BY <1>4, <1>5, <2>1, <2>2, <2>3, SearcherMoves
<1>6. CASE j # "search"
  <2>1. again \in Searching /\ again.at = "query"
    BY <1>2 DEF Searching
  <2>2. index' = [index EXCEPT ![j] = again] /\ UNCHANGED <<rows, space>>
    BY <1>1, <1>6
  <2> HIDE DEF again, run, batch
  <2> QED BY <1>4, <1>6, <2>1, <2>2, SearcherMoves
<1> QED BY <1>5, <1>6

LEMMA SearchAnswers == ASSUME SearchInv, Searched!SearchEnds PROVE SearchInv'
<1> DEFINE run == index["search"]
           meant == {m \in {n \in Searched!OfUser : <<n, run.space>> \in vectors} : rows[m].about}
           idle == [at |-> "idle"]
<1>1. /\ run.at = "load" /\ Searched!Answers(run.newest, TRUE, meant)
      /\ index' = [index EXCEPT !["search"] = idle] /\ UNCHANGED <<rows, vectors, space>>
  BY DEF Searched!SearchEnds, Searched!Quiet
<1>2. "search" \in Searchers /\ idle \in Searching /\ idle.at = "idle"
  BY DEF Searchers, Searching
<1>3. run.space \in Spaces /\ (run.newest = 0 \/ <<run.newest, run.space>> \in vectors)
  BY <1>1, <1>2, IndexIs DEF SearchInv, NewestOK
<1> HIDE DEF meant, idle
<1>4. answer'.newest = run.newest /\ \A w \in answer'.windows : Stretch(w)
  BY <1>1, AnswerIs
<1>5. vectors' = vectors /\ vectors \subseteq (1..Len(rows)) \X Spaces
  BY <1>1, NothingNew
<1>6. answer'.indexed /\ answer'.newest # 0 => \E s \in Spaces : <<answer'.newest, s>> \in vectors'
  BY <1>3, <1>4, <1>5
<1> QED BY <1>1, <1>2, <1>4, <1>5, <1>6, SearcherMoves

LEMMA SearchFallsBack == ASSUME SearchInv, NEW j \in Searchers, Searched!FallsBack(j) PROVE SearchInv'
<1> DEFINE idle == [at |-> "idle"]
<1>1. /\ IF j = "search" THEN Searched!Answers(0, FALSE, {}) ELSE UNCHANGED answer
      /\ index' = [index EXCEPT ![j] = idle] /\ UNCHANGED <<rows, vectors, space>>
  BY DEF Searched!FallsBack, Searched!Quiet
<1>2. idle \in Searching /\ idle.at = "idle"
  BY DEF Searching
<1> HIDE DEF idle
<1>3. vectors' = vectors /\ vectors \subseteq (1..Len(rows)) \X Spaces
  BY <1>1, NothingNew
<1>4. /\ \A w \in answer'.windows : Stretch(w)
      /\ answer'.indexed /\ answer'.newest # 0 => \E s \in Spaces : <<answer'.newest, s>> \in vectors'
  <2>1. CASE j = "search"
    <3>1. answer'.newest = 0 /\ \A w \in answer'.windows : Stretch(w)
      BY <1>1, <2>1, AnswerIs
    <3> QED BY <3>1
  <2>2. CASE j # "search"
    BY <1>1, <2>2, NothingNew
  <2> QED BY <2>1, <2>2
<1> QED BY <1>1, <1>2, <1>3, <1>4, SearcherMoves

LEMMA SearchStep == SearchInv /\ [Searched!Next]_searchVars => SearchInv'
<1> SUFFICES ASSUME SearchInv, [Searched!Next]_searchVars PROVE SearchInv'
  OBVIOUS
<1>1. CASE UNCHANGED searchVars
  <2>1. \A w \in answer'.windows : Stretch(w)'
    BY <1>1 DEF SearchInv, searchVars, Stretch, Joined, Searched!SameEpisode, Searched!Visible
  <2> QED BY <1>1, <2>1 DEF SearchInv, SearchType, NewestOK, Searched!NewestIsSearchable, searchVars
<1>2. ASSUME NEW kind \in Kinds, Searched!AppendMessage(kind) PROVE SearchInv'
  BY <1>2, MessageStored
<1>3. ASSUME NEW m \in Searched!Visible, Searched!RetractFrom(m) PROVE SearchInv'
  BY <1>3, MessagesRetracted
<1>4. CASE Searched!RuntimeChanges
  <2>1. space' \in Spaces /\ UNCHANGED <<rows, vectors, index, answer>>
    BY <1>4 DEF Searched!RuntimeChanges
  <2>2. \A w \in answer'.windows : Stretch(w)'
    BY <2>1 DEF SearchInv, Stretch, Joined, Searched!SameEpisode, Searched!Visible
  <2> QED BY <2>1, <2>2 DEF SearchInv, SearchType, NewestOK, Searched!NewestIsSearchable
<1>5. ASSUME NEW j \in Searchers,
             Searched!EmbedQuery(j) \/ Searched!ReadPending(j) \/ Searched!Persist(j) \/ Searched!FallsBack(j)
      PROVE  SearchInv'
  BY <1>5, QueryEmbedded, PendingRead, BatchPersisted, SearchFallsBack
<1>6. CASE Searched!SearchEnds
  BY <1>6, SearchAnswers
<1> QED BY <1>1, <1>2, <1>3, <1>4, <1>5, <1>6 DEF Searched!Next, Searchers

(* Every message arrives: a polling browser shows it, the migration does not *)
(* pass it over, and a search knows it.                                      *)
THEOREM EveryMessageArrives == Spec => MessagesArrive
<1>1. Init => MigrationInv /\ ProjectionInv /\ SearchInv
  BY MigrationInit, ProjectionInit, SearchInit DEF Init
<1>2. MigrationInv /\ [Next]_memoryVars => MigrationInv'
  <2>1. [Next]_memoryVars => [Migrated!Next]_transcriptVars
    BY DEF Next, memoryVars, transcriptVars
  <2> QED BY <2>1, MigrationStep
<1>3. ProjectionInv /\ [Next]_memoryVars => ProjectionInv'
  <2>1. [Next]_memoryVars => [Projected!Next]_liveVars
    BY DEF Next, memoryVars, liveVars
  <2> QED BY <2>1, ProjectionStep
<1>4. SearchInv /\ [Next]_memoryVars => SearchInv'
  <2>1. [Next]_memoryVars => [Searched!Next]_searchVars
    BY DEF Next, memoryVars, searchVars
  <2> QED BY <2>1, SearchStep
<1>5. MigrationInv => Migrated!TypeOK /\ Migrated!MigratedOrRetracted
  BY MigrationHolds
<1>6. ProjectionInv => Projected!TypeOK /\ Projected!PollingMissesNothing
  BY ProjectionHolds
<1>7. SearchInv => Searched!TypeOK /\ Searched!NewestIsSearchable /\ Searched!WindowsStay
  BY SearchHolds
<1> QED BY <1>1, <1>2, <1>3, <1>4, <1>5, <1>6, <1>7, PTL DEF Spec, MessagesArrive

-----------------------------------------------------------------------------
(* The recall of a turn.                                                     *)

Remembering == {r.id : r \in Remembered}

(* Until the context as a whole is bounded, what was admitted stays, and     *)
(* what was left out as covered is covered by it.                            *)
CoveredBy(o) == \A by \in o.by : by \in Foreground!ToSet(loaded) /\ o.id \in Foreground!The(by).holds
RecallInv ==
    /\ recall \in {"asked", "ranking", "admitting", "given"}
    /\ found \subseteq Remembered /\ nodes \subseteq Remembering /\ frontier \subseteq Remembering
    /\ recall # "given" =>
          /\ todo \in Seq(Remembered) /\ loaded \in Seq(Remembering)
          /\ \A o \in omitted : o.why = "covered" => CoveredBy(o)

LEMMA TheRecord == \A id \in Remembering : Foreground!The(id) \in Remembered /\ Foreground!The(id).id = id
BY DEF Remembering, Foreground!The

LEMMA RecallInit == Foreground!Init => RecallInv
<1> SUFFICES ASSUME Foreground!Init PROVE RecallInv
  OBVIOUS
<1>1. /\ recall = "asked" /\ found = {} /\ nodes = {} /\ frontier = {} /\ todo = <<>> /\ loaded = <<>> /\ omitted = {}
  BY DEF Foreground!Init
<1>2. <<>> \in Seq(Remembered) /\ <<>> \in Seq(Remembering)
  OBVIOUS
<1> QED BY <1>1, <1>2 DEF RecallInv

LEMMA Retrieved == ASSUME RecallInv, Foreground!Retrieve PROVE RecallInv'
<1>1. /\ recall = "asked" /\ recall' = "ranking" /\ UNCHANGED <<nodes, todo, loaded, omitted>>
  BY DEF Foreground!Retrieve
<1>2. PICK durable \in SUBSET Foreground!Of("pcp", Remembered), local \in SUBSET Foreground!Of("local", Remembered),
           personal \in BOOLEAN :
        /\ found' = durable \cup local \cup {s \in Foreground!Of("profile", Remembered) : personal \/ s.lexical > 0}
        /\ frontier' = Foreground!Id(durable)
  BY DEF Foreground!Retrieve
<1>3. durable \subseteq Remembered /\ found' \subseteq Remembered
  BY <1>2 DEF Foreground!Of
<1>4. frontier' \subseteq Remembering
  BY <1>2, <1>3 DEF Foreground!Id, Remembering
<1> QED BY <1>1, <1>3, <1>4 DEF RecallInv, CoveredBy

(* A round reads Pages there are, and goes on to their parents.              *)
LEMMA RoundRead == ASSUME RecallInv, Foreground!ReadRound PROVE RecallInv'
<1>1. /\ recall = "ranking" /\ UNCHANGED <<recall, found, todo, loaded, omitted>>
  BY DEF Foreground!ReadRound
<1>2. PICK read \in SUBSET {Foreground!The(id) : id \in frontier} :
        /\ nodes' = nodes \cup Foreground!Id(read)
        /\ frontier' = UNION {r.parents : r \in read} \ (nodes' \cup frontier)
  BY DEF Foreground!ReadRound
<1>3. \A r \in read : r \in Remembered
  BY <1>2, TheRecord DEF RecallInv
<1>4. nodes' \subseteq Remembering
  BY <1>2, <1>3 DEF RecallInv, Foreground!Id, Remembering
<1>5. frontier' \subseteq Remembering
  <2>1. \A r \in read : r.parents \subseteq Remembering
    BY <1>3, RecallAssumption DEF Remembering
  <2> QED BY <1>2, <2>1
<1> QED BY <1>1, <1>4, <1>5 DEF RecallInv, CoveredBy

LEMMA Selected == ASSUME RecallInv, Foreground!Select PROVE RecallInv'
<1>1. /\ recall = "ranking" /\ recall' = "admitting" /\ UNCHANGED <<found, nodes, frontier, loaded, omitted>>
  BY DEF Foreground!Select
<1> DEFINE size == Foreground!Cardinality(found)
<1>2. PICK order \in [1..size -> found] : todo' = order
  BY DEF Foreground!Select
<1>3. found \subseteq Remembered /\ size \in Nat
  <2>1. found \subseteq Remembered /\ size = Cardinality(found)
    BY DEF RecallInv, Foreground!Cardinality, Cardinality
  <2> HIDE DEF size
  <2> QED BY <2>1, RecallAssumption, FS_Subset, FS_CardinalityType
<1> HIDE DEF size
<1>4. todo' \in Seq(Remembered)
  <2>1. todo' \in [1..size -> Remembered]
    BY <1>2, <1>3
  <2> QED BY <1>3, <2>1, SeqDef
<1> QED BY <1>1, <1>4 DEF RecallInv, CoveredBy

(* A record is left out as covered only behind the Page that covers it.      *)
LEMMA Admitted == ASSUME RecallInv, Foreground!Admit PROVE RecallInv'
<1> DEFINE r == Head(todo)
           by == (CHOOSE p \in Foreground!Covering(r) : TRUE).id
           left(why, of) == omitted' = omitted \cup {[id |-> r.id, why |-> why, by |-> of]} /\ loaded' = loaded
<1>1. /\ recall = "admitting" /\ todo # <<>> /\ todo' = Tail(todo) /\ UNCHANGED <<recall, found, nodes, frontier>>
  BY DEF Foreground!Admit
<1>2. \/ left("weak", {}) \/ left("enough", {}) \/ left("size", {})
      \/ Foreground!Covering(r) # {} /\ left("covered", {by})
      \/ loaded' = Append(loaded, r.id) /\ omitted' = omitted
  <2>1. CASE Foreground!Weak(r)
    BY <2>1 DEF Foreground!Admit, Foreground!Omit
  <2>2. CASE ~Foreground!Weak(r) /\ Foreground!Covering(r) # {}
    BY <2>2 DEF Foreground!Admit, Foreground!Omit
  <2>3. CASE ~Foreground!Weak(r) /\ Foreground!Covering(r) = {}
    BY <2>3 DEF Foreground!Admit, Foreground!Omit
  <2> QED BY <2>1, <2>2, <2>3
<1>3. /\ todo \in Seq(Remembered) /\ loaded \in Seq(Remembering) /\ r \in Remembered /\ r.id \in Remembering
      /\ todo' \in Seq(Remembered)
      /\ \A o \in omitted : o.why = "covered" => CoveredBy(o)
  BY <1>1 DEF RecallInv, Remembering
<1> HIDE DEF r, by
<1>4. ASSUME Foreground!Covering(r) # {}
      PROVE  by \in Foreground!ToSet(loaded) /\ r.id \in Foreground!The(by).holds
  <2>1. PICK p \in Foreground!Covering(r) : by = p.id
    BY <1>4 DEF by
  <2>2. PICK id \in Foreground!Loaded("pcp") : p = Foreground!The(id)
    BY <2>1 DEF Foreground!Covering
  <2>3. id \in Foreground!ToSet(loaded) /\ id \in Remembering /\ r.id \in p.holds
    BY <1>3, <2>1, <2>2 DEF Foreground!Covering, Foreground!Loaded, Foreground!ToSet
  <2>4. by = id
    BY <2>1, <2>2, <2>3, TheRecord
  <2> QED BY <2>2, <2>3, <2>4
<1>5. /\ loaded' \in Seq(Remembering) /\ Foreground!ToSet(loaded) \subseteq Foreground!ToSet(loaded')
  <2>1. CASE loaded' = loaded
    BY <1>3, <2>1
  <2>2. CASE loaded' = Append(loaded, r.id)
    <3>1. /\ loaded' \in Seq(Remembering) /\ DOMAIN loaded \subseteq DOMAIN loaded'
          /\ \A i \in DOMAIN loaded : loaded'[i] = loaded[i]
      BY <1>3, <2>2
    <3> QED BY <3>1 DEF Foreground!ToSet
  <2> QED BY <1>2, <2>1, <2>2
<1>6. ASSUME NEW o \in omitted', o.why = "covered"
      PROVE  \A b \in o.by : b \in Foreground!ToSet(loaded') /\ o.id \in Foreground!The(b).holds
  <2>1. CASE o \in omitted
    BY <1>3, <1>5, <1>6, <2>1 DEF CoveredBy
  <2>2. CASE o \notin omitted
    <3>1. Foreground!Covering(r) # {} /\ o = [id |-> r.id, why |-> "covered", by |-> {by}]
      BY <1>2, <1>6, <2>2
    <3> QED BY <1>4, <1>5, <3>1
  <2> QED BY <2>1, <2>2
<1>7. \A o \in omitted' : o.why = "covered" => CoveredBy(o)'
  BY <1>6 DEF CoveredBy
<1> QED BY <1>1, <1>3, <1>5, <1>7 DEF RecallInv

LEMMA RecallStep == RecallInv /\ [Foreground!Next]_recallVars => RecallInv'
<1> SUFFICES ASSUME RecallInv, [Foreground!Next]_recallVars PROVE RecallInv'
  OBVIOUS
<1>1. CASE UNCHANGED recallVars
  BY <1>1 DEF RecallInv, CoveredBy, recallVars
<1>2. CASE Foreground!Retrieve \/ Foreground!ReadRound \/ Foreground!Select \/ Foreground!Admit
  BY <1>2, Retrieved, RoundRead, Selected, Admitted
<1>3. CASE Foreground!Bound
  BY <1>3 DEF Foreground!Bound, RecallInv
<1>4. ASSUME NEW rank \in {"semantic", "lexical"}, Foreground!Rank(rank) PROVE RecallInv'
  BY <1>4 DEF Foreground!Rank, RecallInv, CoveredBy
<1> QED BY <1>1, <1>2, <1>3, <1>4 DEF Foreground!Next

(* A covered omission is behind a Page in the context.                       *)
LEMMA RecallGives == RecallInv => Foreground!OmittedIsCovered
BY DEF RecallInv, CoveredBy, Foreground!OmittedIsCovered

(* The ancestors of a Page, round by round.                                  *)
Rounds == Foreground!Cardinality(Remembered)
ParentsOf(some) == UNION {Foreground!The(a).parents : a \in some}

LEMMA ParentsAre == \A some \in SUBSET Remembering : ParentsOf(some) \in SUBSET Remembering
<1>1. \A id \in Remembering : Foreground!The(id).parents \subseteq Remembering
  BY TheRecord, RecallAssumption DEF Remembering
<1> QED BY <1>1 DEF ParentsOf

LEMMA RoundsAre == Rounds \in Nat /\ IsFiniteSet(Remembering) /\ Cardinality(Remembering) <= Rounds
<1>1. Rounds = Cardinality(Remembered)
  BY DEF Rounds, Foreground!Cardinality, Cardinality
<1>2. Cardinality(Remembered) \in Nat
  BY RecallAssumption, FS_CardinalityType
<1> DEFINE f == [r \in Remembered |-> r.id]
<1>3. f \in Surjection(Remembered, Remembering)
  BY DEF Surjection, Remembering
<1> HIDE DEF f
<1>4. IsFiniteSet(Remembering) /\ Cardinality(Remembering) <= Cardinality(Remembered)
  BY <1>3, RecallAssumption, FS_Surjection
<1> QED BY <1>1, <1>2, <1>4

LEMMA DerivedIs ==
    ASSUME RecallInv, NEW id \in Remembering
    PROVE  \E up \in [0..Rounds -> SUBSET Remembering] :
              /\ up[0] = Foreground!The(id).parents
              /\ \A n \in 1..Rounds : up[n] = up[n - 1] \cup ParentsOf(up[n - 1] \cap nodes)
              /\ Foreground!Derived(id) = up[Rounds]
<1> DEFINE S == SUBSET Remembering
           step == [n \in 1..Rounds |-> [x \in S |-> x \cup ParentsOf(x \cap nodes)]]
           first == Foreground!The(id).parents
           up[n \in 0..Rounds] == IF n = 0 THEN first ELSE up[n - 1] \cup ParentsOf(up[n - 1] \cap nodes)
<1>1. first \in S
  BY TheRecord, RecallAssumption DEF Remembering
<1>2. \A x \in S : x \cup ParentsOf(x \cap nodes) \in S
  BY ParentsAre
<1>3. step \in [1..Rounds -> [S -> S]]
  <2> HIDE DEF S
  <2> QED BY <1>2
<1>4. PICK f : Recursive(f, Rounds, S, first, step)
  <2> HIDE DEF S, step, first
  <2> QED BY <1>1, <1>3, RoundsAre, Recursion
<1>5. \A i \in 1..Rounds : i \in 0..Rounds /\ i # 0 /\ i - 1 \in 0..Rounds
  BY RoundsAre
<1>6. /\ f \in [0..Rounds -> S] /\ f[0] = first
      /\ \A i \in 1..Rounds : f[i] = f[i - 1] \cup ParentsOf(f[i - 1] \cap nodes)
  <2>1. \A i \in 1..Rounds : f[i - 1] \in S
    BY <1>4, <1>5 DEF Recursive
  <2> HIDE DEF S
  <2> QED BY <1>4, <2>1 DEF Recursive
<1> HIDE DEF S, step, first
<1>7. up = [n \in 0..Rounds |-> IF n = 0 THEN first ELSE up[n - 1] \cup ParentsOf(up[n - 1] \cap nodes)]
  <2> DEFINE whole == [n \in 0..Rounds |-> IF n = 0 THEN first ELSE f[n - 1] \cup ParentsOf(f[n - 1] \cap nodes)]
  <2>1. \A n \in 0..Rounds : whole[n] = f[n]
    <3>1. \A n \in 0..Rounds : n = 0 \/ n \in 1..Rounds
      BY RoundsAre
    <3> QED BY <1>6, <3>1
  <2>2. f = whole
    <3>1. f = [n \in 0..Rounds |-> f[n]]
      BY <1>6
    <3> QED BY <2>1, <3>1
  <2>3. f = [n \in 0..Rounds |-> IF n = 0 THEN first ELSE f[n - 1] \cup ParentsOf(f[n - 1] \cap nodes)]
    BY <2>2
  <2> QED BY <2>3
<1>8. Foreground!Derived(id) = up[Rounds]
  BY DEF Foreground!Derived, Rounds, ParentsOf, first
<1> HIDE DEF up
<1>9. ASSUME NEW n \in 0..Rounds
      PROVE  up[n] = IF n = 0 THEN first ELSE up[n - 1] \cup ParentsOf(up[n - 1] \cap nodes)
  BY <1>7, Zenon
<1>10. up[0] = first /\ \A i \in 1..Rounds : up[i] = up[i - 1] \cup ParentsOf(up[i - 1] \cap nodes)
  <2>1. 0 \in 0..Rounds
    BY RoundsAre
  <2> QED BY <1>5, <1>9, <2>1
<1>11. \A i \in 0..Rounds : up[i] \in S
  <2> DEFINE good == {i \in 0..Rounds : up[i] \in S}
  <2>1. 0 \in good
    BY <1>1, <1>10, RoundsAre
  <2>2. ASSUME NEW i \in 1..Rounds, i - 1 \in good PROVE i \in good
    BY <1>2, <1>5, <1>10, <2>2
  <2> HIDE DEF good
  <2>3. \A i \in 0..Rounds : i \in good
    BY <2>1, <2>2, RoundsAre, UpTo
  <2> QED BY <2>3 DEF good
<1>12. up \in [0..Rounds -> S]
  <2>1. up = [n \in 0..Rounds |-> up[n]]
    <3> DEFINE body(n) == IF n = 0 THEN first ELSE up[n - 1] \cup ParentsOf(up[n - 1] \cap nodes)
    <3>1. up = [n \in 0..Rounds |-> body(n)]
      BY <1>7, Zenon
    <3>2. \A n \in 0..Rounds : body(n) = up[n]
      BY <1>9
    <3> HIDE DEF body
    <3> QED BY <3>1, <3>2
  <2> QED BY <1>11, <2>1
<1> QED BY <1>8, <1>10, <1>12 DEF S, first

(* There are as many rounds as Pages, so that the last one adds nothing.     *)
LEMMA DerivedCloses ==
    ASSUME RecallInv, NEW id \in Remembering
    PROVE  /\ Foreground!The(id).parents \subseteq Foreground!Derived(id)
           /\ \A a \in Foreground!Derived(id) \cap nodes : Foreground!The(a).parents \subseteq Foreground!Derived(id)
<1>1. PICK up \in [0..Rounds -> SUBSET Remembering] :
              /\ up[0] = Foreground!The(id).parents
              /\ \A n \in 1..Rounds : up[n] = up[n - 1] \cup ParentsOf(up[n - 1] \cap nodes)
              /\ Foreground!Derived(id) = up[Rounds]
  BY DerivedIs
<1>2. /\ \A n \in 1..Rounds : n \in 0..Rounds /\ n - 1 \in 0..Rounds /\ up[n - 1] \subseteq up[n]
      /\ 0 \in 0..Rounds /\ Rounds \in 0..Rounds
  <2>1. \A n \in 1..Rounds : n \in 0..Rounds /\ n - 1 \in 0..Rounds
    BY RoundsAre
  <2>2. 0 \in 0..Rounds /\ Rounds \in 0..Rounds
    BY RoundsAre
  <2>3. \A n \in 1..Rounds : up[n - 1] \subseteq up[n]
    BY <1>1
  <2> QED BY <2>1, <2>2, <2>3
<1>3. \A i \in 0..Rounds : up[0] \subseteq up[i]
  <2> DEFINE good == {i \in 0..Rounds : up[0] \subseteq up[i]}
  <2>1. 0 \in good
    BY <1>2
  <2>2. ASSUME NEW i \in 1..Rounds, i - 1 \in good PROVE i \in good
    BY <1>2, <2>2
  <2> HIDE DEF good
  <2>3. \A i \in 0..Rounds : i \in good
    BY <2>1, <2>2, RoundsAre, UpTo
  <2> QED BY <2>3 DEF good
<1>4. CASE \E n \in 1..Rounds : up[n] \cap nodes = up[n - 1] \cap nodes
  <2>1. PICK n \in 1..Rounds : up[n] \cap nodes = up[n - 1] \cap nodes
    BY <1>4
  <2>2. ParentsOf(up[n] \cap nodes) \subseteq up[n]
    BY <1>1, <2>1
  <2>3. \A i \in 0..Rounds : i >= n => up[i] = up[n]
    <3> DEFINE good == {i \in 0..Rounds : i >= n => up[i] = up[n]}
    <3>1. 0 \in good
      BY <1>2
    <3>2. ASSUME NEW i \in 1..Rounds, i - 1 \in good PROVE i \in good
      <4>1. CASE i = n
        BY <1>2, <4>1
      <4>2. CASE i # n /\ i >= n
        <5>1. i - 1 >= n
          BY <4>2
        <5>2. up[i - 1] = up[n]
          BY <3>2, <5>1
        <5>3. up[i] = up[n]
          BY <1>1, <2>2, <5>2
        <5> QED BY <1>2, <5>3
      <4>3. CASE ~(i >= n)
        BY <1>2, <4>3
      <4> QED BY <4>1, <4>2, <4>3
    <3> HIDE DEF good
    <3>3. \A i \in 0..Rounds : i \in good
      BY <3>1, <3>2, RoundsAre, UpTo
    <3> QED BY <3>3 DEF good
  <2>4. Rounds >= n
    BY RoundsAre
  <2>5. up[Rounds] = up[n]
    BY <1>2, <2>3, <2>4
  <2> QED BY <1>1, <1>2, <1>3, <2>2, <2>5 DEF ParentsOf
<1>5. CASE ~\E n \in 1..Rounds : up[n] \cap nodes = up[n - 1] \cap nodes
  <2> DEFINE read(i) == up[i] \cap nodes
             count(i) == Cardinality(read(i))
  <2>1. \A i \in 0..Rounds : read(i) \in SUBSET Remembering /\ IsFiniteSet(read(i)) /\ count(i) \in Nat
    <3>1. \A i \in 0..Rounds : read(i) \in SUBSET Remembering
      BY <1>1
    <3> HIDE DEF read
    <3>2. \A i \in 0..Rounds : IsFiniteSet(read(i))
      BY <3>1, RoundsAre, FS_Subset
    <3> QED BY <3>1, <3>2, FS_CardinalityType
  <2>2. ASSUME NEW i \in 1..Rounds PROVE count(i) > count(i - 1)
    <3>1. /\ read(i - 1) \in SUBSET read(i) /\ read(i - 1) # read(i) /\ IsFiniteSet(read(i))
          /\ count(i) \in Nat /\ count(i - 1) \in Nat
      BY <1>2, <1>5, <2>1
    <3> HIDE DEF read
    <3>2. count(i - 1) <= count(i) /\ (count(i) = count(i - 1) => read(i) = read(i - 1))
      BY <3>1, FS_Subset
    <3> HIDE DEF count
    <3> QED BY <3>1, <3>2
  <2> HIDE DEF read, count
  <2>3. \A i \in 0..Rounds : count(i) >= i
    <3> DEFINE good == {i \in 0..Rounds : count(i) >= i}
    <3>1. 0 \in good
      BY <1>2, <2>1
    <3>2. ASSUME NEW i \in 1..Rounds, i - 1 \in good PROVE i \in good
      BY <1>2, <2>1, <2>2, <3>2
    <3> HIDE DEF good
    <3>3. \A i \in 0..Rounds : i \in good
      BY <3>1, <3>2, RoundsAre, UpTo
    <3> QED BY <3>3 DEF good
  <2>4. read(Rounds) = Remembering
    <3>1. read(Rounds) \in SUBSET Remembering /\ count(Rounds) >= Rounds /\ count(Rounds) \in Nat
      BY <1>2, <2>1, <2>3
    <3>2. count(Rounds) <= Cardinality(Remembering) /\ Cardinality(Remembering) \in Nat
      BY <3>1, RoundsAre, FS_Subset, FS_CardinalityType DEF count
    <3>3. count(Rounds) = Cardinality(Remembering)
      BY <3>1, <3>2, RoundsAre
    <3> QED BY <3>1, <3>3, RoundsAre, FS_Subset DEF count
  <2>5. \A a \in Remembering : Foreground!The(a).parents \subseteq Remembering
    BY TheRecord, RecallAssumption DEF Remembering
  <2>6. Remembering \subseteq up[Rounds] /\ up[Rounds] \subseteq Remembering
    BY <1>1, <1>2, <2>4 DEF read
  <2> QED BY <1>1, <2>5, <2>6
<1> QED BY <1>4, <1>5

LEMMA RecallTraces == RecallInv => Foreground!LineageIsComplete
<1> SUFFICES ASSUME RecallInv, NEW p \in Foreground!Of("pcp", found), Foreground!Complete(p.id),
                    NEW a \in Foreground!Derived(p.id) \cup {p.id}
             PROVE  a \in nodes /\ Foreground!The(a).parents \subseteq nodes \ {a}
  BY DEF Foreground!LineageIsComplete
<1>1. {p.id} \cup Foreground!Derived(p.id) \subseteq nodes /\ a \notin Foreground!Derived(a)
  BY DEF Foreground!Complete
<1>2. a \in nodes /\ a \in Remembering /\ p.id \in Remembering
  BY <1>1 DEF RecallInv
<1>3. Foreground!The(a).parents \subseteq Foreground!Derived(p.id)
  BY <1>1, <1>2, DerivedCloses
<1>4. Foreground!The(a).parents \subseteq Foreground!Derived(a)
  BY <1>2, DerivedCloses
<1> QED BY <1>1, <1>2, <1>3, <1>4

-----------------------------------------------------------------------------
(* The recall of the bridge.                                                 *)

SaidIds == DOMAIN BridgeSaid
Quotes(ids) == [id : ids, chars : Nat]

LEMMA SaidIs ==
    /\ IsFiniteSet(SaidIds) /\ Bridged!Ids = SaidIds
    /\ \A i \in SaidIds : BridgeSaid[i].chars \in Nat
<1>1. Len(BridgeSaid) \in Nat /\ SaidIds = 1..Len(BridgeSaid)
  BY BridgeAssumption DEF SaidIds
<1>2. IsFiniteSet(1..Len(BridgeSaid))
  <2>1. 1 \in Int /\ Len(BridgeSaid) \in Int
    BY <1>1
  <2> QED BY <2>1, FS_Interval
<1>3. \A i \in SaidIds : BridgeSaid[i].chars \in Nat
  <2> DEFINE R == [user : BOOLEAN, chars : Nat, turn : Nat]
  <2>1. BridgeSaid \in Seq(R)
    BY BridgeAssumption
  <2>2. \A i \in SaidIds : BridgeSaid[i] \in R
    <3> HIDE DEF R
    <3> QED BY <2>1 DEF SaidIds
  <2> QED BY <2>2
<1> QED BY <1>1, <1>2, <1>3 DEF Bridged!Ids, SaidIds

(* What is given adds up, piece by piece.                                    *)
LEMMA TotalIs ==
    ASSUME NEW ids, NEW items \in Seq(Quotes(ids))
    PROVE  \E sum \in [0..Len(items) -> Nat] :
              /\ sum[0] = 0 /\ \A n \in 1..Len(items) : sum[n] = sum[n - 1] + items[n].chars
              /\ Bridged!Total(items) = sum[Len(items)]
<1> DEFINE N == Len(items)
           step == [n \in 1..N |-> [x \in Nat |-> x + items[n].chars]]
           sum[n \in 0..N] == IF n = 0 THEN 0 ELSE sum[n - 1] + items[n].chars
<1>1. N \in Nat /\ \A n \in 1..N : items[n].chars \in Nat
  <2>1. N \in Nat /\ \A n \in 1..N : items[n] \in Quotes(ids)
    OBVIOUS
  <2> QED BY <2>1 DEF Quotes
<1>2. step \in [1..N -> [Nat -> Nat]]
  <2> HIDE DEF N
  <2> QED BY <1>1
<1>3. PICK f : Recursive(f, N, Nat, 0, step)
  <2> HIDE DEF step, N
  <2> QED BY <1>1, <1>2, Recursion
<1>4. Bridged!Total(items) = sum[N]
  BY DEF Bridged!Total
<1> HIDE DEF N
<1>5. /\ f \in [0..N -> Nat] /\ f[0] = 0
      /\ \A n \in 1..N : f[n] = f[n - 1] + items[n].chars
  <2>1. \A n \in 1..N : n - 1 \in 0..N
    BY <1>1
  <2>2. \A n \in 1..N : f[n - 1] \in Nat
    BY <1>3, <2>1 DEF Recursive
  <2> QED BY <1>3, <2>2 DEF Recursive
<1> HIDE DEF step
<1>6. sum = [n \in 0..N |-> IF n = 0 THEN 0 ELSE sum[n - 1] + items[n].chars]
  <2> DEFINE whole == [n \in 0..N |-> IF n = 0 THEN 0 ELSE f[n - 1] + items[n].chars]
  <2>1. \A n \in 0..N : whole[n] = f[n]
    <3>1. \A n \in 0..N : n = 0 \/ n \in 1..N
      BY <1>1
    <3> QED BY <1>5, <3>1
  <2>2. f = whole
    <3>1. f = [n \in 0..N |-> f[n]]
      BY <1>5
    <3> QED BY <2>1, <3>1
  <2>3. f = [n \in 0..N |-> IF n = 0 THEN 0 ELSE f[n - 1] + items[n].chars]
    BY <2>2
  <2> QED BY <2>3
<1> HIDE DEF sum
<1>7. ASSUME NEW n \in 0..N PROVE sum[n] = IF n = 0 THEN 0 ELSE sum[n - 1] + items[n].chars
  BY <1>6, Zenon
<1>8. sum[0] = 0 /\ \A n \in 1..N : sum[n] = sum[n - 1] + items[n].chars
  <2>1. 0 \in 0..N /\ \A n \in 1..N : n \in 0..N /\ n # 0
    BY <1>1
  <2> QED BY <1>7, <2>1
<1>9. \A n \in 0..N : sum[n] = f[n]
  <2> DEFINE good == {n \in 0..N : sum[n] = f[n]}
  <2>1. 0 \in good
    BY <1>1, <1>5, <1>8
  <2>2. ASSUME NEW n \in 1..N, n - 1 \in good PROVE n \in good
    <3>1. n \in 0..N
      BY <1>1
    <3> QED BY <1>5, <1>8, <2>2, <3>1
  <2> HIDE DEF good
  <2>3. \A n \in 0..N : n \in good
    BY <1>1, <2>1, <2>2, UpTo
  <2> QED BY <2>3 DEF good
<1>10. Bridged!Total(items) = f[N]
  <2>1. N \in 0..N
    BY <1>1
  <2> QED BY <1>4, <1>9, <2>1
<1> QED BY <1>5, <1>10 DEF N

LEMMA TotalOfAppended ==
    ASSUME NEW ids, NEW items \in Seq(Quotes(ids)), NEW e \in Quotes(ids)
    PROVE  /\ Bridged!Total(items) \in Nat
           /\ Bridged!Total(Append(items, e)) = Bridged!Total(items) + e.chars
<1> DEFINE N == Len(items)
           more == Append(items, e)
<1>1. N \in Nat /\ N \in 0..N
  OBVIOUS
<1>2. /\ more \in Seq(Quotes(ids)) /\ Len(more) = N + 1
      /\ more[N + 1] = e /\ \A n \in 1..N : more[n] = items[n]
  OBVIOUS
<1> HIDE DEF more
<1>3. PICK a \in [0..N -> Nat] :
        /\ a[0] = 0 /\ \A n \in 1..N : a[n] = a[n - 1] + items[n].chars
        /\ Bridged!Total(items) = a[N]
  BY TotalIs
<1> HIDE DEF N
<1>4. PICK b \in [0..(N + 1) -> Nat] :
        /\ b[0] = 0 /\ \A n \in 1..(N + 1) : b[n] = b[n - 1] + more[n].chars
        /\ Bridged!Total(more) = b[N + 1]
  <2>1. PICK f \in [0..Len(more) -> Nat] :
          /\ f[0] = 0 /\ \A n \in 1..Len(more) : f[n] = f[n - 1] + more[n].chars
          /\ Bridged!Total(more) = f[Len(more)]
    BY <1>2, TotalIs
  <2> QED BY <1>2, <2>1
<1>5. \A n \in 0..N : a[n] = b[n]
  <2> DEFINE good == {n \in 0..N : a[n] = b[n]}
  <2>1. 0 \in good
    BY <1>1, <1>3, <1>4
  <2>2. ASSUME NEW n \in 1..N, n - 1 \in good PROVE n \in good
    <3>1. n \in 0..N /\ n \in 1..(N + 1)
      BY <1>1
    <3> QED BY <1>2, <1>3, <1>4, <2>2, <3>1
  <2> HIDE DEF good
  <2>3. \A n \in 0..N : n \in good
    BY <1>1, <2>1, <2>2, UpTo
  <2> QED BY <2>3 DEF good
<1>6. b[N + 1] = b[N] + e.chars
  <2>1. N + 1 \in 1..(N + 1) /\ (N + 1) - 1 = N
    BY <1>1
  <2> QED BY <1>2, <1>4, <2>1
<1>7. Bridged!Total(items) = a[N] /\ a[N] \in Nat /\ a[N] = b[N]
  BY <1>1, <1>3, <1>5
<1> QED BY <1>4, <1>6, <1>7 DEF more

LEMMA TotalOfNothing == Bridged!Total(<<>>) = 0
<1>1. <<>> \in Seq(Quotes({})) /\ Len(<<>>) = 0
  OBVIOUS
<1>2. PICK f \in [0..Len(<<>>) -> Nat] : f[0] = 0 /\ Bridged!Total(<<>>) = f[Len(<<>>)]
  BY <1>1, TotalIs
<1> QED BY <1>1, <1>2

(* Evidence within the budget, of some messages.                             *)
Bounded(ids) == {items \in Seq(Quotes(ids)) : Bridged!Total(items) <= EvidenceBudget}

LEMMA GivenIs ==
    ASSUME NEW ids \in SUBSET SaidIds, NEW items \in Bounded(ids), NEW i \in ids
    PROVE  Bridged!Given(items, i) \in Bounded(ids)
<1>1. items \in Seq(Quotes(ids)) /\ Bridged!Total(items) <= EvidenceBudget /\ BridgeSaid[i].chars \in Nat
  BY SaidIs DEF Bounded
<1> DEFINE left == EvidenceBudget - Bridged!Total(items)
           size == Bridged!Fewest(BridgeSaid[i].chars, Bridged!Fewest(EvidenceChars, left))
           e == [id |-> i, chars |-> size]
<1>2. CASE Bridged!Total(items) >= EvidenceBudget
  BY <1>2 DEF Bridged!Given
<1>3. CASE ~(Bridged!Total(items) >= EvidenceBudget)
  <2>1. Bridged!Total(items) \in Nat
    <3>1. [id |-> i, chars |-> 0] \in Quotes(ids)
      BY DEF Quotes
    <3> QED BY <1>1, <3>1, TotalOfAppended
  <2>2. left \in Nat /\ Bridged!Total(items) + left = EvidenceBudget
    BY <1>1, <2>1, BridgeAssumption
  <2>3. size \in Nat /\ size <= left
    <3> HIDE DEF left
    <3> QED BY <1>1, <2>2, BridgeAssumption DEF Bridged!Fewest
  <2>4. Bridged!Given(items, i) = Append(items, e)
    BY <1>3 DEF Bridged!Given
  <2> HIDE DEF size, left
  <2>5. e \in Quotes(ids) /\ e.chars = size
    BY <2>3 DEF Quotes
  <2> HIDE DEF e
  <2>6. Append(items, e) \in Seq(Quotes(ids))
    BY <1>1, <2>5
  <2>7. Bridged!Total(Append(items, e)) = Bridged!Total(items) + size
    BY <1>1, <2>5, TotalOfAppended
  <2>8. left \in Nat /\ Bridged!Total(Append(items, e)) <= EvidenceBudget
    BY <2>1, <2>2, <2>3, <2>7, BridgeAssumption
  <2> QED BY <2>4, <2>6, <2>8 DEF Bounded
<1> QED BY <1>2, <1>3

LEMMA EvidenceIs ==
    ASSUME NEW ids \in SUBSET SaidIds, NEW order \in Seq(ids)
    PROVE  Bridged!EvidenceOf(order) \in Bounded(ids)
<1> DEFINE N == Len(order)
           S == Bounded(ids)
           step == [n \in 1..N |-> [x \in S |-> Bridged!Given(x, order[n])]]
           given[n \in 0..N] == IF n = 0 THEN <<>> ELSE Bridged!Given(given[n - 1], order[n])
<1>1. N \in Nat /\ \A n \in 1..N : order[n] \in ids
  OBVIOUS
<1>2. <<>> \in S
  BY TotalOfNothing, BridgeAssumption DEF Bounded
<1>3. Bridged!EvidenceOf(order) = given[N]
  BY DEF Bridged!EvidenceOf
<1> HIDE DEF S, N
<1>4. ASSUME NEW n \in 1..N, NEW x \in S PROVE Bridged!Given(x, order[n]) \in S
  <2>1. order[n] \in ids
    BY <1>1
  <2> QED BY <2>1, GivenIs DEF S
<1>5. step \in [1..N -> [S -> S]]
  BY <1>4
<1>6. PICK f : Recursive(f, N, S, <<>>, step)
  <2> HIDE DEF step
  <2> QED BY <1>1, <1>2, <1>5, Recursion
<1>7. /\ f \in [0..N -> S] /\ f[0] = <<>>
      /\ \A n \in 1..N : f[n] = Bridged!Given(f[n - 1], order[n])
  <2>1. \A n \in 1..N : n - 1 \in 0..N
    BY <1>1
  <2>2. \A n \in 1..N : f[n - 1] \in S
    BY <1>6, <2>1 DEF Recursive
  <2> QED BY <1>6, <2>2 DEF Recursive
<1> HIDE DEF step
<1>8. given = [n \in 0..N |-> IF n = 0 THEN <<>> ELSE Bridged!Given(given[n - 1], order[n])]
  <2> DEFINE whole == [n \in 0..N |-> IF n = 0 THEN <<>> ELSE Bridged!Given(f[n - 1], order[n])]
  <2>1. \A n \in 0..N : whole[n] = f[n]
    <3>1. \A n \in 0..N : n = 0 \/ n \in 1..N
      BY <1>1
    <3> QED BY <1>7, <3>1
  <2>2. f = whole
    <3>1. f = [n \in 0..N |-> f[n]]
      BY <1>7
    <3> QED BY <2>1, <3>1
  <2>3. f = [n \in 0..N |-> IF n = 0 THEN <<>> ELSE Bridged!Given(f[n - 1], order[n])]
    BY <2>2
  <2> QED BY <2>3
<1> HIDE DEF given
<1>9. ASSUME NEW n \in 0..N PROVE given[n] = IF n = 0 THEN <<>> ELSE Bridged!Given(given[n - 1], order[n])
  BY <1>8, Zenon
<1>10. \A n \in 0..N : given[n] \in S
  <2> DEFINE good == {n \in 0..N : given[n] \in S}
  <2>1. 0 \in good
    BY <1>1, <1>2, <1>9
  <2>2. ASSUME NEW n \in 1..N, n - 1 \in good PROVE n \in good
    <3>1. n \in 0..N /\ n # 0
      BY <1>1
    <3>2. given[n] = Bridged!Given(given[n - 1], order[n])
      BY <1>9, <3>1
    <3> QED BY <1>4, <2>2, <3>1, <3>2
  <2> HIDE DEF good
  <2>3. \A n \in 0..N : n \in good
    BY <1>1, <2>1, <2>2, UpTo
  <2> QED BY <2>3 DEF good
<1>11. N \in 0..N
  BY <1>1
<1> QED BY <1>3, <1>10, <1>11 DEF S

(* Before there is an answer nothing is given, and nothing matches before    *)
(* the turns of what was found are looked up.                                *)
BridgeInv ==
    /\ candidates \subseteq SaidIds /\ matched \subseteq SaidIds /\ hits \subseteq SaidIds
    /\ members \in [DOMAIN BridgeTopics -> SUBSET SaidIds]
    /\ bridge \in {"idle", "recalling", "reading", "expanding", "given", "failed"}
    /\ bridge \in {"idle", "recalling", "reading", "expanding"} => evidence = <<>>
    /\ bridge \in {"idle", "recalling", "expanding"} => matched = {}
    /\ Bridged!MatchesComeFirst

LEMMA BridgeInit == Bridged!Init => BridgeInv
<1> SUFFICES ASSUME Bridged!Init PROVE BridgeInv
  OBVIOUS
<1>1. /\ members \in [DOMAIN BridgeTopics -> SUBSET SaidIds] /\ bridge = "idle" /\ evidence = <<>>
      /\ hits = {} /\ candidates = {} /\ matched = {}
  BY SaidIs DEF Bridged!Init
<1> QED BY <1>1 DEF BridgeInv, Bridged!MatchesComeFirst

LEMMA FirstIs == \A n, ids : Bridged!First(n, ids) \subseteq ids
BY DEF Bridged!First

LEMMA TopicIdsAre ==
    ASSUME BridgeInv, NEW t \in DOMAIN BridgeTopics, NEW limit PROVE Bridged!TopicIds(t, limit) \subseteq SaidIds
<1>1. members[t] \subseteq SaidIds
  BY DEF BridgeInv
<1> QED BY <1>1, FirstIs DEF Bridged!TopicIds

(* A message that matched outweighs every message that did not.              *)
LEMMA WeightIs ==
    \A read, i : /\ Bridged!Weight(i, read) \in Nat
                 /\ i \in matched => Bridged!Weight(i, read) >= 120
                 /\ i \notin matched => Bridged!Weight(i, read) <= 42
<1> TAKE read, i
<1> DEFINE edge == Bridged!Cardinality({j \in read : j < i}) < 2
                   \/ Bridged!Cardinality({j \in read : j < i}) + 4 >= Bridged!Cardinality(read)
<1>1. Bridged!Weight(i, read) = (IF i \in matched THEN 100 ELSE 0) + (IF BridgeSaid[i].user THEN 30 ELSE 20)
            + (IF edge THEN 12 ELSE 0)
  BY DEF Bridged!Weight
<1> HIDE DEF edge
<1> QED BY <1>1

LEMMA SelectionIs ==
    ASSUME NEW read \in SUBSET SaidIds
    PROVE  /\ Bridged!Selection(read) \subseteq read
           /\ Bridged!Selection(read) \subseteq matched \/ read \cap matched \subseteq Bridged!Selection(read)
<1> DEFINE better(i) == {j \in read : \/ Bridged!Weight(j, read) > Bridged!Weight(i, read)
                                      \/ Bridged!Weight(j, read) = Bridged!Weight(i, read) /\ j < i}
<1>1. \A i : i \in Bridged!Selection(read) <=> i \in read /\ Bridged!Cardinality(better(i)) < EvidenceLimit
  BY DEF Bridged!Selection
<1>2. \A i : better(i) \in SUBSET read
  OBVIOUS
<1>3. \A i : /\ IsFiniteSet(better(i)) /\ Cardinality(better(i)) \in Nat
             /\ Bridged!Cardinality(better(i)) = Cardinality(better(i))
  <2> TAKE i
  <2> HIDE DEF better
  <2>1. IsFiniteSet(better(i))
    BY <1>2, SaidIs, FS_Subset
  <2> QED BY <2>1, FS_CardinalityType DEF Bridged!Cardinality, Cardinality
<1>4. ASSUME NEW i \in Bridged!Selection(read), i \notin matched, NEW j \in read \cap matched
      PROVE  j \in Bridged!Selection(read)
  <2>1. better(j) \in SUBSET better(i)
    <3> SUFFICES ASSUME NEW k \in better(j) PROVE k \in better(i)
      OBVIOUS
    <3>1. k \in read /\ Bridged!Weight(k, read) >= Bridged!Weight(j, read)
      BY WeightIs
    <3>2. Bridged!Weight(k, read) > Bridged!Weight(i, read)
      BY <1>4, <3>1, WeightIs
    <3> QED BY <3>1, <3>2
  <2> HIDE DEF better
  <2>2. Cardinality(better(j)) <= Cardinality(better(i))
    BY <1>3, <2>1, FS_Subset
  <2>3. Cardinality(better(i)) < EvidenceLimit
    BY <1>1, <1>3, <1>4
  <2>4. Cardinality(better(j)) < EvidenceLimit
    BY <1>3, <2>2, <2>3, BridgeAssumption
  <2> QED BY <1>1, <1>3, <1>4, <2>4
<1> QED BY <1>1, <1>4

LEMMA OrderIs ==
    ASSUME NEW ids \in SUBSET SaidIds, NEW order \in Bridged!InOrder(ids)
    PROVE  order \in Seq(ids)
<1>1. /\ order \in [1..Bridged!Cardinality(ids) -> ids]
      /\ Bridged!Cardinality(ids) = Cardinality(ids)
  BY DEF Bridged!InOrder, Bridged!Cardinality, Cardinality
<1>2. Cardinality(ids) \in Nat
  BY SaidIs, FS_Subset, FS_CardinalityType
<1> QED BY <1>1, <1>2, SeqDef

(* What is read is given within the budget, and what matched comes first.    *)
LEMMA MessagesRead ==
    ASSUME BridgeInv, Bridged!ReadMessages
    PROVE  /\ BridgeInv'
           /\ \A e \in Bridged!ToSet(evidence') : e.id \notin retracted
<1> DEFINE read == Bridged!Active(candidates)
<1>1. /\ bridge = "reading" /\ selected' = Bridged!Selection(read)
      /\ bridge' \in {"given", "failed"}
      /\ UNCHANGED <<members, retracted, hits, candidates, matched>>
  BY DEF Bridged!ReadMessages, Bridged!Answer
<1>2. read \in SUBSET SaidIds /\ read \cap retracted = {}
  BY DEF BridgeInv, Bridged!Active
<1>3. PICK ids : ids = Bridged!Selection(read)
  OBVIOUS
<1> HIDE DEF read
<1>4. /\ ids \in SUBSET read /\ ids \in SUBSET SaidIds
      /\ ids \subseteq matched \/ read \cap matched \subseteq ids
  BY <1>2, <1>3, SelectionIs
<1>5. PICK order \in Bridged!InOrder(ids) : evidence' = Bridged!EvidenceOf(order)
  BY <1>1, <1>3 DEF Bridged!ReadMessages, read
<1>6. order \in Seq(ids)
  BY <1>4, OrderIs
<1>7. evidence' \in Bounded(ids)
  BY <1>4, <1>5, <1>6, EvidenceIs
<1>8. Bridged!Total(evidence)' <= EvidenceBudget
  BY <1>7 DEF Bounded, Bridged!Total
<1>9. \A e \in Bridged!ToSet(evidence') : e.id \notin retracted
  <2>1. evidence' \in Seq(Quotes(ids))
    BY <1>7 DEF Bounded
  <2>2. \A i \in DOMAIN evidence' : evidence'[i].id \in ids
    <3>1. \A i \in DOMAIN evidence' : evidence'[i] \in Quotes(ids)
      BY <2>1
    <3> QED BY <3>1 DEF Quotes
  <2> QED BY <1>2, <1>4, <2>2 DEF Bridged!ToSet
<1>10. Bridged!MatchesComeFirst'
  <2>1. selected' \subseteq matched' \/ Bridged!Active(candidates)' \cap matched' \subseteq selected'
    BY <1>1, <1>3, <1>4 DEF read, Bridged!Active
  <2> QED BY <1>8, <2>1 DEF Bridged!MatchesComeFirst
<1> QED BY <1>1, <1>9, <1>10 DEF BridgeInv

LEMMA ExpansionRead ==
    ASSUME BridgeInv, Bridged!ReadExpansion
    PROVE  /\ BridgeInv'
           /\ \A e \in Bridged!ToSet(evidence') : e.id \notin retracted
<1>1. /\ bridge = "expanding" /\ selected' = Bridged!Active(candidates)
      /\ bridge' \in {"given", "failed"}
      /\ UNCHANGED <<members, retracted, hits, candidates, matched>>
  BY DEF Bridged!ReadExpansion, Bridged!Answer
<1>2. PICK ids : ids = Bridged!Active(candidates)
  OBVIOUS
<1>3. ids \in SUBSET SaidIds /\ ids \cap retracted = {}
  BY <1>2 DEF BridgeInv, Bridged!Active
<1>4. PICK order \in Bridged!InOrder(ids) :
        evidence' = [i \in DOMAIN order |-> [id |-> order[i], chars |-> BridgeSaid[order[i]].chars]]
  BY <1>1, <1>2 DEF Bridged!ReadExpansion
<1>5. order \in Seq(ids)
  BY <1>3, OrderIs
<1>6. \A e \in Bridged!ToSet(evidence') : e.id \notin retracted
  <2>1. \A i \in DOMAIN evidence' : i \in DOMAIN order /\ evidence'[i].id = order[i]
    BY <1>4
  <2>2. \A i \in DOMAIN order : order[i] \in ids
    BY <1>5
  <2> QED BY <1>3, <2>1, <2>2 DEF Bridged!ToSet
<1>7. matched' = {}
  BY <1>1 DEF BridgeInv
<1> QED BY <1>1, <1>6, <1>7 DEF BridgeInv, Bridged!MatchesComeFirst

LEMMA BridgeStep ==
    ASSUME BridgeInv, [Bridged!Next]_bridgeVars
    PROVE  /\ BridgeInv'
           /\ \A e \in Bridged!ToSet(evidence') \ Bridged!ToSet(evidence) : e.id \notin retracted
<1> USE DEF Bridged!recallState
<1>1. CASE UNCHANGED bridgeVars
  BY <1>1 DEF BridgeInv, bridgeVars, Bridged!MatchesComeFirst, Bridged!Active, Bridged!Total, Bridged!ToSet
<1>2. ASSUME NEW t \in DOMAIN BridgeTopics, NEW m \in Bridged!Ids, Bridged!Attach(t, m)
      PROVE  BridgeInv' /\ evidence' = evidence
  <2>1. /\ members' = [members EXCEPT ![t] = @ \cup {m}] /\ m \in SaidIds
        /\ UNCHANGED <<retracted, bridge, hits, candidates, matched, selected, evidence>>
    BY <1>2, SaidIs DEF Bridged!Attach
  <2>2. members' \in [DOMAIN BridgeTopics -> SUBSET SaidIds]
    BY <1>2, <2>1 DEF BridgeInv
  <2>3. Bridged!MatchesComeFirst'
    BY <2>1 DEF BridgeInv, Bridged!MatchesComeFirst, Bridged!Active, Bridged!Total
  <2> QED BY <2>1, <2>2, <2>3 DEF BridgeInv
<1>3. ASSUME NEW m \in Bridged!Ids, Bridged!Retract(m)
      PROVE  BridgeInv' /\ evidence' = evidence
  <2>1. /\ retracted \subseteq retracted'
        /\ UNCHANGED <<members, bridge, hits, candidates, matched, selected, evidence>>
    BY <1>3 DEF Bridged!Retract
  <2>2. Bridged!MatchesComeFirst'
    BY <2>1 DEF BridgeInv, Bridged!MatchesComeFirst, Bridged!Active, Bridged!Total
  <2> QED BY <2>1, <2>2 DEF BridgeInv
<1>4. CASE Bridged!Recall
  <2>1. /\ bridge = "idle" /\ bridge' = "recalling"
        /\ UNCHANGED <<members, retracted, candidates, matched, selected, evidence>>
    BY <1>4 DEF Bridged!Recall
  <2>2. hits' \subseteq SaidIds
    <3>1. PICK any \in SUBSET Bridged!Ids : \E all \in SUBSET any : hits' = Bridged!Hits(all, any)
      BY <1>4 DEF Bridged!Recall
    <3>2. PICK all \in SUBSET any : hits' = Bridged!Hits(all, any)
      BY <3>1
    <3> QED BY <3>1, <3>2, FirstIs, SaidIs DEF Bridged!Hits
  <2> QED BY <2>1, <2>2 DEF BridgeInv, Bridged!MatchesComeFirst
<1>5. ASSUME NEW t \in DOMAIN BridgeTopics, Bridged!ReadTopic(t)
      PROVE  BridgeInv' /\ evidence' = evidence
  <2>1. /\ bridge = "recalling" /\ candidates' = candidates \cup Bridged!TopicIds(t, EvidenceLimit)
        /\ UNCHANGED <<members, retracted, bridge, hits, matched, selected, evidence>>
    BY <1>5 DEF Bridged!ReadTopic
  <2>2. candidates' \subseteq SaidIds
    BY <2>1, TopicIdsAre DEF BridgeInv
  <2> QED BY <2>1, <2>2 DEF BridgeInv, Bridged!MatchesComeFirst
<1>6. CASE Bridged!MatchTurns
  <2>1. /\ bridge = "recalling" /\ bridge' = "reading"
        /\ matched' = hits \/ matched' = Bridged!Turns(hits)
        /\ candidates' = candidates \cup matched'
        /\ UNCHANGED <<members, retracted, hits, selected, evidence>>
    BY <1>6 DEF Bridged!MatchTurns
  <2>2. matched' \subseteq SaidIds /\ candidates' \subseteq SaidIds
    BY <2>1, SaidIs DEF BridgeInv, Bridged!Turns
  <2> QED BY <2>1, <2>2 DEF BridgeInv, Bridged!MatchesComeFirst
<1>7. CASE Bridged!TooManyMessages
  BY <1>7 DEF Bridged!TooManyMessages, BridgeInv, Bridged!MatchesComeFirst
<1>8. ASSUME NEW t \in DOMAIN BridgeTopics, Bridged!Expand(t)
      PROVE  BridgeInv' /\ evidence' = evidence
  <2>1. /\ bridge = "idle" /\ bridge' = "expanding"
        /\ candidates' = Bridged!First(ExpandLimit, Bridged!TopicIds(t, ExpandLimit + 1))
        /\ UNCHANGED <<members, retracted, hits, matched, selected, evidence>>
    BY <1>8 DEF Bridged!Expand
  <2>2. candidates' \subseteq SaidIds
    BY <2>1, FirstIs, TopicIdsAre
  <2> QED BY <2>1, <2>2 DEF BridgeInv, Bridged!MatchesComeFirst
<1>9. CASE Bridged!Packet
  <2>1. /\ bridge = "idle" /\ bridge' = "given"
        /\ UNCHANGED <<members, retracted, candidates, matched, selected, evidence>>
    BY <1>9 DEF Bridged!Packet
  <2>2. hits' \subseteq SaidIds
    <3>1. PICK any \in SUBSET Bridged!Ids : hits' = Bridged!First(PageLimit, any)
      BY <1>9 DEF Bridged!Packet
    <3> QED BY <3>1, FirstIs, SaidIs
  <2> QED BY <2>1, <2>2 DEF BridgeInv, Bridged!MatchesComeFirst
<1>10. evidence' = evidence => \A e \in Bridged!ToSet(evidence') \ Bridged!ToSet(evidence) : e.id \notin retracted
  OBVIOUS
<1>11. CASE Bridged!Recall \/ Bridged!MatchTurns \/ Bridged!TooManyMessages \/ Bridged!Packet
  <2>1. evidence' = evidence
    BY <1>11 DEF Bridged!Recall, Bridged!MatchTurns, Bridged!TooManyMessages, Bridged!Packet
  <2> QED BY <1>4, <1>6, <1>7, <1>9, <1>10, <1>11, <2>1
<1>12. CASE Bridged!ReadMessages \/ Bridged!ReadExpansion
  BY <1>12, MessagesRead, ExpansionRead
<1> QED BY <1>1, <1>2, <1>3, <1>5, <1>8, <1>10, <1>11, <1>12 DEF Bridged!Next

-----------------------------------------------------------------------------
(* What a recall leaves out as covered is covered by a Page it gives, and a  *)
(* lineage it calls complete is; of the bridge's evidence, what matched is   *)
(* crowded out by nothing, all fits the budget, and nothing was retracted    *)
(* when it was read (recall_selection.rs, recall_sources.rs,                 *)
(* bridge/recall.rs).                                                        *)
THEOREM RecallsAreAccountable == Spec => RecallIsAccountable
<1> DEFINE Inv == RecallInv /\ BridgeInv
           Added == \A e \in Bridged!ToSet(evidence') \ Bridged!ToSet(evidence) : e.id \notin retracted
<1>1. Init => Inv
  BY RecallInit, BridgeInit DEF Init
<1>2. ASSUME Inv, [Next]_memoryVars
      PROVE  Inv' /\ [Added]_(Bridged!bridgeVars)
  <2>1. [Foreground!Next]_recallVars
    BY <1>2 DEF Next, memoryVars, recallVars
  <2>2. [Bridged!Next]_bridgeVars
    BY <1>2 DEF Next, memoryVars, bridgeVars
  <2> HIDE DEF Added
  <2>3. Added
    BY <1>2, <2>2, BridgeStep DEF Added
  <2> QED BY <1>2, <2>1, <2>2, <2>3, RecallStep, BridgeStep
<1>3. Inv => Foreground!OmittedIsCovered /\ Foreground!LineageIsComplete /\ Bridged!MatchesComeFirst
  BY RecallGives, RecallTraces DEF BridgeInv
<1>4. Spec => [](Foreground!OmittedIsCovered /\ Foreground!LineageIsComplete /\ Bridged!MatchesComeFirst)
  <2> HIDE DEF Inv, Added
  <2> QED BY <1>1, <1>2, <1>3, PTL DEF Spec
<1>5. Spec => Bridged!RetractedIsNoEvidence
  <2>1. Spec => [][Added]_(Bridged!bridgeVars)
    <3> HIDE DEF Inv, Added
    <3> QED BY <1>1, <1>2, PTL DEF Spec
  <2> QED BY <2>1 DEF Bridged!RetractedIsNoEvidence
<1> QED BY <1>4, <1>5 DEF RecallIsAccountable
=============================================================================
