------------------------------- MODULE Signals -------------------------------
(***************************************************************************)
(* The stream of published inputs (src/src/signals.rs, signals/dedup.rs)   *)
(* and the worker that disputes them (src/src/attacker.rs).  Publications, *)
(* dismissals and disputes change one document in memory and then write a  *)
(* copy of it, outside its lock, so that an older copy may be written last.*)
(* Each change, and each load, marks what was already delivered: of the    *)
(* cards that share a text, a source or all their sections only the first  *)
(* is shown, and of a card some of whose sections were delivered only the  *)
(* new ones.                                                               *)
(*                                                                         *)
(* Identities that are compared are model values; an epoch is one of the   *)
(* weeks that a dispute may not be repeated in.                            *)
(***************************************************************************)
EXTENDS Naturals, Sequences, FiniteSets, FiniteSetsExt, Functions

CONSTANTS
    Cards,          \* what may be published: [sources, text, sections]
    Issues,         \* the disputes the model may raise
    MaxReferences,  \* MAX_REFERENCES in the delivery history
    MaxBatch,       \* MAX_BATCH_SIZE of a review
    MaxTracked,     \* MAX_TRACKED_IDS the attacker remembers
    MaxStream, MaxWriters, MaxEpoch, MaxSignalFaults   \* bounds

VARIABLES
    stream,    \* SignalDocument: the events and the delivery history
    signalFile,
    writers,   \* persist(), by the calls that are in it
    reviewer,  \* AttackerDocument in memory
    reviewerFile,
    dispute,   \* run_once of the attacker
    behind,    \* the signals up to this one are behind the conversation
    epoch, signalFaults

attacker == <<reviewer, reviewerFile, dispute>>
signalVars == <<stream, signalFile, writers, attacker, behind, epoch, signalFaults>>

Calm == [at |-> "idle"]
Event == [kind |-> "input", sources |-> {}, text |-> "", sections |-> {}, shown |-> {}, hidden |-> FALSE,
          dismissed |-> FALSE, duplicate |-> 0, issue |-> "", epoch |-> 0, related |-> {}, cites |-> {}]
Empty == [events |-> <<>>, history |-> {}]

Init ==
    /\ stream = Empty /\ signalFile = Empty
    /\ writers = [w \in 1..MaxWriters |-> Calm]
    /\ reviewer = [initialized |-> FALSE, reviewed |-> {}, issues |-> {}] /\ reviewerFile = reviewer
    /\ dispute = Calm /\ behind = 0 /\ epoch = 1 /\ signalFaults = 0

Inputs(events) == {i \in DOMAIN events : events[i].kind = "input"}
Delivered(events, reps) == UNION {events[j].sections : j \in reps}

\* Mutants of Repeats: a dismissed card no longer stands for what it said; texts are not compared.
RepeatsShown(events, i, before) ==
    \E j \in before : ~events[j].dismissed
                      /\ (events[i].text = events[j].text \/ events[i].sources \cap events[j].sources # {})
RepeatsSources(events, i, before) ==
    \/ \E j \in before : events[i].sources \cap events[j].sources # {}
    \/ events[i].sections # {} /\ events[i].sections \subseteq Delivered(events, before)

\* mark_duplicate_deliveries: card i says again what the cards before it said.
Repeats(events, i, before) ==
    \/ \E j \in before : \/ events[i].text = events[j].text
                         \/ events[i].sources \cap events[j].sources # {}
    \/ events[i].sections # {} /\ events[i].sections \subseteq Delivered(events, before)

\* The first card of each delivery stands for it; a repeated card adds no identity.
Representatives(events) ==
    CHOOSE R \in SUBSET Inputs(events) :
        \A i \in Inputs(events) : i \in R <=> ~Repeats(events, i, {j \in R : j < i})

StandsFor(events, j, i) ==
    \/ events[i].text = events[j].text
    \/ events[i].sources \cap events[j].sources # {}
    \/ events[i].sections \cap events[j].sections # {}
RepresentativeOf(events, i) ==
    LET R == Representatives(events)
    IN IF i \in R THEN i ELSE Min({j \in R : j < i /\ StandsFor(events, j, i)})

MarkInput(events, i) ==
    LET R == Representatives(events)
        new == events[i].sections \ Delivered(events, {j \in R : j < i})
    IN IF i \in R
       THEN [events[i] EXCEPT !.duplicate = 0, !.hidden = events[i].dismissed,
                              !.shown = IF new \in {{}, events[i].sections} THEN @ ELSE new]
       ELSE [events[i] EXCEPT !.duplicate = RepresentativeOf(events, i), !.hidden = TRUE]

\* mark_duplicate_challenges: a dispute follows its card, or the repeated section it cites.
Route(events, c, i) ==
    LET R == Representatives(events)
        repeated == {j \in R : j < i /\ events[j].sections \cap events[i].sections \cap events[c].cites # {}}
    IN IF i \in R /\ repeated # {} THEN Min(repeated) ELSE RepresentativeOf(events, i)
Routed(events, c) == {Route(events, c, i) : i \in events[c].related}
MarkChallenge(events, c) ==
    LET earlier == {d \in DOMAIN events \ Inputs(events) : d < c /\ Routed(events, d) = Routed(events, c)}
    IN IF Routed(events, c) # events[c].related /\ earlier # {}
       THEN [events[c] EXCEPT !.duplicate = Min(earlier), !.hidden = TRUE]
       ELSE [events[c] EXCEPT !.duplicate = 0, !.hidden = events[c].dismissed]

\* dedup::remember comes before the marks: the newest references of what is no known repeat.
Remembered(document) ==
    LET all == document.history \cup {i \in Inputs(document.events) : document.events[i].duplicate = 0}
    IN {i \in all : Cardinality({j \in all : j >= i}) <= MaxReferences}

\* normalize_and_prune
Normalised(document) ==
    [events |-> [i \in DOMAIN document.events |->
                    IF document.events[i].kind = "input" THEN MarkInput(document.events, i)
                    ELSE MarkChallenge(document.events, i)],
     history |-> Remembered(document)]

\* The lock of the document is released before persist() copies it.
BeginWrite(for) ==
    \E w \in 1..MaxWriters : /\ writers[w] = Calm
                             /\ \A v \in 1..(w - 1) : writers[v] # Calm
                             /\ writers' = [writers EXCEPT ![w] = [at |-> "begun", for |-> for]]
Change(document, for) == stream' = document /\ BeginWrite(for)

\* publish_with_presentation: a known text, source or set of sections is refused.
Known(card, raw) ==
    \/ \E i \in Inputs(stream.events) : stream.events[i].sources \cap card.sources # {}
    \/ ~raw /\ \E i \in Inputs(stream.events) : stream.events[i].text = card.text
    \/ card.sections # {} /\ card.sections \subseteq UNION {stream.events[i].sections : i \in Inputs(stream.events)}

\* `raw': markup hides that the text is one already delivered until it is normalised.
Publish(card, raw) ==
    /\ Len(stream.events) < MaxStream /\ ~Known(card, raw)
    /\ Change(Normalised([stream EXCEPT !.events = Append(@,
                  [Event EXCEPT !.sources = card.sources, !.text = card.text,
                                !.sections = card.sections, !.shown = card.sections])]), "publish")
    /\ UNCHANGED <<signalFile, attacker, behind, epoch, signalFaults>>

Dismiss(i) ==
    /\ i \in DOMAIN stream.events /\ ~stream.events[i].hidden
    /\ Change([stream EXCEPT !.events[i] = [@ EXCEPT !.hidden = TRUE, !.dismissed = TRUE]], "dismiss")
    /\ UNCHANGED <<signalFile, attacker, behind, epoch, signalFaults>>

Copy(w) ==
    /\ writers[w].at = "begun"
    /\ writers' = [writers EXCEPT ![w] = [at |-> "copied", for |-> @.for, copy |-> stream]]
    /\ UNCHANGED <<stream, signalFile, attacker, behind, epoch, signalFaults>>

\* Copies are written in whatever order they reach the disk.
Write(w) ==
    /\ writers[w].at = "copied"
    /\ signalFile' = writers[w].copy /\ writers' = [writers EXCEPT ![w] = Calm]
    /\ UNCHANGED <<stream, attacker, behind, epoch, signalFaults>>

\* The error ends a review that was publishing.
WriteFails(w) ==
    /\ writers[w].at = "copied" /\ signalFaults < MaxSignalFaults /\ signalFaults' = signalFaults + 1
    /\ writers' = [writers EXCEPT ![w] = Calm]
    /\ dispute' = IF writers[w].for = "dispute" THEN Calm ELSE dispute
    /\ UNCHANGED <<stream, signalFile, reviewer, reviewerFile, behind, epoch>>

\* AttackerStore::persist follows the change of the memory and may fail.
SaveReviewer(document) ==
    /\ reviewer' = document
    /\ \/ reviewerFile' = document /\ UNCHANGED signalFaults
       \/ signalFaults < MaxSignalFaults /\ signalFaults' = signalFaults + 1 /\ UNCHANGED reviewerFile

\* attacker_inputs; the first run takes what is there as examined.
Candidates == {i \in Inputs(stream.events) : ~stream.events[i].hidden}
Tracked(ids) == {i \in ids : Cardinality({j \in ids : j >= i}) <= MaxTracked}
InitializeExisting ==
    /\ dispute = Calm /\ ~reviewer.initialized
    /\ SaveReviewer([reviewer EXCEPT !.initialized = TRUE, !.reviewed = Tracked(Candidates)])
    /\ UNCHANGED <<stream, signalFile, writers, dispute, behind, epoch>>

\* AttackerStore::pending: what shares a source with an earlier one, or is behind, is skipped.
Unreviewed == Candidates \ reviewer.reviewed
Skipped ==
    {i \in Unreviewed :
        \/ i <= behind
        \/ \E j \in Candidates : /\ j \in reviewer.reviewed \/ j < i
                                 /\ stream.events[i].sources \cap stream.events[j].sources # {}}
Batch == LET near == Unreviewed \ Skipped
         IN {i \in near : Cardinality({j \in near : j <= i}) <= MaxBatch}

Skip ==
    /\ dispute = Calm /\ reviewer.initialized /\ Skipped # {}
    /\ SaveReviewer([reviewer EXCEPT !.reviewed = Tracked(@ \cup Skipped)])
    /\ UNCHANGED <<stream, signalFile, writers, dispute, behind, epoch>>

Examine ==
    /\ dispute = Calm /\ reviewer.initialized /\ Skipped = {} /\ Batch # {}
    /\ dispute' = [at |-> "reviewing", batch |-> Batch, published |-> {}]
    /\ UNCHANGED <<stream, signalFile, writers, reviewer, reviewerFile, behind, epoch, signalFaults>>

\* New conversation input, or an error, leaves the batch to a later run.
Yield ==
    /\ dispute.at = "reviewing" /\ dispute' = Calm
    /\ UNCHANGED <<stream, signalFile, writers, reviewer, reviewerFile, behind, epoch, signalFaults>>

Silent ==
    /\ dispute.at = "reviewing" /\ dispute' = [dispute EXCEPT !.at = "settling"]
    /\ UNCHANGED <<stream, signalFile, writers, reviewer, reviewerFile, behind, epoch, signalFaults>>

InCooldown(issue) == \E e \in {epoch, epoch - 1} : [issue |-> issue, epoch |-> e] \in reviewer.issues

\* Mutant of Disputed: only the reviewer's own record is asked.
DisputedToMyKnowledge(issue) == FALSE

\* publish_attacker_challenge: the key and the week make the event's fingerprint.
Disputed(issue) ==
    \E c \in DOMAIN stream.events :
        stream.events[c].kind = "dispute" /\ stream.events[c].issue = issue /\ stream.events[c].epoch = epoch

Challenge(issue, related, cites) ==
    /\ dispute.at = "reviewing" /\ related # {} /\ related \subseteq dispute.batch
    /\ IF InCooldown(issue) \/ Disputed(issue)
       THEN dispute' = [dispute EXCEPT !.at = "settling"] /\ UNCHANGED <<stream, writers>>
       ELSE /\ Len(stream.events) < MaxStream
            /\ Change(Normalised([stream EXCEPT !.events = Append(@,
                          [Event EXCEPT !.kind = "dispute", !.issue = issue, !.epoch = epoch,
                                        !.related = related, !.cites = cites])]), "dispute")
            /\ dispute' = [dispute EXCEPT !.at = "settling", !.published = {[issue |-> issue, epoch |-> epoch]}]
    /\ UNCHANGED <<signalFile, reviewer, reviewerFile, behind, epoch, signalFaults>>

\* usage.record_all and AttackerStore::complete, once the stream is written
Complete ==
    /\ dispute.at = "settling" /\ \A w \in 1..MaxWriters : writers[w] # Calm => writers[w].for # "dispute"
    /\ dispute' = Calm
    /\ \/ SaveReviewer([reviewer EXCEPT !.reviewed = Tracked(@ \cup dispute.batch),
                                        !.issues = @ \cup dispute.published])
       \/ /\ signalFaults < MaxSignalFaults /\ signalFaults' = signalFaults + 1   \* record_all fails
          /\ UNCHANGED <<reviewer, reviewerFile>>
    /\ UNCHANGED <<stream, signalFile, writers, behind, epoch>>

ConversationMoves ==
    /\ behind < Len(stream.events) /\ behind' = Len(stream.events)
    /\ UNCHANGED <<stream, signalFile, writers, attacker, epoch, signalFaults>>

NextEpoch ==
    /\ epoch < MaxEpoch /\ epoch' = epoch + 1
    /\ UNCHANGED <<stream, signalFile, writers, attacker, behind, signalFaults>>

Restart ==
    /\ signalFaults < MaxSignalFaults /\ signalFaults' = signalFaults + 1
    /\ stream' = Normalised(signalFile) /\ signalFile' = stream'
    /\ writers' = [w \in 1..MaxWriters |-> Calm]
    /\ reviewer' = reviewerFile /\ dispute' = Calm
    /\ behind' = IF behind > Len(stream'.events) THEN Len(stream'.events) ELSE behind
    /\ UNCHANGED <<reviewerFile, epoch>>

Next ==
    \/ \E card \in Cards, raw \in BOOLEAN : Publish(card, raw)
    \/ \E i \in 1..MaxStream : Dismiss(i)
    \/ \E w \in 1..MaxWriters : Copy(w) \/ Write(w) \/ WriteFails(w)
    \/ InitializeExisting \/ Skip \/ Examine \/ Yield \/ Silent \/ Complete
    \/ \E issue \in Issues, related \in SUBSET (1..MaxStream), cites \in {card.sections : card \in Cards} :
           Challenge(issue, related, cites)
    \/ ConversationMoves \/ NextEpoch \/ Restart

Spec == Init /\ [][Next]_signalVars
-----------------------------------------------------------------------------
TypeOK ==
    /\ \A d \in {stream, signalFile} : /\ Len(d.events) <= MaxStream
                                       /\ d.history \subseteq DOMAIN d.events
                                       /\ \A i \in DOMAIN d.events : d.events[i].related \subseteq Inputs(d.events)
    /\ behind \in 0..MaxStream /\ epoch \in 1..MaxEpoch

Visible == {i \in Inputs(stream.events) : ~stream.events[i].hidden}

\* No two cards on display share a text, a source or a section, whatever was published,
\* dismissed or reloaded in between, and a card that was dismissed does not come back as
\* another card with its text or one of its sources (mark_duplicate_deliveries; dismiss).
ShownOnce ==
    \A i, j \in Visible : i # j =>
        /\ stream.events[i].text # stream.events[j].text
        /\ stream.events[i].sources \cap stream.events[j].sources = {}
        /\ stream.events[i].shown \cap stream.events[j].shown = {}
DismissedStaysAway ==
    \A i \in Inputs(stream.events), j \in Visible :
        stream.events[i].dismissed => /\ stream.events[i].text # stream.events[j].text
                                      /\ stream.events[i].sources \cap stream.events[j].sources = {}

\* A dispute is raised once in its week, even when a crash or an error kept the reviewer
\* from noting it (the coarse epoch of publish_attacker_challenge).
DisputedOnce ==
    \A c, d \in DOMAIN stream.events :
        /\ stream.events[c].kind = "dispute" /\ stream.events[d].kind = "dispute" /\ c # d
        => <<stream.events[c].issue, stream.events[c].epoch>> # <<stream.events[d].issue, stream.events[d].epoch>>

\* Refuted by the code: when nothing is being written and nothing failed, the file is what is in memory.  Copies
\* are made and written outside the lock, so that of two the older may land last.
FileIsCurrent ==
    (signalFaults = 0 /\ \A w \in 1..MaxWriters : writers[w] = Calm) => signalFile = stream
=============================================================================
