------------------------------- MODULE PcpRepair --------------------------------
(***************************************************************************)
(* The repair of Pages written from the transcript                         *)
(* (src/src/pcp_repair.rs): a preview reviews Pages with a model and keeps *)
(* its proposals in a ledger, an apply writes them as new Revisions.  Each *)
(* run may fail anywhere and is started again; conversation, retraction    *)
(* and other writers of the Pages go on beside it.                         *)
(***************************************************************************)
EXTENDS Naturals, Sequences, FiniteSets, SequencesExt

CONSTANTS
    Tasks,            \* "content", "language"
    Oldest,           \* the Pages, in the order of the inventory
    Cited,            \* the message each one was written from
    Messages,         \* 1 .. n, in the order of the conversation
    BatchSize,        \* REVIEW_BATCH_SIZE
    MaxPages,         \* max_pages_per_run
    MaxRevisions, MaxRepairFaults      \* bounds

VARIABLES
    history,          \* the Revisions of each Page
    spoken,           \* the messages that are still active
    repairLedger,     \* the ledger of each task, on disk
    repairRun,        \* the run
    repairFaults

repairVars == <<history, spoken, repairLedger, repairRun, repairFaults>>

Pages == ToSet(Oldest)
None == [at |-> "none"]
Contents == {"english", "chinese"}

Init ==
    /\ history = [p \in Pages |-> <<[content |-> "english", from |-> Cited[p], by |-> "other"]>>]
    /\ spoken = Messages
    /\ repairLedger = [t \in Tasks |-> <<>>]
    /\ repairRun = None /\ repairFaults = 0

Current(p) == Last(history[p])
RevisionOf(p) == Len(history[p])

\* The positions, from the first to the last, and as many of them as a run takes.
InOrder(positions) ==
    {f \in [1 .. Cardinality(positions) -> positions] : \A i, j \in DOMAIN f : i < j => f[i] < f[j]}
Taken(left) == 1 .. (IF Len(left) < MaxPages THEN Len(left) ELSE MaxPages)

-----------------------------------------------------------------------------
\* Preview.

\* resolve_source, with a message before it and one after
Near(m) == {n \in spoken : n \in {m - 1, m, m + 1}}
Resolved(p) == UNION {Near(m) : m \in Current(p).from \cap spoken}

\* is_chinese_language_repair_candidate: the messages here are Chinese, so those of the Page that are
\* still there tell it.
Concerns(t, p) ==
    /\ Resolved(p) # {} /\ RevisionOf(p) <= MaxRevisions      \* bound
    /\ t = "language" => Current(p).content = "english"

\* inventory_candidates
Candidate(p) ==
    [page |-> p, expected |-> RevisionOf(p), content |-> Current(p).content,
     direct |-> Current(p).from, allowed |-> Resolved(p)]

\* Mutant of Known: what a repair wrote is a Revision like any other.
KnownAsReviewed(t) == {<<e.page, e.expected>> : e \in ToSet(repairLedger[t])}

\* The Revisions that were reviewed, and those the repair wrote.
Known(t) ==
    {<<e.page, e.expected>> : e \in ToSet(repairLedger[t])}
    \cup {<<e.page, e.applied>> : e \in {f \in ToSet(repairLedger[t]) : f.applied # 0}}

StartPreview(t) ==
    /\ repairRun = None
    /\ \E left \in InOrder({k \in DOMAIN Oldest : Concerns(t, Oldest[k])
                                /\ <<Oldest[k], RevisionOf(Oldest[k])>> \notin Known(t)}) :
           /\ left # <<>>
           /\ repairRun' = [at |-> "preview", task |-> t, left |-> [i \in Taken(left) |-> Candidate(Oldest[left[i]])]]
    /\ UNCHANGED <<history, spoken, repairLedger, repairFaults>>

\* Mutant of Sources: a language repair cites what it was shown.
SourcesShown(t, c) == (SUBSET c.allowed) \ {{}}

\* validate_proposals: the sources a proposal may cite, ...
Sources(t, c) ==
    {s \in (SUBSET c.allowed) \ {{}} : t = "language" => s = c.direct}

\* ... and what it may do.  What is escalated is reviewed once more, and then it may not be.
Proposable(t, c) ==
    [page : {c.page}, expected : {c.expected}, action : {"revise"}, sources : Sources(t, c), applied : {0},
     note : {"none"}, content : IF t = "language" THEN {"chinese"} ELSE Contents \ {c.content}]
    \cup [page : {c.page}, expected : {c.expected}, action : IF t = "language" THEN {} ELSE {"keep"},
          sources : Sources(t, c), applied : {0}, note : {"none"}, content : {c.content}]

\* review_with_escalation: a proposal for each candidate of a batch
Reviewed(t, batch) ==
    {f \in [DOMAIN batch -> UNION {Proposable(t, batch[i]) : i \in DOMAIN batch}] :
        \A i \in DOMAIN batch : f[i] \in Proposable(t, batch[i])}

\* A batch is asked for twice at most.  It is reviewed as a whole and saved, ...
Chunk == IF Len(repairRun.left) < BatchSize THEN Len(repairRun.left) ELSE BatchSize
Review ==
    /\ repairRun.at = "preview"
    /\ \E proposed \in Reviewed(repairRun.task, SubSeq(repairRun.left, 1, Chunk)) :
           repairLedger' = [repairLedger EXCEPT ![repairRun.task] = @ \o proposed]
    /\ repairRun' = IF Chunk = Len(repairRun.left) THEN None
                    ELSE [repairRun EXCEPT !.left = SubSeq(@, Chunk + 1, Len(@))]
    /\ UNCHANGED <<history, spoken, repairFaults>>

\* ... or the run ends.
Unreviewable(t, c) == Proposable(t, c) = {}
ReviewFails ==
    /\ repairRun.at = "preview" /\ \E i \in 1 .. Chunk : Unreviewable(repairRun.task, repairRun.left[i])
    /\ repairRun' = None
    /\ UNCHANGED <<history, spoken, repairLedger, repairFaults>>

-----------------------------------------------------------------------------
\* Apply.

Waits(e) == e.action = "revise" /\ e.applied = 0 /\ e.note = "none"

StartApply(t) ==
    /\ repairRun = None
    /\ \E all \in InOrder({i \in DOMAIN repairLedger[t] : Waits(repairLedger[t][i])}) :
           /\ all # <<>>
           /\ repairRun' = [at |-> "apply", task |-> t, left |-> [i \in Taken(all) |-> all[i]]]
    /\ UNCHANGED <<history, spoken, repairLedger, repairFaults>>

Entry == repairLedger[repairRun.task][Head(repairRun.left)]
Noted(applied, note) ==
    repairLedger' = [repairLedger EXCEPT ![repairRun.task][Head(repairRun.left)] =
                         [@ EXCEPT !.applied = applied, !.note = note]]
Advanced ==
    repairRun' = IF Len(repairRun.left) = 1 THEN None
                 ELSE [at |-> "apply", task |-> repairRun.task, left |-> Tail(repairRun.left)]

\* Mutant of Fresh: the Revision was looked at when it was reviewed.
FreshOnce(e) == TRUE

\* current_revision_id
Fresh(e) == RevisionOf(e.page) = e.expected

SkipStale ==
    /\ repairRun.at = "apply" /\ ~Fresh(Entry)
    /\ Noted(0, "stale") /\ Advanced
    /\ UNCHANGED <<history, spoken, repairFaults>>

\* validate_active_sources
SourcesActive(e) == e.sources \subseteq spoken

\* The run ends at an entry with a source that is gone.
Refuse ==
    /\ repairRun.at = "apply" /\ Fresh(Entry) /\ ~SourcesActive(Entry)
    /\ repairRun' = None
    /\ UNCHANGED <<history, spoken, repairLedger, repairFaults>>

Check ==
    /\ repairRun.at = "apply" /\ Fresh(Entry) /\ SourcesActive(Entry)
    /\ repairRun' = [repairRun EXCEPT !.at = "checked"]
    /\ UNCHANGED <<history, spoken, repairLedger, repairFaults>>

\* repair_page: the Store checks the Revision once more, and the run ends when it is another.
Repair ==
    /\ repairRun.at = "checked"
    /\ IF RevisionOf(Entry.page) = Entry.expected
       THEN /\ history' = [history EXCEPT ![Entry.page] =
                               Append(@, [content |-> Entry.content, from |-> Entry.sources, by |-> repairRun.task])]
            /\ repairRun' = [repairRun EXCEPT !.at = "repaired"]
       ELSE /\ repairRun' = None /\ UNCHANGED history
    /\ UNCHANGED <<spoken, repairLedger, repairFaults>>

\* save_ledger
NoteApplied ==
    /\ repairRun.at = "repaired"
    /\ Noted(Entry.expected + 1, "applied") /\ Advanced
    /\ UNCHANGED <<history, spoken, repairFaults>>

-----------------------------------------------------------------------------
\* Beside it.

\* Another writer makes a Revision of the same sources.
Edit(p, content) ==
    /\ RevisionOf(p) <= MaxRevisions
    /\ history' = [history EXCEPT ![p] = Append(@, [content |-> content, from |-> Current(p).from, by |-> "other"])]
    /\ UNCHANGED <<spoken, repairLedger, repairRun, repairFaults>>

Retract(m) ==
    /\ m \in spoken /\ spoken' = spoken \ {m}
    /\ UNCHANGED <<history, repairLedger, repairRun, repairFaults>>

\* The process ends, or a call of the run fails.
Stop ==
    /\ repairRun # None /\ repairFaults < MaxRepairFaults
    /\ repairRun' = None /\ repairFaults' = repairFaults + 1
    /\ UNCHANGED <<history, spoken, repairLedger>>

Next ==
    \/ \E t \in Tasks : StartPreview(t) \/ StartApply(t)
    \/ Review \/ ReviewFails \/ SkipStale \/ Refuse \/ Check \/ Repair \/ NoteApplied
    \/ \E p \in Pages : Edit(p, "english")
    \/ \E m \in Messages : Retract(m)
    \/ Stop

Spec == Init /\ [][Next]_repairVars

-----------------------------------------------------------------------------
\* A Revision is reviewed once for each task, however the runs end, and what a repair wrote, as far as its
\* ledger knows, is not repaired again by it.
ReviewedOnce ==
    \A t \in Tasks : \A i, j \in DOMAIN repairLedger[t] :
        LET e == repairLedger[t][i]  f == repairLedger[t][j]
        IN  e.page = f.page /\ i # j => e.expected # f.expected /\ e.applied # f.expected

\* A language repair leaves a Page with the sources it had in the Revision it replaced, though Revisions
\* with other sources come between review and repair.
LanguageKeepsSources ==
    \A p \in Pages : \A i \in DOMAIN history[p] :
        history[p][i].by = "language" => history[p][i].from = history[p][i - 1].from

\* No run ends at an entry because its Revision is not the current one: that is what stale is noted for,
\* unless the Page is written while it is repaired.
StaleIsSkipped ==
    [][repairRun.at = "checked" /\ repairRun'.at = "none" /\ UNCHANGED repairFaults
           => \E i \in DOMAIN history[Entry.page] : i > Entry.expected /\ history[Entry.page][i].by # repairRun.task]_repairVars

\* Refuted by the code: what a repair wrote is noted as applied.  After a crash before save_ledger the next
\* run finds a Revision it did not expect, its own, notes the entry as stale, and never asks the Store again
\* with the key that would tell.
RepairsAreNoted ==
    \A t \in Tasks, p \in Pages : \A i \in DOMAIN repairLedger[t] :
        LET e == repairLedger[t][i]
        IN  e.note = "stale" /\ e.expected < RevisionOf(e.page) => history[e.page][e.expected + 1].by # t

\* Refuted by the code: every candidate has a proposal the checks accept.  A language repair must cite
\* exactly the sources of the Page, and may cite only those that are still there.
CandidatesAreReviewable ==
    repairRun.at = "preview" => \A i \in DOMAIN repairRun.left : ~Unreviewable(repairRun.task, repairRun.left[i])
=============================================================================
