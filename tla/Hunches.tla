-------------------------------- MODULE Hunches --------------------------------
(***************************************************************************)
(* The questions Symbiont keeps open (src/src/curiosity.rs), the revisions *)
(* the local state store keeps of them (src/src/symbiont_state.rs), and    *)
(* those who write them: the tools of a run (codex/tools.rs), the pass     *)
(* that shows a question to the user (exploration.rs), the handler of the  *)
(* user's answer (web.rs) and the reflection that has to take the answer   *)
(* in (reflection/worker.rs).  Each reads a revision, checks its sources,  *)
(* and only then writes over the revision it read.                         *)
(***************************************************************************)
EXTENDS Naturals, FiniteSets

CONSTANTS
    Pages,
    MaxRevisions, MaxMessages, MaxHunchFaults   \* bounds: ids issued, messages shown, crashes

Writers == {"tool", "pass", "send"}
Attention == {"ready", "awaiting_user", "feedback_pending", "cooldown"}

VARIABLES
    documents,    \* state_context_documents: the current revision of each page
    history,      \* state_context_revision_history
    issued,       \* the last revision id
    writing,      \* what each writer is about to write, and over which revision
    codexRun,     \* the run whose tools may write: its origin, what it wrote, its batch
    shownIn,      \* surfaced_hunch_revision_ids of each published message
    marks,        \* the revisions the pass and the handler have yet to mark, and for which message
    feedback,     \* the pages of the feedback events no reflection has completed
    hunchFaults

hunchVars == <<documents, history, issued, writing, codexRun, shownIn, marks, feedback, hunchFaults>>

Absent == [id |-> 0]
Nothing == [base |-> 0]
NoRun == [origin |-> "none", wrote |-> {}, batch |-> {}]
NoMarks == [left |-> {}, pages |-> {}]

Revision(p, id, base, active, attention) ==
    [id |-> id, page |-> p, base |-> base, active |-> active, attention |-> attention]

Kept == {p \in Pages : documents[p] # Absent}
Current == {documents[p] : p \in Kept}

\* restore_legacy_archive: a snapshot from before may have brought a page.
Init ==
    /\ \E old \in {{}} \cup {{p} : p \in Pages} :
           documents = [p \in Pages |-> IF p \in old THEN Revision(p, 1, 0, TRUE, "ready") ELSE Absent]
    /\ history = {} /\ issued = 1
    /\ writing = [w \in Writers |-> Nothing] /\ codexRun = NoRun
    /\ shownIn = {} /\ marks = [w \in {"pass", "send"} |-> NoMarks]
    /\ feedback = {} /\ hunchFaults = 0

\* read_context_revision: the current revision or an archived one
Readable == Current \cup history

\* Mutant of Expected: the update names the document only.
ExpectedLoosely(w) == documents[writing[w].page] # Absent

\* The WHERE clause of revise_context_blocking.
Expected(w) == documents[writing[w].page].id = writing[w].base

\* Mutant of Archived: the old revision is kept nowhere.
ArchivedNowhere(w) == history

\* archive_current_context: the row it finds only if the expected revision is the current one
Archived(w) ==
    history \cup {d \in Current : d.page = writing[w].page /\ d.id = writing[w].base}

\* revise: the patch over the revision it names, the sources verified in between.
Reads(w, d, active, attention) ==
    /\ writing[w] = Nothing
    /\ writing' = [writing EXCEPT ![w] =
           [page |-> d.page, base |-> d.id, active |-> active, attention |-> attention]]

\* revise_context, under the store's mutation lock
Writes(w) ==
    /\ writing[w] # Nothing /\ Expected(w) /\ issued < MaxRevisions
    /\ issued' = issued + 1
    /\ history' = Archived(w)
    /\ documents' = [documents EXCEPT ![writing[w].page] =
           Revision(writing[w].page, issued', writing[w].base, writing[w].active, writing[w].attention)]
    /\ writing' = [writing EXCEPT ![w] = Nothing]

\* "local context revision changed before update"
Refused(w) ==
    /\ writing[w] # Nothing /\ ~Expected(w)
    /\ writing' = [writing EXCEPT ![w] = Nothing]
    /\ UNCHANGED <<documents, history, issued>>

-----------------------------------------------------------------------------
\* The tools of a run.

BeginRun(origin) ==
    /\ codexRun = NoRun
    /\ origin = "reflection" => feedback # {}
    /\ codexRun' = [origin |-> origin, wrote |-> {}, batch |-> IF origin = "reflection" THEN feedback ELSE {}]
    /\ UNCHANGED <<documents, history, issued, writing, shownIn, marks, feedback, hunchFaults>>

\* successful_hunch_revisions: of each page the last revision the run wrote
Wrote(p) == {d \in codexRun.wrote : d.page # p} \cup {[page |-> p, id |-> issued']}

OpenHunch(p) ==
    /\ codexRun # NoRun /\ writing["tool"] = Nothing
    /\ documents[p] = Absent /\ issued < MaxRevisions
    /\ issued' = issued + 1
    /\ documents' = [documents EXCEPT ![p] = Revision(p, issued', 0, TRUE, "ready")]
    /\ codexRun' = [codexRun EXCEPT !.wrote = Wrote(p)]
    /\ UNCHANGED <<history, writing, shownIn, marks, feedback, hunchFaults>>

\* The model names a revision it was shown, maybe an old one.
ReviseHunch(d) ==
    /\ codexRun # NoRun /\ d \in Readable
    /\ \E active \in {TRUE, d.active} :
           Reads("tool", d, active, IF codexRun.origin = "reflection" THEN "cooldown" ELSE d.attention)
    /\ UNCHANGED <<documents, history, issued, codexRun, shownIn, marks, feedback, hunchFaults>>

RetireHunch(d) ==
    /\ codexRun # NoRun /\ d \in Readable /\ Reads("tool", d, FALSE, d.attention)
    /\ UNCHANGED <<documents, history, issued, codexRun, shownIn, marks, feedback, hunchFaults>>

AcknowledgeHunchFeedback(d) ==
    /\ codexRun.origin = "reflection" /\ d \in Readable /\ Reads("tool", d, d.active, "cooldown")
    /\ UNCHANGED <<documents, history, issued, codexRun, shownIn, marks, feedback, hunchFaults>>

ToolWrites ==
    /\ Writes("tool")
    /\ codexRun' = [codexRun EXCEPT !.wrote = Wrote(writing["tool"].page)]
    /\ UNCHANGED <<shownIn, marks, feedback, hunchFaults>>

ToolRefused == Refused("tool") /\ UNCHANGED <<codexRun, shownIn, marks, feedback, hunchFaults>>

RunEnds ==
    /\ codexRun # NoRun /\ codexRun.origin # "reflection" /\ writing["tool"] = Nothing
    /\ codexRun' = NoRun
    /\ UNCHANGED <<documents, history, issued, writing, shownIn, marks, feedback, hunchFaults>>

-----------------------------------------------------------------------------
\* A pass shows what it wrote to the user, and marks it.

PublishOutreach ==
    /\ codexRun.origin = "autonomous" /\ writing["tool"] = Nothing
    /\ Cardinality(shownIn) < MaxMessages /\ marks["pass"] = NoMarks
    /\ shownIn' = shownIn \cup {{d.id : d \in codexRun.wrote}}
    /\ marks' = [marks EXCEPT !["pass"].left = {d.id : d \in codexRun.wrote}]
    /\ codexRun' = NoRun
    /\ UNCHANGED <<documents, history, issued, writing, feedback, hunchFaults>>

\* mark_surfaced: nothing when the revision is of a closed question
MarkSurfaced(d) ==
    /\ d \in Readable /\ d.id \in marks["pass"].left /\ writing["pass"] = Nothing
    /\ IF d.active
       THEN Reads("pass", d, TRUE, "awaiting_user") /\ UNCHANGED marks
       ELSE marks' = [marks EXCEPT !["pass"].left = @ \ {d.id}] /\ UNCHANGED writing
    /\ UNCHANGED <<documents, history, issued, codexRun, shownIn, feedback, hunchFaults>>

SurfacedWritten ==
    /\ Writes("pass") /\ marks' = [marks EXCEPT !["pass"].left = @ \ {writing["pass"].base}]
    /\ UNCHANGED <<codexRun, shownIn, feedback, hunchFaults>>

\* The error ends the pass; the message stays where it is.
SurfacedRefused ==
    /\ Refused("pass") /\ marks' = [marks EXCEPT !["pass"] = NoMarks]
    /\ UNCHANGED <<codexRun, shownIn, feedback, hunchFaults>>

-----------------------------------------------------------------------------
\* The user answers the message.

Answer(m) ==
    /\ m \in shownIn /\ m # {} /\ marks["send"] = NoMarks
    /\ marks' = [marks EXCEPT !["send"] = [left |-> m, pages |-> {}]]
    /\ UNCHANGED <<documents, history, issued, writing, codexRun, shownIn, feedback, hunchFaults>>

\* mark_feedback_pending: from the revision shown to the page, and from there to what is current
MarkFeedback(s) ==
    /\ s \in marks["send"].left /\ writing["send"] = Nothing
    /\ LET shown == {d \in Readable : d.id = s}
           at == {d \in Current : d.active /\ \E r \in shown : r.page = d.page}
       IN  \/ /\ at # {}
              /\ \E d \in at : Reads("send", d, TRUE, "feedback_pending")
              /\ UNCHANGED marks
           \/ /\ at = {} /\ marks' = [marks EXCEPT !["send"].left = @ \ {s}] /\ UNCHANGED writing
    /\ UNCHANGED <<documents, history, issued, codexRun, shownIn, feedback, hunchFaults>>

\* The revisions of the message that are of the page just written.
OfPage(p) == {s \in marks["send"].left : \E d \in Readable : d.id = s /\ d.page = p}

FeedbackWritten ==
    /\ Writes("send")
    /\ marks' = [marks EXCEPT !["send"] =
           [left |-> @.left \ OfPage(writing["send"].page), pages |-> @.pages \cup {writing["send"].page}]]
    /\ UNCHANGED <<codexRun, shownIn, feedback, hunchFaults>>

\* The request fails although the answer is stored: nothing is recorded for reflection.
FeedbackRefused ==
    /\ Refused("send") /\ marks' = [marks EXCEPT !["send"] = NoMarks]
    /\ UNCHANGED <<codexRun, shownIn, feedback, hunchFaults>>

\* record_message with the targets
RecordFeedback ==
    /\ marks["send"].left = {} /\ marks["send"].pages # {}
    /\ feedback' = feedback \cup {marks["send"].pages}
    /\ marks' = [marks EXCEPT !["send"] = NoMarks]
    /\ UNCHANGED <<documents, history, issued, writing, codexRun, shownIn, hunchFaults>>

-----------------------------------------------------------------------------
\* pending_feedback_page_ids of the batch's targets
Unreconciled(pages) ==
    {p \in pages : \E d \in Current : d.page = p /\ d.active /\ d.attention = "feedback_pending"}

\* Feedback left pending fails the run, and its events stay.
ReflectionEnds ==
    /\ codexRun.origin = "reflection" /\ writing["tool"] = Nothing
    /\ feedback' = IF Unreconciled(UNION codexRun.batch) = {} THEN feedback \ codexRun.batch ELSE feedback
    /\ codexRun' = NoRun
    /\ UNCHANGED <<documents, history, issued, writing, shownIn, marks, hunchFaults>>

\* The database, the transcript and the event queue are what is left.
Restart ==
    /\ hunchFaults < MaxHunchFaults /\ hunchFaults' = hunchFaults + 1
    /\ writing' = [w \in Writers |-> Nothing] /\ codexRun' = NoRun
    /\ marks' = [w \in {"pass", "send"} |-> NoMarks]
    /\ UNCHANGED <<documents, history, issued, shownIn, feedback>>

Next ==
    \/ \E origin \in {"interactive", "autonomous", "reflection"} : BeginRun(origin)
    \/ \E p \in Pages : OpenHunch(p)
    \/ \E d \in Readable : ReviseHunch(d) \/ RetireHunch(d) \/ AcknowledgeHunchFeedback(d) \/ MarkSurfaced(d)
    \/ ToolWrites \/ ToolRefused \/ RunEnds
    \/ PublishOutreach \/ SurfacedWritten \/ SurfacedRefused
    \/ \E m \in shownIn : Answer(m)
    \/ \E s \in 1..MaxRevisions : MarkFeedback(s)
    \/ FeedbackWritten \/ FeedbackRefused \/ RecordFeedback \/ ReflectionEnds \/ Restart

Spec == Init /\ [][Next]_hunchVars
-----------------------------------------------------------------------------
TypeOK ==
    /\ \A d \in Readable : d.id \in 1..issued /\ d.page \in Pages /\ d.attention \in Attention
    /\ UNION shownIn \subseteq 1..issued

\* No answer, run or pass writes over a revision another one has already replaced
\* (revise_context_blocking: two revisions of a page never follow the same one).
NoRevisionIsForked ==
    \A d, e \in Readable : d.page = e.page /\ d.base = e.base => d = e

\* What a message showed can still be traced to its question when the answer comes
\* (archive_current_context, read_context_revision).
ShownStaysReadable == \A s \in UNION shownIn : \E d \in Readable : d.id = s

\* A question whose answer waits to be taken in has an event that says so, or the handler
\* that is about to record one.
PendingHasEvent ==
    \A d \in Current : d.active /\ d.attention = "feedback_pending" =>
        d.page \in UNION feedback \/ marks["send"] # NoMarks
=============================================================================
