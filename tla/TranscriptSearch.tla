---------------------------- MODULE TranscriptSearch ----------------------------
(***************************************************************************)
(* The search over the local transcript (src/src/transcript/search.rs) and *)
(* its index of vectors (transcript/semantic.rs).  A search asks the       *)
(* runtime for the vector of the query, embeds a batch of what the index   *)
(* lacks, and only then reads the matches; the backfill at startup does    *)
(* the same batch after batch, and messages come and go in between.        *)
(***************************************************************************)
EXTENDS Naturals, Sequences, FiniteSets, FiniteSetsExt, SequencesExt

CONSTANTS
    Kinds,          \* what a message may be: its role, a long gap before it, about the subject
    Spaces,         \* the embedding spaces the runtime may serve
    IndexBatch,     \* INDEX_BATCH_SIZE
    MaxClusters, ContextSide,     \* windows of an answer; messages on each side of a match
    MaxShown,       \* messages of an answer, options.max_messages
    MaxRows, MaxSearchFaults      \* bounds

VARIABLES
    rows,        \* transcript_messages in sequence: of a kind, and maybe retracted
    vectors,     \* transcript_message_embeddings: <<message, space>>
    space,       \* what the runtime embeds in now
    index,       \* the search and the backfill under way
    answer,      \* the last search: the newest message it knew of, what it matched, its
                 \* windows, what of each is shown, and whether it says that there is more
    searchFaults

searchVars == <<rows, vectors, space, index, answer, searchFaults>>

Quiet == [at |-> "idle"]
NoAnswer == [newest |-> 0, indexed |-> FALSE, matched |-> {}, windows |-> {}, shown |-> {}, truncated |-> FALSE,
             recurrent |-> FALSE]

Init ==
    /\ rows = <<>> /\ vectors = {} /\ space \in Spaces
    /\ index = [j \in {"search", "backfill"} |-> Quiet] /\ answer = NoAnswer /\ searchFaults = 0

Visible == {m \in DOMAIN rows : ~rows[m].retracted}
OfUser == {m \in Visible : rows[m].role = "user"}

AppendMessage(kind) ==
    /\ Len(rows) < MaxRows
    /\ rows' = Append(rows, [role |-> kind.role, far |-> kind.far, about |-> kind.about, retracted |-> FALSE])
    /\ UNCHANGED <<vectors, space, index, answer, searchFaults>>

\* retract_from: the message and everything after it; its vectors and its words stay indexed.
RetractFrom(m) ==
    /\ m \in Visible
    /\ rows' = [k \in DOMAIN rows |-> IF k >= m THEN [rows[k] EXCEPT !.retracted = TRUE] ELSE rows[k]]
    /\ UNCHANGED <<vectors, space, index, answer, searchFaults>>

-----------------------------------------------------------------------------
\* The index: a search and the backfill at startup both embed what has no vector yet.

RuntimeChanges ==
    /\ searchFaults < MaxSearchFaults /\ searchFaults' = searchFaults + 1
    /\ space' \in Spaces \ {space}
    /\ UNCHANGED <<rows, vectors, index, answer>>

\* embed_query: tells the space.
EmbedQuery(j) ==
    /\ index[j] = Quiet
    /\ index' = [index EXCEPT ![j] = [at |-> "query", space |-> space]]
    /\ UNCHANGED <<rows, vectors, space, answer, searchFaults>>

Unindexed(s) == {m \in OfUser : <<m, s>> \notin vectors}

\* Mutant of NewestFirst: the oldest that are missing.
OldestFirst(pending) == {m \in pending : Cardinality({k \in pending : k < m}) < IndexBatch}

\* ORDER BY sequence DESC LIMIT
NewestFirst(pending) == {m \in pending : Cardinality({k \in pending : k > m}) < IndexBatch}

\* pending_documents; the backfill is done when there are none.
ReadPending(j) ==
    /\ index[j].at = "query"
    /\ LET pending == NewestFirst(Unindexed(index[j].space))
       IN  index' = [index EXCEPT ![j] =
               IF pending # {} THEN [at |-> "embed", space |-> @.space, pending |-> pending, newest |-> Max(OfUser)]
               ELSE IF j = "search" THEN [at |-> "load", space |-> @.space, newest |-> Max(OfUser \cup {0})]
               ELSE Quiet]
    /\ UNCHANGED <<rows, vectors, space, answer, searchFaults>>

\* embed_documents, validate_compatible, persist_batch; the backfill goes on with the next batch.
Persist(j) ==
    /\ index[j].at = "embed" /\ space = index[j].space
    /\ vectors' = vectors \cup {<<m, space>> : m \in index[j].pending}
    /\ index' = [index EXCEPT ![j] =
           IF j = "search" THEN [at |-> "load", space |-> @.space, newest |-> @.newest]
           ELSE [at |-> "query", space |-> @.space]]
    /\ UNCHANGED <<rows, space, answer, searchFaults>>

-----------------------------------------------------------------------------
\* The answer of a search.

\* within_gap between neighbours: the message m begins an episode when it comes long after.
SameEpisode(k, m) == \A n \in Visible : k < n /\ n <= m => ~rows[n].far

\* Mutant of Window: the neighbours, whenever they were written.
WindowAcrossGaps(m) ==
    {k \in Visible : Cardinality({n \in Visible : (k < n /\ n < m) \/ (m < n /\ n < k)}) < ContextSide}

\* context_window: some visible messages on either side, in the episode of the match
Window(m) == {k \in WindowAcrossGaps(m) : SameEpisode(k, m) /\ SameEpisode(m, k)}

\* search_candidates, add_semantic_candidates: matches by meaning first, then the newest
Ranked(meant) ==
    LET matching == {m \in Visible : rows[m].about \/ m \in meant}
        before(k, m) == (k \in meant /\ m \notin meant) \/ ((k \in meant <=> m \in meant) /\ k > m)
    IN  {ranked \in [1..Cardinality(matching) -> matching] :
            \A i, j \in DOMAIN ranked : i < j => before(ranked[i], ranked[j])}

\* build_clusters: a match joins the first window its own overlaps, or opens one while there is room.
Placed(windows, m) ==
    LET into == SelectInSeq(windows, LAMBDA w : w \cap Window(m) # {})
    IN  IF into > 0 THEN [windows EXCEPT ![into] = @ \cup Window(m)]
        ELSE IF Len(windows) < MaxClusters THEN Append(windows, Window(m))
        ELSE windows

Windows(candidates) ==
    LET after[n \in 0..Len(candidates)] == IF n = 0 THEN <<>> ELSE Placed(after[n - 1], candidates[n])
    IN  after[Len(candidates)]

\* How many messages of the window lie between m and the nearest match.
Distance(w, matched, m) ==
    IF m \in matched THEN 0
    ELSE 1 + Min({Cardinality({n \in w : (k < n /\ n < m) \/ (m < n /\ n < k)}) : k \in w \cap matched})

\* prioritized_indices: the matches, then what is nearest to one
Prioritized(w, matched, limit) ==
    LET nearer(n, m) == Distance(w, matched, n) < Distance(w, matched, m)
        asNear(n, m) == Distance(w, matched, n) = Distance(w, matched, m)
    IN  {m \in w : Cardinality({n \in w : nearer(n, m) \/ (asNear(n, m) /\ n < m)}) < limit}

\* materialize_clusters: window by window, while there is room
Materialized(windows, matched) ==
    FoldLeft(LAMBDA done, w :
        IF done.left = 0 THEN [done EXCEPT !.truncated = TRUE]
        ELSE LET chosen == Prioritized(w, matched, done.left)
             IN  [shown |-> done.shown \cup {chosen}, left |-> done.left - Cardinality(chosen),
                  truncated |-> done.truncated \/ chosen # w],
        [shown |-> {}, left |-> MaxShown, truncated |-> FALSE], windows)

\* recurrence_evidence: the user's matches, the meant ones alone when the index served, told apart by
\* a long gap between neighbours
Recurrent(matched) == \E k, m \in matched : k < m /\ \E n \in (k + 1)..m : rows[n].far

Answers(newest, served, meant) ==
    \E candidates \in Ranked(meant) :
        LET windows == Windows(candidates)
            laidOut == Materialized(windows, Range(candidates))
        IN  answer' = [newest |-> newest, indexed |-> served,
                       matched |-> Range(candidates), windows |-> Range(windows),
                       shown |-> laidOut.shown, truncated |-> laidOut.truncated,
                       recurrent |-> Recurrent(IF served THEN meant ELSE Range(candidates) \cap OfUser)]

\* load_vectors and what they are close to; search_with_semantic
SearchEnds ==
    /\ index["search"].at = "load"
    /\ LET loaded == {m \in OfUser : <<m, index["search"].space>> \in vectors}
       IN  Answers(index["search"].newest, TRUE, {m \in loaded : rows[m].about})
    /\ index' = [index EXCEPT !["search"] = Quiet]
    /\ UNCHANGED <<rows, vectors, space, searchFaults>>

\* The runtime fails or serves another space by now: the words alone; a backfill gives up.
FallsBack(j) ==
    /\ index[j].at \in {"query", "embed"}
    /\ IF j = "search" THEN Answers(0, FALSE, {}) ELSE UNCHANGED answer
    /\ index' = [index EXCEPT ![j] = Quiet]
    /\ UNCHANGED <<rows, vectors, space, searchFaults>>

Next ==
    \/ \E kind \in Kinds : AppendMessage(kind)
    \/ \E m \in Visible : RetractFrom(m)
    \/ RuntimeChanges
    \/ \E j \in {"search", "backfill"} : EmbedQuery(j) \/ ReadPending(j) \/ Persist(j) \/ FallsBack(j)
    \/ SearchEnds

Spec == Init /\ [][Next]_searchVars
-----------------------------------------------------------------------------
TypeOK ==
    /\ vectors \subseteq (DOMAIN rows) \X Spaces
    /\ \A w \in answer.windows : w \subseteq DOMAIN rows

\* A search the index served compared with the newest message the user had written when it
\* looked for what to index (semantic.rs:155, "searchable at once").
NewestIsSearchable ==
    answer.indexed /\ answer.newest # 0 => \E s \in Spaces : <<answer.newest, s>> \in vectors

\* No window of an answer reaches over a long gap: an episode is not mixed with another (context_window).
WindowsStay == \A w \in answer.windows : \A k, m \in w : k < m => SameEpisode(k, m)

\* What an answer leaves out it says (TranscriptSearchResult.truncated).
TellsWhatIsMissing == ~answer.truncated => answer.matched \subseteq UNION answer.shown

\* The windows of an answer do not share messages (search.rs:42, "independently relevant windows").
WindowsAreApart == \A v, w \in answer.windows : v = w \/ v \cap w = {}

=============================================================================
