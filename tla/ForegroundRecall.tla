---------------------------- MODULE ForegroundRecall ----------------------------
(***************************************************************************)
(* What a chat turn is given from memory: the host's transcript and the    *)
(* Store are searched side by side (src/src/continuity/compound.rs), the   *)
(* records are ranked while the lineage of the Pages is read               *)
(* (recall_selection.rs, recall_sources.rs), admitted one after another,   *)
(* and bounded with the rest of the context (context_assembly.rs).         *)
(***************************************************************************)
EXTENDS Naturals, Sequences, FiniteSets, SequencesExt

CONSTANTS
    Records,          \* what memory holds; see Page, Message and Segment
    MaxPcp, MaxLocal, MaxProfile,     \* MAX_PCP_RECORDS, MAX_LOCAL_RECORDS, MAX_PROFILE_SEGMENTS
    RecallSize,       \* RECALL_CHARS
    FinalSize,        \* what budget_recall leaves for the recalled, by the size of the rest
    MaxDepth          \* MAX_DEPTH of the lineage

VARIABLES
    recall,           \* how far the turn's recall is
    asksWording,      \* the query asks for the exact words
    found,            \* the candidates
    ranker,           \* how they were ranked
    nodes,            \* the Pages whose sources and parents were read
    frontier, depth,  \* the reading of them
    todo,             \* candidates still to be admitted, in order
    loaded,           \* the records in the context, in order
    omitted           \* the others, each with its reason

recallVars == <<recall, asksWording, found, ranker, nodes, frontier, depth, todo, loaded, omitted>>

-----------------------------------------------------------------------------
\* A Page has the messages whose text it contains, those it cites, and the Pages it was derived from; sound
\* when nothing limits its validity and it is there as a whole.
Page(id, semantic, lexical, size, holds, cites, parents, sound) ==
    [kind |-> "pcp", id |-> id, semantic |-> semantic, lexical |-> lexical, size |-> size, holds |-> holds,
     cites |-> cites, parents |-> parents, whole |-> sound, user |-> FALSE]
\* A message is whole when it is not cut and long enough to be found in a Page.
Message(id, semantic, lexical, size, user, whole) ==
    [kind |-> "local", id |-> id, semantic |-> semantic, lexical |-> lexical, size |-> size, holds |-> {},
     cites |-> {}, parents |-> {}, whole |-> whole, user |-> user]
\* An entry of the user's Orientation, a candidate when the query is personal or has a word of it.
Segment(id, semantic, lexical, size) ==
    [kind |-> "profile", id |-> id, semantic |-> semantic, lexical |-> lexical, size |-> size, holds |-> {},
     cites |-> {}, parents |-> {}, whole |-> TRUE, user |-> FALSE]

Of(kind, some) == {r \in some : r.kind = kind}
Id(some) == {r.id : r \in some}
The(id) == CHOOSE r \in Records : r.id = id

Init ==
    /\ recall = "asked" /\ asksWording \in BOOLEAN
    /\ found = {} /\ ranker = "none"
    /\ nodes = {} /\ frontier = {} /\ depth = 0
    /\ todo = <<>> /\ loaded = <<>> /\ omitted = {}

-----------------------------------------------------------------------------
\* assemble: each side may be unavailable, and recent messages are left to the working context.
Retrieve ==
    /\ recall = "asked"
    /\ \E durable \in SUBSET Of("pcp", Records), local \in SUBSET Of("local", Records), personal \in BOOLEAN :
           LET known == {s \in Of("profile", Records) : personal \/ s.lexical > 0}
           IN  /\ found' = durable \cup local \cup known
               /\ frontier' = Id(durable)
    /\ recall' = "ranking"
    /\ UNCHANGED <<asksWording, ranker, nodes, depth, todo, loaded, omitted>>

\* load: a round of reading Revisions and then their parents.  A Page may be missing or forbidden, and the
\* Runtime may fail or take too long, after which no round follows.
ReadRound ==
    /\ recall = "ranking" /\ frontier # {} /\ depth < MaxDepth
    /\ \E read \in SUBSET {The(id) : id \in frontier} :
           /\ nodes' = nodes \cup Id(read)
           /\ frontier' = UNION {r.parents : r \in read} \ (nodes' \cup frontier)
    /\ depth' = depth + 1
    /\ UNCHANGED <<recall, asksWording, found, ranker, todo, loaded, omitted>>

\* Mutant of Complete: what could not be read has no sources.
CompleteAsRead(id) == id \in nodes

\* trace: the Pages a Page is derived from, as far as they were read, ...
Derived(id) ==
    LET up[n \in 0 .. Cardinality(Records)] ==
            IF n = 0 THEN The(id).parents
            ELSE up[n - 1] \cup UNION {The(a).parents : a \in up[n - 1] \cap nodes}
    IN  up[Cardinality(Records)]

\* ... and whether that is all of them: none is missing, and none is derived from itself.
Complete(id) ==
    /\ {id} \cup Derived(id) \subseteq nodes
    /\ \A a \in {id} \cup Derived(id) : a \notin Derived(a)

Sources(id) == UNION {The(a).cites : a \in ({id} \cup Derived(id)) \cap nodes}

\* rank: all batches succeed in time, or the words decide
Rank(by) ==
    /\ recall = "ranking" /\ ranker = "none"
    /\ ranker' = by
    /\ UNCHANGED <<recall, asksWording, found, nodes, frontier, depth, todo, loaded, omitted>>

-----------------------------------------------------------------------------
\* admit

Score(r) == IF ranker = "semantic" THEN r.semantic ELSE r.lexical
Best == CHOOSE b \in {Score(r) : r \in found} : \A r \in found : Score(r) <= b

\* In hundredths: a share of the best score, and no less than a floor.
AtLeast(floor, percent) == IF Best * percent > floor * 100 THEN Best * percent ELSE floor * 100
Weak(r) ==
    Score(r) * 100 < IF ranker = "semantic" THEN AtLeast(5, 55) ELSE AtLeast(12, 30)

\* Pages first, then the Orientation, then messages; the better score, the user's own words.
Class(r) == CASE r.kind = "pcp" -> 2 [] r.kind = "profile" -> 1 [] r.kind = "local" -> 0
Before(a, b) ==
    \/ Class(a) > Class(b)
    \/ Class(a) = Class(b) /\ Score(a) > Score(b)
    \/ Class(a) = Class(b) /\ Score(a) = Score(b) /\ a.user /\ ~b.user

Select ==
    /\ recall = "ranking" /\ ranker # "none"
    /\ \E order \in {o \in [1 .. Cardinality(found) -> found] :
                        /\ ToSet(o) = found
                        /\ \A i, j \in DOMAIN o : i < j => ~Before(o[j], o[i])} :
           todo' = order
    /\ recall' = "admitting"
    /\ UNCHANGED <<asksWording, found, ranker, nodes, frontier, depth, loaded, omitted>>

Loaded(kind) == {id \in ToSet(loaded) : The(id).kind = kind}
Size(ids) == FoldLeft(LAMBDA sum, id : sum + The(id).size, 0, SetToSeq(ids))

\* Mutant of Covering: any Page that was looked at will do.
CoveringAny(r) ==
    {p \in Of("pcp", found) \ ToSet(todo) : r.id \in p.holds /\ r.kind = "local" /\ ~asksWording /\ p.whole
                                               /\ r.whole /\ Complete(p.id) /\ r.id \in Sources(p.id)}

\* covered_by: a Page in the context that has the very text of the message, and names it as its source
Covering(r) ==
    {p \in {The(id) : id \in Loaded("pcp")} :
        /\ r.kind = "local" /\ ~asksWording
        /\ r.whole /\ p.whole
        /\ Complete(p.id) /\ r.id \in Sources(p.id)
        /\ r.id \in p.holds}

Most(kind) == CASE kind = "pcp" -> MaxPcp [] kind = "profile" -> MaxProfile [] kind = "local" -> MaxLocal

Omit(r, why, by) ==
    omitted' = omitted \cup {[id |-> r.id, why |-> why, by |-> by]} /\ UNCHANGED loaded

Admit ==
    /\ recall = "admitting" /\ todo # <<>>
    /\ LET r == Head(todo)
       IN  CASE Weak(r) -> Omit(r, "weak", {})
             [] ~Weak(r) /\ Covering(r) # {} -> Omit(r, "covered", {(CHOOSE p \in Covering(r) : TRUE).id})
             [] OTHER ->
                  IF Cardinality(Loaded(r.kind)) >= Most(r.kind) THEN Omit(r, "enough", {})
                  ELSE IF r.size + Size(ToSet(loaded)) > RecallSize THEN Omit(r, "size", {})
                  ELSE loaded' = Append(loaded, r.id) /\ UNCHANGED omitted
    /\ todo' = Tail(todo)
    /\ UNCHANGED <<recall, asksWording, found, ranker, nodes, frontier, depth>>

\* budget_recall: with the whole context assembled, what was recalled is taken out from the end, except for
\* the Orientation, until it fits.
Bounded ==
    FoldLeft(LAMBDA kept, i :
                 LET id == loaded[Len(loaded) + 1 - i]
                 IN  IF Size(ToSet(kept)) > FinalSize /\ The(id).kind # "profile" THEN Remove(kept, id) ELSE kept,
             loaded, [i \in DOMAIN loaded |-> i])

Bound ==
    /\ recall = "admitting" /\ todo = <<>>
    /\ loaded' = Bounded
    /\ omitted' = omitted \cup {[id |-> id, why |-> "final", by |-> {}] : id \in ToSet(loaded) \ ToSet(Bounded)}
    /\ recall' = "given"
    /\ UNCHANGED <<asksWording, found, ranker, nodes, frontier, depth, todo>>

Next ==
    \/ Retrieve \/ ReadRound \/ Select \/ Admit \/ Bound
    \/ \E by \in {"semantic", "lexical"} : Rank(by)

Spec == Init /\ [][Next]_recallVars

-----------------------------------------------------------------------------
\* A coverage omission points to a record that is loaded (recall_selection.rs, admit): a message is left out
\* for a Page only when the Page is there, says it, and is derived from it, whatever of the lineage could be
\* read.  It is so until the context as a whole is bounded.
OmittedIsCovered ==
    recall = "admitting" =>
        \A o \in {x \in omitted : x.why = "covered"} : \A by \in o.by :
            by \in ToSet(loaded) /\ o.id \in The(by).holds

\* A lineage that counts as complete has every Page it is derived from: missing, forbidden and cyclic chains
\* stay unknown (recall_sources.rs), however far the reading came.
LineageIsComplete ==
    \A p \in Of("pcp", found) : Complete(p.id) =>
        \A a \in Derived(p.id) \cup {p.id} : a \in nodes /\ The(a).parents \subseteq nodes \ {a}

\* Refuted by the code: the same when the context is given.  budget_recall takes out a Page after the
\* messages it covers were left out for it.
CoverageSurvives ==
    recall = "given" => \A o \in {x \in omitted : x.why = "covered"} : o.by \subseteq ToSet(loaded)
=============================================================================
