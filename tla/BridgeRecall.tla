------------------------------ MODULE BridgeRecall ------------------------------
(***************************************************************************)
(* What the Codex bridge and a temporary discussion are given from memory  *)
(* (src/src/bridge/recall.rs): a recall chooses Topics, searches the       *)
(* Store, reads the messages of both and bounds the evidence; an expansion *)
(* reads one Topic.  The reads are separate calls, and messages are        *)
(* attached to Topics and retracted between them.                          *)
(***************************************************************************)
EXTENDS Naturals, Sequences, FiniteSets, SequencesExt

CONSTANTS
    Topics,           \* conversation Topics: [score, weight] by id; see MCTopics
    Said,             \* the messages in order, each [user, chars, turn]
    Documents,        \* the map, open loops, hunches, hypotheses: [score, at, live]
    Pictures,         \* images: [of, local], attached to the message at that place, in the transcript or in the Store
    TopicLimit, EvidenceLimit, EvidenceChars, PageLimit, RelatedLimit,     \* what the depth allows
    EvidenceBudget,   \* three fifths of the token budget, in characters
    ExpandLimit,      \* the limit of an expansion
    MaxRead,          \* 200: message Revisions in one read, of either store
    MaxSources,       \* 50: Revisions whose turns are looked up at once
    MaxPictures, MaxPictureReads,     \* MAX_BRIDGE_IMAGES, and the 20 that can be read at once
    MaxRetractions

VARIABLES
    members,          \* the messages attached to each Topic
    retracted,        \* the messages taken back
    bridge,           \* what the request is about to do
    reading,          \* Topics whose messages it has still to read
    chosen,           \* the Topics it is about
    hits,             \* the messages the Store's search found
    candidates,       \* the messages to be read
    matched,          \* those of the turns that were found
    selected,         \* the messages selected among the read ones
    evidence,         \* what is given of them, in order: [id, chars]
    related,          \* the documents given
    pictured,         \* the images given
    truncated         \* the answer says that something was left out

recallState == <<reading, chosen, hits, candidates, matched, selected, evidence, related, pictured, truncated>>
bridgeVars == <<members, retracted, bridge, recallState>>

-----------------------------------------------------------------------------
Ids == DOMAIN Said
Fewest(a, b) == IF a < b THEN a ELSE b
First(n, ids) == {i \in ids : Cardinality({j \in ids : j < i}) < n}

\* The ways to take the n best, by pairs of a better one and a worse one.
Best(n, some, better) ==
    {top \in SUBSET some : /\ Cardinality(top) = Fewest(n, Cardinality(some))
                           /\ ((some \ top) \X top) \cap better = {}}

Init ==
    /\ members \in [DOMAIN Topics -> SUBSET Ids] /\ retracted = {}
    /\ bridge = "idle" /\ reading = {} /\ chosen = {}
    /\ hits = {} /\ candidates = {} /\ matched = {} /\ selected = {}
    /\ evidence = <<>> /\ related = {} /\ pictured = {} /\ truncated = FALSE

\* Reflection attaches a message, and the user takes back one with everything after it.
Attach(t, m) ==
    /\ m \notin members[t] \cup retracted
    /\ members' = [members EXCEPT ![t] = @ \cup {m}]
    /\ UNCHANGED <<retracted, bridge, recallState>>

Retract(m) ==
    /\ m \notin retracted /\ Cardinality(retracted) < MaxRetractions
    /\ retracted' = retracted \cup {i \in Ids : i >= m}
    /\ UNCHANGED <<members, bridge, recallState>>

\* read_episode_revision_ids: the oldest of a Topic, as many as asked for and never more than MaxRead
TopicIds(t, limit) == First(Fewest(limit, MaxRead), members[t] \ retracted)

-----------------------------------------------------------------------------
\* search_pages: all terms of the query, and any of them when too few are found
Hits(all, any) ==
    LET exact == First(PageLimit, all)
        few == IF PageLimit \div 2 > 2 THEN PageLimit \div 2 ELSE 2
    IN  exact \cup IF Cardinality(exact) < few THEN First(PageLimit - Cardinality(exact), any \ exact) ELSE {}

\* select_episodes, by the words they share with the query and by how alive they are
Relevant == {t \in DOMAIN Topics : Topics[t].score > 0}
MoreRelevant ==
    {p \in Relevant \X Relevant :
        \/ Topics[p[1]].score > Topics[p[2]].score
        \/ Topics[p[1]].score = Topics[p[2]].score /\ Topics[p[1]].weight > Topics[p[2]].weight}

\* related_context: of what is still alive
Telling == 
    {p \in Documents \X Documents :
        p[1].score > p[2].score \/ (p[1].score = p[2].score /\ p[1].at > p[2].at)}
RelatedContext == Best(RelatedLimit, {d \in Documents : d.live /\ d.score > 0}, Telling)

Recall ==
    /\ bridge = "idle"
    /\ chosen' \in Best(TopicLimit, Relevant, MoreRelevant)
    /\ reading' = chosen'
    /\ related' \in RelatedContext
    /\ \E any \in SUBSET Ids : \E all \in SUBSET any : hits' = Hits(all, any)
    /\ bridge' = "recalling"
    /\ UNCHANGED <<members, retracted, candidates, matched, selected, evidence, pictured, truncated>>

\* collect_evidence, a Topic after the other
ReadTopic(t) ==
    /\ bridge = "recalling" /\ t \in reading
    /\ reading' = reading \ {t}
    /\ candidates' = candidates \cup TopicIds(t, EvidenceLimit)
    /\ UNCHANGED <<members, retracted, bridge, chosen, hits, matched, selected, evidence, related, pictured,
                   truncated>>

\* conversation_turn_revision_ids: the question of a reply and the replies to a question
Turns(found) ==
    found \cup {i \in Ids \ retracted : \E j \in found \ retracted : Said[i].turn = Said[j].turn}

MatchTurns ==
    /\ bridge = "recalling" /\ reading = {}
    /\ matched' = IF Cardinality(hits) > MaxSources THEN hits ELSE Turns(hits)
    /\ candidates' = candidates \cup matched'
    /\ bridge' = "reading"
    /\ UNCHANGED <<members, retracted, reading, chosen, hits, selected, evidence, related, pictured, truncated>>

-----------------------------------------------------------------------------
\* select_messages: the matched ones, the user's, and those at the start and the end
Weight(i, read) ==
    LET before == Cardinality({j \in read : j < i})
    IN  (IF i \in matched THEN 100 ELSE 0) + (IF Said[i].user THEN 30 ELSE 20)
            + (IF before < 2 \/ before + 4 >= Cardinality(read) THEN 12 ELSE 0)

\* Mutant of Selection: the first ones are taken.
SelectionOfFirst(read) == First(EvidenceLimit, read)

Selection(read) ==
    {i \in read : Cardinality({j \in read : \/ Weight(j, read) > Weight(i, read)
                                            \/ Weight(j, read) = Weight(i, read) /\ j < i}) < EvidenceLimit}

Total(items) ==
    LET sum[n \in 0 .. Len(items)] == IF n = 0 THEN 0 ELSE sum[n - 1] + items[n].chars
    IN  sum[Len(items)]

\* Each is cut to the depth's length and to what is left of the budget, ...
Given(items, i) ==
    IF Total(items) >= EvidenceBudget THEN items
    ELSE Append(items, [id |-> i,
                        chars |-> Fewest(Said[i].chars, Fewest(EvidenceChars, EvidenceBudget - Total(items)))])

\* ... in the order they were said in.
InOrder(ids) ==
    {order \in [1 .. Cardinality(ids) -> ids] : \A i, j \in DOMAIN order : i < j => order[i] < order[j]}
EvidenceOf(order) ==
    LET given[n \in 0 .. Len(order)] == IF n = 0 THEN <<>> ELSE Given(given[n - 1], order[n])
    IN  given[Len(order)]

\* images_for_revisions: those in the transcript first; all the others are read before the surplus is
\* dropped.
ImagesFor(ids) == {p \in Pictures : p.of \in ids}
Readable(images) == Cardinality({p \in images : ~p.local}) <= MaxPictureReads
Shown(images) ==
    Best(MaxPictures, images, {p \in images \X images : p[1].local /\ ~p[2].local})

\* Mutant of Active: what was attached is read, retracted or not.
ActiveOnceKnown(ids) == ids

\* messages_by_revision_ids: the transcript's active messages
Active(ids) == ids \ retracted

Answer(ids) ==
    \/ Readable(ImagesFor(ids)) /\ pictured' \in Shown(ImagesFor(ids)) /\ bridge' = "given"
    \/ ~Readable(ImagesFor(ids)) /\ bridge' = "failed" /\ UNCHANGED pictured

ReadMessages ==
    /\ bridge = "reading" /\ Cardinality(candidates) <= MaxRead
    /\ selected' = Selection(Active(candidates))
    /\ \E order \in InOrder(selected') : evidence' = EvidenceOf(order)
    /\ truncated' = (Cardinality(Active(candidates)) > Len(evidence') \/ Total(evidence') >= EvidenceBudget)
    /\ Answer({e.id : e \in ToSet(evidence')} \cup hits)
    /\ UNCHANGED <<members, retracted, reading, chosen, hits, candidates, matched, related>>

\* More than one read can hold.
TooManyMessages ==
    /\ bridge = "reading" /\ Cardinality(candidates) > MaxRead
    /\ bridge' = "failed"
    /\ UNCHANGED <<members, retracted, recallState>>

\* expand: one more than the limit is asked for, to tell whether there is more
Expand(t) ==
    /\ bridge = "idle"
    /\ chosen' = {t}
    /\ candidates' = First(ExpandLimit, TopicIds(t, ExpandLimit + 1))
    /\ truncated' = (Cardinality(TopicIds(t, ExpandLimit + 1)) > ExpandLimit)
    /\ bridge' = "expanding"
    /\ UNCHANGED <<members, retracted, reading, hits, matched, selected, evidence, related, pictured>>

ReadExpansion ==
    /\ bridge = "expanding"
    /\ selected' = Active(candidates)
    /\ \E order \in InOrder(selected') :
           evidence' = [i \in DOMAIN order |-> [id |-> order[i], chars |-> Said[order[i]].chars]]
    /\ Answer(candidates)
    /\ UNCHANGED <<members, retracted, reading, chosen, hits, candidates, matched, related, truncated>>

\* context_packet: everything alive, what the query finds, and its images before recent ones
Packet ==
    /\ bridge = "idle"
    /\ \E any \in SUBSET Ids :
           /\ hits' = First(PageLimit, any)
           /\ pictured' \in {some \in SUBSET {p \in Pictures : ~p.local} :
                  Cardinality(some) = Fewest(MaxPictures, Cardinality({p \in Pictures : ~p.local}))
                  /\ \A p \in ImagesFor(hits') \ some : p.local \/ some \subseteq ImagesFor(hits')}
    /\ related' = {d \in Documents : d.live}
    /\ bridge' = "given"
    /\ UNCHANGED <<members, retracted, reading, chosen, candidates, matched, selected, evidence, truncated>>

Next ==
    \/ \E t \in DOMAIN Topics, m \in Ids : Attach(t, m)
    \/ \E m \in Ids : Retract(m)
    \/ Recall \/ MatchTurns \/ ReadMessages \/ TooManyMessages \/ ReadExpansion \/ Packet
    \/ \E t \in DOMAIN Topics : ReadTopic(t) \/ Expand(t)

Spec == Init /\ [][Next]_bridgeVars

-----------------------------------------------------------------------------
\* The evidence of a recall fits its budget, and what the query found is not crowded out by what a Topic
\* merely contains: when a message that did not match is selected, every one that did is (select_messages).
MatchesComeFirst ==
    bridge = "given" /\ evidence # <<>> /\ matched # {} =>
        /\ Total(evidence) <= EvidenceBudget
        /\ selected \subseteq matched \/ Active(candidates) \cap matched \subseteq selected \cup retracted

\* A message that was retracted before the messages were read is no evidence, though a Topic or the search
\* named it earlier (recall.rs, collect_evidence and expand).
RetractedIsNoEvidence ==
    [][\A e \in ToSet(evidence') \ ToSet(evidence) : e.id \notin retracted]_bridgeVars

\* Refuted by the code: an answer that says nothing is missing has every message of its Topics.  A Topic gives
\* its oldest messages, and those beyond the limit are not counted (recall.rs, episode_revision_ids).
NothingIsMissing ==
    bridge = "given" /\ ~truncated /\ evidence # <<>> =>
        \A t \in chosen : First(Cardinality(members[t]), members[t]) \subseteq {e.id : e \in ToSet(evidence)} \cup retracted

\* Refuted by the code: a recall ends with an answer.  Deep recalls may name more messages than one read holds,
\* and an expansion more attached images.
RecallSucceeds == bridge # "failed"

\* Refuted by the code: what matched the query is in the evidence before what did not; the budget is spent
\* from the oldest selected message on.
MatchesAreGiven ==
    bridge = "given" /\ evidence # <<>> /\ matched # {} =>
        \/ selected \cap matched \subseteq {e.id : e \in ToSet(evidence)} \cup retracted
        \/ {e.id : e \in ToSet(evidence)} \subseteq matched
=============================================================================
