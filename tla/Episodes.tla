------------------------------ MODULE Episodes ------------------------------
(***************************************************************************)
(* The topics of the reflection ledger (src/src/reflection/store.rs):      *)
(* episodes with their parents and messages, the aliases left behind when  *)
(* duplicates are consolidated at startup, and the working hypotheses.     *)
(* One SQLite transaction is one action.                                   *)
(*                                                                         *)
(* A title stands for a class of titles that SQLite's lower and trim hold  *)
(* equal; Rust's to_lowercase, which also folds what is not ASCII, holds   *)
(* the Lookalikes equal as well.  Ids are numbered in order of creation,   *)
(* which is also the order of started_at.  A call cites one message: what  *)
(* more it could cite is attached by another.  A revision verified elsewhere (CodexTools) has no event to *)
(* expand and is left out.                                                 *)
(***************************************************************************)
EXTENDS Naturals, FiniteSets, Functions

CONSTANTS
    Titles, Lookalikes,
    Exchanges,           \* a user message and its reply each
    Statements,          \* texts of hypotheses
    MaxEpisodes, MaxHypotheses, MaxParents, MaxOpens   \* bounds

VARIABLES
    episodes,    \* id -> [title, parents, messages]
    aliases,     \* alias_id -> canonical_id
    attached,    \* per id ever issued, the messages attached under it
    recorded,    \* messages the ledger has an event for
    retractedEvents,
    hypotheses,  \* id -> statement
    opens        \* how often the store was opened

episodeVars == <<episodes, aliases, attached, recorded, retractedEvents, hypotheses, opens>>

Messages == {"user", "assistant"} \X Exchanges
Ids == 1..MaxEpisodes
Issued == DOMAIN attached
Live == DOMAIN episodes

Init ==
    /\ episodes = <<>> /\ aliases = <<>> /\ attached = <<>>
    /\ recorded = {} /\ retractedEvents = {} /\ hypotheses = <<>> /\ opens = 0

\* resolve_episode_alias follows the chain, sixteen links at the most.
Hop(id) == IF id \in DOMAIN aliases THEN aliases[id] ELSE id
Resolved(id) == LET after[n \in 0..MaxEpisodes] == IF n = 0 THEN id ELSE Hop(after[n - 1]) IN after[MaxEpisodes]

Known(sources) == sources \subseteq recorded

\* expand_conversation_turns: the message a reply answers, the replies a message has.
Expanded(sources) ==
    sources \cup {<<"user", m[2]>> : m \in {x \in sources \ retractedEvents : x \in recorded /\ x[1] = "assistant"}}
            \cup {<<"assistant", m[2]>> : m \in {x \in sources \ retractedEvents :
                      /\ x \in recorded /\ x[1] = "user"
                      /\ <<"assistant", x[2]>> \in recorded \ retractedEvents}}

Ancestors(eps, ids) ==
    LET up[n \in 0..MaxEpisodes] ==
            IF n = 0 THEN ids ELSE up[n - 1] \cup UNION {eps[p].parents : p \in up[n - 1] \cap DOMAIN eps}
    IN up[MaxEpisodes]

\* Mutant of ParentsAllowed: a parent must exist, whatever is above it.
ParentsExist(id, parents) == parents \subseteq Live \ {id}

\* validate_episode_parents
ParentsAllowed(id, parents) == parents \subseteq Live \ {id} /\ id \notin Ancestors(episodes, parents)

TitledAs(title) == {id \in Live : episodes[id].title = title}

\* Mutant of TitleIsFree: only a new episode is checked.
TitleIsFreeForNew(title, id) == id \in Live \/ TitledAs(title) = {}

TitleIsFree(title, id) == TitledAs(title) \subseteq {id}

Put(f, x, v) == [y \in DOMAIN f \cup {x} |-> IF y = x THEN v ELSE f[y]]
Attach(id, more) == attached' = Put(attached, id, (IF id \in Issued THEN attached[id] ELSE {}) \cup more)

\* upsert_episode, asked for an episode by id or (0) by title.
UpsertEpisode(asked, title, named, sources) ==
    LET parents == {Resolved(p) : p \in named}
        id == IF asked # 0 THEN Resolved(asked)
              ELSE IF TitledAs(title) # {} THEN CHOOSE i \in TitledAs(title) : TRUE
              ELSE Cardinality(Issued) + 1
    IN /\ sources # {} /\ Known(sources) /\ id \in Ids
       /\ asked # 0 => id \in Live
       /\ TitleIsFree(title, id) /\ ParentsAllowed(id, parents)
       /\ episodes' = Put(episodes, id,
              [title |-> title, parents |-> parents,
               messages |-> (IF id \in Live THEN episodes[id].messages ELSE {}) \cup Expanded(sources)])
       /\ Attach(id, Expanded(sources))
       /\ UNCHANGED <<aliases, recorded, retractedEvents, hypotheses, opens>>

AttachMessages(asked, sources) ==
    LET id == Resolved(asked)
    IN /\ sources # {} /\ id \in Live /\ Known(sources)
       /\ episodes' = [episodes EXCEPT ![id].messages = @ \cup Expanded(sources)]
       /\ Attach(asked, Expanded(sources))
       /\ UNCHANGED <<aliases, recorded, retractedEvents, hypotheses, opens>>

\* A new hypothesis says something new; a revised one may say anything.
UpsertHypothesis(asked, statement) ==
    /\ IF asked # 0 THEN asked \in DOMAIN hypotheses
       ELSE statement \notin Range(hypotheses) /\ Cardinality(DOMAIN hypotheses) < MaxHypotheses
    /\ hypotheses' = Put(hypotheses, IF asked # 0 THEN asked ELSE Cardinality(DOMAIN hypotheses) + 1, statement)
    /\ UNCHANGED <<episodes, aliases, attached, recorded, retractedEvents, opens>>

-----------------------------------------------------------------------------
(* consolidate_duplicate_episodes                                           *)

Folded(title) == IF title \in Lookalikes THEN Lookalikes ELSE {title}
Twins(id) == {i \in Live : Folded(episodes[i].title) = Folded(episodes[id].title)}
\* most messages first, then the oldest
Before(i, j) ==
    LET n(k) == Cardinality(episodes[k].messages) IN n(i) > n(j) \/ (n(i) = n(j) /\ i <= j)
Canonical(id) == CHOOSE i \in Twins(id) : \A j \in Twins(id) : Before(i, j)

\* Mutant of Merged: what the duplicates held is left to the alias.
MergedBare(id) == [episodes[id] EXCEPT !.parents = {Canonical(p) : p \in @} \ {id}]

Merged(id) ==
    [episodes[id] EXCEPT
        !.messages = UNION {episodes[i].messages : i \in Twins(id)},
        !.parents = {Canonical(p) : p \in UNION {episodes[i].parents : i \in Twins(id)} \ Twins(id)}]

Duplicates == {id \in Live : Canonical(id) # id}

Repointed ==
    [i \in DOMAIN aliases \cup Duplicates |->
        IF i \in Duplicates THEN Canonical(i)
        ELSE IF aliases[i] \in Duplicates THEN Canonical(aliases[i]) ELSE aliases[i]]

\* The store is opened at startup.
Open ==
    /\ opens < MaxOpens /\ opens' = opens + 1
    /\ episodes' = [id \in Live \ Duplicates |-> Merged(id)]
    /\ aliases' = Repointed
    /\ UNCHANGED <<attached, recorded, retractedEvents, hypotheses>>

-----------------------------------------------------------------------------
(* The ledger around them                                                   *)

RecordMessage(m) ==
    /\ m \notin recorded /\ (m[1] = "assistant" => <<"user", m[2]>> \in recorded)
    /\ recorded' = recorded \cup {m}
    /\ UNCHANGED <<episodes, aliases, attached, retractedEvents, hypotheses, opens>>

RetractMessage(m) ==
    /\ m \in recorded \ retractedEvents
    /\ retractedEvents' = retractedEvents \cup {m}
    /\ UNCHANGED <<episodes, aliases, attached, recorded, hypotheses, opens>>

Next ==
    \/ \E asked \in Issued \cup {0}, m \in Messages :
          \/ asked # 0 /\ AttachMessages(asked, {m})
          \/ \E t \in Titles, p \in SUBSET Issued : Cardinality(p) <= MaxParents /\ UpsertEpisode(asked, t, p, {m})
    \/ \E asked \in 0..MaxHypotheses, s \in Statements : UpsertHypothesis(asked, s)
    \/ \E m \in Messages : RecordMessage(m) \/ RetractMessage(m)
    \/ Open

Spec == Init /\ [][Next]_episodeVars

-----------------------------------------------------------------------------
(* An id that was ever handed out still leads to an episode, and that      *)
(* episode holds every message attached under the id, however many         *)
(* consolidations lie between; a parent is an episode that exists.         *)
IdsStayMeaningful ==
    /\ \A id \in Issued : Resolved(id) \in Live /\ attached[id] \subseteq episodes[Resolved(id)].messages
    /\ \A id \in Live : episodes[id].parents \subseteq Live

(* Two episodes never share a title, whether created, renamed or merged.   *)
TitlesAreDistinct == \A i, j \in Live : episodes[i].title = episodes[j].title => i = j

(* A topic never lies above itself ("Episode parent relation would create  *)
(* a cycle", src/src/reflection/store.rs:2250).  Refuted: a consolidation  *)
(* merges a topic with one above its parent.                               *)
NoTopicAboveItself == \A id \in Live : id \notin Ancestors(episodes, episodes[id].parents)
=============================================================================
