------------------------------- MODULE ModelCouncil -------------------------------
(***************************************************************************)
(* The participation of other models in a conversation: who is active in   *)
(* which Topic (src/src/model_council/activation.rs), the calls of a turn  *)
(* (model_council.rs) and the chat turn that convenes them (web.rs).  The  *)
(* configuration, the user's removals and the browser's look at who is     *)
(* active come in between any two steps of a turn; so do messages, which   *)
(* interrupt the calls.  One response runs at a time, whatever its Topic.  *)
(***************************************************************************)
EXTENDS Naturals, Sequences, FiniteSets

CONSTANTS
    Participants, Scopes,
    MaxSelected,                                        \* participants of a Topic
    MaxHumanTurns, MaxSilentTurns, MaxFailedTurns,      \* turns a participation lasts
    MaxSaid, MaxSettings                                \* bounds

VARIABLES
    enabled,     \* ModelCouncilConfig: the participants that may be mentioned
    active,      \* ActivationRegistry: for each scope, the participants and their counters
    waiting,     \* messages of the running response that no batch has taken
    council,     \* the response: where it is
    input,       \* the input epoch has moved since the response took its batch
    look,        \* activation_snapshot, between its read and what it prunes
    said, settings

councilVars == <<enabled, active, waiting, council, input, look, said, settings>>

Nobody == {}
ActiveIn(s) == DOMAIN active[s]
Renewed == [turns |-> MaxHumanTurns, silent |-> 0, failed |-> 0]
Restrict(f, kept) == [p \in DOMAIN f \cap kept |-> f[p]]
Idle == [at |-> "idle"]

Init ==
    /\ enabled = Participants
    /\ active = [s \in Scopes |-> [p \in Nobody |-> Renewed]]
    /\ waiting = <<>> /\ council = Idle /\ input = FALSE /\ look = Idle
    /\ said = 0 /\ settings = 0

-----------------------------------------------------------------------------
\* The user.

\* update_model_council: any configuration, whoever is active
UpdateConfig(now) ==
    /\ now # enabled /\ enabled' = now
    /\ settings < MaxSettings /\ settings' = settings + 1
    /\ UNCHANGED <<active, waiting, council, input, look, said>>

\* prepare_chat_request: the mentions of one message, and validate_activation_request, before the
\* message is stored and queued
Say(s, mentioned) ==
    /\ said < MaxSaid /\ said' = said + 1
    /\ council.at \in {"convening", "calling"} => ~council.stopped
    /\ mentioned \subseteq enabled /\ Cardinality(ActiveIn(s) \cup mentioned) <= MaxSelected
    /\ waiting' = Append(waiting, [scope |-> s, mentioned |-> mentioned])
    /\ input' = TRUE
    /\ UNCHANGED <<enabled, active, council, look, settings>>

\* announce_input of a request that is then refused: no message comes with it
Announce ==
    /\ council # Idle /\ ~input /\ input' = TRUE
    /\ settings < MaxSettings /\ settings' = settings + 1
    /\ UNCHANGED <<enabled, active, waiting, council, look, said>>

\* interrupt: the response stops, what waits is dropped
Stop ==
    /\ council.at \in {"convening", "calling"} /\ ~council.stopped
    /\ council' = [council EXCEPT !.stopped = TRUE] /\ waiting' = <<>> /\ input' = TRUE
    /\ UNCHANGED <<enabled, active, look, said, settings>>

Deactivate(s, p) ==
    /\ p \in ActiveIn(s)
    /\ active' = [active EXCEPT ![s] = Restrict(@, Participants \ {p})]
    /\ settings < MaxSettings /\ settings' = settings + 1
    /\ UNCHANGED <<enabled, waiting, council, input, look, said>>

\* activation_snapshot of a browser: who is active is read ...
Look(s) ==
    /\ look = Idle /\ ~(ActiveIn(s) \subseteq enabled)
    /\ look' = [at |-> "read", scope |-> s, ids |-> ActiveIn(s)]
    /\ UNCHANGED <<enabled, active, waiting, council, input, said, settings>>

\* ... and whoever is not among those who were, and still are enabled, is removed
Prune ==
    /\ look # Idle /\ look' = Idle
    /\ active' = IF look.ids \subseteq enabled THEN active
                 ELSE [active EXCEPT ![look.scope] = Restrict(@, look.ids \cap enabled)]
    /\ UNCHANGED <<enabled, waiting, council, input, said, settings>>

-----------------------------------------------------------------------------
\* The response.

\* The mentions of a batch, the first MaxSelected of them.
Mentions(batch) == UNION {batch[m].mentioned : m \in DOMAIN batch}
FirstMentions(batch) ==
    {ids \in SUBSET Mentions(batch) :
        Cardinality(ids) = (IF Cardinality(Mentions(batch)) <= MaxSelected THEN Cardinality(Mentions(batch))
                            ELSE MaxSelected)}

\* run_chat: the scope is that of the batch's last message.  A response whose batch is empty fails.
TakeBatch ==
    /\ council.at = "idle" /\ waiting # <<>> /\ waiting' = <<>> /\ input' = FALSE
    /\ LET s == waiting[Len(waiting)].scope
       IN  \E direct \in FirstMentions(waiting) :
            /\ active' = [active EXCEPT ![s] = Restrict(@, enabled)]
            /\ council' = IF direct = {} /\ DOMAIN active'[s] = {} THEN [at |-> "replying"]
                          ELSE [at |-> "convening", scope |-> s, direct |-> direct, previous |-> ActiveIn(s),
                                stopped |-> FALSE]
    /\ UNCHANGED <<enabled, look, said, settings>>

\* Mutant of Convened: whoever was active is, also when the user has removed it since.
AllOfThem(s, valid, direct) == valid \cup direct

\* begin_turn: those of the scope that may stay, and those who were mentioned
Convened(s, valid, direct) == (ActiveIn(s) \cap valid) \cup direct

\* Mutant of Fits: the mentions alone are counted.
MentionsFit(valid, direct) == Cardinality(direct) <= MaxSelected

Fits(valid, direct) == Cardinality(valid \cup direct) <= MaxSelected

\* convene: who is active was read before, and the configuration decides anew; a failure of it is a
\* failure of the whole response
Convene ==
    /\ council.at = "convening"
    /\ LET s == council.scope
           direct == council.direct
           valid == council.previous \cap enabled
           present == Convened(s, valid, direct)
       IN  IF direct \subseteq enabled /\ Fits(valid, direct)
           THEN /\ active' = [active EXCEPT ![s] =
                                [p \in present |-> IF p \in direct \/ p \notin ActiveIn(s) THEN Renewed ELSE active[s][p]]]
                /\ council' = IF present = {} THEN [at |-> "replying"]
                              ELSE [at |-> "calling", scope |-> s, direct |-> direct, called |-> present,
                                    outcomes |-> [p \in Nobody |-> ""], stopped |-> council.stopped]
           ELSE council' = [at |-> "failed"] /\ UNCHANGED active
    /\ UNCHANGED <<enabled, waiting, input, look, said, settings>>

\* participant_decision: what an answer says, anything else is taken for a contribution
Outcomes == {"respond", "silent", "leave"}

\* A call of either transport races the input of the conversation, and either may win; it may fail.
Called(outcome) == outcome \in Outcomes \cup {"failed"} \/ (outcome = "interrupted" /\ input)

\* call_participant
Answer(p, outcome) ==
    /\ council.at = "calling" /\ p \in council.called \ DOMAIN council.outcomes
    /\ Called(outcome)
    /\ council' = [council EXCEPT !.outcomes =
                        [q \in DOMAIN @ \cup {p} |-> IF q = p THEN outcome ELSE @[q]]]
    /\ UNCHANGED <<enabled, active, waiting, input, look, said, settings>>

\* finish_turn for one participant
Counted(counters, outcome) ==
    LET spent == [counters EXCEPT !.turns = IF @ = 0 THEN 0 ELSE @ - 1]
    IN  CASE outcome = "respond" -> [spent EXCEPT !.silent = 0, !.failed = 0]
          [] outcome = "silent" -> [spent EXCEPT !.silent = @ + 1, !.failed = 0]
          [] outcome = "failed" -> [spent EXCEPT !.failed = @ + 1]
          [] OTHER -> spent

\* Mutant of Remains: the last turn is one more.
RemainsOnce(counters) == counters.silent < MaxSilentTurns /\ counters.failed < MaxFailedTurns

Remains(counters) ==
    counters.turns > 0 /\ counters.silent < MaxSilentTurns /\ counters.failed < MaxFailedTurns

\* finish_turn; participants that were removed during the calls stay removed
Finished(counters, outcomes) ==
    LET after == [p \in DOMAIN counters |->
                    IF p \in DOMAIN outcomes THEN Counted(counters[p], outcomes[p]) ELSE counters[p]]
        left == {p \in DOMAIN outcomes : outcomes[p] = "leave"}
    IN  Restrict(after, {p \in DOMAIN after \ left : Remains(after[p])})

\* convene after its calls: an interrupted one leaves everybody's counters alone, also of those who
\* answered.  run_chat goes back for the next batch, without what was said, when input came.
Finish ==
    /\ council.at = "calling" /\ DOMAIN council.outcomes = council.called
    /\ LET interrupted == \E p \in council.called : council.outcomes[p] = "interrupted"
       IN  /\ active' = IF interrupted THEN active
                        ELSE [active EXCEPT ![council.scope] = Finished(@, council.outcomes)]
           /\ council' = IF waiting # <<>> THEN Idle
                         ELSE [at |-> IF interrupted /\ ~council.stopped THEN "failed" ELSE "replying"]
    /\ UNCHANGED <<enabled, waiting, input, look, said, settings>>

\* What the Symbiont then replies belongs to the chat's module; a message during it starts over.  A
\* response that fails is aborted, and the messages it had not taken yet with it.
Reply ==
    /\ council.at \in {"replying", "failed"} /\ council' = Idle
    /\ waiting' = IF council.at = "failed" THEN <<>> ELSE waiting
    /\ UNCHANGED <<enabled, active, input, look, said, settings>>

\* The activations are in memory only.
Restart ==
    /\ settings < MaxSettings /\ settings' = settings + 1
    /\ active' = [s \in Scopes |-> [p \in Nobody |-> Renewed]]
    /\ waiting' = <<>> /\ council' = Idle /\ look' = Idle /\ input' = FALSE
    /\ UNCHANGED <<enabled, said>>

Next ==
    \/ \E now \in SUBSET Participants : UpdateConfig(now)
    \/ \E s \in Scopes, mentioned \in SUBSET Participants : Say(s, mentioned)
    \/ \E s \in Scopes, p \in Participants : Deactivate(s, p)
    \/ \E s \in Scopes : Look(s)
    \/ Announce \/ Stop \/ Prune \/ TakeBatch \/ Convene
    \/ \E p \in Participants, outcome \in Outcomes \cup {"failed", "interrupted"} : Answer(p, outcome)
    \/ Finish \/ Reply \/ Restart

Spec == Init /\ [][Next]_councilVars

-----------------------------------------------------------------------------
\* Nobody takes part in a Topic unasked: a participant becomes active only by a mention in the batch of
\* the running turn, although who is active is read, pruned, ended and written back by several requests
\* at once; one whom the user removed meanwhile does not come back with a stale list.
OnlyMentionsActivate ==
    [][\A s \in Scopes, p \in Participants :
            p \notin ActiveIn(s) /\ p \in DOMAIN active'[s] => council.scope = s /\ p \in council.direct]_councilVars

\* No more participants in a Topic than a discussion allows, and none beyond its turns.
ParticipationIsBounded ==
    \A s \in Scopes :
        /\ Cardinality(ActiveIn(s)) <= MaxSelected
        /\ \A p \in ActiveIn(s) : Remains(active[s][p]) /\ active[s][p].turns \in 1 .. MaxHumanTurns

\* Refuted by the code: messages that were each accepted with their mentions get their response.  The
\* mentions of a burst add up, go to the Topic of its last message, and may have been disabled since.
AcceptedMentionsConvene == council.at # "failed"

\* Refuted by the code: who was mentioned in a turn takes part until it leaves, is removed or disabled;
\* a look at who was active before may remove it.
MentionedTakesPart ==
    [][look # Idle /\ look' = Idle /\ council.at = "calling" =>
        \A p \in council.direct \cap enabled : p \in ActiveIn(council.scope) => p \in DOMAIN active'[council.scope]]_councilVars

\* Refuted by the code: a participant that left in its answer is not called again without a mention.
LeavingIsHeard ==
    [][council.at = "calling" /\ council'.at # "calling" =>
        \A p \in DOMAIN council.outcomes : council.outcomes[p] = "leave" => p \notin DOMAIN active'[council.scope]]_councilVars
=============================================================================
