--------------------------- MODULE DiscussionProofs ---------------------------
(***************************************************************************)
(* Temporary discussions stay whole, for every set of requests, promotions *)
(* and clients that leave, and every even limit of turns: one call at a    *)
(* time holds the gate, the call owns the session it reads until it is     *)
(* settled, and whatever the user does meanwhile, to hold, discard or      *)
(* promote the discussion, finds it in a state the next request can use.   *)
(***************************************************************************)
EXTENDS EphemeralDiscussion, SequenceTheorems, TLAPS

-----------------------------------------------------------------------------
(* The invariant.                                                            *)

Calls(r) == op[r].stage \in {"calling", "answered"}
Question(s) == store[s].turns[Len(store[s].turns)]

(* operation_gate serialises whatever is between it and its end.             *)
GateIsHeld ==
    \A r \in Requests :
        op[r].stage \in {"seeding", "ready", "calling", "answered"} => gate = r

(* While the session of a call is current, the service says it is busy with  *)
(* this call, and nobody else touches the question it answers.               *)
Owns(r) ==
    /\ cancellation = r
    /\ store[current].state # "held"
    /\ LastIs(current, "user")
    /\ Len(op[r].context) = Len(store[current].turns)
    /\ Question(current).failed \/ Question(current).by = r

CallOwnsSession ==
    \A r \in Requests :
        Calls(r) => op[r].session \in Sessions /\ (current = op[r].session => Owns(r))

(* A question waits for the call that answers it, or may be asked again.     *)
QuestionsAreAsked ==
    \A s \in Sessions :
        Live(s) /\ LastIs(s, "user") =>
            \/ Question(s).failed
            \/ Question(s).by \in Overlong \cup Leaving
            \/ \E r \in Requests : Calls(r) /\ op[r].session = s

(* How a call ended; only the overlong exceed max_characters.                *)
OutcomesAreKnown ==
    \A r \in Requests :
        op[r].stage = "answered" =>
            \/ op[r].outcome \in {"answer", "error", "interrupted"}
            \/ op[r].outcome = "long" /\ r \in Overlong

WholeInv ==
    /\ TypeOK
    /\ OutcomesAreKnown
    /\ GateIsHeld
    /\ LiveSessionIsCurrent
    /\ BusyMeansReplying
    /\ AnswersFollowTheirContext
    /\ CallOwnsSession
    /\ QuestionsAreAsked

-----------------------------------------------------------------------------
(* The store: what each way of writing it returns.                           *)

States == {"unused", "open", "held", "gone"}
SessionType == [state : States, turns : Seq(Turns), idle : BOOLEAN, seeded : BOOLEAN]
StoreType == [Sessions -> SessionType]

Short == \A s \in Sessions : Len(store[s].turns) <= MaxTurns

LEMMA StoreFacts ==
    ASSUME TypeOK
    PROVE  /\ store \in StoreType
           /\ \A s \in Sessions :
                 /\ store[s].turns \in Seq(Turns)
                 /\ Len(store[s].turns) \in Nat /\ Len(store[s].turns) <= MaxTurns
                 /\ \A i \in 1..Len(store[s].turns) : store[s].turns[i] \in Turns
           /\ MaxTurns \in Nat
<1>1. store \in StoreType
  BY DEF TypeOK, StoreType, SessionType, States
<1>2. \A s \in Sessions : store[s].turns \in Seq(Turns)
  BY <1>1 DEF StoreType, SessionType
<1>3. \A s \in Sessions : /\ Len(store[s].turns) \in Nat
                          /\ \A i \in 1..Len(store[s].turns) : store[s].turns[i] \in Turns
  BY <1>2, LenProperties, ElementOfSeq
<1> QED BY <1>1, <1>2, <1>3, DiscussionAssumption DEF TypeOK

LEMMA DroppedSession ==
    ASSUME NEW st \in StoreType, NEW s \in Sessions
    PROVE  /\ Dropped(st, s) \in StoreType
           /\ Dropped(st, s)[s].state = "gone" /\ Dropped(st, s)[s].turns = st[s].turns
           /\ \A t \in Sessions : t # s => Dropped(st, s)[t] = st[t]
<1>1. st[s] \in SessionType
  BY DEF StoreType
<1>2. PICK new \in SessionType : /\ new.state = "gone" /\ new.turns = st[s].turns
                                 /\ Dropped(st, s) = [st EXCEPT ![s] = new]
  <2>1. [st[s] EXCEPT !.state = "gone"] \in SessionType
    BY <1>1 DEF SessionType, States
  <2>2. Dropped(st, s) = [st EXCEPT ![s] = [st[s] EXCEPT !.state = "gone"]]
    BY DEF Dropped
  <2>3. /\ [st[s] EXCEPT !.state = "gone"].state = "gone"
        /\ [st[s] EXCEPT !.state = "gone"].turns = st[s].turns
    BY <1>1 DEF SessionType
  <2> QED BY <2>1, <2>2, <2>3
<1> QED BY <1>2 DEF StoreType

(* A store that has let go of some sessions and keeps what was said.         *)
Sheds(st) ==
    /\ st \in StoreType
    /\ \A t \in Sessions : /\ st[t].turns = store[t].turns
                           /\ st[t].state \in {store[t].state, "gone"}

LEMMA ShedsNothing ==
    ASSUME TypeOK
    PROVE  Sheds(store)
BY StoreFacts DEF Sheds

LEMMA DroppedSheds ==
    ASSUME TypeOK, NEW s \in Sessions
    PROVE  Sheds(Dropped(store, s)) /\ Dropped(store, s)[s].state = "gone"
BY StoreFacts, DroppedSession DEF Sheds

LEMMA ExpiredSheds ==
    ASSUME TypeOK, NEW s \in Sessions
    PROVE  /\ Sheds(Expired(s))
           /\ \A t \in Sessions : t # s => Expired(s)[t] = store[t]
           /\ ~Reachable(s) => Expired(s)[s].state \notin {"open", "held"}
           /\ Reachable(s) => Expired(s) = store
<1>1. CASE Live(s) /\ store[s].idle
  <2>1. Expired(s) = Dropped(store, s)
    BY <1>1 DEF Expired
  <2>2. Sheds(Dropped(store, s)) /\ Dropped(store, s)[s].state = "gone"
    BY DroppedSheds
  <2>3. \A t \in Sessions : t # s => Dropped(store, s)[t] = store[t]
    BY DroppedSession, StoreFacts
  <2> QED BY <1>1, <2>1, <2>2, <2>3 DEF Reachable
<1>2. CASE ~(Live(s) /\ store[s].idle)
  <2>1. Expired(s) = store
    BY <1>2 DEF Expired
  <2>2. ~Reachable(s) => store[s].state \notin {"open", "held"}
    BY <1>2 DEF Reachable, Live
  <2> QED BY <2>1, <2>2, ShedsNothing
<1> QED BY <1>1, <1>2

(* What one session is replaced by when it is active.                        *)
LEMMA ActiveSession ==
    ASSUME TypeOK, NEW s \in Sessions, NEW state \in States, NEW turns \in Seq(Turns)
    PROVE  /\ Active(s, state, turns) \in StoreType
           /\ Active(s, state, turns)[s].state = state
           /\ Active(s, state, turns)[s].turns = turns
           /\ \A t \in Sessions : t # s => Active(s, state, turns)[t] = store[t]
<1>1. store[s] \in SessionType /\ store \in StoreType
  BY StoreFacts DEF StoreType
<1>2. PICK new \in SessionType : /\ new.state = state /\ new.turns = turns
                                 /\ Active(s, state, turns) = [store EXCEPT ![s] = new]
  <2> DEFINE new == [store[s] EXCEPT !.state = state, !.turns = turns, !.idle = FALSE]
  <2>1. new \in SessionType /\ new.state = state /\ new.turns = turns
    BY <1>1 DEF SessionType
  <2>2. Active(s, state, turns) = [store EXCEPT ![s] = new]
    BY <1>1 DEF Active, StoreType
  <2> HIDE DEF new
  <2> QED BY <2>1, <2>2
<1> QED BY <1>1, <1>2 DEF StoreType

(* The last question, marked as failed or no longer.                         *)
Rewritten(turns, failed) == [turns EXCEPT ![Len(turns)].failed = failed]

LEMMA QuestionRewritten ==
    ASSUME NEW turns \in Seq(Turns), NEW failed \in BOOLEAN,
           NEW last, last = Len(turns), last > 0, turns[last].role = "user"
    PROVE  /\ Rewritten(turns, failed) \in Seq(Turns)
           /\ Len(Rewritten(turns, failed)) = last
           /\ \A i \in 1..last : i # last => Rewritten(turns, failed)[i] = turns[i]
           /\ Rewritten(turns, failed)[last].role = "user"
           /\ Rewritten(turns, failed)[last].failed = failed
<1>1. last \in Nat /\ DOMAIN turns = 1..last /\ last \in 1..last
  BY LenProperties
<1>2. turns[last] \in Turns
  BY <1>1, ElementOfSeq
<1>3. turns[last] \in [role : {"user"}, by : Requests, failed : BOOLEAN]
  BY <1>2 DEF Turns
<1>4. PICK question \in Turns :
         /\ question.role = "user" /\ question.failed = failed
         /\ Rewritten(turns, failed) = [turns EXCEPT ![last] = question]
  <2> DEFINE question == [turns[last] EXCEPT !.failed = failed]
  <2>1. question \in Turns /\ question.role = "user" /\ question.failed = failed
    BY <1>3 DEF Turns
  <2>2. Rewritten(turns, failed) = [turns EXCEPT ![last] = question]
    BY DEF Rewritten
  <2> HIDE DEF question
  <2> QED BY <2>1, <2>2
<1>5. PICK new : new = Rewritten(turns, failed)
  OBVIOUS
<1>6. /\ new \in [1..last -> Turns] /\ new[last] = question
      /\ \A i \in 1..last : i # last => new[i] = turns[i]
  BY <1>1, <1>4, <1>5, ElementOfSeq
<1>7. new \in Seq(Turns)
  BY <1>1, <1>6, SeqDef
<1>8. Len(new) = last
  BY <1>1, <1>6, <1>7, LenProperties
<1> QED BY <1>4, <1>5, <1>6, <1>7, <1>8

-----------------------------------------------------------------------------
(* The requests: what each way of moving one on returns.                     *)

Stages == {"idle", "admitted", "waiting", "seeding", "ready", "calling", "answered", "done"}
RequestType ==
    [stage : Stages, kind : {"reply", "retry"}, seed : {"unread", "read", "failed"},
     session : Sessions \cup {None}, context : Seq(Turns),
     outcome : {None, "answer", "error", "interrupted", "long"}]
OpType == [Requests -> RequestType]

(* One request moves on, with what it calls with.                            *)
MovesTo(r, stage) ==
    /\ op' \in OpType
    /\ op'[r].stage = stage
    /\ op'[r].session = op[r].session /\ op'[r].context = op[r].context
    /\ \A q \in Requests : q # r => op'[q] = op[q]

LEMMA OpFacts ==
    ASSUME TypeOK, NEW r \in Requests
    PROVE  op \in OpType /\ op[r] \in RequestType
BY DEF TypeOK, OpType, RequestType, Stages

LEMMA StageMoves ==
    ASSUME TypeOK, NEW r \in Requests, NEW stage \in Stages, Stage(r, stage)
    PROVE  MovesTo(r, stage) /\ op'[r].outcome = op[r].outcome
<1>1. op \in OpType /\ op[r] \in RequestType
  BY OpFacts
<1>2. PICK new \in RequestType :
         /\ new.stage = stage /\ new.session = op[r].session /\ new.context = op[r].context
         /\ new.outcome = op[r].outcome
         /\ op' = [op EXCEPT ![r] = new]
  <2> DEFINE new == [op[r] EXCEPT !.stage = stage]
  <2>1. /\ new \in RequestType
        /\ new.stage = stage /\ new.session = op[r].session /\ new.context = op[r].context
        /\ new.outcome = op[r].outcome
    BY <1>1 DEF RequestType
  <2>2. op' = [op EXCEPT ![r] = new]
    BY DEF Stage
  <2> HIDE DEF new
  <2> QED BY <2>1, <2>2
<1> QED BY <1>1, <1>2 DEF MovesTo, OpType

LEMMA AdmitMoves ==
    ASSUME TypeOK, NEW r \in Requests, Admit(r)
    PROVE  MovesTo(r, "admitted")
<1>1. op \in OpType /\ op[r] \in RequestType
  BY OpFacts
<1>2. PICK kind \in {"reply", "retry"} :
         op' = [op EXCEPT ![r].stage = "admitted", ![r].kind = kind]
  BY DEF Admit
<1>3. PICK new \in RequestType :
         /\ new.stage = "admitted" /\ new.session = op[r].session /\ new.context = op[r].context
         /\ op' = [op EXCEPT ![r] = new]
  <2> DEFINE new == [op[r] EXCEPT !.stage = "admitted", !.kind = kind]
  <2>1. /\ new \in RequestType
        /\ new.stage = "admitted" /\ new.session = op[r].session /\ new.context = op[r].context
    BY <1>1 DEF RequestType, Stages
  <2>2. op' = [op EXCEPT ![r] = new]
    BY <1>1, <1>2 DEF OpType
  <2> HIDE DEF new
  <2> QED BY <2>1, <2>2
<1> QED BY <1>1, <1>3 DEF MovesTo, OpType

LEMMA ReadSeedMoves ==
    ASSUME TypeOK, NEW r \in Requests, ReadSeed(r)
    PROVE  MovesTo(r, "ready")
<1>1. op \in OpType /\ op[r] \in RequestType
  BY OpFacts
<1>2. PICK seed \in {"read", "failed"} :
         op' = [op EXCEPT ![r].stage = "ready", ![r].seed = seed]
  BY DEF ReadSeed
<1>3. PICK new \in RequestType :
         /\ new.stage = "ready" /\ new.session = op[r].session /\ new.context = op[r].context
         /\ op' = [op EXCEPT ![r] = new]
  <2> DEFINE new == [op[r] EXCEPT !.stage = "ready", !.seed = seed]
  <2>1. /\ new \in RequestType
        /\ new.stage = "ready" /\ new.session = op[r].session /\ new.context = op[r].context
    BY <1>1 DEF RequestType, Stages
  <2>2. op' = [op EXCEPT ![r] = new]
    BY <1>1, <1>2 DEF OpType
  <2> HIDE DEF new
  <2> QED BY <2>1, <2>2
<1> QED BY <1>1, <1>3 DEF MovesTo, OpType

LEMMA CompleteMoves ==
    ASSUME TypeOK, NEW r \in Requests, Complete(r)
    PROVE  /\ MovesTo(r, "answered")
           /\ \/ op'[r].outcome \in {"answer", "error", "interrupted"}
              \/ op'[r].outcome = "long" /\ r \in Overlong
<1>1. op \in OpType /\ op[r] \in RequestType
  BY OpFacts
<1>2. PICK outcome \in {"answer", "error", "interrupted", "long"} :
         /\ op' = [op EXCEPT ![r].stage = "answered", ![r].outcome = outcome]
         /\ outcome = "long" => r \in Overlong
  BY DEF Complete
<1>3. PICK new \in RequestType :
         /\ new.stage = "answered" /\ new.session = op[r].session /\ new.context = op[r].context
         /\ new.outcome = outcome
         /\ op' = [op EXCEPT ![r] = new]
  <2> DEFINE new == [op[r] EXCEPT !.stage = "answered", !.outcome = outcome]
  <2>1. /\ new \in RequestType
        /\ new.stage = "answered" /\ new.session = op[r].session /\ new.context = op[r].context
        /\ new.outcome = outcome
    BY <1>1 DEF RequestType, Stages
  <2>2. op' = [op EXCEPT ![r] = new]
    BY <1>1, <1>2 DEF OpType
  <2> HIDE DEF new
  <2> QED BY <2>1, <2>2
<1> QED BY <1>1, <1>2, <1>3 DEF MovesTo, OpType

LEMMA CallMoves ==
    ASSUME TypeOK, NEW r \in Requests, NEW s \in Sessions, NEW turns \in Seq(Turns),
           Call(r, s, turns)
    PROVE  /\ op' \in OpType
           /\ op'[r].stage = "calling" /\ op'[r].session = s /\ op'[r].context = turns
           /\ \A q \in Requests : q # r => op'[q] = op[q]
<1>1. op \in OpType /\ op[r] \in RequestType
  BY OpFacts
<1>2. op' = [op EXCEPT ![r].stage = "calling", ![r].session = s, ![r].context = turns]
  BY DEF Call
<1>3. PICK new \in RequestType :
         /\ new.stage = "calling" /\ new.session = s /\ new.context = turns
         /\ op' = [op EXCEPT ![r] = new]
  <2> DEFINE new == [op[r] EXCEPT !.stage = "calling", !.session = s, !.context = turns]
  <2>1. /\ new \in RequestType
        /\ new.stage = "calling" /\ new.session = s /\ new.context = turns
    BY <1>1 DEF RequestType, Stages
  <2>2. op' = [op EXCEPT ![r] = new]
    BY <1>1, <1>2 DEF OpType
  <2> HIDE DEF new
  <2> QED BY <2>1, <2>2
<1> QED BY <1>1, <1>3 DEF OpType

-----------------------------------------------------------------------------
(* A step that says nothing new: a request on its way, a refusal, a client   *)
(* that leaves, or one of the user's other requests.                         *)

Gated == {"seeding", "ready", "calling", "answered"}

RequestsGoOn ==
    \A q \in Requests :
        /\ op'[q].stage \in Gated => gate' = q
        /\ Calls(q)' => /\ Calls(q)
                        /\ op'[q].session = op[q].session /\ op'[q].context = op[q].context
        /\ Calls(q) => Calls(q)' \/ q \in Leaving

QuietStep ==
    /\ \A t \in Sessions : store'[t].turns = store[t].turns /\ (Live(t)' => Live(t))
    /\ \/ cancellation = None
       \/ \A t \in Sessions : store'[t].state \in {store[t].state, "gone"}
    /\ \/ UNCHANGED <<current, cancellation>>
       \/ current' = None /\ cancellation' = None /\ \A t \in Sessions : ~Live(t)'
    /\ RequestsGoOn

(* No call is under way while somebody else, or nobody, holds the gate.      *)
LEMMA OneHolder ==
    ASSUME GateIsHeld, NEW q \in Requests, gate # q
    PROVE  ~Calls(q) /\ op[q].stage \notin Gated
BY DEF GateIsHeld, Calls, Gated

LEMMA QuietKeepsWhole ==
    ASSUME WholeInv, TypeOK', OutcomesAreKnown', QuietStep
    PROVE  WholeInv' /\ \A s \in Sessions : store'[s].turns = store[s].turns
<1>1. \A t \in Sessions : store'[t].turns = store[t].turns /\ (Live(t)' => Live(t))
  BY DEF QuietStep
<1>2. GateIsHeld'
  BY DEF QuietStep, RequestsGoOn, Gated, GateIsHeld
<1>3. LiveSessionIsCurrent'
  <2>1. CASE UNCHANGED current
    BY <1>1, <2>1 DEF WholeInv, LiveSessionIsCurrent
  <2>2. CASE \A t \in Sessions : ~Live(t)'
    BY <2>2 DEF LiveSessionIsCurrent
  <2> QED BY <2>1, <2>2 DEF QuietStep
<1>4. BusyMeansReplying'
  <2> SUFFICES ASSUME cancellation' \notin {None} \cup Leaving
               PROVE  Calls(cancellation)' /\ gate' = cancellation'
    BY DEF BusyMeansReplying, Calls
  <2>1. cancellation' = cancellation /\ cancellation \in Requests
    BY DEF QuietStep, WholeInv, TypeOK
  <2>2. Calls(cancellation)
    BY <2>1 DEF WholeInv, BusyMeansReplying, Calls
  <2>3. op'[cancellation].stage \in {"calling", "answered"}
    BY <2>1, <2>2 DEF QuietStep, RequestsGoOn, Calls
  <2>4. gate' = cancellation
    BY <2>1, <2>3 DEF QuietStep, RequestsGoOn, Gated
  <2> QED BY <2>1, <2>3, <2>4 DEF Calls
<1>5. AnswersFollowTheirContext'
  BY <1>1 DEF WholeInv, AnswersFollowTheirContext
<1>6. CallOwnsSession'
  <2> SUFFICES ASSUME NEW r \in Requests, Calls(r)'
               PROVE  op'[r].session \in Sessions /\ (current' = op'[r].session => Owns(r)')
    BY DEF CallOwnsSession
  <2>1. /\ Calls(r)
        /\ op'[r].session = op[r].session /\ op'[r].context = op[r].context
    BY DEF QuietStep, RequestsGoOn
  <2>2. op[r].session \in Sessions
    BY <2>1 DEF WholeInv, CallOwnsSession
  <2>3. ASSUME current' = op[r].session
        PROVE  Owns(r)'
    <3>1. UNCHANGED <<current, cancellation>>
      BY <2>2, <2>3, DiscussionAssumption DEF QuietStep, Sessions
    <3>2. Owns(r) /\ current \in Sessions
      BY <2>1, <2>2, <2>3, <3>1 DEF WholeInv, CallOwnsSession
    <3>3. store'[current].state # "held"
      BY <3>2, DiscussionAssumption DEF QuietStep, Owns
    <3>4. store'[current].turns = store[current].turns
      BY <1>1, <3>2
    <3> QED BY <2>1, <3>1, <3>2, <3>3, <3>4 DEF Owns, LastIs, Question
  <2> QED BY <2>1, <2>2, <2>3
<1>7. QuestionsAreAsked'
  <2> SUFFICES ASSUME NEW s \in Sessions, Live(s)', LastIs(s, "user")'
               PROVE  \/ Question(s)'.failed
                      \/ Question(s)'.by \in Overlong \cup Leaving
                      \/ \E r \in Requests : Calls(r)' /\ op'[r].session = s
    BY DEF QuestionsAreAsked
  <2>1. Live(s) /\ LastIs(s, "user") /\ Question(s)' = Question(s)
    BY <1>1 DEF LastIs, Question
  <2>2. CASE Question(s).failed \/ Question(s).by \in Overlong \cup Leaving
    BY <2>1, <2>2
  <2>3. CASE \E r \in Requests : Calls(r) /\ op[r].session = s
    <3>1. PICK r \in Requests : Calls(r) /\ op[r].session = s
      BY <2>3
    <3>2. CASE Calls(r)'
      BY <3>1, <3>2 DEF QuietStep, RequestsGoOn
    <3>3. CASE ~Calls(r)'
      <4>1. r \in Leaving
        BY <3>1, <3>3 DEF QuietStep, RequestsGoOn
      <4>2. current = s
        BY <2>1 DEF WholeInv, LiveSessionIsCurrent
      <4>3. Question(s).failed \/ Question(s).by = r
        BY <3>1, <4>2 DEF WholeInv, CallOwnsSession, Owns
      <4> QED BY <2>1, <4>1, <4>3
    <3> QED BY <3>2, <3>3
  <2> QED BY <2>1, <2>2, <2>3 DEF WholeInv, QuestionsAreAsked
<1> QED BY <1>1, <1>2, <1>3, <1>4, <1>5, <1>6, <1>7 DEF WholeInv

-----------------------------------------------------------------------------
(* The steps of one request that ask and settle nothing.                     *)

PromotionType == [stage : {"idle", "drafted", "stored", "unretired", "done"},
                  session : Sessions \cup {None}, turns : Nat]

Around ==
    /\ current \in Sessions \cup {None}
    /\ cancellation \in Requests \cup {None}
    /\ signalled \subseteq Requests
    /\ gate \in Requests \cup {None}
    /\ promotion \in [Promotions -> PromotionType]
    /\ durable \subseteq [session : Sessions, turns : Nat, by : Promotions]
    /\ discarded \subseteq Sessions
    /\ chat \in {"idle", "checked", "active", "interrupted"}

LEMMA TypeParts == TypeOK <=> Short /\ store \in StoreType /\ op \in OpType /\ Around
BY DEF TypeOK, Short, StoreType, SessionType, States, OpType, RequestType, Stages,
       Around, PromotionType

LEMMA TypePartsNext ==
    TypeOK' <=> Short' /\ store' \in StoreType /\ op' \in OpType /\ Around'
BY DEF TypeOK, Short, StoreType, SessionType, States, OpType, RequestType, Stages,
       Around, PromotionType

(* One request moves on, and lets no other one lose the gate.                *)
LEMMA OneGoesOn ==
    ASSUME WholeInv, NEW r \in Requests, NEW stage \in Stages, MovesTo(r, stage),
           stage \in Gated => gate' = r,
           \A q \in Requests : q # r /\ gate = q => gate' = q,
           Calls(r) => stage \in {"calling", "answered"} \/ r \in Leaving,
           stage \in {"calling", "answered"} => Calls(r)
    PROVE  RequestsGoOn /\ (stage # "answered" => OutcomesAreKnown')
<1>1. ASSUME NEW q \in Requests
      PROVE  /\ op'[q].stage \in Gated => gate' = q
             /\ Calls(q)' => /\ Calls(q)
                             /\ op'[q].session = op[q].session
                             /\ op'[q].context = op[q].context
             /\ Calls(q) => Calls(q)' \/ q \in Leaving
  <2>1. CASE q = r
    BY <2>1 DEF MovesTo, Calls
  <2>2. CASE q # r
    <3>1. op'[q] = op[q]
      BY <2>2 DEF MovesTo
    <3> QED BY <2>2, <3>1 DEF WholeInv, GateIsHeld, Gated, Calls
  <2> QED BY <2>1, <2>2
<1>2. stage # "answered" => OutcomesAreKnown'
  BY DEF MovesTo, WholeInv, OutcomesAreKnown
<1> QED BY <1>1, <1>2 DEF RequestsGoOn

(* What nobody says, nobody forgets.                                         *)
LEMMA SheddingIsQuiet ==
    ASSUME WholeInv, Sheds(store'), RequestsGoOn,
           \/ UNCHANGED <<current, cancellation>>
           \/ current' = None /\ cancellation' = None /\ \A t \in Sessions : ~Live(t)'
    PROVE  QuietStep /\ Short'
<1>1. \A t \in Sessions : /\ store'[t].turns = store[t].turns
                          /\ store'[t].state \in {store[t].state, "gone"}
  BY DEF Sheds
<1>2. \A t \in Sessions : Live(t)' => Live(t)
  BY <1>1 DEF Live
<1>3. Short'
  BY <1>1, TypeParts DEF WholeInv, Short
<1> QED BY <1>1, <1>2, <1>3 DEF QuietStep

LEMMA RequestGoesOn ==
    ASSUME WholeInv, NEW r \in Requests, NEW stage \in Stages, MovesTo(r, stage),
           stage \in Gated => gate' = r,
           \A q \in Requests : q # r /\ gate = q => gate' = q,
           Calls(r) => stage \in {"calling", "answered"} \/ r \in Leaving,
           stage \in {"calling", "answered"} => Calls(r),
           gate' \in Requests \cup {None},
           UNCHANGED <<store, service, promotion, durable, discarded>>,
           chat' \in {"idle", "checked", "active", "interrupted"}
    PROVE  TypeOK' /\ QuietStep /\ (stage # "answered" => OutcomesAreKnown')
<1>1. RequestsGoOn /\ (stage # "answered" => OutcomesAreKnown')
  BY OneGoesOn
<1>2. Sheds(store')
  BY ShedsNothing DEF WholeInv, service
<1>3. QuietStep /\ Short'
  BY <1>1, <1>2, SheddingIsQuiet DEF service
<1>4. Around' /\ store' \in StoreType /\ op' \in OpType
  BY TypeParts DEF WholeInv, Around, service, MovesTo
<1> QED BY <1>1, <1>3, <1>4, TypePartsNext

LEMMA RequestsAreQuiet ==
    ASSUME WholeInv, NEW r \in Requests,
           Admit(r) \/ Announce(r) \/ PassGate(r) \/ ReadSeed(r) \/ Complete(r) \/ Leave(r)
    PROVE  TypeOK' /\ OutcomesAreKnown' /\ QuietStep
<1>0. /\ TypeOK /\ GateIsHeld /\ Around /\ None \notin Requests
  BY TypeParts, DiscussionAssumption DEF WholeInv
<1>1. CASE Admit(r)
  <2>1. MovesTo(r, "admitted")
    BY <1>0, <1>1, AdmitMoves
  <2>2. ~Calls(r)
    BY <1>1 DEF Admit, Calls
  <2> QED BY <1>0, <1>1, <2>1, <2>2, RequestGoesOn DEF Admit, Around, Gated, Stages
<1>2. CASE Announce(r)
  <2>1. MovesTo(r, "waiting")
    BY <1>0, <1>2, StageMoves DEF Announce, Stages
  <2>2. ~Calls(r)
    BY <1>2 DEF Announce, Calls
  <2> QED BY <1>0, <1>2, <2>1, <2>2, RequestGoesOn DEF Announce, Around, Gated, Stages
<1>3. CASE PassGate(r)
  <2>1. PICK stage \in {"seeding", "ready"} : Stage(r, stage)
    BY <1>3 DEF PassGate
  <2>2. MovesTo(r, stage)
    BY <1>0, <2>1, StageMoves DEF Stages
  <2>3. ~Calls(r)
    BY <1>3 DEF PassGate, Calls
  <2> QED BY <1>0, <1>3, <2>1, <2>2, <2>3, RequestGoesOn
          DEF PassGate, Around, Stages
<1>4. CASE ReadSeed(r)
  <2>1. MovesTo(r, "ready")
    BY <1>0, <1>4, ReadSeedMoves
  <2>2. ~Calls(r) /\ gate = r
    BY <1>0, <1>4 DEF ReadSeed, Calls, GateIsHeld
  <2> QED BY <1>0, <1>4, <2>1, <2>2, RequestGoesOn DEF ReadSeed, Around, Stages
<1>5. CASE Complete(r)
  <2>1. /\ MovesTo(r, "answered")
        /\ \/ op'[r].outcome \in {"answer", "error", "interrupted"}
           \/ op'[r].outcome = "long" /\ r \in Overlong
    BY <1>0, <1>5, CompleteMoves
  <2>2. Calls(r) /\ gate = r
    BY <1>0, <1>5 DEF Complete, Calls, GateIsHeld
  <2>3. OutcomesAreKnown'
    BY <2>1 DEF MovesTo, WholeInv, OutcomesAreKnown
  <2> QED BY <1>0, <1>5, <2>1, <2>2, <2>3, RequestGoesOn DEF Complete, Around, Stages
<1>6. CASE Leave(r)
  <2>1. MovesTo(r, "done")
    BY <1>0, <1>6, StageMoves DEF Leave, Stages
  <2> QED BY <1>0, <1>6, <2>1, RequestGoesOn DEF Leave, Around, Gated, Stages
<1> QED BY <1>1, <1>2, <1>3, <1>4, <1>5, <1>6

-----------------------------------------------------------------------------
(* The other requests of the user, promotions, and time.                     *)

(* The requests stay where they are.                                         *)
LEMMA NobodyMoves ==
    ASSUME WholeInv, UNCHANGED <<gate, op>>
    PROVE  RequestsGoOn /\ OutcomesAreKnown' /\ op' \in OpType
<1>1. RequestsGoOn
  BY DEF WholeInv, GateIsHeld, RequestsGoOn, Gated, Calls
<1>2. OutcomesAreKnown'
  BY DEF WholeInv, OutcomesAreKnown
<1>3. op \in OpType
  BY TypeParts DEF WholeInv
<1> QED BY <1>1, <1>2, <1>3

LEMMA ShedsAreQuiet ==
    ASSUME WholeInv, UNCHANGED <<gate, op>>, Sheds(store'), Around',
           \/ UNCHANGED <<current, cancellation>>
           \/ current' = None /\ cancellation' = None /\ \A t \in Sessions : ~Live(t)'
    PROVE  TypeOK' /\ OutcomesAreKnown' /\ QuietStep
<1>1. RequestsGoOn /\ OutcomesAreKnown' /\ op' \in OpType
  BY NobodyMoves
<1>2. QuietStep /\ Short'
  BY <1>1, SheddingIsQuiet
<1>3. store' \in StoreType
  BY DEF Sheds
<1> QED BY <1>1, <1>2, <1>3, TypePartsNext

(* Nothing is live once the current session is gone.                         *)
LEMMA NothingElseLives ==
    ASSUME WholeInv, Sheds(store'),
           current = None \/ store'[current].state \notin {"open", "held"}
    PROVE  \A t \in Sessions : ~Live(t)'
<1> SUFFICES ASSUME NEW t \in Sessions, Live(t)'
             PROVE  FALSE
  OBVIOUS
<1>1. Live(t)
  BY DEF Sheds, Live
<1>2. current = t
  BY <1>1 DEF WholeInv, LiveSessionIsCurrent
<1> QED BY <1>2, DiscussionAssumption DEF Live, Sessions

LEMMA SnapshotsAreQuiet ==
    ASSUME WholeInv, TakeSnapshot
    PROVE  /\ Sheds(store')
           /\ \/ UNCHANGED <<current, cancellation>>
              \/ current' = None /\ cancellation' = None /\ \A t \in Sessions : ~Live(t)'
<1>0. TypeOK
  BY DEF WholeInv
<1>1. CASE SnapshotForgets
  <2>1. current \in Sessions /\ ~Reachable(current)
    BY <1>0, <1>1 DEF SnapshotForgets, TypeOK
  <2>2. store' = Expired(current) /\ current' = None /\ cancellation' = None
    BY <1>1 DEF TakeSnapshot
  <2>3. Sheds(store') /\ store'[current].state \notin {"open", "held"}
    BY <1>0, <2>1, <2>2, ExpiredSheds
  <2> QED BY <2>2, <2>3, NothingElseLives
<1>2. CASE ~SnapshotForgets
  BY <1>0, <1>2, ShedsNothing DEF TakeSnapshot
<1> QED BY <1>1, <1>2

LEMMA ForgettingIsQuiet ==
    ASSUME WholeInv, Forget
    PROVE  /\ Sheds(store') /\ signalled' \subseteq Requests
           /\ current' = None /\ cancellation' = None /\ \A t \in Sessions : ~Live(t)'
<1>0. TypeOK /\ Around
  BY TypeParts DEF WholeInv
<1>1. /\ signalled' \subseteq Requests
      /\ current' = None /\ cancellation' = None
  BY <1>0 DEF Forget, Around
<1>2. CASE current # None /\ Live(current)
  <2>1. current \in Sessions /\ store' = Dropped(store, current)
    BY <1>0, <1>2 DEF Forget, Around
  <2>2. Sheds(store') /\ store'[current].state = "gone"
    BY <1>0, <2>1, DroppedSheds
  <2> QED BY <1>1, <2>2, NothingElseLives
<1>3. CASE ~(current # None /\ Live(current))
  <2>1. store' = store
    BY <1>3 DEF Forget
  <2>2. Sheds(store')
    BY <1>0, <2>1, ShedsNothing
  <2>3. current = None \/ store'[current].state \notin {"open", "held"}
    BY <1>3, <2>1 DEF Live
  <2> QED BY <1>1, <2>2, <2>3, NothingElseLives
<1> QED BY <1>2, <1>3

(* The service is idle: a session may be held or resumed.                    *)
LEMMA TouchingIsQuiet ==
    ASSUME WholeInv, UNCHANGED <<service, gate, op, promotion, durable, discarded, chat>>,
           cancellation = None, NEW s \in Sessions, NEW state \in {"open", "held"},
           Reachable(s), store' = Active(s, state, store[s].turns)
    PROVE  TypeOK' /\ OutcomesAreKnown' /\ QuietStep
<1>0. TypeOK /\ Around /\ store[s].turns \in Seq(Turns)
  BY TypeParts, StoreFacts DEF WholeInv
<1>1. RequestsGoOn /\ OutcomesAreKnown' /\ op' \in OpType
  BY NobodyMoves
<1>2. /\ store' \in StoreType /\ store'[s].state = state /\ store'[s].turns = store[s].turns
      /\ \A t \in Sessions : t # s => store'[t] = store[t]
  BY <1>0, ActiveSession DEF States
<1>3. \A t \in Sessions : store'[t].turns = store[t].turns /\ (Live(t)' => Live(t))
  BY <1>2 DEF Live, Reachable
<1>4. Short'
  BY <1>0, <1>3, TypeParts DEF Short
<1>5. Around'
  BY <1>0 DEF Around, service
<1>6. QuietStep
  BY <1>1, <1>3 DEF QuietStep, service
<1> QED BY <1>1, <1>2, <1>4, <1>5, <1>6, TypePartsNext

LEMMA HoldingIsQuiet ==
    ASSUME WholeInv, Hold \/ Resume
    PROVE  TypeOK' /\ OutcomesAreKnown' /\ QuietStep
<1>0. /\ TypeOK /\ Around /\ current \in Sessions /\ cancellation = None
      /\ UNCHANGED <<service, gate, op, promotion, durable, discarded, chat>>
  BY TypeParts DEF WholeInv, Hold, Resume, Around
<1>1. \/ /\ Reachable(current)
         /\ \E state \in {"open", "held"} :
               store' = Active(current, state, store[current].turns)
      \/ store' = Expired(current)
  BY <1>0 DEF Hold, Resume
<1>2. CASE /\ Reachable(current)
           /\ \E state \in {"open", "held"} :
                 store' = Active(current, state, store[current].turns)
  BY <1>0, <1>2, TouchingIsQuiet
<1>3. CASE store' = Expired(current)
  <2>1. Sheds(store') /\ Around'
    BY <1>0, <1>3, ExpiredSheds DEF Around, service
  <2> QED BY <1>0, <2>1, ShedsAreQuiet DEF service
<1> QED BY <1>1, <1>2, <1>3

(* A promotion moves on.                                                     *)
LEMMA PromotionMoves ==
    ASSUME TypeOK, NEW p \in Promotions,
           NEW stage \in {"idle", "drafted", "stored", "unretired", "done"},
           PromotionStage(p, stage)
    PROVE  promotion' \in [Promotions -> PromotionType]
<1>1. promotion \in [Promotions -> PromotionType] /\ promotion[p] \in PromotionType
  BY TypeParts DEF Around
<1>2. [promotion[p] EXCEPT !.stage = stage] \in PromotionType
  BY <1>1 DEF PromotionType
<1>3. promotion' = [promotion EXCEPT ![p] = [promotion[p] EXCEPT !.stage = stage]]
  BY DEF PromotionStage
<1> QED BY <1>1, <1>2, <1>3

(* A draft was made of a session.                                            *)
DraftsNameSessions ==
    \A p \in Promotions :
        promotion[p].stage = "drafted" => promotion[p].session \in Sessions

LEMMA DraftsAreOfSessions ==
    ASSUME TypeOK, DraftsNameSessions, [Next]_vars
    PROVE  DraftsNameSessions'
<1>0. promotion \in [Promotions -> PromotionType] /\ Around
  BY TypeParts DEF Around
<1>1. CASE UNCHANGED promotion
  BY <1>1 DEF DraftsNameSessions
<1>2. ASSUME NEW p \in Promotions,
             NEW stage \in {"idle", "stored", "unretired", "done"}, PromotionStage(p, stage)
      PROVE  DraftsNameSessions'
  <2>1. promotion' = [promotion EXCEPT ![p] = [promotion[p] EXCEPT !.stage = stage]]
    BY <1>2 DEF PromotionStage
  <2>2. [promotion[p] EXCEPT !.stage = stage].stage = stage
    BY <1>0 DEF PromotionType
  <2> QED BY <1>0, <2>1, <2>2 DEF DraftsNameSessions
<1>3. ASSUME NEW p \in Promotions, Draft(p)
      PROVE  DraftsNameSessions'
  <2>1. CASE PromotionStage(p, "done")
    BY <1>2, <2>1
  <2>2. CASE \E turns \in 0..Len(store[current].turns) :
                promotion' = [promotion EXCEPT
                   ![p] = [stage |-> "drafted", session |-> current, turns |-> turns]]
    <3>1. current \in Sessions
      BY <1>0, <1>3 DEF Draft, Around
    <3>2. PICK turns \in 0..Len(store[current].turns) :
             promotion' = [promotion EXCEPT
                ![p] = [stage |-> "drafted", session |-> current, turns |-> turns]]
      BY <2>2
    <3> QED BY <1>0, <3>1, <3>2 DEF DraftsNameSessions
  <2> QED BY <1>3, <2>1, <2>2 DEF Draft
<1>4. ASSUME NEW p \in Promotions,
             StorePromotion(p) \/ Retire(p) \/ DiscardUnretired(p) \/ LeavePromotion(p)
      PROVE  DraftsNameSessions'
  BY <1>2, <1>4 DEF StorePromotion, Retire, DiscardUnretired, LeavePromotion
<1>5. \/ UNCHANGED promotion
      \/ \E p \in Promotions : \/ Draft(p) \/ StorePromotion(p) \/ Retire(p)
                              \/ DiscardUnretired(p) \/ LeavePromotion(p)
  BY DEF Next, vars, Operate, Admit, Announce, PassGate, ReadSeed, Begin, Complete, Settle,
         Leave, IdleOut, Interrupt, Hold, Resume, Discard, Poll, ChatCheck, ChatStart, ChatEnd
<1> QED BY <1>1, <1>3, <1>4, <1>5

LEMMA PromotionsAreQuiet ==
    ASSUME WholeInv, DraftsNameSessions, NEW p \in Promotions,
           \/ Draft(p) \/ StorePromotion(p) \/ Retire(p) \/ DiscardUnretired(p)
           \/ LeavePromotion(p)
    PROVE  TypeOK' /\ OutcomesAreKnown' /\ QuietStep
<1>0. /\ TypeOK /\ Around /\ Sheds(store)
      /\ promotion \in [Promotions -> PromotionType] /\ promotion[p] \in PromotionType
  BY TypeParts, ShedsNothing DEF WholeInv, Around
<1>1. CASE Draft(p)
  <2>1. current \in Sessions /\ UNCHANGED <<service, gate, op, durable, discarded, chat>>
    BY <1>0, <1>1 DEF Draft, Around
  <2>2. promotion' \in [Promotions -> PromotionType] /\ Sheds(store')
    <3>1. CASE Reachable(current) /\ store[current].state = "held"
      <4>1. /\ UNCHANGED store
            /\ \E turns \in 0..Len(store[current].turns) :
                  promotion' = [promotion EXCEPT
                     ![p] = [stage |-> "drafted", session |-> current, turns |-> turns]]
        BY <1>1, <3>1 DEF Draft
      <4>2. Len(store[current].turns) \in Nat
        BY <1>0, <2>1, StoreFacts
      <4>3. \A turns \in 0..Len(store[current].turns) :
               [stage |-> "drafted", session |-> current, turns |-> turns] \in PromotionType
        BY <2>1, <4>2 DEF PromotionType
      <4> QED BY <1>0, <4>1, <4>3
    <3>2. CASE ~(Reachable(current) /\ store[current].state = "held")
      <4>1. PromotionStage(p, "done") /\ store' = Expired(current)
        BY <1>1, <3>2 DEF Draft
      <4> QED BY <1>0, <2>1, <4>1, PromotionMoves, ExpiredSheds
    <3> QED BY <3>1, <3>2
  <2>3. Around'
    BY <1>0, <2>1, <2>2 DEF Around, service
  <2> QED BY <2>1, <2>2, <2>3, ShedsAreQuiet DEF service
<1>2. CASE StorePromotion(p)
  <2>1. UNCHANGED <<store, service, gate, op, discarded, chat>>
    BY <1>2 DEF StorePromotion
  <2>2. promotion' \in [Promotions -> PromotionType]
    BY <1>0, <1>2, PromotionMoves DEF StorePromotion
  <2>3. durable' \subseteq [session : Sessions, turns : Nat, by : Promotions]
    BY <1>0, <1>2 DEF StorePromotion, Around, PromotionType, DraftsNameSessions
  <2>4. Around' /\ Sheds(store')
    BY <1>0, <2>1, <2>2, <2>3 DEF Around, service
  <2> QED BY <2>1, <2>4, ShedsAreQuiet DEF service
<1>3. CASE Retire(p)
  <2>1. UNCHANGED <<cancellation, signalled, gate, op, durable, discarded, chat>>
    BY <1>3 DEF Retire
  <2>2. promotion' \in [Promotions -> PromotionType]
    BY <1>0, <1>3, PromotionMoves DEF Retire
  <2>3. CASE cancellation = None /\ current # None /\ store[current].state = "held"
    <3>1. current \in Sessions /\ store' = Dropped(store, current) /\ current' = None
      BY <1>0, <1>3, <2>3 DEF Retire, Around
    <3>2. Sheds(store') /\ store'[current].state = "gone"
      BY <1>0, <3>1, DroppedSheds
    <3>3. \A t \in Sessions : ~Live(t)'
      BY <3>2, NothingElseLives
    <3>4. Around'
      BY <1>0, <2>1, <2>2, <3>1 DEF Around
    <3> QED BY <2>1, <2>3, <3>1, <3>2, <3>3, <3>4, ShedsAreQuiet
  <2>4. CASE ~(cancellation = None /\ current # None /\ store[current].state = "held")
    <3>1. UNCHANGED <<store, current>>
      BY <1>3, <2>4 DEF Retire
    <3>2. Around' /\ Sheds(store')
      BY <1>0, <2>1, <2>2, <3>1 DEF Around
    <3> QED BY <2>1, <3>1, <3>2, ShedsAreQuiet
  <2> QED BY <2>3, <2>4
<1>4. CASE DiscardUnretired(p)
  <2>1. Forget /\ UNCHANGED <<gate, op, durable, discarded, chat>>
    BY <1>4 DEF DiscardUnretired
  <2>2. promotion' \in [Promotions -> PromotionType]
    BY <1>0, <1>4, PromotionMoves DEF DiscardUnretired
  <2>3. /\ Sheds(store') /\ signalled' \subseteq Requests
        /\ current' = None /\ cancellation' = None /\ \A t \in Sessions : ~Live(t)'
    BY <2>1, ForgettingIsQuiet
  <2>4. Around'
    BY <1>0, <2>1, <2>2, <2>3 DEF Around
  <2> QED BY <2>1, <2>3, <2>4, ShedsAreQuiet
<1>5. CASE LeavePromotion(p)
  <2>1. UNCHANGED <<store, service, gate, op, durable, discarded, chat>>
    BY <1>5 DEF LeavePromotion
  <2>2. promotion' \in [Promotions -> PromotionType]
    BY <1>0, <1>5, PromotionMoves DEF LeavePromotion
  <2>3. Around' /\ Sheds(store')
    BY <1>0, <2>1, <2>2 DEF Around, service
  <2> QED BY <2>1, <2>3, ShedsAreQuiet DEF service
<1> QED BY <1>1, <1>2, <1>3, <1>4, <1>5

(* What remains of the user's requests, the conversation and time.           *)
LEMMA SurroundingsAreQuiet ==
    ASSUME WholeInv,
           \/ Interrupt \/ Discard \/ Poll \/ ChatCheck \/ ChatStart \/ ChatEnd
           \/ \E s \in Sessions : IdleOut(s)
    PROVE  TypeOK' /\ OutcomesAreKnown' /\ QuietStep
<1>0. TypeOK /\ Around /\ Sheds(store)
  BY TypeParts, ShedsNothing DEF WholeInv
<1>1. CASE Interrupt
  <2>1. Around' /\ Sheds(store') /\ UNCHANGED <<current, cancellation, gate, op>>
    BY <1>0, <1>1 DEF Interrupt, Around
  <2> QED BY <2>1, ShedsAreQuiet
<1>2. CASE Discard
  <2>1. /\ Sheds(store') /\ signalled' \subseteq Requests
        /\ current' = None /\ cancellation' = None /\ \A t \in Sessions : ~Live(t)'
    BY <1>2, ForgettingIsQuiet DEF Discard
  <2>2. Around' /\ UNCHANGED <<gate, op>>
    BY <1>0, <1>2, <2>1 DEF Discard, Around
  <2> QED BY <2>1, <2>2, ShedsAreQuiet
<1>3. CASE Poll
  <2>1. /\ Sheds(store')
        /\ \/ UNCHANGED <<current, cancellation>>
           \/ current' = None /\ cancellation' = None /\ \A t \in Sessions : ~Live(t)'
    BY <1>3, SnapshotsAreQuiet DEF Poll
  <2>2. Around' /\ UNCHANGED <<gate, op>>
    BY <1>0, <1>3, <2>1 DEF Poll, Around
  <2> QED BY <2>1, <2>2, ShedsAreQuiet
<1>4. CASE ChatCheck
  <2>1. /\ Sheds(store')
        /\ \/ UNCHANGED <<current, cancellation>>
           \/ current' = None /\ cancellation' = None /\ \A t \in Sessions : ~Live(t)'
    BY <1>4, SnapshotsAreQuiet DEF ChatCheck
  <2>2. Around' /\ UNCHANGED <<gate, op>>
    BY <1>0, <1>4, <2>1 DEF ChatCheck, Around
  <2> QED BY <2>1, <2>2, ShedsAreQuiet
<1>5. CASE ChatStart \/ ChatEnd
  <2>1. Around' /\ Sheds(store') /\ UNCHANGED <<current, cancellation, gate, op>>
    BY <1>0, <1>5 DEF ChatStart, ChatEnd, service, Around
  <2> QED BY <2>1, ShedsAreQuiet
<1>6. CASE \E s \in Sessions : IdleOut(s)
  <2>1. PICK s \in Sessions : IdleOut(s)
    BY <1>6
  <2>2. Around' /\ UNCHANGED <<current, cancellation, gate, op>>
    BY <1>0, <2>1 DEF IdleOut, service, Around
  <2>3. store \in StoreType /\ store[s] \in SessionType
    BY <1>0, StoreFacts DEF StoreType
  <2>4. PICK new \in SessionType : /\ new.state = store[s].state /\ new.turns = store[s].turns
                                   /\ store' = [store EXCEPT ![s] = new]
    <3> DEFINE new == [store[s] EXCEPT !.idle = TRUE]
    <3>1. new \in SessionType /\ new.state = store[s].state /\ new.turns = store[s].turns
      BY <2>3 DEF SessionType
    <3>2. store' = [store EXCEPT ![s] = new]
      BY <2>1 DEF IdleOut
    <3> HIDE DEF new
    <3> QED BY <3>1, <3>2
  <2>5. Sheds(store')
    BY <2>3, <2>4 DEF Sheds, StoreType
  <2> QED BY <2>2, <2>5, ShedsAreQuiet
<1> QED BY <1>1, <1>2, <1>3, <1>4, <1>5, <1>6

-----------------------------------------------------------------------------
(* A request that asks.                                                      *)

(* Questions and answers take turns, each answer to what stands before it.   *)
Alternates(turns) ==
    \A i \in 1..Len(turns) :
        IF i % 2 = 1
        THEN turns[i].role = "user"
        ELSE turns[i].role = "assistant" /\ turns[i].saw = i - 1

LEMMA TurnsAlternate ==
    ASSUME WholeInv, NEW s \in Sessions
    PROVE  /\ Alternates(store[s].turns)
           /\ LastIs(s, "user") <=> Len(store[s].turns) % 2 = 1
<1>1. Alternates(store[s].turns)
  BY DEF WholeInv, AnswersFollowTheirContext, Alternates
<1>2. store[s].turns \in Seq(Turns) /\ Len(store[s].turns) \in Nat
  BY StoreFacts DEF WholeInv
<1>3. CASE Len(store[s].turns) = 0
  <2>1. store[s].turns = <<>>
    BY <1>2, <1>3, EmptySeq
  <2> QED BY <1>1, <1>3, <2>1 DEF LastIs
<1>4. CASE Len(store[s].turns) > 0
  <2>1. store[s].turns # <<>> /\ Len(store[s].turns) \in 1..Len(store[s].turns)
    BY <1>2, <1>4, EmptySeq
  <2> QED BY <1>1, <2>1 DEF Alternates, LastIs
<1>5. Len(store[s].turns) = 0 \/ Len(store[s].turns) > 0
  BY <1>2
<1> QED BY <1>3, <1>4, <1>5

LEMMA QuestionAppended ==
    ASSUME NEW turns \in Seq(Turns), Alternates(turns), Len(turns) % 2 = 0,
           NEW question \in Turns, question.role = "user",
           NEW asked, asked = Append(turns, question)
    PROVE  /\ asked \in Seq(Turns) /\ Len(asked) = Len(turns) + 1
           /\ Alternates(asked) /\ asked # <<>>
           /\ asked[Len(asked)] = question
<1>1. /\ asked \in Seq(Turns) /\ Len(asked) = Len(turns) + 1
      /\ \A i \in 1..Len(turns) : asked[i] = turns[i]
      /\ asked[Len(turns) + 1] = question
  BY AppendProperties
<1>2. Len(turns) \in Nat
  BY LenProperties
<1>3. asked # <<>>
  BY <1>1, <1>2, EmptySeq
<1>4. Alternates(asked)
  <2>1. ASSUME NEW i \in 1..Len(turns)
        PROVE  IF i % 2 = 1
               THEN asked[i].role = "user"
               ELSE asked[i].role = "assistant" /\ asked[i].saw = i - 1
    BY <1>1 DEF Alternates
  <2>2. asked[Len(turns) + 1].role = "user" /\ (Len(turns) + 1) % 2 = 1
    BY <1>1, <1>2
  <2>3. \A i \in 1..Len(asked) : i \in 1..Len(turns) \/ i = Len(turns) + 1
    BY <1>1, <1>2
  <2> QED BY <2>1, <2>2, <2>3 DEF Alternates
<1> QED BY <1>1, <1>3, <1>4

(* Only the session that is asked changes, and what ran before is over.      *)
Asks(r, s) ==
    /\ current' = s
    /\ \A t \in Sessions : t # s => store'[t].turns = store[t].turns /\ ~Live(t)'
    /\ store[s].state # "held" /\ store'[s].state = "open"
    /\ Alternates(store'[s].turns)
    /\ \A q \in Requests : q # r => op'[q] = op[q]

Called(r, s) ==
    /\ op'[r].stage = "calling" /\ op'[r].session = s
    /\ Len(op'[r].context) = Len(store'[s].turns)
    /\ cancellation' = r /\ gate' = gate
    /\ LastIs(s, "user")'
    /\ store'[s].turns[Len(store'[s].turns)].failed \/ store'[s].turns[Len(store'[s].turns)].by = r

Refused(r, s) ==
    /\ op'[r].stage = "done" /\ gate' = None /\ cancellation' = None
    /\ LastIs(s, "user")' => store'[s].turns[Len(store'[s].turns)].failed

LEMMA AskingKeepsWhole ==
    ASSUME WholeInv, TypeOK', OutcomesAreKnown',
           NEW r \in Requests, NEW s \in Sessions, op[r].stage = "ready",
           Asks(r, s), Called(r, s) \/ Refused(r, s)
    PROVE  /\ WholeInv'
           /\ \A t \in Sessions : store[t].state = "held" => store'[t].turns = store[t].turns
<1>0. r # None
  BY DiscussionAssumption
<1>1. gate = r /\ \A q \in Requests : q # r => op[q].stage \notin Gated /\ ~Calls(q)
  BY DEF WholeInv, GateIsHeld, Gated, Calls
<1>2. \A q \in Requests : q # r => op'[q].stage \notin Gated /\ ~Calls(q)'
  BY <1>1 DEF Asks, Gated, Calls
<1>3. /\ Called(r, s) => Calls(r)' /\ gate' = r /\ cancellation' = r
      /\ Refused(r, s) => op'[r].stage \notin Gated /\ ~Calls(r)' /\ cancellation' = None
  BY <1>1 DEF Called, Refused, Calls, Gated
<1>4. GateIsHeld'
  BY <1>2, <1>3 DEF GateIsHeld, Gated, Called
<1>5. LiveSessionIsCurrent'
  BY DEF Asks, LiveSessionIsCurrent
<1>6. BusyMeansReplying'
  BY <1>0, <1>3 DEF BusyMeansReplying, Called, Refused
<1>7. AnswersFollowTheirContext'
  <2>1. ASSUME NEW t \in Sessions
        PROVE  Alternates(store'[t].turns)
    BY TurnsAlternate DEF Asks
  <2> QED BY <2>1 DEF AnswersFollowTheirContext, Alternates
<1>8. CallOwnsSession'
  <2> SUFFICES ASSUME NEW q \in Requests, Calls(q)'
               PROVE  op'[q].session \in Sessions /\ (current' = op'[q].session => Owns(q)')
    BY DEF CallOwnsSession
  <2>1. q = r /\ Called(r, s)
    BY <1>2, <1>3
  <2> QED BY <2>1 DEF Asks, Called, Owns, Question
<1>9. QuestionsAreAsked'
  <2> SUFFICES ASSUME NEW t \in Sessions, Live(t)', LastIs(t, "user")'
               PROVE  \/ Question(t)'.failed
                      \/ Question(t)'.by \in Overlong \cup Leaving
                      \/ \E q \in Requests : Calls(q)' /\ op'[q].session = t
    BY DEF QuestionsAreAsked
  <2>1. t = s
    BY DEF Asks
  <2>2. CASE Called(r, s)
    BY <1>3, <2>1, <2>2 DEF Called
  <2>3. CASE Refused(r, s)
    BY <2>1, <2>3 DEF Refused, Question
  <2> QED BY <2>2, <2>3
<1>10. \A t \in Sessions : store[t].state = "held" => store'[t].turns = store[t].turns
  BY DEF Asks
<1> QED BY <1>4, <1>5, <1>6, <1>7, <1>8, <1>9, <1>10 DEF WholeInv

-----------------------------------------------------------------------------
(* Begin: a refusal, or a question in a session of its own or the current.   *)

LEMMA RefusalsAreQuiet ==
    ASSUME WholeInv, NEW r \in Requests, op[r].stage = "ready", Refuse(r), Sheds(store'),
           UNCHANGED <<current, cancellation, signalled, promotion, durable, discarded, chat>>
    PROVE  TypeOK' /\ OutcomesAreKnown' /\ QuietStep
<1>0. TypeOK /\ Around /\ gate = r /\ ~Calls(r)
  BY TypeParts DEF WholeInv, GateIsHeld, Calls
<1>1. MovesTo(r, "done") /\ gate' = None
  BY <1>0, StageMoves DEF Refuse, Stages
<1>2. RequestsGoOn /\ OutcomesAreKnown'
  BY <1>0, <1>1, OneGoesOn DEF Gated, Stages
<1>3. QuietStep /\ Short'
  BY <1>2, SheddingIsQuiet
<1>4. Around' /\ store' \in StoreType /\ op' \in OpType
  BY <1>0, <1>1 DEF Around, Sheds, MovesTo
<1> QED BY <1>2, <1>3, <1>4, TypePartsNext

LEMMA StoreStarted ==
    ASSUME WholeInv, NEW r \in Requests, current = None
    PROVE  /\ StartedStore(r) \in StoreType
           /\ StartedStore(r)[r].state = "open" /\ StartedStore(r)[r].turns = <<>>
           /\ \A t \in Sessions : ~Live(t) /\ (t # r => StartedStore(r)[t] = store[t])
<1>1. \A t \in Sessions : ~Live(t)
  BY DiscussionAssumption DEF WholeInv, LiveSessionIsCurrent, Sessions
<1>2. \A t \in Sessions : Expired(t) = store
  BY <1>1 DEF Expired
<1>3. store \in StoreType
  BY StoreFacts DEF WholeInv
<1>4. PICK seeded \in BOOLEAN : seeded = (op[r].seed = "read")
  OBVIOUS
<1> DEFINE new == [state |-> "open", turns |-> <<>>, idle |-> FALSE, seeded |-> seeded]
<1>5. new \in SessionType /\ new.state = "open" /\ new.turns = <<>>
  <2>1. <<>> \in Seq(Turns)
    BY EmptySeq
  <2> QED BY <2>1 DEF SessionType, States
<1>6. StartedStore(r) = [t \in Sessions |-> IF t = r THEN new ELSE Expired(t)[t]]
  BY <1>4 DEF StartedStore
<1> HIDE DEF new
<1>7. r \in Sessions
  BY DEF Sessions
<1> QED BY <1>1, <1>2, <1>3, <1>5, <1>6, <1>7 DEF StoreType

LEMMA UserAppended ==
    ASSUME NEW st \in StoreType, NEW s \in Sessions, NEW r \in Requests
    PROVE  /\ AppendUser(st, s, r) \in StoreType
           /\ AppendUser(st, s, r)[s].state = st[s].state
           /\ AppendUser(st, s, r)[s].turns
                = Append(st[s].turns, [role |-> "user", by |-> r, failed |-> FALSE])
           /\ \A t \in Sessions : t # s => AppendUser(st, s, r)[t] = st[t]
<1> DEFINE question == [role |-> "user", by |-> r, failed |-> FALSE]
<1>1. question \in Turns
  BY DEF Turns
<1>2. st[s] \in SessionType /\ st[s].turns \in Seq(Turns)
  BY DEF StoreType, SessionType
<1>3. Append(st[s].turns, question) \in Seq(Turns)
  <2> HIDE DEF question
  <2> QED BY <1>1, <1>2, AppendProperties
<1>4. PICK turns \in Seq(Turns) : turns = Append(st[s].turns, question)
  BY <1>3
<1>5. PICK new \in SessionType : /\ new.state = st[s].state /\ new.turns = turns
                                 /\ AppendUser(st, s, r) = [st EXCEPT ![s] = new]
  <2> DEFINE new == [st[s] EXCEPT !.turns = turns, !.idle = FALSE]
  <2>1. new \in SessionType /\ new.state = st[s].state /\ new.turns = turns
    BY <1>2 DEF SessionType
  <2>2. AppendUser(st, s, r) = [st EXCEPT ![s] = new]
    BY <1>2, <1>4 DEF AppendUser, StoreType
  <2> HIDE DEF new
  <2> QED BY <2>1, <2>2
<1> QED BY <1>4, <1>5 DEF StoreType

(* The seed could not be read: the first question is marked failed.          *)
FirstFailed(st, r) == [st EXCEPT ![r].turns[1].failed = TRUE]

LEMMA FirstMarkedFailed ==
    ASSUME NEW st \in StoreType, NEW r \in Sessions,
           Len(st[r].turns) = 1, st[r].turns[1].role = "user"
    PROVE  /\ FirstFailed(st, r) \in StoreType
           /\ FirstFailed(st, r)[r].state = st[r].state
           /\ Len(FirstFailed(st, r)[r].turns) = 1
           /\ FirstFailed(st, r)[r].turns[1].role = "user"
           /\ FirstFailed(st, r)[r].turns[1].failed
           /\ \A t \in Sessions : t # r => FirstFailed(st, r)[t] = st[t]
<1>1. st[r] \in SessionType /\ st[r].turns \in Seq(Turns)
  BY DEF StoreType, SessionType
<1>2. PICK turns \in Seq(Turns) :
         /\ turns = [st[r].turns EXCEPT ![1].failed = TRUE]
         /\ Len(turns) = 1 /\ turns[1].role = "user" /\ turns[1].failed
  <2>1. PICK failed \in BOOLEAN : failed = TRUE
    OBVIOUS
  <2>2. PICK turns : turns = Rewritten(st[r].turns, failed)
    OBVIOUS
  <2>3. /\ turns \in Seq(Turns) /\ Len(turns) = 1
        /\ turns[1].role = "user" /\ turns[1].failed = failed
    BY <1>1, <2>2, QuestionRewritten
  <2>4. turns = [st[r].turns EXCEPT ![1].failed = TRUE]
    BY <2>1, <2>2 DEF Rewritten
  <2> QED BY <2>1, <2>3, <2>4
<1>3. PICK new \in SessionType :
         /\ new.state = st[r].state /\ new.turns = turns
         /\ FirstFailed(st, r) = [st EXCEPT ![r] = new]
  <2> DEFINE new == [st[r] EXCEPT !.turns = turns]
  <2>1. new \in SessionType /\ new.state = st[r].state /\ new.turns = turns
    BY <1>1 DEF SessionType
  <2>2. FirstFailed(st, r) = [st EXCEPT ![r] = new]
    BY <1>2 DEF FirstFailed
  <2> HIDE DEF new
  <2> QED BY <2>1, <2>2
<1>4. FirstFailed(st, r)[r] = new /\ FirstFailed(st, r) \in StoreType
  BY <1>3 DEF StoreType
<1>5. \A t \in Sessions : t # r => FirstFailed(st, r)[t] = st[t]
  BY <1>3 DEF StoreType
<1> QED BY <1>2, <1>3, <1>4, <1>5

(* The types after a question, whether it calls or is refused.               *)
LEMMA AskingTypes ==
    ASSUME WholeInv, NEW r \in Requests, NEW s \in Sessions,
           Asks(r, s), Called(r, s) \/ Refused(r, s),
           store' \in StoreType, Len(store'[s].turns) <= MaxTurns, op' \in OpType,
           UNCHANGED <<signalled, promotion, durable, discarded, chat>>
    PROVE  TypeOK' /\ OutcomesAreKnown'
<1>0. TypeOK /\ Short /\ Around
  BY TypeParts DEF WholeInv
<1>1. OutcomesAreKnown'
  BY DEF WholeInv, OutcomesAreKnown, Asks, Called, Refused
<1>2. Short'
  BY <1>0 DEF Short, Asks
<1>3. current' \in Sessions /\ cancellation' \in Requests \cup {None} /\ gate' \in {gate, None}
  BY DEF Asks, Called, Refused
<1>4. Around'
  BY <1>0, <1>3 DEF Around
<1> QED BY <1>1, <1>2, <1>4, TypePartsNext

HeldStays ==
    \A t \in Sessions : store[t].state = "held" => store'[t].turns = store[t].turns

StaysWhole == WholeInv' /\ HeldStays

LEMMA AskingStaysWhole ==
    ASSUME WholeInv, NEW r \in Requests, NEW s \in Sessions, op[r].stage = "ready",
           Asks(r, s), Called(r, s) \/ Refused(r, s),
           store' \in StoreType, Len(store'[s].turns) <= MaxTurns, op' \in OpType,
           UNCHANGED <<signalled, promotion, durable, discarded, chat>>
    PROVE  StaysWhole
<1>1. TypeOK' /\ OutcomesAreKnown'
  BY AskingTypes
<1>2. /\ WholeInv'
      /\ \A t \in Sessions : store[t].state = "held" => store'[t].turns = store[t].turns
  BY <1>1, AskingKeepsWhole
<1> QED BY <1>2 DEF StaysWhole, HeldStays

LEMMA QuietStaysWhole ==
    ASSUME WholeInv, TypeOK', OutcomesAreKnown', QuietStep
    PROVE  StaysWhole
<1>1. WholeInv' /\ \A s \in Sessions : store'[s].turns = store[s].turns
  BY QuietKeepsWhole
<1> QED BY <1>1 DEF StaysWhole, HeldStays

LEMMA NewSessionStaysWhole ==
    ASSUME WholeInv, NEW r \in Requests, op[r].stage = "ready", cancellation = None,
           BeginNew(r), UNCHANGED <<signalled, promotion, durable, discarded, chat>>
    PROVE  StaysWhole
<1>0. TypeOK /\ r \in Sessions /\ current = None /\ MaxTurns \in Nat \ {0}
  BY DiscussionAssumption DEF WholeInv, BeginNew, Sessions
<1>1. \A s \in Sessions : ~Reachable(s)
  BY <1>0, DiscussionAssumption DEF WholeInv, LiveSessionIsCurrent, Reachable, Sessions
<1>2. PICK started \in StoreType :
         /\ started = StartedStore(r)
         /\ started[r].state = "open" /\ started[r].turns = <<>>
         /\ \A t \in Sessions : ~Live(t) /\ (t # r => started[t] = store[t])
  BY <1>0, StoreStarted
<1>3. PICK begun \in StoreType :
         /\ begun = AppendUser(started, r, r)
         /\ begun[r].state = "open"
         /\ begun[r].turns = Append(<<>>, [role |-> "user", by |-> r, failed |-> FALSE])
         /\ \A t \in Sessions : t # r => begun[t] = started[t]
  BY <1>0, <1>2, UserAppended
<1>4. /\ <<>> \in Seq(Turns) /\ Len(<<>>) = 0
      /\ Alternates(<<>>)
  <2>1. <<>> \in Seq(Turns) /\ Len(<<>>) = 0
    BY EmptySeq
  <2> QED BY <2>1 DEF Alternates
<1>5. PICK asked \in Seq(Turns) :
         /\ asked = begun[r].turns /\ Len(asked) = 1 /\ Alternates(asked) /\ asked # <<>>
         /\ asked[1] = [role |-> "user", by |-> r, failed |-> FALSE]
  <2>1. PICK question \in Turns : question = [role |-> "user", by |-> r, failed |-> FALSE]
    BY DEF Turns
  <2>2. PICK empty \in Seq(Turns) : empty = <<>> /\ Len(empty) = 0 /\ Alternates(empty)
    BY <1>4
  <2>3. PICK asked : asked = Append(empty, question)
    OBVIOUS
  <2>4. Len(empty) % 2 = 0 /\ question.role = "user"
    BY <2>1, <2>2
  <2>5. /\ asked \in Seq(Turns) /\ Len(asked) = Len(empty) + 1
        /\ Alternates(asked) /\ asked # <<>>
        /\ asked[Len(asked)] = question
    BY <2>2, <2>3, <2>4, QuestionAppended
  <2>6. Len(asked) = 1 /\ asked[1] = question
    BY <2>2, <2>5
  <2>7. asked = begun[r].turns
    BY <1>3, <2>1, <2>2, <2>3
  <2> QED BY <2>1, <2>5, <2>6, <2>7
<1>6. /\ current' = r
      /\ \/ /\ store' = started
            /\ Refuse(r) /\ UNCHANGED cancellation
         \/ /\ store' = FirstFailed(begun, r)
            /\ Refuse(r) /\ UNCHANGED cancellation
         \/ /\ store' = begun
            /\ Call(r, r, asked)
  BY <1>1, <1>2, <1>3, <1>5 DEF BeginNew, FirstFailed
<1>7. ASSUME Refuse(r), UNCHANGED cancellation
      PROVE  /\ op' \in OpType /\ op'[r].stage = "done"
             /\ \A q \in Requests : q # r => op'[q] = op[q]
             /\ gate' = None /\ cancellation' = None
  BY <1>0, <1>7, StageMoves DEF Refuse, Stages, MovesTo
<1>8. ~Live(r) /\ store[r].state # "held"
  BY <1>0, <1>2 DEF Live
<1>9. ASSUME NEW turns, store'[r].turns = turns, Alternates(turns), store'[r].state = "open",
             \A t \in Sessions : t # r => store'[t] = store[t],
             \A q \in Requests : q # r => op'[q] = op[q]
      PROVE  Asks(r, r)
  <2>1. \A t \in Sessions : t # r => ~Live(t)'
    BY <1>2, <1>9 DEF Live
  <2> QED BY <1>6, <1>8, <1>9, <2>1 DEF Asks
<1>10. CASE store' = started /\ Refuse(r) /\ UNCHANGED cancellation
  <2>1. Asks(r, r)
    BY <1>0, <1>2, <1>4, <1>7, <1>9, <1>10
  <2>2. Refused(r, r)
    BY <1>2, <1>7, <1>10 DEF Refused, LastIs
  <2>3. Len(store'[r].turns) <= MaxTurns
    BY <1>0, <1>2, <1>4, <1>10
  <2> QED BY <1>0, <1>7, <1>10, <2>1, <2>2, <2>3, AskingStaysWhole
<1>11. CASE /\ store' = FirstFailed(begun, r)
            /\ Refuse(r) /\ UNCHANGED cancellation
  <2>1. /\ store' \in StoreType /\ store'[r].state = "open"
        /\ Len(store'[r].turns) = 1
        /\ store'[r].turns[1].role = "user" /\ store'[r].turns[1].failed
        /\ \A t \in Sessions : t # r => store'[t] = store[t]
    <3>1. Len(begun[r].turns) = 1 /\ begun[r].turns[1].role = "user"
      BY <1>5
    <3>2. /\ FirstFailed(begun, r) \in StoreType
          /\ FirstFailed(begun, r)[r].state = begun[r].state
          /\ Len(FirstFailed(begun, r)[r].turns) = 1
          /\ FirstFailed(begun, r)[r].turns[1].role = "user"
          /\ FirstFailed(begun, r)[r].turns[1].failed
          /\ \A t \in Sessions : t # r => FirstFailed(begun, r)[t] = begun[t]
      BY <1>0, <3>1, FirstMarkedFailed
    <3> QED BY <1>2, <1>3, <1>11, <3>2
  <2>2. Alternates(store'[r].turns)
    <3>1. \A i \in 1..Len(store'[r].turns) : i = 1 /\ i % 2 = 1
      BY <2>1
    <3> QED BY <2>1, <3>1 DEF Alternates
  <2>3. Asks(r, r)
    BY <1>7, <1>9, <1>11, <2>1, <2>2
  <2>4. Refused(r, r)
    BY <1>7, <1>11, <2>1 DEF Refused
  <2>5. Len(store'[r].turns) <= MaxTurns
    BY <1>0, <2>1
  <2> QED BY <1>0, <1>7, <1>11, <2>1, <2>3, <2>4, <2>5, AskingStaysWhole
<1>12. CASE store' = begun /\ Call(r, r, asked)
  <2>1. /\ op' \in OpType
        /\ op'[r].stage = "calling" /\ op'[r].session = r /\ op'[r].context = asked
        /\ \A q \in Requests : q # r => op'[q] = op[q]
    BY <1>0, <1>12, CallMoves
  <2>2. cancellation' = r /\ gate' = gate
    BY <1>12 DEF Call
  <2>3. Asks(r, r)
    BY <1>2, <1>3, <1>5, <1>9, <1>12, <2>1
  <2>4. LastIs(r, "user")' /\ store'[r].turns[Len(store'[r].turns)].by = r
    BY <1>5, <1>12 DEF LastIs
  <2>5. Called(r, r)
    BY <1>5, <1>12, <2>1, <2>2, <2>4 DEF Called
  <2>6. Len(store'[r].turns) = 1 /\ store' \in StoreType
    BY <1>5, <1>12
  <2>7. Len(store'[r].turns) <= MaxTurns
    BY <1>0, <2>6
  <2> QED BY <1>0, <2>1, <2>3, <2>5, <2>6, <2>7, AskingStaysWhole
<1> QED BY <1>6, <1>10, <1>11, <1>12

LEMMA NextQuestionStaysWhole ==
    ASSUME WholeInv, NEW r \in Requests, op[r].stage = "ready", cancellation = None,
           BeginNext(r), UNCHANGED <<signalled, promotion, durable, discarded, chat>>
    PROVE  StaysWhole
<1>0. /\ TypeOK /\ current \in Sessions /\ UNCHANGED current /\ store \in StoreType
      /\ MaxTurns \in Nat
  BY StoreFacts DEF WholeInv, BeginNext, TypeOK
<1>1. CASE store' = Expired(current) /\ Refuse(r) /\ UNCHANGED cancellation
  <2>1. Sheds(store')
    BY <1>0, <1>1, ExpiredSheds
  <2>2. TypeOK' /\ OutcomesAreKnown' /\ QuietStep
    BY <1>0, <1>1, <2>1, RefusalsAreQuiet
  <2> QED BY <2>2, QuietStaysWhole
<1>2. CASE /\ Appendable(current, "user")
           /\ store' = AppendUser(store, current, r)
           /\ Call(r, current, store'[current].turns)
  <2>1. PICK turns \in Seq(Turns) : turns = store[current].turns
    BY <1>0, StoreFacts
  <2>2. /\ store[current].state = "open" /\ ~LastIs(current, "user")
        /\ Len(turns) < MaxTurns
    BY <1>2, <2>1 DEF Appendable
  <2>3. Alternates(turns) /\ Len(turns) % 2 = 0 /\ Len(turns) \in Nat
    <3>1. Alternates(turns) /\ Len(turns) % 2 # 1
      BY <1>0, <2>1, <2>2, TurnsAlternate
    <3>2. Len(turns) \in Nat
      BY LenProperties
    <3> QED BY <3>1, <3>2
  <2>4. PICK question \in Turns : question = [role |-> "user", by |-> r, failed |-> FALSE]
    BY DEF Turns
  <2>5. PICK asked : asked = Append(turns, question)
    OBVIOUS
  <2>6. question.role = "user" /\ question.by = r
    BY <2>4
  <2>7. /\ asked \in Seq(Turns) /\ Len(asked) = Len(turns) + 1
        /\ Alternates(asked) /\ asked # <<>>
        /\ asked[Len(asked)] = question
    BY <2>3, <2>5, <2>6, QuestionAppended
  <2>8. /\ store' \in StoreType /\ store'[current].state = "open"
        /\ store'[current].turns = asked
        /\ \A t \in Sessions : t # current => store'[t] = store[t]
    BY <1>0, <1>2, <2>1, <2>2, <2>4, <2>5, UserAppended
  <2>9. /\ op' \in OpType
        /\ op'[r].stage = "calling" /\ op'[r].session = current /\ op'[r].context = asked
        /\ \A q \in Requests : q # r => op'[q] = op[q]
    BY <1>0, <1>2, <2>7, <2>8, CallMoves
  <2>10. cancellation' = r /\ gate' = gate
    BY <1>2 DEF Call
  <2>11. \A t \in Sessions : t # current => store'[t].turns = store[t].turns /\ ~Live(t)'
    <3>1. \A t \in Sessions : t # current => ~Live(t)
      BY DEF WholeInv, LiveSessionIsCurrent
    <3> QED BY <2>8, <3>1 DEF Live
  <2>12. PICK s \in Sessions : s = current /\ current' = s
    BY <1>0
  <2>13. Asks(r, s)
    BY <2>2, <2>7, <2>8, <2>9, <2>11, <2>12 DEF Asks
  <2>14. LastIs(s, "user")' /\ store'[s].turns[Len(store'[s].turns)].by = r
    BY <2>6, <2>7, <2>8, <2>12 DEF LastIs
  <2>15. Called(r, s)
    BY <2>8, <2>9, <2>10, <2>12, <2>14 DEF Called
  <2>16. Len(asked) <= MaxTurns
    BY <1>0, <2>2, <2>3, <2>7
  <2>17. Len(store'[s].turns) <= MaxTurns
    BY <2>8, <2>12, <2>16
  <2> QED BY <2>8, <2>9, <2>13, <2>15, <2>17, AskingStaysWhole
<1> QED BY <1>1, <1>2 DEF BeginNext

LEMMA RetryStaysWhole ==
    ASSUME WholeInv, NEW r \in Requests, op[r].stage = "ready", cancellation = None,
           BeginRetry(r), UNCHANGED <<signalled, promotion, durable, discarded, chat>>
    PROVE  StaysWhole
<1>0. /\ TypeOK /\ current \in Sessions \cup {None} /\ UNCHANGED current
      /\ store \in StoreType
  BY StoreFacts DEF WholeInv, BeginRetry, TypeOK
<1>1. CASE current # None /\ Retriable(current)
  <2>1. UNCHANGED store /\ Call(r, current, store[current].turns)
    BY <1>1 DEF BeginRetry
  <2>2. PICK s \in Sessions : s = current /\ current' = s
    BY <1>0, <1>1
  <2>3. store[s].state = "open" /\ LastIs(s, "user") /\ Question(s).failed
    BY <1>1, <2>2 DEF Retriable, Question
  <2>4. store[s].turns \in Seq(Turns) /\ Len(store[s].turns) <= MaxTurns
    BY <1>0, StoreFacts
  <2>5. /\ op' \in OpType
        /\ op'[r].stage = "calling" /\ op'[r].session = s
        /\ op'[r].context = store[s].turns
        /\ \A q \in Requests : q # r => op'[q] = op[q]
    BY <1>0, <2>1, <2>2, <2>4, CallMoves
  <2>6. cancellation' = r /\ gate' = gate
    BY <2>1 DEF Call
  <2>7. \A t \in Sessions : t # s => store'[t].turns = store[t].turns /\ ~Live(t)'
    <3>1. \A t \in Sessions : t # s => ~Live(t)
      BY <2>2 DEF WholeInv, LiveSessionIsCurrent
    <3> QED BY <2>1, <3>1 DEF Live
  <2>8. Alternates(store'[s].turns)
    BY <2>1, TurnsAlternate
  <2>9. Asks(r, s)
    BY <2>1, <2>2, <2>3, <2>5, <2>7, <2>8 DEF Asks
  <2>10. LastIs(s, "user")' /\ store'[s].turns[Len(store'[s].turns)].failed
    BY <2>1, <2>3 DEF LastIs, Question
  <2>11. Called(r, s)
    BY <2>1, <2>5, <2>6, <2>10 DEF Called
  <2>12. store' \in StoreType /\ Len(store'[s].turns) <= MaxTurns
    BY <1>0, <2>1, <2>4
  <2> QED BY <2>5, <2>9, <2>11, <2>12, AskingStaysWhole
<1>2. CASE ~(current # None /\ Retriable(current))
  <2>1. /\ Refuse(r) /\ UNCHANGED cancellation
        /\ store' = store \/ (current \in Sessions /\ store' = Expired(current))
    BY <1>0, <1>2 DEF BeginRetry
  <2>2. Sheds(store')
    BY <1>0, <2>1, ShedsNothing, ExpiredSheds
  <2>3. TypeOK' /\ OutcomesAreKnown' /\ QuietStep
    BY <1>0, <2>1, <2>2, RefusalsAreQuiet
  <2> QED BY <2>3, QuietStaysWhole
<1> QED BY <1>1, <1>2

LEMMA BeginStaysWhole ==
    ASSUME WholeInv, NEW r \in Requests, Begin(r)
    PROVE  StaysWhole
<1>0. op[r].stage = "ready" /\ UNCHANGED <<signalled, promotion, durable, discarded, chat>>
  BY DEF Begin
<1>1. CASE cancellation # None
  <2>1. Refuse(r) /\ UNCHANGED <<store, current, cancellation>>
    BY <1>1 DEF Begin
  <2>2. Sheds(store')
    BY <2>1, ShedsNothing DEF WholeInv
  <2>3. TypeOK' /\ OutcomesAreKnown' /\ QuietStep
    BY <1>0, <2>1, <2>2, RefusalsAreQuiet
  <2> QED BY <2>3, QuietStaysWhole
<1>2. CASE cancellation = None
  <2>1. BeginNew(r) \/ BeginNext(r) \/ BeginRetry(r)
    BY <1>2 DEF Begin
  <2> QED BY <1>0, <1>2, <2>1, NewSessionStaysWhole, NextQuestionStaysWhole, RetryStaysWhole
<1> QED BY <1>1, <1>2

-----------------------------------------------------------------------------
(* Settle: the end of the only call there is.                                *)

(* What a session may look like when nobody is left to answer it.            *)
AtRest(t) ==
    LastIs(t, "user") => Question(t).failed \/ Question(t).by \in Overlong \cup Leaving

LEMMA SettlingStaysWhole ==
    ASSUME WholeInv, NEW r \in Requests, op[r].stage = "answered", Refuse(r),
           cancellation' = None, current' \in Sessions \cup {None},
           UNCHANGED <<signalled, promotion, durable, discarded, chat>>,
           store' \in StoreType, HeldStays,
           \A t \in Sessions : /\ Alternates(store'[t].turns)
                               /\ Len(store'[t].turns) <= MaxTurns
                               /\ Live(t)' => current' = t /\ AtRest(t)'
    PROVE  StaysWhole
<1>0. /\ TypeOK /\ Around
      /\ \A q \in Requests : q # r => op[q].stage \notin Gated
  BY TypeParts DEF WholeInv, GateIsHeld, Gated
<1>1. MovesTo(r, "done") /\ gate' = None
  BY <1>0, StageMoves DEF Refuse, Stages
<1>2. \A q \in Requests : op'[q].stage \notin Gated
  BY <1>0, <1>1 DEF MovesTo, Gated
<1>3. \A q \in Requests : ~Calls(q)' /\ op'[q].stage # "answered"
  BY <1>2 DEF Calls, Gated
<1>4. TypeOK'
  <2>1. Short'
    BY DEF Short
  <2>2. Around' /\ op' \in OpType
    BY <1>0, <1>1 DEF Around, MovesTo
  <2> QED BY <2>1, <2>2, TypePartsNext
<1>5. OutcomesAreKnown' /\ GateIsHeld' /\ CallOwnsSession'
  BY <1>2, <1>3 DEF OutcomesAreKnown, GateIsHeld, Gated, CallOwnsSession
<1>6. LiveSessionIsCurrent' /\ BusyMeansReplying'
  BY DEF LiveSessionIsCurrent, BusyMeansReplying
<1>7. AnswersFollowTheirContext'
  BY DEF AnswersFollowTheirContext, Alternates
<1>8. QuestionsAreAsked'
  BY DEF QuestionsAreAsked, AtRest
<1> QED BY <1>4, <1>5, <1>6, <1>7, <1>8 DEF WholeInv, StaysWhole

(* The question of an answered session is rewritten, and it keeps its shape. *)
LEMMA QuestionKept ==
    ASSUME NEW turns \in Seq(Turns), Alternates(turns), Len(turns) % 2 = 1,
           NEW failed \in BOOLEAN, NEW kept, kept = Rewritten(turns, failed)
    PROVE  /\ kept \in Seq(Turns) /\ Len(kept) = Len(turns) /\ Alternates(kept)
           /\ kept[Len(kept)].failed = failed
<1>1. PICK last \in Nat : last = Len(turns) /\ last > 0 /\ last % 2 = 1
  BY LenProperties
<1>2. turns[last].role = "user"
  BY <1>1 DEF Alternates
<1>3. /\ kept \in Seq(Turns) /\ Len(kept) = last
      /\ \A i \in 1..last : i # last => kept[i] = turns[i]
      /\ kept[last].role = "user" /\ kept[last].failed = failed
  BY <1>1, <1>2, QuestionRewritten
<1>4. Alternates(kept)
  <2>1. ASSUME NEW i \in 1..last, i # last
        PROVE  IF i % 2 = 1
               THEN kept[i].role = "user"
               ELSE kept[i].role = "assistant" /\ kept[i].saw = i - 1
    BY <1>1, <1>3, <2>1 DEF Alternates
  <2> QED BY <1>1, <1>3, <2>1 DEF Alternates
<1> QED BY <1>1, <1>3, <1>4

LEMMA AnswerAppended ==
    ASSUME NEW kept \in Seq(Turns), Alternates(kept), Len(kept) % 2 = 1,
           NEW answer \in Turns, answer.role = "assistant", answer.saw = Len(kept),
           NEW answered, answered = Append(kept, answer)
    PROVE  /\ answered \in Seq(Turns) /\ Len(answered) = Len(kept) + 1
           /\ Alternates(answered)
<1>1. PICK last \in Nat : last = Len(kept) /\ last % 2 = 1
  BY LenProperties
<1>2. /\ answered \in Seq(Turns) /\ Len(answered) = last + 1
      /\ \A i \in 1..last : answered[i] = kept[i]
      /\ answered[last + 1] = answer
  BY <1>1, AppendProperties
<1>3. Alternates(answered)
  <2>1. ASSUME NEW i \in 1..last
        PROVE  IF i % 2 = 1
               THEN answered[i].role = "user"
               ELSE answered[i].role = "assistant" /\ answered[i].saw = i - 1
    BY <1>1, <1>2 DEF Alternates
  <2>2. /\ answered[last + 1].role = "assistant" /\ answered[last + 1].saw = last
        /\ (last + 1) % 2 # 1 /\ (last + 1) - 1 = last
    BY <1>1, <1>2
  <2>3. \A i \in 1..Len(answered) : i \in 1..last \/ i = last + 1
    BY <1>2
  <2> QED BY <2>1, <2>2, <2>3 DEF Alternates
<1> QED BY <1>1, <1>2, <1>3

LEMMA SettleStaysWhole ==
    ASSUME WholeInv, NEW r \in Requests, Settle(r)
    PROVE  StaysWhole
<1>0. /\ TypeOK /\ store \in StoreType /\ current \in Sessions \cup {None}
      /\ MaxTurns \in Nat /\ MaxTurns % 2 = 0
  BY StoreFacts, DiscussionAssumption DEF WholeInv, TypeOK
<1>1. /\ op[r].stage = "answered" /\ Refuse(r) /\ cancellation' = None
      /\ store' = Settled(r)
      /\ UNCHANGED <<signalled, promotion, durable, discarded, chat>>
  BY DEF Settle
<1>2. Calls(r) /\ \A q \in Requests : q # r => ~Calls(q)
  BY <1>1 DEF WholeInv, GateIsHeld, Calls
<1>3. PICK s \in Sessions : s = op[r].session /\ (current = s => Owns(r))
  BY <1>2 DEF WholeInv, CallOwnsSession
<1>4. \A t \in Sessions : Live(t) => current = t
  BY DEF WholeInv, LiveSessionIsCurrent
<1>5. \A t \in Sessions : /\ Alternates(store[t].turns)
                          /\ Len(store[t].turns) <= MaxTurns
  BY <1>0, TurnsAlternate, StoreFacts
<1>6. CASE current # s
  <2>1. store' = store
    BY <1>1, <1>3, <1>6 DEF Settled
  <2>2. current' = current
    BY <1>3, <1>6 DEF Settle
  <2>3. ASSUME NEW t \in Sessions, Live(t)
        PROVE  AtRest(t)
    <3>1. ~ \E q \in Requests : Calls(q) /\ op[q].session = t
      BY <1>2, <1>3, <1>4, <1>6, <2>3
    <3> QED BY <2>3, <3>1 DEF WholeInv, QuestionsAreAsked, AtRest
  <2>4. \A t \in Sessions : Live(t)' => current' = t /\ AtRest(t)'
    BY <1>4, <2>1, <2>2, <2>3 DEF Live, AtRest, LastIs, Question
  <2>5. HeldStays
    BY <2>1 DEF HeldStays
  <2>6. \A t \in Sessions : Alternates(store'[t].turns) /\ Len(store'[t].turns) <= MaxTurns
    BY <1>5, <2>1
  <2> QED BY <1>0, <1>1, <2>1, <2>2, <2>4, <2>5, <2>6, SettlingStaysWhole
<1>7. CASE current = s
  <2>1. /\ store[s].state # "held" /\ LastIs(s, "user")
        /\ Len(op[r].context) = Len(store[s].turns)
        /\ Question(s).failed \/ Question(s).by = r
    BY <1>3, <1>7 DEF Owns
  <2>2. PICK turns \in Seq(Turns) : turns = store[s].turns
    BY <1>0, StoreFacts
  <2>3. /\ Alternates(turns) /\ Len(turns) % 2 = 1 /\ Len(turns) \in Nat
        /\ Len(turns) <= MaxTurns
    <3>1. Alternates(turns) /\ Len(turns) % 2 = 1
      BY <2>1, <2>2, TurnsAlternate
    <3> QED BY <1>5, <2>2, <3>1, LenProperties
  <2>4. \A t \in Sessions : t # s => ~Live(t)
    BY <1>4, <1>7
  <2>5. ASSUME store' = Expired(s), ~Reachable(s), current' \in {current, None}
        PROVE  StaysWhole
    <3>1. Sheds(store') /\ store'[s].state \notin {"open", "held"}
      BY <1>0, <2>5, ExpiredSheds
    <3>2. \A t \in Sessions : ~Live(t)'
      BY <1>7, <3>1, NothingElseLives
    <3>3. HeldStays
      BY <3>1 DEF HeldStays, Sheds
    <3>4. \A t \in Sessions : Alternates(store'[t].turns) /\ Len(store'[t].turns) <= MaxTurns
      BY <1>5, <3>1 DEF Sheds
    <3>5. store' \in StoreType /\ current' \in Sessions \cup {None}
      BY <1>0, <2>5, <3>1 DEF Sheds
    <3> QED BY <1>1, <3>2, <3>3, <3>4, <3>5, SettlingStaysWhole
  <2>6. ASSUME NEW new \in Seq(Turns), store' = Active(s, "open", new), UNCHANGED current,
               Alternates(new), Len(new) <= MaxTurns, AtRest(s)'
        PROVE  StaysWhole
    <3>1. /\ store' \in StoreType /\ store'[s].state = "open" /\ store'[s].turns = new
          /\ \A t \in Sessions : t # s => store'[t] = store[t]
      BY <1>0, <2>6, ActiveSession DEF States
    <3>2. HeldStays
      BY <2>1, <3>1 DEF HeldStays
    <3>3. \A t \in Sessions : Alternates(store'[t].turns) /\ Len(store'[t].turns) <= MaxTurns
      BY <1>5, <2>6, <3>1
    <3>4. \A t \in Sessions : Live(t)' => t = s
      BY <2>4, <3>1 DEF Live
    <3>5. \A t \in Sessions : Live(t)' => current' = t /\ AtRest(t)'
      BY <1>7, <2>6, <3>4
    <3> QED BY <1>0, <1>1, <2>6, <3>1, <3>2, <3>3, <3>5, SettlingStaysWhole
  <2>7. CASE op[r].outcome = "answer" /\ Appendable(s, "assistant")
    <3>1. store' = Active(s, "open", WithAnswer(s, op[r].context)) /\ UNCHANGED current
      BY <1>1, <1>3, <1>7, <2>7 DEF Settled, Settle
    <3>2. PICK failed \in BOOLEAN : failed = FALSE
      OBVIOUS
    <3>3. PICK kept : kept = Rewritten(turns, failed)
      OBVIOUS
    <3>4. kept \in Seq(Turns) /\ Len(kept) = Len(turns) /\ Alternates(kept)
      BY <2>3, <3>3, QuestionKept
    <3>5. PICK answer \in Turns : /\ answer = [role |-> "assistant", saw |-> Len(op[r].context)]
                                  /\ answer.role = "assistant" /\ answer.saw = Len(kept)
      <4>1. PICK saw \in Nat : saw = Len(op[r].context) /\ saw = Len(kept)
        BY <2>1, <2>2, <2>3, <3>4
      <4>2. [role |-> "assistant", saw |-> saw] \in Turns
        BY DEF Turns
      <4> QED BY <4>1, <4>2
    <3>6. PICK new : new = Append(kept, answer)
      OBVIOUS
    <3>7. Len(kept) % 2 = 1
      BY <2>3, <3>4
    <3>8. new \in Seq(Turns) /\ Len(new) = Len(kept) + 1 /\ Alternates(new)
      BY <3>4, <3>5, <3>6, <3>7, AnswerAppended
    <3>9. new = WithAnswer(s, op[r].context)
      BY <2>2, <3>2, <3>3, <3>5, <3>6 DEF WithAnswer, Rewritten
    <3>10. Len(new) <= MaxTurns
      <4>1. Len(turns) < MaxTurns
        BY <2>2, <2>7 DEF Appendable
      <4> QED BY <1>0, <2>3, <3>4, <3>8, <4>1
    <3>11. AtRest(s)'
      <4>1. store'[s].turns = new
        BY <1>0, <3>1, <3>8, <3>9, ActiveSession DEF States
      <4>2. Len(new) % 2 # 1 /\ Len(new) \in 1..Len(new)
        BY <2>3, <3>4, <3>8
      <4>3. new[Len(new)].role = "assistant"
        BY <3>8, <4>2 DEF Alternates
      <4>4. ~LastIs(s, "user")'
        BY <4>1, <4>3 DEF LastIs
      <4> QED BY <4>4 DEF AtRest
    <3> QED BY <2>6, <3>1, <3>8, <3>9, <3>10, <3>11
  <2>8. CASE op[r].outcome \in {"interrupted", "error"}
    <3>1. store' = MarkedFailed(s)
      BY <1>1, <1>3, <1>7, <2>8 DEF Settled
    <3>2. CASE ~Reachable(s)
      <4>1. store' = Expired(s)
        BY <3>1, <3>2 DEF MarkedFailed
      <4>2. current' \in {current, None}
        BY DEF Settle
      <4> QED BY <2>5, <3>2, <4>1, <4>2
    <3>3. CASE Reachable(s)
      <4>1. PICK failed \in BOOLEAN : failed = TRUE
        OBVIOUS
      <4>2. PICK new : new = Rewritten(turns, failed)
        OBVIOUS
      <4>3. /\ new \in Seq(Turns) /\ Len(new) = Len(turns) /\ Alternates(new)
            /\ new[Len(new)].failed = failed
        BY <2>3, <4>2, QuestionKept
      <4>4. store[s].state = "open"
        BY <2>1, <3>3 DEF Reachable, Live
      <4>5. store' = Active(s, "open", new)
        BY <2>1, <2>2, <3>1, <3>3, <4>1, <4>2, <4>4 DEF MarkedFailed, Rewritten
      <4>6. UNCHANGED current
        BY <1>7, <3>3 DEF Settle
      <4>7. AtRest(s)'
        <5>1. store'[s].turns = new
          BY <1>0, <4>3, <4>5, ActiveSession DEF States
        <5> QED BY <4>1, <4>3, <5>1 DEF AtRest, Question
      <4>8. Len(new) <= MaxTurns
        BY <2>3, <4>3
      <4> QED BY <2>6, <4>3, <4>5, <4>6, <4>7, <4>8
    <3> QED BY <3>2, <3>3
  <2>9. CASE ~(op[r].outcome = "answer" /\ Appendable(s, "assistant"))
             /\ op[r].outcome \notin {"interrupted", "error"}
    <3>1. store' = Expired(s) /\ UNCHANGED current
      BY <1>1, <1>3, <1>7, <2>9 DEF Settled, Settle
    <3>2. CASE ~Reachable(s)
      BY <2>5, <3>1, <3>2
    <3>3. CASE Reachable(s)
      <4>1. store' = store
        BY <1>0, <3>1, <3>3, ExpiredSheds
      <4>2. op[r].outcome = "long" /\ r \in Overlong
        <5>1. op[r].outcome # "answer"
          <6> SUFFICES ASSUME op[r].outcome = "answer"
                       PROVE  FALSE
            OBVIOUS
          <6>1. ~Appendable(s, "assistant") /\ store[s].state = "open"
            BY <2>1, <2>9, <3>3 DEF Reachable, Live
          <6>2. ~(Len(turns) < MaxTurns)
            BY <2>1, <2>2, <3>3, <6>1 DEF Appendable
          <6>3. Len(turns) = MaxTurns
            BY <1>0, <2>3, <6>2
          <6> QED BY <1>0, <2>3, <6>3
        <5> QED BY <1>1, <2>9, <5>1 DEF WholeInv, OutcomesAreKnown
      <4>3. AtRest(s)
        BY <2>1, <4>2 DEF AtRest
      <4>4. \A t \in Sessions : Live(t)' => current' = t /\ AtRest(t)'
        BY <1>7, <2>4, <3>1, <4>1, <4>3 DEF Live, AtRest, LastIs, Question
      <4>5. HeldStays
        BY <4>1 DEF HeldStays
      <4>6. \A t \in Sessions : /\ Alternates(store'[t].turns)
                                /\ Len(store'[t].turns) <= MaxTurns
        BY <1>5, <4>1
      <4> QED BY <1>0, <1>1, <3>1, <4>1, <4>4, <4>5, <4>6, SettlingStaysWhole
    <3> QED BY <3>2, <3>3
  <2> QED BY <2>7, <2>8, <2>9
<1> QED BY <1>6, <1>7

-----------------------------------------------------------------------------
(* Every step keeps the discussion whole.                                    *)

LEMMA StepStaysWhole ==
    ASSUME WholeInv, DraftsNameSessions, [Next]_vars
    PROVE  StaysWhole
<1>1. CASE UNCHANGED vars
  <2>1. Sheds(store') /\ UNCHANGED <<gate, op, current, cancellation>> /\ Around'
    BY <1>1, ShedsNothing, TypeParts DEF WholeInv, vars, service, Around
  <2>2. TypeOK' /\ OutcomesAreKnown' /\ QuietStep
    BY <2>1, ShedsAreQuiet
  <2> QED BY <2>2, QuietStaysWhole
<1>2. ASSUME NEW r \in Requests,
             Admit(r) \/ Announce(r) \/ PassGate(r) \/ ReadSeed(r) \/ Complete(r) \/ Leave(r)
      PROVE  StaysWhole
  BY <1>2, RequestsAreQuiet, QuietStaysWhole
<1>3. ASSUME NEW r \in Requests, Begin(r) \/ Settle(r)
      PROVE  StaysWhole
  BY <1>3, BeginStaysWhole, SettleStaysWhole
<1>4. ASSUME NEW p \in Promotions,
             \/ Draft(p) \/ StorePromotion(p) \/ Retire(p) \/ DiscardUnretired(p)
             \/ LeavePromotion(p)
      PROVE  StaysWhole
  BY <1>4, PromotionsAreQuiet, QuietStaysWhole
<1>5. CASE Hold \/ Resume
  BY <1>5, HoldingIsQuiet, QuietStaysWhole
<1>6. CASE \/ Interrupt \/ Discard \/ Poll \/ ChatCheck \/ ChatStart \/ ChatEnd
           \/ \E s \in Sessions : IdleOut(s)
  BY <1>6, SurroundingsAreQuiet, QuietStaysWhole
<1> QED BY <1>1, <1>2, <1>3, <1>4, <1>5, <1>6 DEF Next, Operate

LEMMA InitIsWhole ==
    ASSUME Init
    PROVE  WholeInv /\ DraftsNameSessions
<1>1. <<>> \in Seq(Turns) /\ Len(<<>>) = 0
  BY EmptySeq
<1>2. /\ current = None /\ cancellation = None /\ gate = None
      /\ promotion \in [Promotions -> PromotionType]
      /\ \A p \in Promotions : promotion[p].stage = "idle"
      /\ signalled = {} /\ durable = {} /\ discarded = {} /\ chat = "idle"
  BY DEF Init, PromotionType
<1>3. /\ store \in StoreType
      /\ \A s \in Sessions : store[s].turns = <<>> /\ store[s].state = "unused"
  BY <1>1 DEF Init, StoreType, SessionType, States
<1>4. op \in OpType /\ \A r \in Requests : op[r].stage = "idle"
  BY <1>1 DEF Init, OpType, RequestType, Stages
<1>5. Short /\ Around
  BY <1>1, <1>2, <1>3, DiscussionAssumption DEF Short, Around
<1>6. TypeOK
  BY <1>3, <1>4, <1>5, TypeParts
<1>7. OutcomesAreKnown /\ GateIsHeld /\ CallOwnsSession
  BY <1>4 DEF OutcomesAreKnown, GateIsHeld, CallOwnsSession, Calls
<1>8. LiveSessionIsCurrent /\ QuestionsAreAsked /\ BusyMeansReplying
  BY <1>2, <1>3 DEF LiveSessionIsCurrent, QuestionsAreAsked, BusyMeansReplying, Live
<1>9. AnswersFollowTheirContext
  BY <1>1, <1>3 DEF AnswersFollowTheirContext
<1>10. DraftsNameSessions
  BY <1>2 DEF DraftsNameSessions
<1> QED BY <1>6, <1>7, <1>8, <1>9, <1>10 DEF WholeInv

(* When the service is idle no call is left that could answer a question.    *)
LEMMA WholeIsRetriable ==
    ASSUME WholeInv
    PROVE  UnansweredTurnsAreRetriable
<1> SUFFICES ASSUME NEW s \in Sessions, Live(s), cancellation = None, LastIs(s, "user")
             PROVE  Question(s).failed \/ Question(s).by \in Overlong \cup Leaving
  BY DEF UnansweredTurnsAreRetriable, Question
<1>1. current = s
  BY DEF WholeInv, LiveSessionIsCurrent
<1>2. \A r \in Requests : ~(Calls(r) /\ op[r].session = s)
  BY <1>1, DiscussionAssumption DEF WholeInv, CallOwnsSession, Owns
<1> QED BY <1>2 DEF WholeInv, QuestionsAreAsked

\* Whatever replies, retries, promotions and clients do, a discussion stays
\* whole: an answer follows the question it was asked for and the turns its
\* call had read, a question without one can be asked again, the one live
\* discussion can be reached, and a held one stays as it is
\* (ephemeral_chat.rs, ephemeral_session.rs).
THEOREM DiscussionsAreWhole == Spec => DiscussionsStayWhole
<1>1. Init => WholeInv /\ DraftsNameSessions
  BY InitIsWhole
<1>2. WholeInv /\ DraftsNameSessions /\ [Next]_vars => WholeInv' /\ DraftsNameSessions'
  BY StepStaysWhole, DraftsAreOfSessions DEF StaysWhole, WholeInv
<1>3. WholeInv => /\ TypeOK /\ LiveSessionIsCurrent /\ BusyMeansReplying
                  /\ AnswersFollowTheirContext /\ UnansweredTurnsAreRetriable
  BY WholeIsRetriable DEF WholeInv
<1>4. WholeInv /\ DraftsNameSessions /\ [Next]_vars
        => [\A s \in Sessions :
              store[s].state = "held" => store'[s].turns = store[s].turns]_vars
  BY StepStaysWhole DEF StaysWhole, HeldStays
<1> QED BY <1>1, <1>2, <1>3, <1>4, PTL DEF Spec, DiscussionsStayWhole, HeldIsFrozen

=============================================================================
