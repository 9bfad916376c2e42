----------------------------- MODULE SurfacesProofs -----------------------------
(***************************************************************************)
(* What comes to the user, for every value of the constants: the           *)
(* participants of Topics, the labels of the briefing, the broad inputs,   *)
(* the intake and the published cards.  The parts share no variable: a     *)
(* part's invariant is preserved by its own steps, and the steps of the    *)
(* others leave its variables alone.                                       *)
(***************************************************************************)
EXTENDS MCSurfaces, SequenceTheorems, FiniteSetTheorems, FunctionTheorems, WellFoundedInduction, TLAPS

-----------------------------------------------------------------------------
(* The participants.                                                         *)

Counters == [turns : 1..MaxHumanTurns, silent : Nat, failed : Nat]
Participation == UNION {[them -> Counters] : them \in SUBSET Participants}
Attended(f) == f \in Participation /\ Cardinality(DOMAIN f) <= MaxSelected /\ \A p \in DOMAIN f : Convened!Remains(f[p])

(* Who is enabled exists; each scope has participants, few and not spent.    *)
CouncilInv ==
    /\ enabled \subseteq Participants
    /\ DOMAIN active = Scopes /\ active = [s \in Scopes |-> active[s]]
    /\ \A s \in Scopes : Attended(active[s])

(* A step takes nobody in but those mentioned in the running turn.           *)
TakesIn ==
    \A s \in Scopes : \A p \in DOMAIN active'[s] \ DOMAIN active[s] : council.scope = s /\ p \in council.direct

OnlyMentions ==
    \A s \in Scopes, p \in Participants :
        p \notin Convened!ActiveIn(s) /\ p \in DOMAIN active'[s] => council.scope = s /\ p \in council.direct

LEMMA CouncilCardinality == \A some : Convened!Cardinality(some) = Cardinality(some)
BY DEF Convened!Cardinality, Cardinality

LEMMA AttendedParts ==
    ASSUME NEW f, Attended(f)
    PROVE  /\ DOMAIN f \subseteq Participants /\ IsFiniteSet(DOMAIN f) /\ Cardinality(DOMAIN f) \in Nat
           /\ \A p \in DOMAIN f : f[p] \in Counters /\ Convened!Remains(f[p])
<1>1. DOMAIN f \subseteq Participants /\ \A p \in DOMAIN f : f[p] \in Counters
  BY DEF Attended, Participation
<1> QED BY <1>1, ConvenedAssumption, FS_Subset, FS_CardinalityType DEF Attended

LEMMA AttendedIf ==
    ASSUME NEW them \in SUBSET Participants, NEW f, DOMAIN f = them, f = [p \in them |-> f[p]],
           \A p \in them : f[p] \in Counters /\ Convened!Remains(f[p]),
           Cardinality(them) <= MaxSelected
    PROVE  Attended(f)
<1>1. f \in [them -> Counters]
  OBVIOUS
<1> QED BY <1>1 DEF Attended, Participation

(* Fewer participants with the same counters.                                *)
LEMMA RestrictedIsAttended ==
    ASSUME NEW f, Attended(f), NEW kept
    PROVE  Attended(Convened!Restrict(f, kept)) /\ DOMAIN Convened!Restrict(f, kept) \subseteq DOMAIN f
<1> DEFINE them == DOMAIN f \cap kept
           g == Convened!Restrict(f, kept)
<1>1. g = [p \in them |-> f[p]]
  BY DEF Convened!Restrict
<1>2. /\ them \subseteq DOMAIN f /\ DOMAIN f \subseteq Participants /\ IsFiniteSet(DOMAIN f)
      /\ Cardinality(DOMAIN f) \in Nat
      /\ \A p \in DOMAIN f : f[p] \in Counters /\ Convened!Remains(f[p])
  BY AttendedParts
<1>3. Cardinality(them) <= Cardinality(DOMAIN f) /\ Cardinality(them) \in Nat
  BY <1>2, FS_Subset, FS_CardinalityType
<1>4. Cardinality(them) <= MaxSelected
  BY <1>2, <1>3, ConvenedAssumption DEF Attended
<1> HIDE DEF g, them
<1>5. DOMAIN g = them /\ \A p \in them : g[p] = f[p]
  BY <1>1
<1>6. Attended(g)
  BY <1>1, <1>2, <1>4, <1>5, AttendedIf
<1> QED BY <1>2, <1>5, <1>6 DEF g

LEMMA NobodyAttends == Attended([p \in Convened!Nobody |-> Convened!Renewed])
<1> DEFINE f == [p \in Convened!Nobody |-> Convened!Renewed]
<1>1. f \in [{} -> Counters] /\ DOMAIN f = {}
  BY DEF Convened!Nobody
<1> HIDE DEF f
<1>2. f \in Participation
  BY <1>1 DEF Participation
<1>3. Cardinality({}) <= MaxSelected
  BY FS_EmptySet, ConvenedAssumption
<1> QED BY <1>1, <1>2, <1>3 DEF Attended, f

LEMMA CouncilInit == SurfacesInit => CouncilInv
<1> SUFFICES ASSUME Convened!Init PROVE CouncilInv
  BY DEF SurfacesInit
<1> DEFINE f == [p \in Convened!Nobody |-> Convened!Renewed]
<1>3. Attended(f)
  BY NobodyAttends
<1>4. active = [s \in Scopes |-> f] /\ enabled = Participants
  BY DEF Convened!Init, f
<1> QED BY <1>3, <1>4 DEF CouncilInv

(* A step that gives one scope participants that are settled, of those it    *)
(* has or had mentioned, and leaves the other scopes alone.                  *)
LEMMA OneScopeChanges ==
    ASSUME CouncilInv, NEW s, NEW f, s \in Scopes => Attended(f), active' = [active EXCEPT ![s] = f],
           s \in Scopes => \A p \in DOMAIN f \ DOMAIN active[s] : council.scope = s /\ p \in council.direct,
           enabled' \subseteq Participants
    PROVE  CouncilInv' /\ TakesIn
<1>1. DOMAIN active' = Scopes /\ active' = [x \in Scopes |-> active'[x]]
  BY DEF CouncilInv
<1>2. \A x \in Scopes : active'[x] = IF x = s THEN f ELSE active[x]
  BY DEF CouncilInv
<1> QED BY <1>1, <1>2 DEF CouncilInv, TakesIn

LEMMA NobodyComes ==
    ASSUME CouncilInv, UNCHANGED active, enabled' \subseteq Participants
    PROVE  CouncilInv' /\ TakesIn
BY DEF CouncilInv, TakesIn

LEMMA SomeGo ==
    ASSUME CouncilInv, NEW s, NEW kept, active' = [active EXCEPT ![s] = Convened!Restrict(@, kept)],
           enabled' \subseteq Participants
    PROVE  CouncilInv' /\ TakesIn
<1>1. s \in Scopes => /\ Attended(Convened!Restrict(active[s], kept))
                      /\ DOMAIN Convened!Restrict(active[s], kept) \subseteq DOMAIN active[s]
  BY RestrictedIsAttended DEF CouncilInv
<1> QED BY <1>1, OneScopeChanges

(* begin_turn: the guards keep those that stay and those mentioned few.      *)
LEMMA ConveneIsAttended == ASSUME CouncilInv, Convened!Convene PROVE CouncilInv' /\ TakesIn
<1> DEFINE s == council.scope
           direct == council.direct
           valid == council.previous \cap enabled
           present == Convened!Convened(s, valid, direct)
           f == [p \in present |-> IF p \in direct \/ p \notin Convened!ActiveIn(s) THEN Convened!Renewed ELSE active[s][p]]
<1>1. UNCHANGED enabled /\ enabled \subseteq Participants
  BY DEF Convened!Convene, CouncilInv
<1>2. CASE direct \subseteq enabled /\ Convened!Fits(valid, direct)
  <2>1. active' = [active EXCEPT ![s] = f]
    BY <1>2 DEF Convened!Convene
  <2>2. present = (Convened!ActiveIn(s) \cap valid) \cup direct /\ valid \subseteq enabled
    BY DEF Convened!Convened
  <2>3. direct \subseteq enabled /\ Cardinality(valid \cup direct) <= MaxSelected
    BY <1>2, CouncilCardinality DEF Convened!Fits
  <2>4. Convened!ActiveIn(s) = DOMAIN active[s]
    BY DEF Convened!ActiveIn
  <2>5. f = [p \in present |-> IF p \in direct \/ p \notin DOMAIN active[s] THEN Convened!Renewed ELSE active[s][p]]
    BY <2>4
  <2> HIDE DEF s, direct, valid, f, present
  <2>6. present \subseteq valid \cup direct /\ valid \cup direct \subseteq Participants
    BY <1>1, <2>2, <2>3
  <2>7. IsFiniteSet(valid \cup direct) /\ Cardinality(valid \cup direct) \in Nat
    BY <2>6, ConvenedAssumption, FS_Subset, FS_CardinalityType
  <2>8. Cardinality(present) <= Cardinality(valid \cup direct) /\ Cardinality(present) \in Nat
    BY <2>6, <2>7, FS_Subset, FS_CardinalityType
  <2>9. Cardinality(present) <= MaxSelected
    BY <2>3, <2>7, <2>8, ConvenedAssumption
  <2>10. Convened!Renewed \in Counters /\ Convened!Remains(Convened!Renewed)
    BY ConvenedAssumption DEF Convened!Renewed, Convened!Remains, Counters
  <2>11. ASSUME s \in Scopes PROVE Attended(f)
    <3>1. \A p \in DOMAIN active[s] : active[s][p] \in Counters /\ Convened!Remains(active[s][p])
      BY <2>11, AttendedParts DEF CouncilInv
    <3>2. \A p \in present : f[p] \in Counters /\ Convened!Remains(f[p])
      BY <2>5, <2>10, <3>1
    <3>3. DOMAIN f = present /\ f = [p \in present |-> f[p]] /\ present \subseteq Participants
      BY <2>5, <2>6
    <3> QED BY <2>9, <3>2, <3>3, AttendedIf
  <2>12. DOMAIN f \ DOMAIN active[s] \subseteq direct
    BY <2>2, <2>4, <2>5
  <2> QED BY <1>1, <2>1, <2>11, <2>12, OneScopeChanges DEF s, direct
<1>3. CASE ~(direct \subseteq enabled /\ Convened!Fits(valid, direct))
  BY <1>1, <1>3, NobodyComes DEF Convened!Convene
<1> QED BY <1>2, <1>3

(* finish_turn: whoever remains after the count.                             *)
LEMMA FinishIsAttended ==
    ASSUME NEW f, Attended(f), NEW outcomes
    PROVE  Attended(Convened!Finished(f, outcomes)) /\ DOMAIN Convened!Finished(f, outcomes) \subseteq DOMAIN f
<1> DEFINE after == [p \in DOMAIN f |-> IF p \in DOMAIN outcomes THEN Convened!Counted(f[p], outcomes[p]) ELSE f[p]]
           left == {p \in DOMAIN outcomes : outcomes[p] = "leave"}
           them == {p \in DOMAIN f \ left : Convened!Remains(after[p])}
           g == Convened!Finished(f, outcomes)
<1>1. DOMAIN after = DOMAIN f
  OBVIOUS
<1>2. g = [p \in DOMAIN after \cap {p \in DOMAIN after \ left : Convened!Remains(after[p])} |-> after[p]]
  BY DEF Convened!Finished, Convened!Restrict
<1>3. \A p \in DOMAIN f : f[p] \in Counters /\ after[p] \in {f[p], Convened!Counted(f[p], outcomes[p])}
  BY AttendedParts
<1>4. DOMAIN f \subseteq Participants /\ IsFiniteSet(DOMAIN f) /\ Cardinality(DOMAIN f) \in Nat
  BY AttendedParts
<1> HIDE DEF after, left
<1>5. g = [p \in them |-> after[p]] /\ them \subseteq DOMAIN f
  BY <1>1, <1>2
<1>6. ASSUME NEW c \in Counters, NEW outcome, NEW d, d = Convened!Counted(c, outcome), Convened!Remains(d)
      PROVE  d \in Counters
  <2> DEFINE less == IF c.turns = 0 THEN 0 ELSE c.turns - 1
             spent == [c EXCEPT !.turns = less]
  <2>1. c.turns \in 1..MaxHumanTurns /\ c.silent \in Nat /\ c.failed \in Nat /\ less \in Nat /\ less <= MaxHumanTurns
        /\ c = [turns |-> c.turns, silent |-> c.silent, failed |-> c.failed]
    BY ConvenedAssumption DEF Counters
  <2> HIDE DEF less
  <2>2. spent = [turns |-> less, silent |-> c.silent, failed |-> c.failed]
    BY <2>1
  <2>3. d = [spent EXCEPT !.silent = 0, !.failed = 0] \/ d = [spent EXCEPT !.silent = @ + 1, !.failed = 0]
        \/ d = [spent EXCEPT !.failed = @ + 1] \/ d = spent
    BY <1>6 DEF Convened!Counted, less
  <2> HIDE DEF spent
  <2>4. /\ d.turns = less /\ d.silent \in Nat /\ d.failed \in Nat
        /\ d = [turns |-> d.turns, silent |-> d.silent, failed |-> d.failed]
    <3>1. CASE d = [spent EXCEPT !.silent = 0, !.failed = 0]
      BY <2>1, <2>2, <3>1
    <3>2. CASE d = [spent EXCEPT !.silent = @ + 1, !.failed = 0]
      <4> DEFINE n == c.silent + 1
      <4>1. n \in Nat
        BY <2>1
      <4>2. d = [spent EXCEPT !.silent = n, !.failed = 0]
        BY <2>2, <3>2
      <4> HIDE DEF n
      <4> QED BY <2>1, <2>2, <4>1, <4>2
    <3>3. CASE d = [spent EXCEPT !.failed = @ + 1]
      BY <2>1, <2>2, <3>3
    <3>4. CASE d = spent
      BY <2>1, <2>2, <3>4
    <3> QED BY <2>3, <3>1, <3>2, <3>3, <3>4
  <2>5. less > 0
    BY <1>6, <2>4 DEF Convened!Remains
  <2>6. d.turns \in 1..MaxHumanTurns
    BY <2>1, <2>4, <2>5, ConvenedAssumption
  <2> QED BY <2>4, <2>6 DEF Counters
<1>7. \A p \in them : after[p] \in Counters /\ Convened!Remains(after[p])
  BY <1>3, <1>5, <1>6
<1>8. Cardinality(them) <= Cardinality(DOMAIN f) /\ Cardinality(them) \in Nat
  BY <1>4, <1>5, FS_Subset, FS_CardinalityType
<1>9. Cardinality(them) <= MaxSelected
  BY <1>4, <1>8, ConvenedAssumption DEF Attended
<1> HIDE DEF them, g
<1>10. DOMAIN g = them /\ \A p \in them : g[p] = after[p]
  BY <1>5
<1>11. Attended(g)
  BY <1>4, <1>5, <1>7, <1>9, <1>10, AttendedIf
<1> QED BY <1>5, <1>10, <1>11 DEF g

LEMMA CouncilStep == CouncilInv /\ Convened!Next => CouncilInv' /\ TakesIn
<1> SUFFICES ASSUME CouncilInv, Convened!Next PROVE CouncilInv' /\ TakesIn
  OBVIOUS
<1>0. enabled \subseteq Participants
  BY DEF CouncilInv
<1>1. CASE \E now \in SUBSET Participants : Convened!UpdateConfig(now)
  BY <1>1, NobodyComes DEF Convened!UpdateConfig
<1>2. CASE \/ \E s \in Scopes, mentioned \in SUBSET Participants : Convened!Say(s, mentioned)
           \/ \E s \in Scopes : Convened!Look(s)
           \/ Convened!Announce \/ Convened!Stop \/ Convened!Reply
           \/ \E p \in Participants, outcome \in Convened!Outcomes \cup {"failed", "interrupted"} : Convened!Answer(p, outcome)
  <2>1. UNCHANGED <<active, enabled>>
    BY <1>2 DEF Convened!Say, Convened!Look, Convened!Announce, Convened!Stop, Convened!Reply, Convened!Answer
  <2> QED BY <1>0, <2>1, NobodyComes
<1>3. CASE \E s \in Scopes, p \in Participants : Convened!Deactivate(s, p)
  BY <1>0, <1>3, SomeGo DEF Convened!Deactivate
<1>4. CASE Convened!Prune
  <2>1. UNCHANGED enabled
    BY <1>4 DEF Convened!Prune
  <2>2. CASE look.ids \subseteq enabled
    BY <1>0, <1>4, <2>1, <2>2, NobodyComes DEF Convened!Prune
  <2>3. CASE ~(look.ids \subseteq enabled)
    BY <1>0, <1>4, <2>1, <2>3, SomeGo DEF Convened!Prune
  <2> QED BY <2>2, <2>3
<1>5. CASE Convened!TakeBatch
  <2>1. \E s : active' = [active EXCEPT ![s] = Convened!Restrict(@, enabled)]
    BY <1>5 DEF Convened!TakeBatch
  <2>2. UNCHANGED enabled
    BY <1>5 DEF Convened!TakeBatch
  <2> QED BY <1>0, <2>1, <2>2, SomeGo
<1>6. CASE Convened!Convene
  BY <1>6, ConveneIsAttended
<1>7. CASE Convened!Finish
  <2> DEFINE s == council.scope
             f == Convened!Finished(active[s], council.outcomes)
  <2>1. UNCHANGED enabled
    BY <1>7 DEF Convened!Finish
  <2>2. CASE UNCHANGED active
    BY <1>0, <2>1, <2>2, NobodyComes
  <2>3. CASE active' = [active EXCEPT ![s] = f]
    <3>1. s \in Scopes => Attended(f) /\ DOMAIN f \subseteq DOMAIN active[s]
      BY FinishIsAttended DEF CouncilInv
    <3> HIDE DEF s, f
    <3> QED BY <1>0, <2>1, <2>3, <3>1, OneScopeChanges
  <2> QED BY <1>7, <2>2, <2>3 DEF Convened!Finish
<1>8. CASE Convened!Restart
  <2> DEFINE f == [p \in Convened!Nobody |-> Convened!Renewed]
  <2>1. Attended(f) /\ DOMAIN f = {}
    BY NobodyAttends DEF Convened!Nobody
  <2>2. active' = [s \in Scopes |-> f] /\ UNCHANGED enabled
    BY <1>8 DEF Convened!Restart
  <2> HIDE DEF f
  <2> QED BY <1>0, <2>1, <2>2 DEF CouncilInv, TakesIn
<1> QED BY <1>1, <1>2, <1>3, <1>4, <1>5, <1>6, <1>7, <1>8 DEF Convened!Next

(* A participant is in a Topic by a mention in the running turn only, and    *)
(* there are never more, nor for longer, than the settings allow: for any    *)
(* participants, Topics, limits and orders of messages, removals, prunings,  *)
(* edits and answers (model_council.rs, activation.rs).                      *)
THEOREM ParticipantsStayInvited == SurfacesSpec => ParticipantsAreInvited
<1>1. CouncilInv /\ [SurfacesNext]_surfacesVars => CouncilInv' /\ [OnlyMentions]_councilVars
  <2> SUFFICES ASSUME CouncilInv, [SurfacesNext]_surfacesVars
               PROVE  CouncilInv' /\ (UNCHANGED councilVars \/ TakesIn)
    BY DEF TakesIn, OnlyMentions, Convened!ActiveIn
  <2>1. Convened!Next \/ UNCHANGED councilVars
    BY DEF SurfacesNext, surfacesVars
  <2>2. UNCHANGED councilVars => CouncilInv'
    BY DEF councilVars, CouncilInv
  <2> QED BY <2>1, <2>2, CouncilStep
<1>2. CouncilInv => Convened!ParticipationIsBounded
  <2> SUFFICES ASSUME CouncilInv, NEW s \in Scopes
               PROVE  /\ Cardinality(DOMAIN active[s]) <= MaxSelected
                      /\ \A p \in DOMAIN active[s] :
                            Convened!Remains(active[s][p]) /\ active[s][p].turns \in 1 .. MaxHumanTurns
    BY CouncilCardinality DEF Convened!ParticipationIsBounded, Convened!ActiveIn
  <2> QED BY AttendedParts DEF CouncilInv, Attended, Counters
<1>3. SurfacesSpec => [][OnlyMentions]_councilVars
  BY CouncilInit, <1>1, PTL DEF SurfacesSpec
<1>4. SurfacesSpec => []Convened!ParticipationIsBounded
  BY CouncilInit, <1>1, <1>2, PTL DEF SurfacesSpec
<1> QED BY <1>3, <1>4, PTL DEF ParticipantsAreInvited, Convened!OnlyMentionsActivate, OnlyMentions,
       Convened!councilVars, councilVars

-----------------------------------------------------------------------------
(* The labels of the briefing.                                               *)

Labelled == Labels \cup {Sorted!NoTopic}
Input == [status : {"unpublished", "pending", "classified", "unclassified", "unavailable"}, topic : Labelled,
          reviewed : BOOLEAN, hidden : BOOLEAN]
Asking == [at : {"asking"}, left : SUBSET (1..MaxInputs), topics : SUBSET Labelled,
           found : [1..MaxInputs -> Labelled]]

BriefingInv ==
    /\ inputs \in [1..MaxInputs -> Input]
    /\ shown \subseteq 1..MaxInputs /\ reruns \in 0..MaxReruns
    /\ run \in [Sorted!Runs -> {Sorted!Quiet} \cup Asking]

(* What an input says of its topic is kept, for all it says otherwise.       *)
KeepsLabels(day) == \A i \in 1..MaxInputs : inputs[i].topic # Sorted!NoTopic => day[i].topic = inputs[i].topic
Reorganized == \E r \in Sorted!Runs : Sorted!Reorganize(r)

LEMMA InputChanges ==
    ASSUME NEW x \in Input, NEW status \in {"pending", "classified", "unclassified", "unavailable"}, NEW topic \in Labelled
    PROVE  /\ [x EXCEPT !.status = status] \in Input /\ [x EXCEPT !.status = status].topic = x.topic
           /\ [x EXCEPT !.hidden = TRUE] \in Input /\ [x EXCEPT !.hidden = TRUE].topic = x.topic
           /\ [x EXCEPT !.status = status, !.reviewed = TRUE] \in Input
           /\ [x EXCEPT !.status = status, !.reviewed = TRUE].topic = x.topic
           /\ [x EXCEPT !.topic = topic, !.status = status, !.reviewed = TRUE] \in Input
           /\ [x EXCEPT !.status = status, !.topic = topic, !.reviewed = FALSE] \in Input
BY DEF Input

LEMMA NoneFoundIsLabelled == Sorted!NoneFound \in [1..MaxInputs -> Labelled] /\ Sorted!NoTopic \in Labelled
BY DEF Sorted!NoneFound, Labelled

LEMMA BriefingInit == SurfacesInit => BriefingInv
<1> SUFFICES ASSUME Sorted!Init PROVE BriefingInv
  BY DEF SurfacesInit
<1>1. Sorted!Unpublished \in Input
  BY DEF Sorted!Unpublished, Input, Labelled
<1> QED BY <1>1, SortedAssumption DEF Sorted!Init, BriefingInv

(* A run that begins copies a day; what it settles leaves the labels.        *)
LEMMA RunBegins ==
    ASSUME BriefingInv, NEW r \in Sorted!Runs, NEW day \in [1..MaxInputs -> Input], Sorted!Begin(r, day)
    PROVE  inputs' = day /\ run' \in [Sorted!Runs -> {Sorted!Quiet} \cup Asking]
<1> DEFINE new == [at |-> "asking", left |-> Sorted!Unlabelled(day), topics |-> Sorted!TopicsOf(day),
                   found |-> Sorted!NoneFound]
<1>1. Sorted!Unlabelled(day) \subseteq 1..MaxInputs
  BY DEF Sorted!Unlabelled, Sorted!DisplayedOf
<1>2. Sorted!TopicsOf(day) \subseteq Labelled
  BY DEF Sorted!TopicsOf, Sorted!DisplayedOf, Input
<1>3. new \in Asking
  BY <1>1, <1>2, NoneFoundIsLabelled DEF Asking
<1>4. inputs' = day /\ run' = [run EXCEPT ![r] = new]
  BY DEF Sorted!Begin
<1> HIDE DEF new
<1> QED BY <1>3, <1>4 DEF BriefingInv

LEMMA SettledDay ==
    ASSUME BriefingInv, NEW found \in [1..MaxInputs -> Labelled]
    PROVE  Sorted!Settled(found) \in [1..MaxInputs -> Input] /\ KeepsLabels(Sorted!Settled(found))
<1> DEFINE day == Sorted!Settled(found)
<1>1. /\ DOMAIN day = 1..MaxInputs /\ day = [i \in 1..MaxInputs |-> day[i]]
      /\ \A i \in 1..MaxInputs :
            day[i] = IF ~Sorted!Settles(i, found) THEN inputs[i]
                     ELSE IF found[i] # Sorted!NoTopic
                     THEN [inputs[i] EXCEPT !.topic = found[i], !.status = "classified", !.reviewed = TRUE]
                     ELSE [inputs[i] EXCEPT !.status = "unclassified", !.reviewed = TRUE]
  BY DEF Sorted!Settled, BriefingInv
<1> HIDE DEF day
<1>2. ASSUME NEW i \in 1..MaxInputs PROVE day[i] \in Input /\ (inputs[i].topic # Sorted!NoTopic => day[i] = inputs[i])
  <2>1. inputs[i] \in Input /\ found[i] \in Labelled
    BY DEF BriefingInv
  <2>2. inputs[i].topic # Sorted!NoTopic => ~Sorted!Settles(i, found)
    BY DEF Sorted!Settles
  <2>3. CASE ~Sorted!Settles(i, found)
    BY <1>1, <2>1, <2>3
  <2>4. CASE Sorted!Settles(i, found) /\ found[i] # Sorted!NoTopic
    <3>1. day[i] = [inputs[i] EXCEPT !.topic = found[i], !.status = "classified", !.reviewed = TRUE]
      BY <1>1, <2>4
    <3>2. [inputs[i] EXCEPT !.topic = found[i], !.status = "classified", !.reviewed = TRUE] \in Input
      BY <2>1, InputChanges
    <3> QED BY <2>2, <2>4, <3>1, <3>2
  <2>5. CASE Sorted!Settles(i, found) /\ found[i] = Sorted!NoTopic
    <3>1. day[i] = [inputs[i] EXCEPT !.status = "unclassified", !.reviewed = TRUE]
      BY <1>1, <2>5
    <3>2. [inputs[i] EXCEPT !.status = "unclassified", !.reviewed = TRUE] \in Input
      BY <2>1, InputChanges
    <3> QED BY <2>2, <2>5, <3>1, <3>2
  <2> QED BY <2>3, <2>4, <2>5
<1>3. day \in [1..MaxInputs -> Input] /\ KeepsLabels(day)
  BY <1>1, <1>2 DEF KeepsLabels
<1> QED BY <1>3 DEF day

LEMMA UnavailableDay ==
    ASSUME BriefingInv
    PROVE  Sorted!Unavailable \in [1..MaxInputs -> Input] /\ KeepsLabels(Sorted!Unavailable)
<1> DEFINE day == Sorted!Unavailable
<1>1. /\ DOMAIN day = 1..MaxInputs /\ day = [i \in 1..MaxInputs |-> day[i]]
      /\ \A i \in 1..MaxInputs :
            day[i] = IF i \in Sorted!PendingInputs THEN [inputs[i] EXCEPT !.status = "unavailable"] ELSE inputs[i]
  BY DEF Sorted!Unavailable, BriefingInv
<1> HIDE DEF day
<1>2. \A i \in 1..MaxInputs : day[i] \in Input /\ day[i].topic = inputs[i].topic
  <2> SUFFICES ASSUME NEW i \in 1..MaxInputs PROVE day[i] \in Input /\ day[i].topic = inputs[i].topic
    OBVIOUS
  <2>1. inputs[i] \in Input
    BY DEF BriefingInv
  <2> QED BY <1>1, <2>1, InputChanges, NoneFoundIsLabelled
<1>3. day \in [1..MaxInputs -> Input] /\ KeepsLabels(day)
  BY <1>1, <1>2 DEF KeepsLabels
<1> QED BY <1>3 DEF day

LEMMA RunEnds ==
    ASSUME BriefingInv, NEW r \in Sorted!Runs, run' = [run EXCEPT ![r] = Sorted!Quiet],
           inputs' \in [1..MaxInputs -> Input], KeepsLabels(inputs'), UNCHANGED <<shown, reruns>>
    PROVE  BriefingInv' /\ KeepsLabels(inputs')
BY DEF BriefingInv

LEMMA AskAnswers ==
    ASSUME BriefingInv, NEW r \in Sorted!Runs, NEW i \in 1..MaxInputs, NEW label \in Labelled, Sorted!Ask(r, i, label)
    PROVE  BriefingInv' /\ KeepsLabels(inputs')
<1> DEFINE old == run[r]
           asked_ == [old EXCEPT !.left = @ \ {i}]
           new == IF Sorted!Fits(label, asked_.topics)
                  THEN [asked_ EXCEPT !.topics = @ \cup {label}, !.found[i] = label] ELSE asked_
<1>1. old \in Asking
  BY DEF BriefingInv, Sorted!Ask, Sorted!Quiet
<1>2. run' = [run EXCEPT ![r] = new]
  BY DEF Sorted!Ask, BriefingInv
<1>3. shown' = shown \cup {i} /\ UNCHANGED <<inputs, reruns>>
  BY DEF Sorted!Ask
<1> HIDE DEF old
<1>4. asked_ \in Asking
  BY <1>1 DEF Asking
<1> HIDE DEF asked_
<1>5. [asked_ EXCEPT !.topics = @ \cup {label}, !.found[i] = label] \in Asking
  BY <1>4 DEF Asking
<1>6. new \in Asking
  BY <1>4, <1>5
<1> HIDE DEF new
<1> QED BY <1>2, <1>3, <1>6 DEF BriefingInv, KeepsLabels

LEMMA BriefingStep == BriefingInv /\ Sorted!Next => BriefingInv' /\ (Reorganized \/ KeepsLabels(inputs'))
<1> SUFFICES ASSUME BriefingInv, Sorted!Next PROVE BriefingInv' /\ (Reorganized \/ KeepsLabels(inputs'))
  OBVIOUS
<1>0. inputs \in [1..MaxInputs -> Input] /\ \A i \in 1..MaxInputs : inputs[i] \in Input
  BY DEF BriefingInv
<1>1. ASSUME NEW i \in 1..MaxInputs, Sorted!Publish(i) \/ Sorted!Dismiss(i) PROVE BriefingInv' /\ KeepsLabels(inputs')
  <2>1. UNCHANGED <<shown, run, reruns>>
    BY <1>1 DEF Sorted!Publish, Sorted!Dismiss
  <2>2. PICK x \in Input : inputs' = [inputs EXCEPT ![i] = x] /\ x.topic = inputs[i].topic
    <3>1. CASE Sorted!Publish(i)
      <4>1. inputs' = [inputs EXCEPT ![i] = [inputs[i] EXCEPT !.status = "pending"]]
        BY <3>1 DEF Sorted!Publish
      <4> QED BY <1>0, <4>1, InputChanges, NoneFoundIsLabelled
    <3>2. CASE Sorted!Dismiss(i)
      <4>1. inputs' = [inputs EXCEPT ![i] = [inputs[i] EXCEPT !.hidden = TRUE]]
        BY <3>2 DEF Sorted!Dismiss
      <4> QED BY <1>0, <4>1, InputChanges, NoneFoundIsLabelled
    <3> QED BY <1>1, <3>1, <3>2
  <2> QED BY <1>0, <2>1, <2>2 DEF BriefingInv, KeepsLabels
<1>2. CASE Sorted!PassBegins
  <2>1. Sorted!Begin("pass", inputs) /\ "pass" \in Sorted!Runs /\ UNCHANGED <<shown, reruns>>
    BY <1>2 DEF Sorted!PassBegins, Sorted!Runs
  <2> QED BY <1>0, <2>1, RunBegins DEF BriefingInv, KeepsLabels
<1>3. ASSUME NEW r \in Sorted!Runs, Sorted!OrganizeRest(r) PROVE BriefingInv' /\ KeepsLabels(inputs')
  <2> DEFINE day == [i \in DOMAIN inputs |->
                        IF i \in Sorted!Queued THEN [inputs[i] EXCEPT !.status = "pending"] ELSE inputs[i]]
  <2>1. Sorted!Begin(r, day) /\ UNCHANGED shown /\ reruns' \in 0..MaxReruns
    BY <1>3, SortedAssumption DEF Sorted!OrganizeRest, Sorted!MayRerun, BriefingInv
  <2>2. \A i \in 1..MaxInputs : day[i] \in Input /\ day[i].topic = inputs[i].topic
    BY <1>0, InputChanges, NoneFoundIsLabelled
  <2>3. day \in [1..MaxInputs -> Input]
    BY <1>0, <2>2
  <2> HIDE DEF day
  <2> QED BY <1>0, <2>1, <2>2, <2>3, RunBegins DEF BriefingInv, KeepsLabels
<1>4. ASSUME NEW r \in Sorted!Runs, Sorted!Reorganize(r) PROVE BriefingInv' /\ Reorganized
  <2> DEFINE day == [i \in DOMAIN inputs |->
                        IF i \in Sorted!Displayed
                        THEN [inputs[i] EXCEPT !.status = "pending", !.topic = Sorted!NoTopic, !.reviewed = FALSE]
                        ELSE inputs[i]]
  <2>1. Sorted!Begin(r, day)
    BY <1>4 DEF Sorted!Reorganize
  <2>4. shown' = shown \ Sorted!Displayed
    BY <1>4 DEF Sorted!Reorganize
  <2>5. reruns < MaxReruns /\ reruns' = reruns + 1
    BY <1>4 DEF Sorted!Reorganize, Sorted!MayRerun
  <2>6. reruns' \in 0..MaxReruns
    BY <2>5, SortedAssumption DEF BriefingInv
  <2>2. \A i \in 1..MaxInputs : day[i] \in Input
    BY <1>0, InputChanges, NoneFoundIsLabelled
  <2>3. day \in [1..MaxInputs -> Input]
    BY <1>0, <2>2
  <2> HIDE DEF day
  <2>7. inputs' \in [1..MaxInputs -> Input] /\ run' \in [Sorted!Runs -> {Sorted!Quiet} \cup Asking]
    BY <2>1, <2>3, RunBegins
  <2> QED BY <1>4, <2>4, <2>6, <2>7 DEF BriefingInv, Reorganized
<1>5. ASSUME NEW r \in Sorted!Runs, Sorted!Finish(r) PROVE BriefingInv' /\ KeepsLabels(inputs')
  <2>1. run[r] \in Asking
    BY <1>5 DEF Sorted!Finish, BriefingInv, Sorted!Quiet
  <2>2. run[r].found \in [1..MaxInputs -> Labelled]
    BY <2>1 DEF Asking
  <2> QED BY <1>5, <2>2, SettledDay, RunEnds DEF Sorted!Finish
<1>6. ASSUME NEW r \in Sorted!Runs, Sorted!Interrupt(r) \/ Sorted!Defer(r) PROVE BriefingInv' /\ KeepsLabels(inputs')
  BY <1>6, SettledDay, UnavailableDay, NoneFoundIsLabelled, RunEnds DEF Sorted!Interrupt, Sorted!Defer
<1>7. ASSUME NEW r \in Sorted!Runs, Sorted!Abandon(r) PROVE BriefingInv' /\ KeepsLabels(inputs')
  BY <1>0, <1>7, RunEnds DEF Sorted!Abandon, KeepsLabels
<1> QED BY <1>1, <1>2, <1>3, <1>4, <1>5, <1>6, <1>7, AskAnswers DEF Sorted!Next, Labelled

LabelsKept ==
    (\E r \in Sorted!Runs : Sorted!Reorganize(r))
    \/ \A i \in DOMAIN inputs : inputs[i].topic # Sorted!NoTopic => inputs'[i].topic = inputs[i].topic

(* The label of an input changes only when the user reorganizes the day,     *)
(* whatever passes, runs of the user, interruptions and failures settle in   *)
(* between what they read before it had one: for any labels, inputs and      *)
(* limits (signals.rs, inference/briefing_topics.rs).                        *)
THEOREM LabelsAreTheUsers == SurfacesSpec => LabelsStay
<1>1. BriefingInv /\ [SurfacesNext]_surfacesVars => BriefingInv' /\ [LabelsKept]_briefingVars
  <2> SUFFICES ASSUME BriefingInv, [SurfacesNext]_surfacesVars
               PROVE  BriefingInv' /\ (UNCHANGED briefingVars \/ Reorganized \/ KeepsLabels(inputs'))
    BY DEF LabelsKept, Reorganized, KeepsLabels, BriefingInv
  <2>1. Sorted!Next \/ UNCHANGED briefingVars
    BY DEF SurfacesNext, surfacesVars
  <2>2. UNCHANGED briefingVars => BriefingInv'
    BY DEF briefingVars, BriefingInv
  <2> QED BY <2>1, <2>2, BriefingStep
<1>2. BriefingInv => Sorted!TypeOK
  BY DEF BriefingInv, Sorted!TypeOK, Input, Labelled
<1>3. SurfacesSpec => [][LabelsKept]_briefingVars
  BY BriefingInit, <1>1, PTL DEF SurfacesSpec
<1>4. SurfacesSpec => []Sorted!TypeOK
  BY BriefingInit, <1>1, <1>2, PTL DEF SurfacesSpec
<1> QED BY <1>3, <1>4, PTL DEF LabelsStay, Sorted!LabelsStay, LabelsKept, Sorted!briefingVars, briefingVars
-----------------------------------------------------------------------------
(* The broad inputs of a pass.                                               *)

(* A mark is of a pass that has begun.                                       *)
Marks == [started : [Sensed!Inputs -> 0..passes], failing : SUBSET Sensed!Inputs]
Sweeps == [at : {"looking", "waiting", "running"}, todo : SUBSET Channels, ready : SUBSET Sensed!Inputs]
Tasks == [at : Sensed!Stages, doc : Marks \cup {None}]
Edits == [at : {"saving", "persisting", "applying"}, form : Sensed!Configs, todo : SUBSET Providers,
          gone : SUBSET Providers]

SettingsInv ==
    /\ config \in Sensed!Configs /\ configFile \in Sensed!Configs
    /\ secrets \subseteq Providers /\ secretsFile \subseteq Providers
    /\ edit \in {Sensed!NoEdit} \cup Edits /\ edits \in 0..MaxEdits

MarksInv ==
    /\ runtime \in Marks /\ runtimeFile \in Marks \cup {Torn} /\ temporary \in Marks \cup {Torn, None}
    /\ sweep \in {Sensed!NoPass} \cup Sweeps
    /\ task \in [Sensed!Inputs -> {Sensed!Off} \cup Tasks]
    /\ passed \subseteq Sensed!Inputs \X Sensed!Inputs /\ passes \in 0..MaxPasses

Begins(i) == task[i].at = "spawned"

(* An input that was passed over began before the one that went first.  In a *)
(* pass nobody has begun who is not taken or has still to begin; those are   *)
(* the ones that waited longest, and nobody taken counts as passed over.     *)
OrderInv ==
    /\ \A i, j \in Sensed!Inputs : <<i, j>> \in passed => runtime.started[j] < runtime.started[i]
    /\ sweep.at \in {"idle", "looking"} => Sensed!Chosen = {}
    /\ sweep.at = "looking" => \A i \in Sensed!Inputs : runtime.started[i] < passes
    /\ sweep.at \in {"waiting", "running"} =>
           /\ \A i \in Sensed!Inputs : i \notin Sensed!Chosen \/ Begins(i) => runtime.started[i] < passes
           /\ \A i, j \in Sensed!Inputs : <<i, j>> \in passed => j \notin Sensed!Chosen
           /\ \A i \in Sensed!Inputs : \A j \in sweep.ready \ Sensed!Chosen :
                  Begins(i) => runtime.started[i] <= runtime.started[j]

SpentInv == blocked \subseteq Keychain /\ ambientFaults \in 0..MaxInputFaults

AmbientInv == SettingsInv /\ SpentInv /\ MarksInv /\ OrderInv

LEMMA AmbientInit == SurfacesInit => AmbientInv
<1> SUFFICES ASSUME Sensed!Init PROVE AmbientInv
  BY DEF SurfacesInit
<1> USE DEF Sensed!Init
<1>1. config \in Sensed!Configs
  BY SensedAssumption DEF Sensed!Configs
<1>2. SettingsInv /\ SpentInv
  BY <1>1, SensedAssumption DEF SettingsInv, SpentInv
<1>3. runtime \in Marks
  BY DEF Marks
<1>4. MarksInv
  BY <1>3, SensedAssumption DEF MarksInv
<1>5. OrderInv
  BY DEF OrderInv, Sensed!NoPass, Sensed!Chosen, Sensed!Off
<1> QED BY <1>2, <1>4, <1>5 DEF AmbientInv

(* What holds of the marks in every phase.                                   *)
LEMMA MarksParts ==
    ASSUME MarksInv
    PROVE  /\ \A i \in Sensed!Inputs : runtime.started[i] \in 0..passes
           /\ passes \in Nat /\ sweep.at \in {"idle", "looking", "waiting", "running"}
           /\ sweep.at # "idle" => sweep \in Sweeps
           /\ \A i \in Sensed!Inputs : task[i].at # "off" => task[i] \in Tasks
<1>1. runtime.started \in [Sensed!Inputs -> 0..passes]
  BY DEF MarksInv, Marks
<1>2. sweep.at \in {"idle", "looking", "waiting", "running"} /\ (sweep.at # "idle" => sweep \in Sweeps)
  BY DEF MarksInv, Sensed!NoPass, Sweeps
<1> QED BY <1>1, <1>2 DEF MarksInv, Sensed!Off

(* The credentials.                                                          *)
LEMMA Remembering ==
    ASSUME SpentInv, NEW p, NEW answer \in Sensed!Answers(p)
    PROVE  Sensed!Remembered(p, answer) \subseteq Keychain
BY DEF SpentInv, Sensed!Answers, Sensed!Remembered

LEMMA EditStep ==
    ASSUME AmbientInv, Sensed!BeginEdit \/ Sensed!PersistConfig \/ Sensed!ApplyConfig
                           \/ \E p \in Providers : Sensed!WriteSecret(p) \/ Sensed!RemoveSecret(p)
    PROVE  SettingsInv' /\ SpentInv'
<1> USE DEF AmbientInv, SettingsInv, SpentInv
<1>0. edit # Sensed!NoEdit => edit \in Edits
  OBVIOUS
<1>1. CASE Sensed!BeginEdit
  <2>1. PICK f \in Forms : edit' = [at |-> "saving", form |-> f.config, todo |-> f.typed,
                                    gone |-> config.providers \ f.config.providers]
    BY <1>1 DEF Sensed!BeginEdit
  <2>2. config.providers \subseteq Providers
    BY DEF Sensed!Configs
  <2>3. edit' \in Edits
    BY <2>1, <2>2, SensedAssumption DEF Edits
  <2>4. edits' \in 0..MaxEdits
    BY <1>1, SensedAssumption DEF Sensed!BeginEdit
  <2> QED BY <1>1, <2>3, <2>4 DEF Sensed!BeginEdit
<1>2. CASE Sensed!PersistConfig
  <2>1. edit \in Edits
    BY <1>0, <1>2 DEF Sensed!PersistConfig, Sensed!NoEdit
  <2>2. edit.form \in Sensed!Configs /\ [edit EXCEPT !.at = "applying"] \in Edits
    BY <2>1 DEF Edits
  <2>3. configFile' \in Sensed!Configs /\ edit' \in {Sensed!NoEdit} \cup Edits /\ ambientFaults' \in 0..MaxInputFaults
    BY <1>2, <2>2, SensedAssumption DEF Sensed!PersistConfig
  <2> QED BY <1>2, <2>3 DEF Sensed!PersistConfig
<1>3. CASE Sensed!ApplyConfig
  <2>1. edit \in Edits
    BY <1>0, <1>3 DEF Sensed!ApplyConfig, Sensed!NoEdit
  <2> QED BY <1>3, <2>1 DEF Sensed!ApplyConfig, Edits
<1>4. ASSUME NEW next \in SUBSET Providers, NEW ahead \in Edits,
             Sensed!Stored(next, ahead) \/ Sensed!Kept(next, ahead)
      PROVE  /\ secrets' \subseteq Providers /\ secretsFile' \subseteq Providers
             /\ edit' \in {Sensed!NoEdit} \cup Edits /\ ambientFaults' \in 0..MaxInputFaults
  BY <1>4, SensedAssumption DEF Sensed!Stored, Sensed!Kept
<1>5. ASSUME NEW p \in Providers, Sensed!WriteSecret(p) PROVE SettingsInv' /\ SpentInv'
  <2> DEFINE ahead == [edit EXCEPT !.todo = @ \ {p}]
  <2>1. edit \in Edits
    BY <1>0, <1>5 DEF Sensed!WriteSecret, Sensed!NoEdit
  <2>2. ahead \in Edits
    BY <2>1 DEF Edits
  <2>3. /\ Sensed!Stored(secrets \cup {p}, ahead) \/ Sensed!Kept(secrets \cup {p}, ahead)
        /\ blocked' \subseteq blocked
    BY <1>5 DEF Sensed!WriteSecret
  <2> HIDE DEF ahead
  <2> QED BY <1>4, <1>5, <2>2, <2>3 DEF Sensed!WriteSecret
<1>6. ASSUME NEW p \in Providers, Sensed!RemoveSecret(p) PROVE SettingsInv' /\ SpentInv'
  <2> DEFINE ahead == [edit EXCEPT !.gone = @ \ {p}]
  <2>1. edit \in Edits
    BY <1>0, <1>6 DEF Sensed!RemoveSecret, Sensed!NoEdit
  <2>2. ahead \in Edits
    BY <2>1 DEF Edits
  <2>3. \/ Sensed!Stored(secrets \ {p}, ahead) \/ Sensed!Kept(secrets \ {p}, ahead)
        \/ edit' = ahead /\ UNCHANGED <<secrets, secretsFile, ambientFaults>>
    BY <1>6 DEF Sensed!RemoveSecret
  <2> HIDE DEF ahead
  <2> QED BY <1>4, <1>6, <2>2, <2>3 DEF Sensed!RemoveSecret
<1> QED BY <1>1, <1>2, <1>3, <1>5, <1>6

(* A step that begins nobody and takes nobody keeps the order.               *)
LEMMA OrderKept ==
    ASSUME MarksInv, OrderInv, UNCHANGED <<sweep, passed, passes>>, runtime'.started = runtime.started,
           \A i \in Sensed!Inputs : /\ task'[i].at = "off" <=> task[i].at = "off"
                                    /\ Begins(i)' => Begins(i)
    PROVE  OrderInv'
<1>1. Sensed!Chosen' = Sensed!Chosen
  BY DEF Sensed!Chosen
<1> QED BY <1>1 DEF OrderInv

(* A task takes a step.                                                      *)
LEMMA TaskMoves ==
    ASSUME MarksInv, OrderInv, NEW i \in Sensed!Inputs, NEW x \in Tasks, task' = [task EXCEPT ![i] = x],
           task[i].at # "off", x.at # "spawned", UNCHANGED <<sweep, passed, passes>>,
           runtime' \in Marks, runtime'.started = runtime.started,
           runtimeFile' \in Marks \cup {Torn}, temporary' \in Marks \cup {Torn, None}
    PROVE  MarksInv' /\ OrderInv'
<1>1. Marks' = Marks /\ Tasks' = Tasks
  BY DEF Marks, Tasks
<1>2. MarksInv'
  BY <1>1 DEF MarksInv
<1>3. \A j \in Sensed!Inputs : (task'[j].at = "off" <=> task[j].at = "off") /\ (task'[j].at = "spawned" => task[j].at = "spawned")
  BY DEF MarksInv, Tasks, Sensed!Stages
<1> QED BY <1>2, <1>3, OrderKept DEF Begins

(* The tasks of a pass that is over are gone, and nobody begins any more.    *)
LEMMA PassIsDropped ==
    ASSUME MarksInv, OrderInv, Sensed!Drop
    PROVE  MarksInv' /\ OrderInv'
<1>1. Marks' = Marks /\ Tasks' = Tasks
  BY DEF Marks, Tasks, Sensed!Drop
<1>2. temporary' \in Marks \cup {Torn, None}
  BY DEF MarksInv, Sensed!Drop, Tasks, Sensed!Off
<1>3. MarksInv'
  BY <1>1, <1>2 DEF MarksInv, Sensed!Drop
<1>4. Sensed!Chosen' = {} /\ sweep'.at = "idle"
  BY DEF Sensed!Drop, Sensed!Chosen, Sensed!Off, Sensed!NoPass
<1> QED BY <1>3, <1>4 DEF OrderInv, Sensed!Drop

LEMMA PassBegins ==
    ASSUME MarksInv, OrderInv, SettingsInv, Sensed!BeginPass
    PROVE  MarksInv' /\ OrderInv'
<1>1. passes' = passes + 1 /\ passes' \in 0..MaxPasses /\ passes \in Nat
  BY SensedAssumption DEF Sensed!BeginPass, MarksInv
<1>2. Marks \subseteq Marks' /\ Tasks \subseteq Tasks'
  <2>1. 0..passes \subseteq 0..passes'
    BY <1>1
  <2>2. Marks \subseteq Marks'
    BY <2>1 DEF Marks
  <2> QED BY <2>2 DEF Tasks
<1>3. sweep' \in Sweeps
  BY DEF Sensed!BeginPass, Sweeps, SettingsInv, Sensed!Configs, Sensed!Inputs
<1>4. UNCHANGED <<runtime, runtimeFile, temporary, task, passed>> /\ sweep'.at = "looking" /\ sweep.at = "idle"
  BY DEF Sensed!BeginPass, Sensed!NoPass
<1>5. MarksInv'
  BY <1>1, <1>2, <1>3, <1>4 DEF MarksInv, Sweeps
<1>6. \A i \in Sensed!Inputs : runtime'.started[i] < passes'
  BY <1>1, <1>4, MarksParts
<1> QED BY <1>4, <1>5, <1>6 DEF OrderInv, Sensed!Chosen

LEMMA Looks ==
    ASSUME MarksInv, OrderInv, NEW c \in Channels, Sensed!Look(c)
    PROVE  MarksInv' /\ OrderInv'
<1>1. PICK ready \in SUBSET Sensed!Inputs : sweep' = [sweep EXCEPT !.todo = @ \ {c}, !.ready = ready]
  <2>1. sweep.ready \subseteq Sensed!Inputs
    BY MarksParts DEF Sensed!Look, Sweeps
  <2> QED BY <2>1 DEF Sensed!Look, Sensed!Inputs
<1>2. sweep \in Sweeps /\ sweep.at = "looking" /\ UNCHANGED <<runtime, runtimeFile, temporary, task, passed, passes>>
  BY MarksParts DEF Sensed!Look, Sensed!marks
<1>3. sweep' \in Sweeps /\ sweep'.at = "looking"
  BY <1>1, <1>2 DEF Sweeps
<1>4. Marks' = Marks /\ Tasks' = Tasks
  BY <1>2 DEF Marks, Tasks
<1> QED BY <1>2, <1>3, <1>4 DEF MarksInv, OrderInv, Sensed!Chosen, Sweeps

LEMMA Selects ==
    ASSUME MarksInv, OrderInv, Sensed!Select
    PROVE  MarksInv' /\ OrderInv'
<1>1. PICK taken \in SUBSET sweep.ready :
          /\ Sensed!LongestAgo(taken, sweep.ready)
          /\ task' = [i \in Sensed!Inputs |-> IF i \in taken THEN [at |-> "spawned", doc |-> None] ELSE Sensed!Off]
          /\ sweep' = [sweep EXCEPT !.at = IF Luna \in taken THEN "waiting" ELSE "running"]
          /\ passed' = {ab \in passed : ab[2] \in sweep.ready \ taken}
  BY DEF Sensed!Select
<1>2. sweep \in Sweeps /\ sweep.at = "looking" /\ UNCHANGED <<runtime, runtimeFile, temporary, passes>>
  BY MarksParts DEF Sensed!Select, Sensed!marks
<1>3. sweep' \in Sweeps /\ sweep'.at \in {"waiting", "running"} /\ sweep'.ready = sweep.ready
  BY <1>1, <1>2 DEF Sweeps
<1>4. Marks' = Marks /\ Tasks' = Tasks
  BY <1>2 DEF Marks, Tasks
<1>5. taken \subseteq Sensed!Inputs
  BY <1>2 DEF Sweeps
<1>6. task' \in [Sensed!Inputs -> {Sensed!Off} \cup Tasks]
  BY <1>1 DEF Tasks, Sensed!Stages
<1>7. MarksInv'
  BY <1>1, <1>2, <1>3, <1>4, <1>6 DEF MarksInv, Sweeps
<1>8. Sensed!Chosen' = taken
  BY <1>1, <1>5 DEF Sensed!Chosen, Sensed!Off
<1>9. \A i \in Sensed!Inputs : Begins(i)' => i \in taken
  BY <1>1 DEF Begins, Sensed!Off
<1>10. \A i, j \in Sensed!Inputs : <<i, j>> \in passed' => <<i, j>> \in passed /\ j \notin taken
  BY <1>1
<1> QED BY <1>1, <1>2, <1>3, <1>7, <1>8, <1>9, <1>10 DEF OrderInv, Sensed!LongestAgo

(* An input that begins is the last that began, and passes over those that   *)
(* are ready and were not taken.                                             *)
LEMMA Starts ==
    ASSUME MarksInv, OrderInv, NEW i \in Sensed!Inputs, Sensed!MarkStarted(i)
    PROVE  MarksInv' /\ OrderInv'
<1>1. /\ task[i].at = "spawned" /\ UNCHANGED <<runtimeFile, temporary, sweep, passes>>
      /\ runtime' = [runtime EXCEPT !.started[i] = passes]
      /\ task' = [task EXCEPT ![i] = [at |-> "starting", doc |-> runtime']]
      /\ passed' = {ab \in passed : ab[1] # i} \cup ({i} \X (sweep.ready \ Sensed!Chosen))
  BY DEF Sensed!MarkStarted, Sensed!Begun
<1>2. sweep \in Sweeps /\ sweep.at \in {"waiting", "running"}
  BY MarksParts DEF Sensed!MarkStarted, Sensed!MayRun
<1>3. Marks' = Marks /\ Tasks' = Tasks
  BY <1>1 DEF Marks, Tasks
<1>4. runtime' \in Marks /\ \A j \in Sensed!Inputs : runtime'.started[j] = IF j = i THEN passes ELSE runtime.started[j]
  <2>1. runtime \in Marks /\ passes \in 0..passes
    BY DEF MarksInv
  <2> QED BY <1>1, <2>1 DEF Marks
<1>5. [at |-> "starting", doc |-> runtime'] \in Tasks
  BY <1>4 DEF Tasks, Sensed!Stages
<1>6. MarksInv'
  BY <1>1, <1>2, <1>3, <1>4, <1>5 DEF MarksInv, Sweeps
<1>7. Sensed!Chosen' = Sensed!Chosen /\ i \in Sensed!Chosen /\ \A j \in Sensed!Inputs : Begins(j)' => Begins(j) /\ j # i
  BY <1>1 DEF Sensed!Chosen, Begins, MarksInv
<1>8. \A a, b \in Sensed!Inputs : <<a, b>> \in passed' =>
          b \notin Sensed!Chosen /\ b # i /\ (a # i => <<a, b>> \in passed)
  BY <1>1, <1>2, <1>7 DEF OrderInv
<1>9. \A a, b \in Sensed!Inputs : <<a, b>> \in passed' => runtime'.started[b] < runtime'.started[a]
  <2> SUFFICES ASSUME NEW a \in Sensed!Inputs, NEW b \in Sensed!Inputs, <<a, b>> \in passed'
               PROVE  runtime'.started[b] < runtime'.started[a]
    OBVIOUS
  <2>1. CASE a = i
    BY <1>2, <1>4, <1>8, <2>1 DEF OrderInv
  <2>2. CASE a # i
    BY <1>4, <1>8, <2>2 DEF OrderInv
  <2> QED BY <2>1, <2>2
<1> QED BY <1>1, <1>2, <1>4, <1>6, <1>7, <1>8, <1>9 DEF OrderInv

LEMMA Writes ==
    ASSUME MarksInv, OrderInv, NEW i \in Sensed!Inputs, Sensed!Write(i) \/ Sensed!Rename(i)
    PROVE  MarksInv' /\ OrderInv'
<1>0. task[i].at # "off" /\ UNCHANGED <<runtime, sweep, passed, passes>>
  BY DEF Sensed!Write, Sensed!Rename
<1>1. task[i] \in Tasks
  BY <1>0, MarksParts
<1>2. PICK at \in {"renaming", "replacing", "calling", "done", "broken"} : task' = [task EXCEPT ![i] = [at |-> at, doc |-> None]]
  BY DEF Sensed!Write, Sensed!Rename
<1>3. [at |-> at, doc |-> None] \in Tasks
  BY DEF Tasks, Sensed!Stages
<1>4. temporary' \in Marks \cup {Torn, None} /\ runtimeFile' \in Marks \cup {Torn}
  <2>1. CASE Sensed!Write(i)
    BY <1>1, <2>1 DEF Sensed!Write, MarksInv, Tasks
  <2>2. CASE Sensed!Rename(i)
    BY <2>2 DEF Sensed!Rename, MarksInv
  <2> QED BY <2>1, <2>2
<1> QED BY <1>0, <1>2, <1>3, <1>4, TaskMoves DEF MarksInv

LEMMA Calls ==
    ASSUME MarksInv, OrderInv, SpentInv, NEW i \in Sensed!Inputs, Sensed!Call(i)
    PROVE  MarksInv' /\ OrderInv' /\ SpentInv'
<1>0. task[i].at = "calling" /\ UNCHANGED <<runtimeFile, temporary, sweep, passed, passes, ambientFaults>>
  BY DEF Sensed!Call
<1>1. task[i] \in Tasks
  BY <1>0, MarksParts
<1>2. PICK outcome : Sensed!Settled(i, outcome)
  BY DEF Sensed!Call
<1>3. blocked' \subseteq Keychain
  BY Remembering DEF Sensed!Call, SpentInv
<1>4. runtime' \in Marks /\ runtime'.started = runtime.started
  BY <1>2 DEF Sensed!Settled, MarksInv, Marks
<1>5. PICK x \in Tasks : task' = [task EXCEPT ![i] = x] /\ x.at # "spawned"
  <2>1. CASE outcome = "interrupted"
    <3>1. task' = [task EXCEPT ![i] = [task[i] EXCEPT !.at = "done"]]
      BY <1>2, <2>1 DEF Sensed!Settled, MarksInv
    <3>2. [task[i] EXCEPT !.at = "done"] \in Tasks
      BY <1>1 DEF Tasks, Sensed!Stages
    <3> QED BY <1>1, <3>1, <3>2 DEF Tasks
  <2>2. CASE outcome # "interrupted"
    <3>1. task' = [task EXCEPT ![i] = [at |-> "ending", doc |-> runtime']]
      BY <1>2, <2>2 DEF Sensed!Settled
    <3>2. [at |-> "ending", doc |-> runtime'] \in Tasks
      BY <1>4 DEF Tasks, Sensed!Stages
    <3> QED BY <3>1, <3>2
  <2> QED BY <2>1, <2>2
<1>6. runtimeFile' \in Marks \cup {Torn} /\ temporary' \in Marks \cup {Torn, None}
  BY <1>0 DEF MarksInv
<1>7. MarksInv' /\ OrderInv'
  BY <1>0, <1>4, <1>5, <1>6, TaskMoves
<1> QED BY <1>0, <1>3, <1>7 DEF SpentInv

LEMMA Restarts ==
    ASSUME AmbientInv, Sensed!Restart
    PROVE  AmbientInv'
<1> USE DEF AmbientInv, Sensed!Restart
<1>1. runtime' \in Marks
  BY DEF MarksInv
<1>2. Marks' = Marks /\ Tasks' = Tasks
  BY DEF Marks, Tasks
<1>3. MarksInv'
  BY <1>1, <1>2 DEF MarksInv, Sensed!files
<1>4. OrderInv'
  BY DEF OrderInv, Sensed!Chosen, Sensed!Off, Sensed!NoPass
<1>5. SettingsInv' /\ SpentInv'
  BY SensedAssumption DEF SettingsInv, SpentInv, Sensed!files
<1> QED BY <1>3, <1>4, <1>5

LEMMA AmbientStep == AmbientInv /\ Sensed!Next => AmbientInv'
<1> SUFFICES ASSUME AmbientInv, Sensed!Next PROVE AmbientInv'
  OBVIOUS
<1> USE DEF AmbientInv
<1>0. ASSUME UNCHANGED <<runtime, runtimeFile, temporary, sweep, task, passed, passes>> PROVE MarksInv' /\ OrderInv'
  <2>1. Marks' = Marks /\ Tasks' = Tasks
    BY <1>0 DEF Marks, Tasks
  <2>2. MarksInv'
    BY <1>0, <2>1 DEF MarksInv
  <2> QED BY <1>0, <2>2 DEF OrderInv, Sensed!Chosen, Begins
<1>1. CASE \/ Sensed!BeginEdit \/ Sensed!PersistConfig \/ Sensed!ApplyConfig
           \/ \E p \in Providers : Sensed!WriteSecret(p) \/ Sensed!RemoveSecret(p)
  <2>1. UNCHANGED <<runtime, runtimeFile, temporary, sweep, task, passed, passes>>
    BY <1>1 DEF Sensed!BeginEdit, Sensed!PersistConfig, Sensed!ApplyConfig, Sensed!WriteSecret, Sensed!RemoveSecret,
                Sensed!marks
  <2> QED BY <1>0, <1>1, <2>1, EditStep
<1>2. ASSUME UNCHANGED <<config, configFile, secrets, secretsFile, edit, edits>> PROVE SettingsInv'
  BY <1>2 DEF SettingsInv, Edits
<1>3. ASSUME NEW p \in Providers, Sensed!ReadSecret(p) PROVE AmbientInv'
  <2>1. UNCHANGED <<runtime, runtimeFile, temporary, sweep, task, passed, passes>> /\ SettingsInv'
    BY <1>2, <1>3 DEF Sensed!ReadSecret, Sensed!marks, Sensed!settings
  <2>2. SpentInv'
    BY <1>3, Remembering DEF Sensed!ReadSecret, SpentInv
  <2> QED BY <1>0, <2>1, <2>2
<1>4. CASE Sensed!BeginPass \/ Sensed!Select \/ Sensed!TakeClient \/ Sensed!ClientIsBusy \/ Sensed!EndPass \/ Sensed!FailPass
  <2>1. UNCHANGED <<blocked, ambientFaults>> /\ UNCHANGED <<config, configFile, secrets, secretsFile, edit, edits>>
    BY <1>4 DEF Sensed!BeginPass, Sensed!Select, Sensed!TakeClient, Sensed!ClientIsBusy, Sensed!EndPass,
                Sensed!FailPass, Sensed!Drop, Sensed!settings
  <2>2. ASSUME Sensed!TakeClient PROVE MarksInv' /\ OrderInv'
    <3>1. UNCHANGED <<runtime, runtimeFile, temporary, task, passed, passes>> /\ sweep.at = "waiting"
          /\ sweep' = [sweep EXCEPT !.at = "running"]
      BY <2>2 DEF Sensed!TakeClient, Sensed!marks
    <3>2. sweep' \in Sweeps /\ sweep'.ready = sweep.ready /\ sweep'.at = "running"
      BY <3>1, MarksParts DEF Sweeps
    <3>3. Marks' = Marks /\ Tasks' = Tasks
      BY <3>1 DEF Marks, Tasks
    <3>4. MarksInv'
      BY <3>1, <3>2, <3>3 DEF MarksInv, Sweeps
    <3>5. Sensed!Chosen' = Sensed!Chosen /\ \A i \in Sensed!Inputs : Begins(i)' <=> Begins(i)
      BY <3>1 DEF Sensed!Chosen, Begins
    <3> HIDE DEF AmbientInv
    <3>6. OrderInv'
      BY <3>1, <3>2, <3>5 DEF OrderInv, AmbientInv
    <3> QED BY <3>4, <3>6
  <2>3. ASSUME ~Sensed!TakeClient PROVE MarksInv' /\ OrderInv'
    BY <1>4, <2>3, PassBegins, Selects, PassIsDropped DEF Sensed!ClientIsBusy, Sensed!EndPass, Sensed!FailPass
  <2> QED BY <1>2, <2>1, <2>2, <2>3 DEF SpentInv
<1>5. ASSUME NEW c \in Channels, Sensed!Look(c) PROVE AmbientInv'
  <2>1. SettingsInv' /\ UNCHANGED ambientFaults
    BY <1>2, <1>5 DEF Sensed!Look, Sensed!settings
  <2>2. SpentInv'
    BY <1>5, <2>1, Remembering DEF Sensed!Look, SpentInv
  <2> QED BY <1>5, <2>1, <2>2, Looks
<1>6. ASSUME NEW i \in Sensed!Inputs,
             Sensed!MarkStarted(i) \/ Sensed!Write(i) \/ Sensed!Rename(i) \/ Sensed!Call(i)
      PROVE  AmbientInv'
  <2>1. SettingsInv'
    BY <1>2, <1>6 DEF Sensed!MarkStarted, Sensed!Write, Sensed!Rename, Sensed!Call, Sensed!settings
  <2>2. CASE Sensed!Call(i)
    BY <2>1, <2>2, Calls
  <2>3. CASE Sensed!MarkStarted(i)
    BY <2>1, <2>3, Starts DEF Sensed!MarkStarted, SpentInv
  <2>4. CASE Sensed!Write(i) \/ Sensed!Rename(i)
    <3>1. SpentInv'
      BY <2>4, SensedAssumption DEF Sensed!Write, Sensed!Rename, SpentInv
    <3> QED BY <2>1, <2>4, <3>1, Writes
  <2> QED BY <1>6, <2>2, <2>3, <2>4
<1> QED BY <1>1, <1>3, <1>4, <1>5, <1>6, Restarts DEF Sensed!Next

(* However long passes, calls and edits take and whatever the user lets go   *)
(* on: an input that begins leaves none behind that was ready each time      *)
(* since it last began, for any inputs, providers, parallelism and limits    *)
(* (ambient_api.rs, sort_by_key(last_started_at)).                           *)
THEOREM InputsTakeTurns == SurfacesSpec => [](Sensed!TypeOK /\ Sensed!NobodyIsPassedOver)
<1>1. AmbientInv /\ [SurfacesNext]_surfacesVars => AmbientInv'
  <2> SUFFICES ASSUME AmbientInv, [SurfacesNext]_surfacesVars PROVE AmbientInv'
    OBVIOUS
  <2>1. Sensed!Next \/ UNCHANGED ambientVars
    BY DEF SurfacesNext, surfacesVars
  <2>2. UNCHANGED ambientVars => AmbientInv'
    BY DEF ambientVars, AmbientInv, SettingsInv, SpentInv, MarksInv, OrderInv, Edits, Marks, Tasks, Begins,
           Sensed!Chosen
  <2> QED BY <2>1, <2>2, AmbientStep
<1>2. AmbientInv => Sensed!TypeOK
  <2> SUFFICES ASSUME AmbientInv PROVE Sensed!TypeOK
    OBVIOUS
  <2>1. Marks \subseteq Sensed!Documents /\ Tasks \subseteq [at : Sensed!Stages, doc : Sensed!Documents \cup {None}]
    <3>1. 0..passes \subseteq Nat
      OBVIOUS
    <3>2. Marks \subseteq Sensed!Documents
      BY <3>1 DEF Marks, Sensed!Documents
    <3> QED BY <3>2 DEF Tasks
  <2> QED BY <2>1 DEF AmbientInv, SettingsInv, SpentInv, MarksInv, Sensed!TypeOK, Edits, Sweeps
<1>3. AmbientInv => Sensed!NobodyIsPassedOver
  <2> SUFFICES ASSUME AmbientInv, NEW i \in Sensed!Chosen, Begins(i), NEW j \in sweep.ready \ Sensed!Chosen,
                      <<i, j>> \in passed
               PROVE  FALSE
    BY DEF Sensed!NobodyIsPassedOver, Begins
  <2>1. sweep.at \in {"waiting", "running"}
    BY MarksParts DEF AmbientInv, OrderInv
  <2>2. i \in Sensed!Inputs /\ j \in Sensed!Inputs
    BY <2>1, MarksParts DEF AmbientInv, Sensed!Chosen, Sweeps
  <2>3. runtime.started[i] \in Nat /\ runtime.started[j] \in Nat
    BY <2>2, MarksParts DEF AmbientInv
  <2> QED BY <2>1, <2>2, <2>3 DEF AmbientInv, OrderInv
<1> QED BY AmbientInit, <1>1, <1>2, <1>3, PTL DEF SurfacesSpec
-----------------------------------------------------------------------------
(* The pool of candidates.                                                   *)

Distinct(q) == q \in Seq(Items) /\ \A a, b \in DOMAIN q : q[a] = q[b] => a = b

LEMMA IntakeCardinality == \A some : Gathered!Cardinality(some) = Cardinality(some)
BY DEF Gathered!Cardinality, Cardinality

(* A set of numbers has a least member: the libraries prove that < is       *)
(* well-founded.                                                             *)
LEMMA LeastOne ==
    ASSUME NEW some, some \subseteq Nat, some # {}
    PROVE  \E k \in some : \A j \in some : k <= j
<1>1. \A a, b \in Nat : a < b => <<a, b>> \in OpToRel(<, Nat)
  BY Zenon DEF OpToRel
<1>2. PICK r : IsWellFoundedOn(r, Nat) /\ \A a, b \in Nat : a < b => <<a, b>> \in r
  BY <1>1, NatLessThanWellFounded, Zenon
<1>3. PICK k \in some : \A j \in some : ~ (<<j, k>> \in r)
  BY <1>2, WFMin
<1>4. \A j \in some : k <= j
  <2> SUFFICES ASSUME NEW j \in some PROVE k <= j
    OBVIOUS
  <2>1. j \in Nat /\ k \in Nat
    OBVIOUS
  <2>2. ~ (j < k)
    BY <1>2, <1>3, <2>1
  <2> QED BY <2>1, <2>2
<1> QED BY <1>4

LEMMA SetOfSequence ==
    ASSUME NEW q \in Seq(Items)
    PROVE  /\ Gathered!ToSet(q) = {q[a] : a \in 1..Len(q)} /\ Gathered!ToSet(q) \subseteq Items
           /\ IsFiniteSet(Gathered!ToSet(q))
BY GatheredAssumption, FS_Subset DEF Gathered!ToSet

LEMMA DistinctIsAsLong ==
    ASSUME NEW q, Distinct(q)
    PROVE  Cardinality(Gathered!ToSet(q)) = Len(q) /\ IsFiniteSet(Gathered!ToSet(q))
<1>1. q \in [1..Len(q) -> Gathered!ToSet(q)] /\ Len(q) \in Nat /\ DOMAIN q = 1..Len(q)
  BY DEF Distinct, Gathered!ToSet
<1>2. q \in Bijection(1..Len(q), Gathered!ToSet(q))
  BY <1>1, Fun_IsBij DEF Distinct, Gathered!ToSet
<1>3. ExistsBijection(1..Len(q), Gathered!ToSet(q))
  BY <1>2 DEF ExistsBijection
<1> QED BY <1>1, <1>3, FS_CountingElements, SetOfSequence DEF Distinct

LEMMA OrderIsDistinct ==
    ASSUME NEW some \in SUBSET Items, NEW q \in Gathered!Orders(some)
    PROVE  Distinct(q) /\ Gathered!ToSet(q) = some /\ Len(q) = Cardinality(some)
<1>1. IsFiniteSet(some) /\ Cardinality(some) \in Nat
  BY GatheredAssumption, FS_Subset, FS_CardinalityType
<1>2. q \in [1..Cardinality(some) -> some] /\ Gathered!ToSet(q) = some
  BY IntakeCardinality DEF Gathered!Orders
<1>3. DOMAIN q = 1..Cardinality(some) /\ q \in Seq(Items) /\ Len(q) = Cardinality(some)
  BY <1>1, <1>2
<1>4. q \in Surjection(1..Cardinality(some), some)
  BY <1>2, <1>3, Fun_IsSurj DEF Gathered!ToSet
<1>5. IsFiniteSet(1..Cardinality(some)) /\ Cardinality(1..Cardinality(some)) = Cardinality(some)
  BY <1>1, FS_Interval
<1>6. q \in Injection(1..Cardinality(some), some)
  BY <1>4, <1>5, FS_SurjSameCardinalityImpliesInj
<1> QED BY <1>2, <1>3, <1>6, Fun_InjectionProperties DEF Distinct

LEMMA JoinedIsDistinct ==
    ASSUME NEW p, Distinct(p), NEW q, Distinct(q), Gathered!ToSet(p) \cap Gathered!ToSet(q) = {}
    PROVE  /\ Distinct(p \o q) /\ Len(p \o q) = Len(p) + Len(q)
           /\ Gathered!ToSet(p \o q) = Gathered!ToSet(p) \cup Gathered!ToSet(q)
<1>1. /\ p \in Seq(Items) /\ q \in Seq(Items) /\ p \o q \in Seq(Items) /\ Len(p) \in Nat /\ Len(q) \in Nat
      /\ Len(p \o q) = Len(p) + Len(q) /\ DOMAIN p = 1..Len(p) /\ DOMAIN q = 1..Len(q)
      /\ DOMAIN (p \o q) = 1..(Len(p) + Len(q))
      /\ \A a \in 1..(Len(p) + Len(q)) : (p \o q)[a] = IF a <= Len(p) THEN p[a] ELSE q[a - Len(p)]
  BY DEF Distinct
<1>2. \A a \in 1..Len(p) : p[a] \in Gathered!ToSet(p)
  BY <1>1 DEF Gathered!ToSet
<1>3. \A a \in 1..Len(q) : q[a] \in Gathered!ToSet(q)
  BY <1>1 DEF Gathered!ToSet
<1>4. Distinct(p \o q)
  <2> SUFFICES ASSUME NEW a \in 1..(Len(p) + Len(q)), NEW b \in 1..(Len(p) + Len(q)), (p \o q)[a] = (p \o q)[b]
               PROVE  a = b
    BY <1>1 DEF Distinct
  <2>1. CASE a <= Len(p) /\ b <= Len(p)
    BY <1>1, <2>1 DEF Distinct
  <2>2. CASE a > Len(p) /\ b > Len(p)
    <3>1. q[a - Len(p)] = q[b - Len(p)] /\ a - Len(p) \in DOMAIN q /\ b - Len(p) \in DOMAIN q
      BY <1>1, <2>2
    <3> QED BY <1>1, <2>2, <3>1 DEF Distinct
  <2>3. CASE a <= Len(p) /\ b > Len(p)
    <3>1. p[a] = q[b - Len(p)] /\ a \in 1..Len(p) /\ b - Len(p) \in 1..Len(q)
      BY <1>1, <2>3
    <3> QED BY <1>2, <1>3, <3>1
  <2>4. CASE a > Len(p) /\ b <= Len(p)
    <3>1. p[b] = q[a - Len(p)] /\ b \in 1..Len(p) /\ a - Len(p) \in 1..Len(q)
      BY <1>1, <2>4
    <3> QED BY <1>2, <1>3, <3>1
  <2> QED BY <1>1, <2>1, <2>2, <2>3, <2>4
<1>5. \A x : x \in Gathered!ToSet(p \o q) <=> x \in Gathered!ToSet(p) \cup Gathered!ToSet(q)
  <2>1. ASSUME NEW x \in Gathered!ToSet(p \o q) PROVE x \in Gathered!ToSet(p) \cup Gathered!ToSet(q)
    <3>1. PICK a \in 1..(Len(p) + Len(q)) : x = (p \o q)[a]
      BY <1>1 DEF Gathered!ToSet
    <3>2. CASE a <= Len(p)
      BY <1>1, <1>2, <3>1, <3>2
    <3>3. CASE a > Len(p)
      BY <1>1, <1>3, <3>1, <3>3
    <3> QED BY <1>1, <3>2, <3>3
  <2>2. ASSUME NEW x \in Gathered!ToSet(p) PROVE x \in Gathered!ToSet(p \o q)
    <3>1. PICK a \in 1..Len(p) : x = p[a]
      BY <1>1 DEF Gathered!ToSet
    <3>2. a \in 1..(Len(p) + Len(q)) /\ x = (p \o q)[a]
      BY <1>1, <3>1
    <3> QED BY <1>1, <3>2 DEF Gathered!ToSet
  <2>3. ASSUME NEW x \in Gathered!ToSet(q) PROVE x \in Gathered!ToSet(p \o q)
    <3>1. PICK a \in 1..Len(q) : x = q[a]
      BY <1>1 DEF Gathered!ToSet
    <3>2. a + Len(p) \in 1..(Len(p) + Len(q)) /\ x = (p \o q)[a + Len(p)]
      BY <1>1, <3>1
    <3> QED BY <1>1, <3>2 DEF Gathered!ToSet
  <2> QED BY <2>1, <2>2, <2>3
<1> QED BY <1>1, <1>4, <1>5

(* The place of a retained candidate has a rank, that of no other place; the *)
(* ranks are those of as many places as there are.                           *)
Rank(places, k) == Gathered!Cardinality({j \in places : j < k})
Nth(places, n) == CHOOSE k \in places : Rank(places, k) = n - 1

LEMMA RankType ==
    ASSUME NEW m \in Nat, NEW places \in SUBSET (1..m)
    PROVE  /\ IsFiniteSet(places) /\ Cardinality(places) \in 0..m
           /\ \A k : Rank(places, k) \in Nat
           /\ \A a \in places : Rank(places, a) < Cardinality(places)
           /\ \A a \in places, b \in Nat : a < b => Rank(places, a) < Rank(places, b)
<1> DEFINE below(k) == {j \in places : j < k}
<1>0. \A k : Rank(places, k) = Cardinality(below(k))
  BY IntakeCardinality DEF Rank
<1>1. IsFiniteSet(places) /\ Cardinality(places) \in 0..m
  <2>1. IsFiniteSet(1..m) /\ Cardinality(1..m) = m
    BY FS_Interval
  <2>2. IsFiniteSet(places) /\ Cardinality(places) <= m
    BY <2>1, FS_Subset
  <2>3. Cardinality(places) \in Nat
    BY <2>2, FS_CardinalityType
  <2> QED BY <2>2, <2>3
<1>2. \A k : IsFiniteSet(below(k)) /\ Rank(places, k) \in Nat
  <2> SUFFICES ASSUME NEW k PROVE IsFiniteSet(below(k)) /\ Rank(places, k) \in Nat
    OBVIOUS
  <2>1. below(k) \in SUBSET places
    OBVIOUS
  <2> QED BY <1>0, <1>1, <2>1, FS_Subset, FS_CardinalityType
<1>3. ASSUME NEW a \in places, NEW more, IsFiniteSet(more), below(a) \cup {a} \subseteq more
      PROVE  Rank(places, a) < Cardinality(more)
  <2>1. a \notin below(a) /\ IsFiniteSet(below(a))
    BY <1>2
  <2>2. Cardinality(below(a) \cup {a}) = Cardinality(below(a)) + 1
    BY <2>1, FS_AddElement
  <2>3. Cardinality(below(a) \cup {a}) <= Cardinality(more)
    BY <1>3, FS_Subset
  <2>4. Cardinality(more) \in Nat
    BY <1>3, FS_CardinalityType
  <2>5. Rank(places, a) = Cardinality(below(a)) /\ Rank(places, a) \in Nat
    BY <1>0, <1>2
  <2> QED BY <2>2, <2>3, <2>4, <2>5
<1>4. \A a \in places : Rank(places, a) < Cardinality(places)
  <2> SUFFICES ASSUME NEW a \in places PROVE Rank(places, a) < Cardinality(places)
    OBVIOUS
  <2>1. below(a) \cup {a} \subseteq places
    OBVIOUS
  <2> QED BY <1>1, <1>3, <2>1
<1>5. ASSUME NEW a \in places, NEW b \in Nat, a < b PROVE Rank(places, a) < Rank(places, b)
  <2>0. \A j \in places : j \in Nat /\ (j < a \/ j = a => j < b)
    BY <1>5
  <2>1. below(a) \cup {a} \subseteq below(b)
    BY <2>0
  <2>2. IsFiniteSet(below(b)) /\ Rank(places, b) = Cardinality(below(b))
    BY <1>0, <1>2
  <2>3. Rank(places, a) < Cardinality(below(b))
    BY <1>3, <2>1, <2>2
  <2> QED BY <2>2, <2>3
<1> QED BY <1>1, <1>2, <1>4, <1>5

LEMMA RanksFill ==
    ASSUME NEW m \in Nat, NEW places \in SUBSET (1..m)
    PROVE  /\ \A n \in 1..Cardinality(places) : Nth(places, n) \in places /\ Rank(places, Nth(places, n)) = n - 1
           /\ \A a \in places : Nth(places, Rank(places, a) + 1) = a /\ Rank(places, a) + 1 \in 1..Cardinality(places)
<1> DEFINE size == Cardinality(places)
           f == [k \in places |-> Rank(places, k) + 1]
<1>0. IsFiniteSet(places) /\ size \in Nat
  BY RankType
<1>1. \A a \in places : Rank(places, a) \in Nat /\ Rank(places, a) < size
  BY RankType
<1>2. \A a, b \in places : Rank(places, a) = Rank(places, b) => a = b
  <2> SUFFICES ASSUME NEW a \in places, NEW b \in places, a # b PROVE Rank(places, a) # Rank(places, b)
    OBVIOUS
  <2>1. a \in Nat /\ b \in Nat /\ (a < b \/ b < a)
    OBVIOUS
  <2>2. Rank(places, a) < Rank(places, b) \/ Rank(places, b) < Rank(places, a)
    BY <2>1, RankType
  <2> QED BY <1>1, <2>2
<1> HIDE DEF size
<1>3. f \in Injection(places, 1..size)
  <2>1. f \in [places -> 1..size]
    BY <1>0, <1>1
  <2>2. \A a, b \in places : f[a] = f[b] => a = b
    BY <1>1, <1>2
  <2> HIDE DEF f
  <2> QED BY <2>1, <2>2, Fun_IsInj
<1>4. IsFiniteSet(1..size) /\ Cardinality(1..size) = Cardinality(places)
  BY <1>0, FS_Interval DEF size
<1>5. f \in Surjection(places, 1..size)
  <2> HIDE DEF f
  <2> QED BY <1>3, <1>4, FS_Injection
<1>6. \A n \in 1..size : \E k \in places : Rank(places, k) = n - 1
  <2> SUFFICES ASSUME NEW n \in 1..size PROVE \E k \in places : Rank(places, k) = n - 1
    OBVIOUS
  <2>1. \A t \in 1..size : \E k \in places : f[k] = t
    <3> HIDE DEF f
    <3> QED BY <1>5, Fun_SurjectionProperties
  <2>2. PICK k \in places : f[k] = n
    BY <2>1
  <2> QED BY <1>1, <2>2
<1>7. \A n \in 1..size : Nth(places, n) \in places /\ Rank(places, Nth(places, n)) = n - 1
  BY <1>6 DEF Nth
<1>8. \A a \in places : Nth(places, Rank(places, a) + 1) = a /\ Rank(places, a) + 1 \in 1..size
  <2> SUFFICES ASSUME NEW a \in places PROVE Nth(places, Rank(places, a) + 1) = a /\ Rank(places, a) + 1 \in 1..size
    OBVIOUS
  <2>1. Rank(places, a) + 1 \in 1..size
    BY <1>0, <1>1
  <2>2. /\ Nth(places, Rank(places, a) + 1) \in places
        /\ Rank(places, Nth(places, Rank(places, a) + 1)) = Rank(places, a)
    BY <1>1, <1>7, <2>1
  <2> QED BY <1>2, <2>1, <2>2
<1> QED BY <1>7, <1>8 DEF size

LEMMA RetainedIsDistinct ==
    ASSUME NEW q, Distinct(q), NEW some
    PROVE  /\ Distinct(Gathered!Retained(q, some)) /\ Len(Gathered!Retained(q, some)) <= Len(q)
           /\ Gathered!ToSet(Gathered!Retained(q, some)) = Gathered!ToSet(q) \cap some
<1> DEFINE places == {k \in DOMAIN q : q[k] \in some}
           size == Cardinality(places)
           rest == Gathered!Retained(q, some)
<1>1. Len(q) \in Nat /\ DOMAIN q = 1..Len(q) /\ places \in SUBSET (1..Len(q)) /\ q \in Seq(Items)
  BY DEF Distinct
<1>2. rest = [n \in 1..size |-> q[Nth(places, n)]]
  <2>1. rest = [n \in 1..Gathered!Cardinality(places) |-> q[Nth(places, n)]]
    BY DEF Gathered!Retained, Nth, Rank
  <2> QED BY <2>1, IntakeCardinality
<1>3. size \in 0..Len(q)
  BY <1>1, RankType
<1>4. /\ \A n \in 1..size : Nth(places, n) \in places /\ Rank(places, Nth(places, n)) = n - 1
      /\ \A a \in places : \E n \in 1..size : Nth(places, n) = a
  BY <1>1, RanksFill
<1>5. \A k \in places : k \in 1..Len(q) /\ q[k] \in some /\ q[k] \in Gathered!ToSet(q)
  BY <1>1 DEF Gathered!ToSet
<1>6. \A x \in Gathered!ToSet(q) \cap some : \E k \in places : q[k] = x
  BY <1>1 DEF Gathered!ToSet
<1>7. \A a, b \in 1..size : Nth(places, a) = Nth(places, b) => a = b
  BY <1>3, <1>4
<1> HIDE DEF size, places, rest
<1>8. rest \in Seq(Items) /\ Len(rest) = size /\ DOMAIN rest = 1..size /\ \A n \in 1..size : rest[n] = q[Nth(places, n)]
  <2>1. \A n \in 1..size : q[Nth(places, n)] \in Items
    BY <1>4, <1>5, SetOfSequence, <1>1
  <2>2. rest \in [1..size -> Items] /\ size \in Nat
    BY <1>2, <1>3, <2>1
  <2> QED BY <1>2, <2>2
<1>9. Distinct(rest)
  <2> SUFFICES ASSUME NEW a \in 1..size, NEW b \in 1..size, rest[a] = rest[b] PROVE a = b
    BY <1>8 DEF Distinct
  <2>1. /\ q[Nth(places, a)] = q[Nth(places, b)]
        /\ Nth(places, a) \in 1..Len(q) /\ Nth(places, b) \in 1..Len(q)
    BY <1>4, <1>5, <1>8
  <2>2. Nth(places, a) = Nth(places, b)
    BY <1>1, <2>1 DEF Distinct
  <2> QED BY <1>7, <2>2
<1>10. Gathered!ToSet(rest) = Gathered!ToSet(q) \cap some
  <2>1. Gathered!ToSet(rest) \subseteq Gathered!ToSet(q) \cap some
    BY <1>4, <1>5, <1>8 DEF Gathered!ToSet
  <2>2. ASSUME NEW x \in Gathered!ToSet(q) \cap some PROVE x \in Gathered!ToSet(rest)
    <3>1. PICK k \in places : q[k] = x
      BY <1>6
    <3>2. PICK n \in 1..size : Nth(places, n) = k
      BY <1>4
    <3> QED BY <1>8, <3>1, <3>2 DEF Gathered!ToSet
  <2> QED BY <2>1, <2>2
<1>11. Len(rest) <= Len(q)
  BY <1>1, <1>3, <1>8
<1> QED BY <1>9, <1>10, <1>11 DEF rest

-----------------------------------------------------------------------------
(* The intake.                                                               *)

Known == Gathered!Pooled \cup Gathered!ToSet(signals) \cup decided

WorldInv ==
    /\ inbox \in 0..Len(MailItems) /\ mailSeen \subseteq 1..inbox
    /\ folder \subseteq Gathered!Files /\ driveSeen \subseteq folder

(* The pool holds nothing twice and is on disk; no more does the stream.     *)
PoolInv ==
    /\ Distinct(pool) /\ Len(pool) <= Capacity /\ poolSaved = pool
    /\ Distinct(signals) /\ decided \subseteq Items

(* A candidate under review that has not been published yet is still routed. *)
PassInv ==
    /\ pass \in Gathered!PassType /\ pass.files \cup pass.filed \subseteq folder
    /\ pass.phase = "publishing" =>
          pass.batch \subseteq pass.publish \cup pass.reject \cup pass.deep \cup pass.defer \cup Gathered!ToSet(signals)

(* So are the files that were filed and not acknowledged yet.                *)
KeptInv == \A f \in driveSeen \cup pass.filed : FileItems[f] \subseteq Known

LooseInv ==
    /\ detached \subseteq 0..Capacity /\ writes = {} /\ browsed = 0
    /\ intakeFaults \in 0..MaxFaults /\ expiries \in 0..MaxExpiries

IntakeInv == WorldInv /\ PoolInv /\ PassInv /\ KeptInv /\ LooseInv

LEMMA NoPassIsOne ==
    /\ Gathered!NoPass \in Gathered!PassType
    /\ Gathered!NoPass.phase = "idle" /\ Gathered!NoPass.files = {} /\ Gathered!NoPass.filed = {}
<1>1. 0 \in 0..Capacity
  BY GatheredAssumption
<1> QED BY <1>1 DEF Gathered!NoPass, Gathered!PassType, Gathered!Phases, Gathered!Kinds, Gathered!Polls

LEMMA IntakeInit == SurfacesInit => IntakeInv
<1> SUFFICES ASSUME Gathered!Init PROVE IntakeInv
  BY DEF SurfacesInit
<1> USE DEF Gathered!Init
<1>1. Distinct(<<>>) /\ Len(<<>>) = 0
  BY DEF Distinct
<1>2. PoolInv
  BY <1>1, GatheredAssumption DEF PoolInv
<1>3. WorldInv
  BY GatheredAssumption DEF WorldInv
<1>4. PassInv /\ KeptInv
  BY NoPassIsOne DEF PassInv, KeptInv
<1>5. LooseInv
  BY GatheredAssumption DEF LooseInv
<1> QED BY <1>2, <1>3, <1>4, <1>5 DEF IntakeInv

LEMMA FilesAreOfItems ==
    /\ Gathered!Files \subseteq Nat /\ \A f \in Gathered!Files : FileItems[f] \subseteq Items
    /\ \A k \in 1..Len(MailItems) : MailItems[k] \subseteq Items
BY GatheredAssumption DEF Gathered!Files

(* What a step of the pass does to the rest.                                 *)
LEMMA PassMoves ==
    ASSUME IntakeInv, pass' \in Gathered!PassType, pass'.files \subseteq folder, pass'.filed = pass.filed,
           \/ pass'.phase # "publishing"
           \/ /\ pass'.phase = pass.phase /\ pass'.batch = pass.batch /\ pass'.publish = pass.publish
              /\ pass'.reject = pass.reject /\ pass'.deep = pass.deep /\ pass'.defer = pass.defer,
           UNCHANGED <<folder, driveSeen, pool, signals, decided>>
    PROVE  PassInv' /\ KeptInv'
<1>1. PassInv'
  BY DEF IntakeInv, PassInv
<1>2. KeptInv'
  BY DEF IntakeInv, KeptInv, Known, Gathered!Pooled
<1> QED BY <1>1, <1>2

LEMMA PassEnds ==
    ASSUME IntakeInv, pass' = Gathered!NoPass, Known \subseteq Known', driveSeen' \subseteq driveSeen \cup pass.filed
    PROVE  PassInv' /\ KeptInv'
<1>1. PassInv'
  BY NoPassIsOne DEF PassInv
<1>2. KeptInv'
  BY NoPassIsOne DEF IntakeInv, KeptInv
<1> QED BY <1>1, <1>2

(* What the pool becomes when some of it is decided on.                      *)
LEMMA PoolShrinks ==
    ASSUME IntakeInv, NEW out, NEW more \in SUBSET Items, pool' = Gathered!Without(pool, out), poolSaved' = pool',
           UNCHANGED signals, decided' = decided \cup more, out \cap Gathered!Pooled \subseteq more \cup Gathered!ToSet(signals)
    PROVE  PoolInv' /\ Known \subseteq Known'
<1>1. Distinct(pool) /\ Len(pool) <= Capacity /\ Len(pool) \in Nat /\ Gathered!ToSet(pool) \subseteq Items
  BY SetOfSequence DEF IntakeInv, PoolInv, Distinct
<1>2. /\ Distinct(pool') /\ Len(pool') <= Len(pool)
      /\ Gathered!ToSet(pool') = Gathered!ToSet(pool) \cap (Items \ out)
  BY <1>1, RetainedIsDistinct DEF Gathered!Without
<1>3. Len(pool') <= Capacity
  <2>1. Len(pool') \in Nat
    BY <1>2 DEF Distinct
  <2> QED BY <1>1, <1>2, <2>1, GatheredAssumption
<1>4. PoolInv'
  BY <1>2, <1>3 DEF IntakeInv, PoolInv
<1>5. Gathered!Pooled = Gathered!ToSet(pool) /\ Gathered!Pooled' = Gathered!ToSet(pool')
  BY DEF Gathered!Pooled
<1>6. Known \subseteq Known'
  BY <1>1, <1>2, <1>5 DEF Known
<1> QED BY <1>4, <1>6

LEMMA NothingIsLost ==
    ASSUME UNCHANGED <<pool, signals, decided>> PROVE Known = Known'
BY DEF Known, Gathered!Pooled

LEMMA ArrivalStep ==
    ASSUME IntakeInv, Gathered!MailArrives \/ (\E f \in Gathered!Files : Gathered!FileArrives(f)) \/ Gathered!UserInput
    PROVE  WorldInv' /\ PoolInv' /\ PassInv' /\ KeptInv'
<1> USE DEF IntakeInv
<1>1. PoolInv'
  BY DEF Gathered!MailArrives, Gathered!FileArrives, Gathered!UserInput, Gathered!queue, Gathered!ledger, PoolInv
<1>2. CASE Gathered!MailArrives
  <2>1. inbox' = inbox + 1 /\ inbox < Len(MailItems) /\ UNCHANGED <<folder, mailSeen, driveSeen, pool, signals, decided, pass>>
    BY <1>2 DEF Gathered!MailArrives, Gathered!cursors, Gathered!queue, Gathered!ledger
  <2>2. Len(MailItems) \in Nat
    BY GatheredAssumption
  <2>3. inbox' \in 0..Len(MailItems) /\ 1..inbox \subseteq 1..inbox'
    BY <2>1, <2>2 DEF WorldInv
  <2> QED BY <1>1, <2>1, <2>3, PassMoves DEF WorldInv, PassInv
<1>3. ASSUME NEW f \in Gathered!Files, Gathered!FileArrives(f) PROVE WorldInv' /\ PoolInv' /\ PassInv' /\ KeptInv'
  <2>1. folder' = folder \cup {f} /\ UNCHANGED <<inbox, mailSeen, driveSeen, pool, signals, decided, pass>>
    BY <1>3 DEF Gathered!FileArrives, Gathered!cursors, Gathered!queue, Gathered!ledger
  <2> QED BY <1>1, <2>1 DEF WorldInv, PassInv, KeptInv, Known, Gathered!Pooled
<1>4. CASE Gathered!UserInput
  <2>1. /\ pass' = [pass EXCEPT !.input = TRUE]
        /\ UNCHANGED <<inbox, folder, mailSeen, driveSeen, pool, signals, decided>>
    BY <1>4 DEF Gathered!UserInput, Gathered!docs, Gathered!cursors, Gathered!queue, Gathered!ledger
  <2>2. pass' \in Gathered!PassType /\ pass'.phase = pass.phase /\ pass'.batch = pass.batch
        /\ pass'.publish = pass.publish /\ pass'.reject = pass.reject /\ pass'.deep = pass.deep
        /\ pass'.defer = pass.defer /\ pass'.files = pass.files /\ pass'.filed = pass.filed
    BY <2>1 DEF PassInv, Gathered!PassType
  <2> QED BY <1>1, <2>1, <2>2, PassMoves DEF WorldInv, PassInv
<1> QED BY <1>2, <1>3, <1>4

LEMMA StartStep ==
    ASSUME IntakeInv, NEW kind \in Gathered!Kinds, Gathered!Start(kind)
    PROVE  WorldInv' /\ PoolInv' /\ PassInv' /\ KeptInv'
<1> USE DEF IntakeInv
<1>1. UNCHANGED <<inbox, folder, mailSeen, driveSeen, pool, signals, decided>> /\ poolSaved' = pool
  BY DEF Gathered!Start, Gathered!docs, Gathered!cursors, Gathered!ledger, PoolInv
<1>2. Gathered!Room \in 0..Capacity
  <2>1. Len(pool) \in Nat
    BY DEF PoolInv, Distinct
  <2> QED BY <2>1, GatheredAssumption DEF PoolInv, Gathered!Room
<1> DEFINE room == Gathered!Room
<1>3. pass' = [Gathered!NoPass EXCEPT !.phase = "gathering", !.kind = kind, !.room = room, !.mail = "running",
                   !.drive = "running", !.sense = IF kind = "scheduled" THEN "running" ELSE "done"]
  BY DEF Gathered!Start
<1> HIDE DEF room
<1>4. pass' \in Gathered!PassType /\ pass'.phase = "gathering" /\ pass'.files = {} /\ pass'.filed = {}
  <2>1. room \in 0..Capacity
    BY <1>2 DEF room
  <2> QED BY <1>3, <2>1, NoPassIsOne DEF Gathered!PassType, Gathered!Phases, Gathered!Kinds, Gathered!Polls
<1>5. PassInv'
  BY <1>4 DEF PassInv
<1>6. KeptInv'
  BY <1>1, <1>4, NothingIsLost DEF KeptInv
<1> QED BY <1>1, <1>5, <1>6 DEF WorldInv, PoolInv

LEMMA PollStep ==
    ASSUME IntakeInv, Gathered!Gather \/ Gathered!PollFails
    PROVE  WorldInv' /\ PoolInv' /\ PassInv' /\ KeptInv'
<1> USE DEF IntakeInv
<1>1. UNCHANGED <<inbox, folder, driveSeen, pool, poolSaved, signals, decided>>
  BY DEF Gathered!Gather, Gathered!PollFails, Gathered!MailPollEnds, Gathered!DrivePollEnds, Gathered!SensingEnds,
         Gathered!PollInterrupted, Gathered!docs, Gathered!cursors, Gathered!queue, Gathered!ledger
<1>2. mailSeen' \subseteq 1..inbox
  BY DEF Gathered!Gather, Gathered!PollFails, Gathered!MailPollEnds, Gathered!DrivePollEnds, Gathered!SensingEnds,
         Gathered!PollInterrupted, Gathered!cursors, Gathered!Accepted, WorldInv
<1>3. /\ pass' \in Gathered!PassType /\ pass'.phase = pass.phase /\ pass'.batch = pass.batch
      /\ pass'.publish = pass.publish /\ pass'.reject = pass.reject /\ pass'.deep = pass.deep
      /\ pass'.defer = pass.defer /\ pass'.files \subseteq folder /\ pass'.filed = pass.filed
  <2> USE DEF PassInv
  <2>1. CASE Gathered!MailPollEnds
    <3>1. PICK got \in SUBSET Items : pass' = [pass EXCEPT !.mail = "done", !.got = got]
      <4>1. Gathered!Sections(Gathered!Accepted(pass.room)) \subseteq Items
        <5>1. Gathered!Accepted(pass.room) \subseteq 1..Len(MailItems)
          <6>1. Gathered!Accepted(pass.room) \subseteq 1..inbox
            BY DEF Gathered!Accepted
          <6>2. inbox \in 0..Len(MailItems) /\ Len(MailItems) \in Nat
            BY GatheredAssumption DEF WorldInv
          <6> QED BY <6>1, <6>2
        <5> QED BY <5>1, FilesAreOfItems DEF Gathered!Sections
      <4> QED BY <2>1, <4>1 DEF Gathered!MailPollEnds
    <3> QED BY <3>1 DEF Gathered!PassType, Gathered!Polls
  <2>2. CASE Gathered!DrivePollEnds
    <3>1. PICK files \in SUBSET folder : pass' = [pass EXCEPT !.drive = "done", !.files = files]
      BY <2>2 DEF Gathered!DrivePollEnds, Gathered!Selected
    <3>2. files \subseteq Gathered!Files
      BY DEF WorldInv
    <3> QED BY <3>1, <3>2 DEF Gathered!PassType, Gathered!Polls
  <2>3. CASE Gathered!SensingEnds
    <3>1. PICK proposed \in SUBSET Ambient : pass' = [pass EXCEPT !.sense = "done", !.proposed = proposed]
      BY <2>3 DEF Gathered!SensingEnds
    <3> QED BY <3>1 DEF Gathered!PassType, Gathered!Polls
  <2>4. CASE Gathered!PollFails \/ Gathered!PollInterrupted
    <3>1. PICK how \in {"done", "interrupted"} :
              \/ pass' = [pass EXCEPT !.mail = how] \/ pass' = [pass EXCEPT !.drive = how]
              \/ pass' = [pass EXCEPT !.sense = how]
      BY <2>4 DEF Gathered!PollFails, Gathered!PollInterrupted
    <3> QED BY <3>1 DEF Gathered!PassType, Gathered!Polls
  <2> QED BY <2>1, <2>2, <2>3, <2>4 DEF Gathered!Gather
<1>4. PassInv' /\ KeptInv'
  BY <1>1, <1>3, PassMoves
<1> QED BY <1>1, <1>2, <1>4 DEF WorldInv, PoolInv

(* The steps that end the pass and decide on nothing.                        *)
LEMMA EndStep ==
    ASSUME IntakeInv, \/ Gathered!AbandonGathering \/ Gathered!DropGathered \/ Gathered!Supersede
                      \/ Gathered!PassFails \/ Gathered!Restart
    PROVE  WorldInv' /\ PoolInv' /\ PassInv' /\ KeptInv'
<1>1. pass' = Gathered!NoPass /\ UNCHANGED <<inbox, folder, mailSeen, driveSeen, pool, poolSaved, signals, decided>>
  BY DEF Gathered!AbandonGathering, Gathered!DropGathered, Gathered!Supersede, Gathered!PassFails, Gathered!Restart,
         Gathered!docs, Gathered!cursors, Gathered!queue, Gathered!ledger, IntakeInv, PoolInv
<1> QED BY <1>1, PassEnds, NothingIsLost DEF IntakeInv, WorldInv, PoolInv

LEMMA LateStep ==
    ASSUME IntakeInv, \/ \E room \in detached : Gathered!DetachedPollEnds(room)
                      \/ \E i \in Items : Gathered!Expire(i) \/ Gathered!Browse(i)
                      \/ \E q \in writes : Gathered!BrowseWrites(q)
    PROVE  WorldInv' /\ PoolInv' /\ PassInv' /\ KeptInv'
<1> USE DEF IntakeInv
<1>1. ASSUME NEW room, Gathered!DetachedPollEnds(room) PROVE WorldInv' /\ PoolInv' /\ PassInv' /\ KeptInv'
  <2>1. UNCHANGED <<inbox, folder, driveSeen, pool, poolSaved, signals, decided, pass>>
    BY <1>1 DEF Gathered!DetachedPollEnds, Gathered!docs, Gathered!queue, Gathered!ledger
  <2>2. mailSeen' \subseteq 1..inbox
    BY <1>1 DEF Gathered!DetachedPollEnds, Gathered!Accepted, WorldInv
  <2> QED BY <2>1, <2>2, PassMoves DEF WorldInv, PoolInv, PassInv
<1>2. ASSUME NEW i \in Items, Gathered!Expire(i) PROVE WorldInv' /\ PoolInv' /\ PassInv' /\ KeptInv'
  <2>1. /\ UNCHANGED <<inbox, folder, mailSeen, driveSeen, signals, pass>>
        /\ pool' = Gathered!Without(pool, {i}) /\ poolSaved' = pool' /\ decided' = decided \cup {i}
    BY <1>2 DEF Gathered!Expire, Gathered!Persist, Gathered!docs, Gathered!cursors
  <2>2. PoolInv' /\ Known \subseteq Known'
    BY <2>1, PoolShrinks
  <2> QED BY <2>1, <2>2 DEF WorldInv, PassInv, KeptInv
<1>3. ASSUME NEW i, Gathered!Browse(i) PROVE FALSE
  BY <1>3 DEF Gathered!Browse, LooseInv
<1> QED BY <1>1, <1>2, <1>3 DEF LooseInv

(* What is added was not in the pool, and there is room for it.              *)
LEMMA AddedFits ==
    ASSUME IntakeInv, NEW some \in SUBSET Items, NEW room \in Nat, NEW new \in Gathered!Admissible(some, room)
    PROVE  /\ new \subseteq some /\ new \cap Gathered!Pooled = {} /\ IsFiniteSet(new)
           /\ Cardinality(new) \in Nat /\ Cardinality(new) <= room
<1>1. new \subseteq some \ Gathered!Pooled /\ Cardinality(new) <= room
  BY IntakeCardinality DEF Gathered!Admissible, Gathered!kSubset
<1>2. IsFiniteSet(new)
  BY <1>1, GatheredAssumption, FS_Subset
<1> QED BY <1>1, <1>2, FS_CardinalityType

LEMMA PoolGrows ==
    ASSUME IntakeInv, NEW more, Distinct(more), Gathered!ToSet(more) \cap Gathered!Pooled = {},
           Len(pool) + Len(more) <= Capacity, pool' = pool \o more, poolSaved' = pool', UNCHANGED <<signals, decided>>
    PROVE  PoolInv' /\ Known \subseteq Known' /\ Gathered!ToSet(more) \subseteq Known'
<1>1. Gathered!Pooled = Gathered!ToSet(pool) /\ Gathered!Pooled' = Gathered!ToSet(pool')
  BY DEF Gathered!Pooled
<1>2. /\ Distinct(pool') /\ Len(pool') = Len(pool) + Len(more)
      /\ Gathered!ToSet(pool') = Gathered!ToSet(pool) \cup Gathered!ToSet(more)
  BY <1>1, JoinedIsDistinct DEF IntakeInv, PoolInv
<1>3. PoolInv'
  BY <1>2 DEF IntakeInv, PoolInv
<1>4. Known \subseteq Known' /\ Gathered!ToSet(more) \subseteq Known'
  BY <1>1, <1>2 DEF Known
<1> QED BY <1>3, <1>4

LEMMA EnqueueStep ==
    ASSUME IntakeInv, Gathered!EnqueueGathered
    PROVE  WorldInv' /\ PoolInv' /\ PassInv' /\ KeptInv'
<1> USE DEF IntakeInv
<1>1. UNCHANGED <<inbox, folder, mailSeen, driveSeen, signals, decided>> /\ pass' = [pass EXCEPT !.phase = "filing"]
  BY DEF Gathered!EnqueueGathered, Gathered!docs, Gathered!cursors, Gathered!ledger
<1>2. PICK mail \in Gathered!Admissible(pass.got, Gathered!Room) :
          \E other \in Gathered!Admissible(pass.proposed \ mail, Gathered!Room - Gathered!Cardinality(mail)) :
          \E a \in Gathered!Orders(mail), b \in Gathered!Orders(other) : Gathered!Persist((pool \o a) \o b)
  BY DEF Gathered!EnqueueGathered
<1>2a. PICK other \in Gathered!Admissible(pass.proposed \ mail, Gathered!Room - Gathered!Cardinality(mail)) :
           \E a \in Gathered!Orders(mail), b \in Gathered!Orders(other) : Gathered!Persist((pool \o a) \o b)
  BY <1>2
<1>2b. PICK a \in Gathered!Orders(mail), b \in Gathered!Orders(other) : Gathered!Persist((pool \o a) \o b)
  BY <1>2a
<1>3. pass.got \subseteq Items /\ pass.proposed \subseteq Items
  BY GatheredAssumption DEF PassInv, Gathered!PassType
<1>4. Len(pool) \in Nat /\ Gathered!Room \in Nat /\ Gathered!Room = Capacity - Len(pool)
  BY GatheredAssumption DEF PoolInv, Distinct, Gathered!Room
<1>5. /\ mail \subseteq pass.got /\ mail \cap Gathered!Pooled = {} /\ Cardinality(mail) \in Nat
      /\ Cardinality(mail) <= Gathered!Room
  BY <1>2, <1>3, <1>4, AddedFits
<1>6. Gathered!Room - Gathered!Cardinality(mail) \in Nat
  BY <1>4, <1>5, IntakeCardinality
<1>7. /\ other \subseteq pass.proposed \ mail /\ other \cap Gathered!Pooled = {} /\ Cardinality(other) \in Nat
      /\ Cardinality(other) <= Gathered!Room - Cardinality(mail)
  <2> DEFINE room == Gathered!Room - Gathered!Cardinality(mail)
             some == pass.proposed \ mail
  <2>1. some \in SUBSET Items /\ room \in Nat /\ other \in Gathered!Admissible(some, room)
    BY <1>2a, <1>3, <1>6
  <2>2. room = Gathered!Room - Cardinality(mail)
    BY IntakeCardinality
  <2> HIDE DEF room, some
  <2>3. other \subseteq some /\ other \cap Gathered!Pooled = {} /\ Cardinality(other) \in Nat /\ Cardinality(other) <= room
    BY <2>1, AddedFits
  <2> QED BY <2>2, <2>3 DEF some
<1>8. /\ Distinct(a) /\ Gathered!ToSet(a) = mail /\ Len(a) = Cardinality(mail)
      /\ Distinct(b) /\ Gathered!ToSet(b) = other /\ Len(b) = Cardinality(other)
  BY <1>2b, <1>3, <1>5, <1>7, OrderIsDistinct
<1>9. Distinct(a \o b) /\ Len(a \o b) = Len(a) + Len(b) /\ Gathered!ToSet(a \o b) = mail \cup other
  BY <1>7, <1>8, JoinedIsDistinct
<1>10. Len(pool) + Len(a \o b) <= Capacity
  <2>1. Len(a \o b) = Cardinality(mail) + Cardinality(other)
    BY <1>8, <1>9
  <2> DEFINE m == Cardinality(mail)
             o == Cardinality(other)
             l == Len(pool)
             room == Gathered!Room
  <2>2. m \in Nat /\ o \in Nat /\ l \in Nat /\ room = Capacity - l /\ m <= room /\ o <= room - m
    BY <1>4, <1>5, <1>7
  <2> HIDE DEF m, o, l, room
  <2>3. Capacity \in Nat
    BY GatheredAssumption
  <2>4. l + (m + o) <= Capacity
    BY <2>2, <2>3
  <2> QED BY <2>1, <2>4 DEF m, o, l
<1>11. pool' = pool \o (a \o b) /\ poolSaved' = pool'
  <2>1. pool \in Seq(Items) /\ a \in Seq(Items) /\ b \in Seq(Items)
    BY <1>8 DEF PoolInv, Distinct
  <2>2. (pool \o a) \o b = pool \o (a \o b)
    BY <2>1, ConcatAssociative
  <2> QED BY <1>2b, <2>2 DEF Gathered!Persist
<1>12. PoolInv' /\ Known \subseteq Known'
  BY <1>1, <1>5, <1>7, <1>9, <1>10, <1>11, PoolGrows
<1>13. /\ pass' \in Gathered!PassType /\ pass'.phase = "filing" /\ pass'.files = pass.files
       /\ pass'.filed = pass.filed
  BY <1>1 DEF PassInv, Gathered!PassType, Gathered!Phases
<1>14. PassInv'
  BY <1>1, <1>13 DEF PassInv
<1>15. KeptInv'
  BY <1>1, <1>12, <1>13 DEF KeptInv
<1> QED BY <1>1, <1>12, <1>14, <1>15 DEF WorldInv

(* A file is filed whole: what of it the pool lacks is added.                *)
LEMMA FileStep ==
    ASSUME IntakeInv, Gathered!FileNext
    PROVE  WorldInv' /\ PoolInv' /\ PassInv' /\ KeptInv'
<1> USE DEF IntakeInv
<1> DEFINE f == Gathered!Min(pass.files)
           new == FileItems[f] \ Gathered!Pooled
<1>1. /\ pass.phase = "filing" /\ pass.files # {}
      /\ UNCHANGED <<inbox, folder, mailSeen, driveSeen, signals, decided>>
      /\ IF Gathered!Fits(f)
         THEN /\ \E q \in Gathered!Orders(new) :
                   IF new = {} THEN UNCHANGED <<pool, poolSaved>> ELSE Gathered!Persist(pool \o q)
              /\ pass' = [pass EXCEPT !.files = pass.files \ {f}, !.filed = pass.filed \cup {f}]
         ELSE pass' = [pass EXCEPT !.files = {}] /\ UNCHANGED <<pool, poolSaved>>
  BY DEF Gathered!FileNext, Gathered!docs, Gathered!cursors, Gathered!ledger, Gathered!queue
<1>2. f \in pass.files
  <2>1. pass.files \subseteq Nat
    BY FilesAreOfItems DEF PassInv, Gathered!PassType
  <2> QED BY <1>1, <2>1, LeastOne DEF Gathered!Min
<1>3. f \in folder /\ f \in Gathered!Files /\ new \subseteq Items
  BY <1>2, FilesAreOfItems DEF PassInv, Gathered!PassType
<1> HIDE DEF f
<1>4. CASE ~Gathered!Fits(f)
  <2>1. pass' = [pass EXCEPT !.files = {}] /\ UNCHANGED <<pool, poolSaved>>
    BY <1>1, <1>4
  <2>2. pass' \in Gathered!PassType /\ pass'.phase = pass.phase /\ pass'.files = {} /\ pass'.filed = pass.filed
    BY <2>1 DEF PassInv, Gathered!PassType
  <2>3. PassInv' /\ KeptInv'
    BY <1>1, <2>1, <2>2, PassMoves
  <2> QED BY <1>1, <2>1, <2>3 DEF WorldInv, PoolInv
<1>5. CASE Gathered!Fits(f)
  <2>1. pass' = [pass EXCEPT !.files = pass.files \ {f}, !.filed = pass.filed \cup {f}]
    BY <1>1, <1>5
  <2>2. /\ pass' \in Gathered!PassType /\ pass'.phase = "filing" /\ pass'.files \subseteq pass.files
        /\ pass'.filed = pass.filed \cup {f}
    BY <1>1, <1>3, <2>1 DEF PassInv, Gathered!PassType
  <2>3. PICK q \in Gathered!Orders(new) : IF new = {} THEN UNCHANGED <<pool, poolSaved>> ELSE Gathered!Persist(pool \o q)
    BY <1>1, <1>5
  <2>4. Distinct(q) /\ Gathered!ToSet(q) = new /\ Len(q) = Cardinality(new)
    BY <1>3, <2>3, OrderIsDistinct
  <2>5. PoolInv' /\ Known \subseteq Known' /\ new \subseteq Known'
    <3>1. CASE new = {}
      <4>1. UNCHANGED <<pool, poolSaved, signals, decided>>
        BY <1>1, <2>3, <3>1
      <4> QED BY <3>1, <4>1, NothingIsLost DEF PoolInv
    <3>2. CASE new # {}
      <4>1. pool' = pool \o q /\ poolSaved' = pool'
        BY <2>3, <3>2 DEF Gathered!Persist
      <4>2. Len(pool) + Len(q) <= Capacity
        BY <1>5, <2>4, IntakeCardinality DEF Gathered!Fits
      <4> QED BY <1>1, <2>4, <4>1, <4>2, PoolGrows
    <3> QED BY <3>1, <3>2
  <2>6. PassInv'
    BY <1>1, <1>3, <2>2 DEF PassInv
  <2>7. FileItems[f] \subseteq Known'
    <3>1. Gathered!Pooled \subseteq Known
      BY DEF Known
    <3> QED BY <2>5, <3>1
  <2>8. KeptInv'
    BY <1>1, <2>2, <2>5, <2>7 DEF KeptInv
  <2> QED BY <1>1, <2>5, <2>6, <2>8 DEF WorldInv
<1> QED BY <1>4, <1>5

LEMMA AcknowledgeStep ==
    ASSUME IntakeInv, Gathered!AcknowledgeFiles
    PROVE  WorldInv' /\ PoolInv' /\ PassInv' /\ KeptInv'
<1> USE DEF IntakeInv
<1>1. /\ UNCHANGED <<inbox, folder, mailSeen, pool, poolSaved, signals, decided>>
      /\ driveSeen' = driveSeen \cup pass.filed
      /\ pass' = IF pool = <<>> THEN Gathered!NoPass
                 ELSE [pass EXCEPT !.phase = "reviewing", !.batch = Gathered!Batch]
  BY DEF Gathered!AcknowledgeFiles, Gathered!docs, Gathered!queue, Gathered!ledger
<1>2. Known' = Known
  BY <1>1, NothingIsLost
<1>3. WorldInv' /\ PoolInv'
  BY <1>1 DEF WorldInv, PoolInv, PassInv
<1>4. CASE pool = <<>>
  BY <1>1, <1>2, <1>3, <1>4, PassEnds
<1>5. CASE pool # <<>>
  <2> DEFINE batch == Gathered!Batch
  <2>1. batch \subseteq Items
    BY GatheredAssumption DEF Gathered!Batch, Gathered!ToSet, PoolInv, Distinct
  <2>2. pass' = [pass EXCEPT !.phase = "reviewing", !.batch = batch]
    BY <1>1, <1>5
  <2> HIDE DEF batch
  <2>3. pass' \in Gathered!PassType /\ pass'.phase = "reviewing" /\ pass'.files = pass.files /\ pass'.filed = pass.filed
    BY <2>1, <2>2 DEF PassInv, Gathered!PassType, Gathered!Phases
  <2>4. PassInv'
    BY <1>1, <2>3 DEF PassInv
  <2>5. KeptInv'
    BY <1>1, <1>2, <2>3 DEF KeptInv
  <2> QED BY <1>3, <2>4, <2>5
<1> QED BY <1>4, <1>5

(* Every candidate of the batch gets one route.                              *)
LEMMA ReviewStep ==
    ASSUME IntakeInv, Gathered!Review
    PROVE  WorldInv' /\ PoolInv' /\ PassInv' /\ KeptInv'
<1> USE DEF IntakeInv
<1>1. UNCHANGED <<inbox, folder, mailSeen, driveSeen, pool, poolSaved, signals, decided>>
  BY DEF Gathered!Review, Gathered!docs, Gathered!cursors, Gathered!queue, Gathered!ledger
<1>2. PICK plan \in [pass.batch -> {"input", "discard", "deep", "none"}] :
          pass' = [pass EXCEPT !.phase = "publishing", !.publish = {i \in pass.batch : plan[i] = "input"},
                               !.reject = {i \in pass.batch : plan[i] = "discard"},
                               !.deep = {i \in pass.batch : plan[i] = "deep"},
                               !.defer = {i \in pass.batch : plan[i] = "none"}]
  BY DEF Gathered!Review
<1> DEFINE as(d) == {i \in pass.batch : plan[i] = d}
<1>3. \A d : as(d) \subseteq Items
  BY DEF PassInv, Gathered!PassType
<1>4. pass.batch \subseteq as("input") \cup as("discard") \cup as("deep") \cup as("none")
  BY <1>2
<1>5. PICK p, r, d, w \in SUBSET Items :
          /\ pass.batch \subseteq p \cup r \cup d \cup w
          /\ pass' = [pass EXCEPT !.phase = "publishing", !.publish = p, !.reject = r, !.deep = d, !.defer = w]
  BY <1>2, <1>3, <1>4
<1>6. /\ pass' \in Gathered!PassType /\ pass'.files = pass.files /\ pass'.filed = pass.filed
      /\ pass'.batch = pass.batch /\ pass'.publish = p /\ pass'.reject = r /\ pass'.deep = d /\ pass'.defer = w
  BY <1>5 DEF PassInv, Gathered!PassType, Gathered!Phases
<1>7. PassInv'
  BY <1>1, <1>5, <1>6 DEF PassInv
<1>8. KeptInv'
  BY <1>1, <1>6, NothingIsLost DEF KeptInv
<1> QED BY <1>1, <1>7, <1>8 DEF WorldInv, PoolInv

LEMMA PublishStep ==
    ASSUME IntakeInv, NEW i \in Items, Gathered!Publish(i)
    PROVE  WorldInv' /\ PoolInv' /\ PassInv' /\ KeptInv'
<1> USE DEF IntakeInv
<1>1. UNCHANGED <<inbox, folder, mailSeen, driveSeen, pool, poolSaved, decided>>
  BY DEF Gathered!Publish, Gathered!docs, Gathered!cursors, Gathered!queue
<1>2. signals' = signals \/ (i \notin Gathered!ToSet(signals) /\ signals' = Append(signals, i))
  BY DEF Gathered!Publish, Gathered!Delivered
<1>3. Distinct(signals') /\ Gathered!ToSet(signals) \subseteq Gathered!ToSet(signals')
  <2>1. signals \in Seq(Items) /\ Len(signals) \in Nat /\ DOMAIN signals = 1..Len(signals) /\ Distinct(signals)
    BY DEF PoolInv, Distinct
  <2>2. CASE i \notin Gathered!ToSet(signals) /\ signals' = Append(signals, i)
    <3>1. /\ signals' \in Seq(Items) /\ DOMAIN signals' = 1..(Len(signals) + 1)
          /\ \A a \in 1..Len(signals) : signals'[a] = signals[a] /\ signals[a] # i
          /\ signals'[Len(signals) + 1] = i
      BY <2>1, <2>2 DEF Gathered!ToSet
    <3>2. Distinct(signals')
      BY <2>1, <3>1 DEF Distinct
    <3>3. Gathered!ToSet(signals) \subseteq Gathered!ToSet(signals')
      BY <2>1, <3>1 DEF Gathered!ToSet
    <3> QED BY <3>2, <3>3
  <2>3. CASE signals' = signals
    BY <2>1, <2>3
  <2> QED BY <1>2, <2>2, <2>3
<1>4. PoolInv' /\ Known \subseteq Known'
  BY <1>1, <1>3 DEF PoolInv, Known, Gathered!Pooled
<1>5. \/ pass' = [pass EXCEPT !.publish = pass.publish \ {i}] /\ i \in Gathered!ToSet(signals')
      \/ pass' = [pass EXCEPT !.publish = pass.publish \ {i}, !.reject = pass.reject \cup {i}]
  <2>1. \/ pass' = [pass EXCEPT !.publish = pass.publish \ {i}] /\ signals' = Gathered!Delivered(i)
        \/ pass' = [pass EXCEPT !.publish = pass.publish \ {i}, !.reject = pass.reject \cup {i}]
    BY DEF Gathered!Publish
  <2>2. i \in Gathered!ToSet(Gathered!Delivered(i))
    <3>1. signals \in Seq(Items)
      BY DEF PoolInv, Distinct
    <3>2. Append(signals, i)[Len(signals) + 1] = i /\ Len(signals) + 1 \in DOMAIN Append(signals, i)
      BY <3>1
    <3> QED BY <3>2 DEF Gathered!Delivered, Gathered!ToSet
  <2> QED BY <2>1, <2>2
<1>6. /\ pass' \in Gathered!PassType /\ pass'.files = pass.files /\ pass'.filed = pass.filed
      /\ pass'.batch = pass.batch /\ pass'.deep = pass.deep /\ pass'.defer = pass.defer
      /\ pass'.publish = pass.publish \ {i} /\ pass'.phase = pass.phase
      /\ pass.reject \subseteq pass'.reject /\ i \in pass'.reject \cup Gathered!ToSet(signals')
  <2>1. CASE pass' = [pass EXCEPT !.publish = pass.publish \ {i}] /\ i \in Gathered!ToSet(signals')
    BY <2>1 DEF PassInv, Gathered!PassType
  <2>2. CASE pass' = [pass EXCEPT !.publish = pass.publish \ {i}, !.reject = pass.reject \cup {i}]
    BY <2>2 DEF PassInv, Gathered!PassType
  <2> QED BY <1>5, <2>1, <2>2
<1>7. PassInv'
  BY <1>1, <1>3, <1>6 DEF PassInv
<1>8. KeptInv'
  BY <1>1, <1>4, <1>6 DEF KeptInv
<1> QED BY <1>1, <1>4, <1>7, <1>8 DEF WorldInv

(* What is settled was rejected or is published; what was left out of the    *)
(* decisions goes behind the rest.                                           *)
LEMMA SettleStep ==
    ASSUME IntakeInv, Gathered!SettleReview
    PROVE  WorldInv' /\ PoolInv' /\ PassInv' /\ KeptInv'
<1> USE DEF IntakeInv
<1> DEFINE terminal == pass.batch \ (pass.deep \cup pass.defer)
           front == Gathered!Without(pool, terminal \cup pass.defer)
           back == Gathered!Retained(pool, pass.defer \ terminal)
<1>1. /\ pass.phase = "publishing" /\ pass.publish = {}
      /\ UNCHANGED <<inbox, folder, mailSeen, driveSeen, signals>> /\ decided' = decided \cup pass.reject
      /\ pool' = front \o back /\ poolSaved' = pool'
      /\ pass' = IF pass.deep = {} THEN Gathered!NoPass ELSE [pass EXCEPT !.phase = "exploring"]
  BY DEF Gathered!SettleReview, Gathered!Persist, Gathered!Resettled, Gathered!docs, Gathered!cursors
<1>2. terminal \subseteq pass.reject \cup Gathered!ToSet(signals) /\ pass.reject \subseteq Items
  BY <1>1 DEF PassInv, Gathered!PassType
<1>3. Distinct(pool) /\ Len(pool) <= Capacity /\ Gathered!ToSet(pool) \subseteq Items
  BY SetOfSequence DEF PoolInv, Distinct
<1>4. /\ Distinct(front) /\ Distinct(back)
      /\ Gathered!ToSet(front) = Gathered!ToSet(pool) \cap (Items \ (terminal \cup pass.defer))
      /\ Gathered!ToSet(back) = Gathered!ToSet(pool) \cap (pass.defer \ terminal)
  BY <1>3, RetainedIsDistinct DEF Gathered!Without
<1> HIDE DEF terminal, front, back
<1>5. Distinct(pool') /\ Gathered!ToSet(pool') = Gathered!ToSet(pool) \ terminal
  <2>1. Gathered!ToSet(front) \cap Gathered!ToSet(back) = {}
    BY <1>4
  <2>2. Distinct(pool') /\ Gathered!ToSet(pool') = Gathered!ToSet(front) \cup Gathered!ToSet(back)
    BY <1>1, <1>4, <2>1, JoinedIsDistinct
  <2> QED BY <1>3, <1>4, <2>2
<1>6. Len(pool') <= Capacity
  <2>1. /\ Len(pool) = Cardinality(Gathered!ToSet(pool)) /\ IsFiniteSet(Gathered!ToSet(pool))
        /\ Len(pool') = Cardinality(Gathered!ToSet(pool'))
    BY <1>3, <1>5, DistinctIsAsLong
  <2>2. Cardinality(Gathered!ToSet(pool')) <= Cardinality(Gathered!ToSet(pool))
    BY <1>5, <2>1, FS_Subset
  <2>3. Len(pool) \in Nat /\ Len(pool') \in Nat
    BY <1>3, <1>5 DEF Distinct
  <2> QED BY <1>3, <2>1, <2>2, <2>3, GatheredAssumption
<1>7. PoolInv'
  BY <1>1, <1>2, <1>5, <1>6 DEF PoolInv
<1>8. Known \subseteq Known'
  <2>1. Gathered!Pooled = Gathered!ToSet(pool) /\ Gathered!Pooled' = Gathered!ToSet(pool')
    BY DEF Gathered!Pooled
  <2> QED BY <1>1, <1>2, <1>5, <2>1 DEF Known
<1>9. CASE pass.deep = {}
  <2>1. PassInv' /\ KeptInv'
    BY <1>1, <1>8, <1>9, PassEnds
  <2> QED BY <1>1, <1>7, <2>1 DEF WorldInv
<1>10. CASE pass.deep # {}
  <2>1. pass' = [pass EXCEPT !.phase = "exploring"]
    BY <1>1, <1>10
  <2>2. pass' \in Gathered!PassType /\ pass'.phase = "exploring" /\ pass'.files = pass.files /\ pass'.filed = pass.filed
    BY <2>1 DEF PassInv, Gathered!PassType, Gathered!Phases
  <2>3. PassInv'
    BY <1>1, <2>2 DEF PassInv
  <2>4. KeptInv'
    BY <1>1, <1>8, <2>2 DEF KeptInv
  <2> QED BY <1>1, <1>7, <2>3, <2>4 DEF WorldInv
<1> QED BY <1>9, <1>10

LEMMA ExploreStep ==
    ASSUME IntakeInv, Gathered!Explore
    PROVE  WorldInv' /\ PoolInv' /\ PassInv' /\ KeptInv'
<1> USE DEF IntakeInv
<1>1. /\ UNCHANGED <<inbox, folder, mailSeen, driveSeen, signals>> /\ pass' = Gathered!NoPass
      /\ pool' = Gathered!Without(pool, pass.deep) /\ poolSaved' = pool' /\ decided' = decided \cup pass.deep
  BY DEF Gathered!Explore, Gathered!Persist, Gathered!docs, Gathered!cursors
<1>2. pass.deep \in SUBSET Items
  BY DEF PassInv, Gathered!PassType
<1>3. PoolInv' /\ Known \subseteq Known'
  BY <1>1, <1>2, PoolShrinks
<1> QED BY <1>1, <1>3, PassEnds DEF WorldInv

LEMMA LooseStep == IntakeInv /\ Gathered!Next => LooseInv'
<1> SUFFICES ASSUME IntakeInv, Gathered!Next PROVE LooseInv'
  OBVIOUS
<1> USE DEF IntakeInv, LooseInv
<1>1. intakeFaults' \in 0..MaxFaults /\ expiries' \in 0..MaxExpiries
  <2>1. intakeFaults' = intakeFaults \/ (intakeFaults < MaxFaults /\ intakeFaults' = intakeFaults + 1)
    BY DEF Gathered!Next, Gathered!Proceed, Gathered!Gather, Gathered!MailArrives, Gathered!FileArrives,
           Gathered!UserInput, Gathered!Start, Gathered!MailPollEnds, Gathered!DrivePollEnds, Gathered!SensingEnds,
           Gathered!PollInterrupted, Gathered!DropGathered, Gathered!EnqueueGathered, Gathered!FileNext,
           Gathered!AcknowledgeFiles, Gathered!Review, Gathered!SettleReview, Gathered!Explore, Gathered!Supersede,
           Gathered!Publish, Gathered!PollFails, Gathered!AbandonGathering, Gathered!PassFails, Gathered!Restart,
           Gathered!DetachedPollEnds, Gathered!Expire, Gathered!Browse, Gathered!BrowseWrites, Gathered!bounds,
           Gathered!Fault
  <2>2. expiries' = expiries \/ (expiries < MaxExpiries /\ expiries' = expiries + 1)
    BY DEF Gathered!Next, Gathered!Proceed, Gathered!Gather, Gathered!MailArrives, Gathered!FileArrives,
           Gathered!UserInput, Gathered!Start, Gathered!MailPollEnds, Gathered!DrivePollEnds, Gathered!SensingEnds,
           Gathered!PollInterrupted, Gathered!DropGathered, Gathered!EnqueueGathered, Gathered!FileNext,
           Gathered!AcknowledgeFiles, Gathered!Review, Gathered!SettleReview, Gathered!Explore, Gathered!Supersede,
           Gathered!Publish, Gathered!PollFails, Gathered!AbandonGathering, Gathered!PassFails, Gathered!Restart,
           Gathered!DetachedPollEnds, Gathered!Expire, Gathered!Browse, Gathered!BrowseWrites, Gathered!bounds
  <2> QED BY <2>1, <2>2, GatheredAssumption
<1>2. \A i : ~Gathered!Browse(i) /\ \A q \in writes : ~Gathered!BrowseWrites(q)
  BY DEF Gathered!Browse
<1>3. detached' \subseteq detached \cup {pass.room}
  BY <1>2 DEF Gathered!Next, Gathered!Proceed, Gathered!Gather, Gathered!MailArrives, Gathered!FileArrives,
         Gathered!UserInput, Gathered!Start, Gathered!MailPollEnds, Gathered!DrivePollEnds, Gathered!SensingEnds,
         Gathered!PollInterrupted, Gathered!DropGathered, Gathered!EnqueueGathered, Gathered!FileNext,
         Gathered!AcknowledgeFiles, Gathered!Review, Gathered!SettleReview, Gathered!Explore, Gathered!Supersede,
         Gathered!Publish, Gathered!PollFails, Gathered!AbandonGathering, Gathered!PassFails, Gathered!Restart,
         Gathered!DetachedPollEnds, Gathered!Expire, Gathered!loose
<1>4. browsed' = browsed /\ (writes' = writes \/ writes' = {})
  BY <1>2 DEF Gathered!Next, Gathered!Proceed, Gathered!Gather, Gathered!MailArrives, Gathered!FileArrives,
         Gathered!UserInput, Gathered!Start, Gathered!MailPollEnds, Gathered!DrivePollEnds, Gathered!SensingEnds,
         Gathered!PollInterrupted, Gathered!DropGathered, Gathered!EnqueueGathered, Gathered!FileNext,
         Gathered!AcknowledgeFiles, Gathered!Review, Gathered!SettleReview, Gathered!Explore, Gathered!Supersede,
         Gathered!Publish, Gathered!PollFails, Gathered!AbandonGathering, Gathered!PassFails, Gathered!Restart,
         Gathered!DetachedPollEnds, Gathered!Expire, Gathered!loose, Gathered!bounds
<1>5. pass.room \in 0..Capacity
  BY DEF PassInv, Gathered!PassType
<1> QED BY <1>1, <1>3, <1>4, <1>5

LEMMA IntakeStep == IntakeInv /\ Gathered!Next => IntakeInv'
<1> SUFFICES ASSUME IntakeInv, Gathered!Next PROVE WorldInv' /\ PoolInv' /\ PassInv' /\ KeptInv'
  BY LooseStep DEF IntakeInv
<1>1. CASE Gathered!Proceed
  BY <1>1, PollStep, EndStep, EnqueueStep, FileStep, AcknowledgeStep, ReviewStep, SettleStep, ExploreStep, PublishStep
     DEF Gathered!Proceed
<1> QED BY <1>1, ArrivalStep, StartStep, PollStep, EndStep, LateStep DEF Gathered!Next

LEMMA IntakeStays == SurfacesSpec => []IntakeInv
<1>1. IntakeInv /\ [SurfacesNext]_surfacesVars => IntakeInv'
  <2> SUFFICES ASSUME IntakeInv, [SurfacesNext]_surfacesVars PROVE IntakeInv'
    OBVIOUS
  <2>1. Gathered!Next \/ UNCHANGED intakeVars
    BY DEF SurfacesNext, surfacesVars
  <2>2. UNCHANGED intakeVars => IntakeInv'
    BY DEF intakeVars, IntakeInv, WorldInv, PoolInv, PassInv, KeptInv, LooseInv, Known, Gathered!Pooled
  <2> QED BY <2>1, <2>2, IntakeStep
<1> QED BY IntakeInit, <1>1, PTL DEF SurfacesSpec

LEMMA IntakePromises == IntakeInv => Gathered!TypeOK /\ Gathered!DriveFilesAreKept /\ Gathered!PublishedOnce
<1> SUFFICES ASSUME IntakeInv PROVE Gathered!TypeOK /\ Gathered!DriveFilesAreKept /\ Gathered!PublishedOnce
  OBVIOUS
<1>1. Gathered!Cardinality(Gathered!Pooled) = Len(pool)
  BY DistinctIsAsLong, IntakeCardinality DEF IntakeInv, PoolInv, Gathered!Pooled
<1>2. Gathered!TypeOK
  BY <1>1 DEF IntakeInv, WorldInv, PoolInv, PassInv, LooseInv, Distinct, Gathered!TypeOK
<1>3. Gathered!DriveFilesAreKept
  BY DEF IntakeInv, KeptInv, Known, Gathered!DriveFilesAreKept, Gathered!Kept
<1>4. Gathered!PublishedOnce
  BY DEF IntakeInv, PoolInv, Distinct, Gathered!PublishedOnce
<1> QED BY <1>2, <1>3, <1>4

(* What is behind the Drive cursor is queued, published or decided on,       *)
(* whatever interrupts a pass or stops the program, nothing is published     *)
(* twice, and no broad input is passed over for another: for any documents,  *)
(* inputs and limits (sensing.rs, exploration.rs, ambient_api.rs).           *)
THEOREM IntakeLosesNothing == SurfacesSpec => []IntakeKeepsWhatItTook
BY IntakeStays, IntakePromises, InputsTakeTurns, PTL DEF IntakeKeepsWhatItTook

-----------------------------------------------------------------------------
(* The published cards.                                                      *)

Texts == {card.text : card \in Cards} \cup {""}
Origins == UNION {card.sources : card \in Cards}
Sections == UNION {card.sections : card \in Cards}
Events == [kind : {"input", "dispute"}, sources : SUBSET Origins, text : Texts, sections : SUBSET Sections,
           shown : SUBSET Sections, hidden : BOOLEAN, dismissed : BOOLEAN, duplicate : Nat, issue : Issues \cup {""},
           epoch : Nat, related : SUBSET Nat, cites : SUBSET Sections]

SameCard(e, f) == e.kind = f.kind /\ e.sources = f.sources /\ e.text = f.text /\ e.sections = f.sections
Earlier(R, i) == {j \in R : j < i}

(* R are the cards up to n that say something new.                           *)
StandFor(R, events, n) ==
    /\ R \subseteq Published!Inputs(events) \cap (1..n)
    /\ \A i \in Published!Inputs(events) \cap (1..n) : i \in R <=> ~ Published!Repeats(events, i, Earlier(R, i))

(* Cards that are told of in the same words repeat the same ones.            *)
LEMMA SameRepeats ==
    ASSUME NEW a, NEW b, NEW before, NEW i, \A j \in before \cup {i} : SameCard(a[j], b[j])
    PROVE  /\ Published!Delivered(a, before) = Published!Delivered(b, before)
           /\ Published!Repeats(a, i, before) = Published!Repeats(b, i, before)
<1>1. Published!Delivered(a, before) = Published!Delivered(b, before)
  BY DEF Published!Delivered, SameCard
<1>2. SameCard(a[i], b[i]) /\ \A j \in before : SameCard(a[j], b[j])
  OBVIOUS
<1>3. (\E j \in before : a[i].text = a[j].text \/ a[i].sources \cap a[j].sources # {})
      <=> (\E j \in before : b[i].text = b[j].text \/ b[i].sources \cap b[j].sources # {})
  BY <1>2 DEF SameCard
<1>4. a[i].sections = b[i].sections
  BY <1>2 DEF SameCard
<1> QED BY <1>1, <1>3, <1>4 DEF Published!Repeats

(* The marks of the first n cards depend on these cards only.                *)
LEMMA SameStandFor ==
    ASSUME NEW a \in Seq(Events), NEW b \in Seq(Events), NEW n \in Nat, n <= Len(a), n <= Len(b),
           \A i \in 1..n : SameCard(a[i], b[i]), NEW R, NEW Q, NEW m \in Nat, NEW k \in Nat, n <= m, n <= k,
           StandFor(R, a, m), StandFor(Q, b, k)
    PROVE  \A i \in 1..n : i \in R <=> i \in Q
<1> DEFINE bad == {i \in 1..n : ~(i \in R <=> i \in Q)}
<1> SUFFICES ASSUME bad # {} PROVE FALSE
  OBVIOUS
<1>1. bad \subseteq Nat
  OBVIOUS
<1>2. PICK i \in bad : \A j \in bad : i <= j
  BY <1>1, LeastOne
<1>3. i \in 1..n /\ i \in DOMAIN a /\ i \in DOMAIN b /\ i \in Nat
  OBVIOUS
<1>4. (i \in Published!Inputs(a)) <=> (i \in Published!Inputs(b))
  BY <1>3 DEF Published!Inputs, SameCard
<1>5. R \subseteq Nat /\ Q \subseteq Nat
  BY DEF StandFor
<1>6. Earlier(R, i) = Earlier(Q, i) /\ Earlier(R, i) \subseteq 1..n
  <2>1. \A j \in Nat : j >= 1 /\ j < i => j \in 1..n /\ j \notin bad
    BY <1>1, <1>2, <1>3
  <2>2. \A j \in R \cup Q : j >= 1 /\ j \in Nat
    BY DEF StandFor
  <2> QED BY <2>1, <2>2 DEF Earlier
<1>7. Published!Repeats(a, i, Earlier(R, i)) = Published!Repeats(b, i, Earlier(Q, i))
  <2>1. \A j \in Earlier(R, i) \cup {i} : SameCard(a[j], b[j])
    BY <1>3, <1>6
  <2> QED BY <1>6, <2>1, SameRepeats
<1>8. i \in 1..m /\ i \in 1..k
  BY <1>3
<1>9. i \in R <=> i \in Q
  BY <1>4, <1>7, <1>8 DEF StandFor
<1> QED BY <1>9

LEMMA SomeStandFor == ASSUME NEW events \in Seq(Events), NEW n \in Nat PROVE \E R : StandFor(R, events, n)
<1> DEFINE bad == {k \in Nat : ~\E R : StandFor(R, events, k)}
<1> SUFFICES ASSUME bad # {} PROVE FALSE
  OBVIOUS
<1>1. PICK k \in bad : \A j \in bad : k <= j
  BY LeastOne
<1>2. StandFor({}, events, 0)
  BY DEF StandFor
<1>3. k # 0 /\ k \in Nat /\ k - 1 \in Nat
  BY <1>2
<1>4. k - 1 \notin bad
  BY <1>1, <1>3
<1>5. PICK R : StandFor(R, events, k - 1)
  BY <1>3, <1>4
<1> DEFINE more == {i \in Published!Inputs(events) \cap {k} : ~Published!Repeats(events, k, R)}
<1>6. \A i \in 1..k : Earlier(R \cup more, i) = Earlier(R, i)
  BY <1>3 DEF Earlier
<1>7. Earlier(R, k) = R
  BY <1>3, <1>5 DEF Earlier, StandFor
<1>8. StandFor(R \cup more, events, k)
  <2>1. R \cup more \subseteq Published!Inputs(events) \cap (1..k)
    BY <1>3, <1>5 DEF StandFor
  <2>2. ASSUME NEW i \in Published!Inputs(events) \cap (1..k)
        PROVE  i \in R \cup more <=> ~Published!Repeats(events, i, Earlier(R \cup more, i))
    <3>1. CASE i = k
      <4>1. k \notin R
        BY <1>3, <1>5 DEF StandFor
      <4>2. Earlier(R \cup more, i) = R
        BY <1>6, <1>7, <3>1
      <4> QED BY <3>1, <4>1, <4>2
    <3>2. CASE i # k
      <4>1. i \in 1..(k - 1)
        BY <1>3, <3>2
      <4>2. i \in R <=> ~Published!Repeats(events, i, Earlier(R, i))
        BY <1>5, <4>1 DEF StandFor
      <4>3. i \notin more
        BY <3>2
      <4> HIDE DEF more
      <4> QED BY <1>6, <4>2, <4>3
    <3> QED BY <3>1, <3>2
  <2> HIDE DEF more
  <2> QED BY <2>1, <2>2 DEF StandFor
<1> QED BY <1>1, <1>8

(* Every stream has its representatives: CHOOSE finds them.                  *)
LEMMA RepresentativesStand ==
    ASSUME NEW events \in Seq(Events)
    PROVE  StandFor(Published!Representatives(events), events, Len(events))
<1> DEFINE ok(R) == \A i \in Published!Inputs(events) : i \in R <=> ~Published!Repeats(events, i, {j \in R : j < i})
<1>1. Published!Inputs(events) \subseteq 1..Len(events)
  BY DEF Published!Inputs
<1>2. PICK Q : StandFor(Q, events, Len(events))
  BY SomeStandFor
<1>3. Q \in SUBSET Published!Inputs(events) /\ ok(Q)
  BY <1>1, <1>2 DEF StandFor, Earlier
<1>4. Published!Representatives(events) = CHOOSE R \in SUBSET Published!Inputs(events) : ok(R)
  BY DEF Published!Representatives
<1>5. Published!Representatives(events) \in SUBSET Published!Inputs(events) /\ ok(Published!Representatives(events))
  <2> HIDE DEF ok
  <2> QED BY <1>3, <1>4
<1> QED BY <1>1, <1>5 DEF StandFor, Earlier

(* Two representatives share no text and no source, and what the earlier of  *)
(* them says is delivered before the later.                                  *)
LEMMA RepresentativesDiffer ==
    ASSUME NEW events \in Seq(Events), NEW i, NEW j,
           i \in Published!Representatives(events), j \in Published!Representatives(events), j < i
    PROVE  /\ events[i].text # events[j].text /\ events[i].sources \cap events[j].sources = {}
           /\ events[j].sections \subseteq
                 Published!Delivered(events, Earlier(Published!Representatives(events), i))
<1> DEFINE R == Published!Representatives(events)
<1>1. StandFor(R, events, Len(events))
  BY RepresentativesStand
<1> HIDE DEF R
<1>2. i \in R /\ j \in R /\ j \in Earlier(R, i)
  BY DEF R, Earlier
<1>3. i \in Published!Inputs(events) \cap (1..Len(events))
  BY <1>1, <1>2 DEF StandFor
<1>4. ~Published!Repeats(events, i, Earlier(R, i))
  BY <1>1, <1>2, <1>3 DEF StandFor
<1>5. events[i].text # events[j].text /\ events[i].sources \cap events[j].sources = {}
  BY <1>2, <1>4 DEF Published!Repeats
<1>6. events[j].sections \subseteq Published!Delivered(events, Earlier(R, i))
  BY <1>2 DEF Published!Delivered
<1> QED BY <1>5, <1>6 DEF R

(* A card that repeats others has one that stands for it.                    *)
LEMMA RepresentativeIsOne ==
    ASSUME NEW events \in Seq(Events), NEW i \in Published!Inputs(events)
    PROVE  Published!RepresentativeOf(events, i) \in Nat
<1> DEFINE R == Published!Representatives(events)
           some == {j \in R : j < i /\ Published!StandsFor(events, j, i)}
<1>1. StandFor(R, events, Len(events))
  BY RepresentativesStand
<1>2. Published!RepresentativeOf(events, i) = IF i \in R THEN i ELSE Published!Min(some)
  BY DEF Published!RepresentativeOf
<1> HIDE DEF R
<1>3. R \subseteq Nat /\ i \in 1..Len(events)
  BY <1>1 DEF StandFor, Published!Inputs
<1>4. ASSUME i \notin R PROVE some # {}
  <2>1. Published!Repeats(events, i, Earlier(R, i))
    BY <1>1, <1>3, <1>4 DEF StandFor
  <2>2. CASE \E j \in Earlier(R, i) : events[i].text = events[j].text \/ events[i].sources \cap events[j].sources # {}
    BY <2>2 DEF Published!StandsFor, Earlier
  <2>3. CASE events[i].sections # {} /\ events[i].sections \subseteq Published!Delivered(events, Earlier(R, i))
    <3>1. PICK x \in events[i].sections : \E j \in Earlier(R, i) : x \in events[j].sections
      BY <2>3 DEF Published!Delivered
    <3> QED BY <3>1 DEF Published!StandsFor, Earlier
  <2> QED BY <2>1, <2>2, <2>3 DEF Published!Repeats
<1>5. some \subseteq Nat
  BY <1>3
<1> HIDE DEF some
<1>6. i \notin R => \E k \in some : \A j \in some : k <= j
  BY <1>4, <1>5, LeastOne
<1>7. i \notin R => Published!Min(some) \in some
  BY <1>6 DEF Published!Min
<1> QED BY <1>2, <1>3, <1>5, <1>7

-----------------------------------------------------------------------------
(* What a document may hold.                                                 *)

Docs == [events : Seq(Events), history : SUBSET Nat]

(* What the stream promises of its cards: representatives only are shown, of *)
(* their sections the new ones, and what was dismissed is one.               *)
CardsInv(events) ==
    \A i \in Published!Inputs(events) :
        /\ ~events[i].hidden => i \in Published!Representatives(events)
        /\ events[i].dismissed => events[i].hidden
        /\ i \in Published!Representatives(events) =>
              events[i].shown \cap Published!Delivered(events, Earlier(Published!Representatives(events), i)) = {}

(* What it promises before it is normalised.                                 *)
Raw(doc) ==
    /\ doc \in Docs /\ Len(doc.events) <= MaxStream /\ doc.history \subseteq DOMAIN doc.events
    /\ \A i \in Published!Inputs(doc.events) :
          /\ doc.events[i].shown \subseteq doc.events[i].sections
          /\ doc.events[i].dismissed => i \in Published!Representatives(doc.events)
    /\ \A i \in DOMAIN doc.events : doc.events[i].related \subseteq Published!Inputs(doc.events)
    /\ \A c, d \in DOMAIN doc.events :
          /\ doc.events[c].kind = "dispute" /\ doc.events[d].kind = "dispute" /\ c # d
          => <<doc.events[c].issue, doc.events[c].epoch>> # <<doc.events[d].issue, doc.events[d].epoch>>
Good(doc) == Raw(doc) /\ CardsInv(doc.events)

(* What a mark leaves of an event.                                           *)
SameEvent(e, f) ==
    /\ SameCard(e, f) /\ e.dismissed = f.dismissed /\ e.issue = f.issue /\ e.epoch = f.epoch /\ e.related = f.related

LEMMA MarkedInput ==
    ASSUME NEW events \in Seq(Events), NEW i \in Published!Inputs(events), events[i].shown \subseteq events[i].sections
    PROVE  LET e == Published!MarkInput(events, i)
               R == Published!Representatives(events)
           IN  /\ e \in Events /\ SameEvent(e, events[i]) /\ e.shown \subseteq e.sections
               /\ i \in R => /\ e.hidden = events[i].dismissed
                             /\ e.shown \cap Published!Delivered(events, Earlier(R, i)) = {}
               /\ i \notin R => e.hidden
<1> DEFINE e == Published!MarkInput(events, i)
           R == Published!Representatives(events)
           before == Published!Delivered(events, Earlier(R, i))
           new == events[i].sections \ before
           n == Published!RepresentativeOf(events, i)
           seen == IF new \in {{}, events[i].sections} THEN events[i].shown ELSE new
<1>1. i \in DOMAIN events /\ events[i] \in Events
  BY DEF Published!Inputs
<1>2. n \in Nat
  BY RepresentativeIsOne
<1>3. e = IF i \in R
          THEN [events[i] EXCEPT !.duplicate = 0, !.hidden = events[i].dismissed, !.shown = seen]
          ELSE [events[i] EXCEPT !.duplicate = n, !.hidden = TRUE]
  BY DEF Published!MarkInput, Earlier
<1>4. StandFor(R, events, Len(events))
  BY RepresentativesStand
<1> HIDE DEF R, e, n
<1>5. CASE i \notin R
  <2>1. e = [events[i] EXCEPT !.duplicate = n, !.hidden = TRUE]
    BY <1>3, <1>5
  <2>2. e \in Events /\ SameEvent(e, events[i]) /\ e.shown = events[i].shown /\ e.sections = events[i].sections /\ e.hidden
    BY <1>1, <1>2, <2>1 DEF Events, SameEvent, SameCard
  <2> QED BY <1>5, <2>2 DEF e, R
<1>6. CASE i \in R
  <2>1. ~Published!Repeats(events, i, Earlier(R, i))
    BY <1>4, <1>6 DEF StandFor
  <2>2. events[i].sections \subseteq before => events[i].sections = {}
    BY <2>1 DEF Published!Repeats
  <2>3. seen \subseteq new
    BY <2>2
  <2>4. seen \subseteq events[i].sections /\ seen \cap before = {} /\ seen \in SUBSET Sections
    BY <1>1, <2>3 DEF Events
  <2> HIDE DEF seen, before
  <2>5. e = [events[i] EXCEPT !.duplicate = 0, !.hidden = events[i].dismissed, !.shown = seen]
    BY <1>3, <1>6
  <2>6. /\ e \in Events /\ SameEvent(e, events[i]) /\ e.shown = seen /\ e.sections = events[i].sections
        /\ e.hidden = events[i].dismissed
    BY <1>1, <2>4, <2>5 DEF Events, SameEvent, SameCard
  <2> QED BY <1>6, <2>4, <2>6 DEF e, R, before
<1> QED BY <1>5, <1>6

LEMMA MarkedChallenge ==
    ASSUME NEW events \in Seq(Events), NEW c \in DOMAIN events
    PROVE  Published!MarkChallenge(events, c) \in Events /\ SameEvent(Published!MarkChallenge(events, c), events[c])
<1> DEFINE e == Published!MarkChallenge(events, c)
           earlier == {d \in DOMAIN events \ Published!Inputs(events) :
                         d < c /\ Published!Routed(events, d) = Published!Routed(events, c)}
           n == Published!Min(earlier)
<1>1. \/ earlier # {} /\ e = [events[c] EXCEPT !.duplicate = n, !.hidden = TRUE]
      \/ e = [events[c] EXCEPT !.duplicate = 0, !.hidden = events[c].dismissed]
  BY DEF Published!MarkChallenge
<1>2. earlier \subseteq Nat
  OBVIOUS
<1>3. events[c] \in Events
  OBVIOUS
<1> HIDE DEF e, earlier
<1>4. earlier # {} => n \in Nat
  <2>1. earlier # {} => \E k \in earlier : \A j \in earlier : k <= j
    BY <1>2, LeastOne
  <2> QED BY <1>2, <2>1 DEF Published!Min
<1> HIDE DEF n
<1>5. CASE earlier # {} /\ e = [events[c] EXCEPT !.duplicate = n, !.hidden = TRUE]
  <2>1. e \in Events /\ SameEvent(e, events[c])
    BY <1>3, <1>4, <1>5 DEF Events, SameEvent, SameCard
  <2> QED BY <2>1 DEF e
<1>6. CASE e = [events[c] EXCEPT !.duplicate = 0, !.hidden = events[c].dismissed]
  <2>1. e \in Events /\ SameEvent(e, events[c])
    BY <1>3, <1>6 DEF Events, SameEvent, SameCard
  <2> QED BY <2>1 DEF e
<1> QED BY <1>1, <1>5, <1>6

LEMMA SameEventParts ==
    ASSUME NEW e, NEW f, SameEvent(e, f)
    PROVE  /\ SameCard(e, f) /\ e.kind = f.kind /\ e.sections = f.sections
           /\ e.dismissed = f.dismissed /\ e.issue = f.issue /\ e.epoch = f.epoch /\ e.related = f.related
BY DEF SameEvent, SameCard

(* Streams that tell the same, card by card, have the same representatives.  *)
LEMMA SameRepresentatives ==
    ASSUME NEW a \in Seq(Events), NEW b \in Seq(Events), Len(a) <= Len(b),
           \A i \in DOMAIN a : SameCard(a[i], b[i])
    PROVE  /\ \A i \in DOMAIN a : i \in Published!Inputs(a) <=> i \in Published!Inputs(b)
           /\ \A i \in DOMAIN a : i \in Published!Representatives(a) <=> i \in Published!Representatives(b)
<1> DEFINE n == Len(a)
           m == Len(b)
           R == Published!Representatives(a)
           Q == Published!Representatives(b)
<1>1. StandFor(R, a, n) /\ StandFor(Q, b, m)
  BY RepresentativesStand
<1>2. n \in Nat /\ m \in Nat /\ n <= m /\ DOMAIN a = 1..n /\ DOMAIN b = 1..m
  OBVIOUS
<1>3. n <= Len(a) /\ n <= Len(b) /\ n <= n /\ \A i \in 1..n : SameCard(a[i], b[i])
  BY <1>2
<1> HIDE DEF R, Q, n, m
<1>4. \A i \in 1..n : i \in R <=> i \in Q
  BY <1>1, <1>2, <1>3, SameStandFor
<1>5. \A i \in DOMAIN a : i \in Published!Inputs(a) <=> i \in Published!Inputs(b)
  BY <1>2 DEF Published!Inputs, SameCard
<1> QED BY <1>2, <1>4, <1>5 DEF R, Q

(* normalize_and_prune makes a document good, and changes the marks only.    *)
LEMMA NormalisedIsGood ==
    ASSUME NEW doc, Raw(doc)
    PROVE  /\ Good(Published!Normalised(doc))
           /\ Len(Published!Normalised(doc).events) = Len(doc.events)
           /\ Published!Inputs(Published!Normalised(doc).events) = Published!Inputs(doc.events)
<1> DEFINE old == doc.events
           new == Published!Normalised(doc).events
           R == Published!Representatives(old)
<1>1. old \in Seq(Events) /\ Len(old) <= MaxStream /\ doc.history \subseteq DOMAIN old
  BY DEF Raw, Docs
<1>2. /\ DOMAIN new = DOMAIN old /\ new = [i \in 1..Len(old) |-> new[i]]
      /\ \A i \in DOMAIN old : new[i] = IF old[i].kind = "input" THEN Published!MarkInput(old, i)
                                        ELSE Published!MarkChallenge(old, i)
      /\ Published!Normalised(doc) = [events |-> new, history |-> Published!Remembered(doc)]
  BY <1>1 DEF Published!Normalised
<1>3. \A i \in Published!Inputs(old) : /\ old[i].shown \subseteq old[i].sections
                                       /\ old[i].dismissed => i \in R
  BY DEF Raw
<1>4. \A i \in DOMAIN old : old[i].related \subseteq Published!Inputs(old)
  BY DEF Raw
<1>5. \A c, d \in DOMAIN old :
          /\ old[c].kind = "dispute" /\ old[d].kind = "dispute" /\ c # d
          => <<old[c].issue, old[c].epoch>> # <<old[d].issue, old[d].epoch>>
  BY DEF Raw
<1>6. Published!Remembered(doc) \subseteq DOMAIN old
  BY <1>1 DEF Published!Remembered, Published!Inputs
<1> HIDE DEF new, R, old
<1>7. ASSUME NEW i \in DOMAIN old PROVE new[i] \in Events /\ SameEvent(new[i], old[i])
  <2>1. CASE old[i].kind = "input"
    <3>1. i \in Published!Inputs(old)
      BY <2>1 DEF Published!Inputs
    <3> QED BY <1>1, <1>2, <1>3, <2>1, <3>1, MarkedInput
  <2>2. CASE old[i].kind # "input"
    BY <1>1, <1>2, <2>2, MarkedChallenge
  <2> QED BY <2>1, <2>2
<1>8. new \in Seq(Events) /\ Len(new) = Len(old)
  BY <1>1, <1>2, <1>7
<1>9. \A i \in DOMAIN old :
        /\ SameCard(new[i], old[i]) /\ new[i].kind = old[i].kind /\ new[i].sections = old[i].sections
        /\ new[i].dismissed = old[i].dismissed /\ new[i].issue = old[i].issue /\ new[i].epoch = old[i].epoch
        /\ new[i].related = old[i].related
  BY <1>7, SameEventParts
<1>10. Published!Inputs(new) = Published!Inputs(old)
  BY <1>2, <1>9 DEF Published!Inputs
<1>11. Published!Representatives(new) = R
  <2>1. \A i \in DOMAIN new : i \in Published!Representatives(new) <=> i \in R
    <3>1. Len(new) <= Len(old)
      BY <1>1, <1>8
    <3>2. \A i \in DOMAIN new : SameCard(new[i], old[i])
      BY <1>2, <1>9
    <3> QED BY <1>1, <1>8, <3>1, <3>2, SameRepresentatives DEF R
  <2>2. StandFor(Published!Representatives(new), new, Len(new)) /\ StandFor(R, old, Len(old))
    BY <1>1, <1>8, RepresentativesStand DEF R
  <2>3. Published!Representatives(new) \subseteq DOMAIN new /\ R \subseteq DOMAIN new
    BY <1>2, <1>8, <1>10, <2>2 DEF StandFor, Published!Inputs
  <2> QED BY <2>1, <2>3
<1>12. ASSUME NEW i \in Published!Inputs(old)
       PROVE  /\ new[i].shown \subseteq new[i].sections
              /\ i \in R => /\ new[i].hidden = old[i].dismissed
                            /\ new[i].shown \cap Published!Delivered(old, Earlier(R, i)) = {}
              /\ i \notin R => new[i].hidden
  <2>1. new[i] = Published!MarkInput(old, i)
    BY <1>2 DEF Published!Inputs
  <2> QED BY <1>1, <1>3, <2>1, MarkedInput DEF R
<1>13. \A i \in DOMAIN old : Published!Delivered(new, Earlier(R, i)) = Published!Delivered(old, Earlier(R, i))
  <2>1. StandFor(R, old, Len(old))
    BY <1>1, RepresentativesStand DEF R
  <2>2. R \subseteq DOMAIN old
    BY <2>1 DEF StandFor, Published!Inputs
  <2> QED BY <1>9, <2>2 DEF Published!Delivered, Earlier
<1>14. Raw(Published!Normalised(doc))
  <2> DEFINE after == Published!Normalised(doc)
  <2>1. after = [events |-> new, history |-> Published!Remembered(doc)]
    BY <1>2
  <2> HIDE DEF after
  <2>2. after.events = new /\ after.history \subseteq DOMAIN new /\ after \in Docs
    BY <1>1, <1>2, <1>6, <1>8, <2>1 DEF Docs
  <2>3. \A i \in Published!Inputs(new) : new[i].shown \subseteq new[i].sections /\ (new[i].dismissed => i \in R)
    BY <1>3, <1>9, <1>10, <1>12 DEF Published!Inputs
  <2>4. \A i \in DOMAIN new : new[i].related \subseteq Published!Inputs(new)
    BY <1>2, <1>4, <1>9, <1>10
  <2>5. \A c, d \in DOMAIN new :
          /\ new[c].kind = "dispute" /\ new[d].kind = "dispute" /\ c # d
          => <<new[c].issue, new[c].epoch>> # <<new[d].issue, new[d].epoch>>
    BY <1>2, <1>5, <1>9
  <2>6. Raw(after)
    BY <1>1, <1>8, <1>11, <2>2, <2>3, <2>4, <2>5 DEF Raw
  <2> QED BY <2>6 DEF after
<1>15. CardsInv(new)
  <2>1. \A i \in Published!Inputs(new) : i \in DOMAIN old
    BY <1>10 DEF Published!Inputs
  <2>2. \A i \in Published!Inputs(new) :
           /\ ~new[i].hidden => i \in R
           /\ i \in R => new[i].shown \cap Published!Delivered(new, Earlier(R, i)) = {}
    BY <1>10, <1>12, <1>13, <2>1
  <2>3. \A i \in Published!Inputs(new) : new[i].dismissed => new[i].hidden
    BY <1>3, <1>9, <1>10, <1>12, <2>1
  <2> QED BY <1>11, <2>2, <2>3 DEF CardsInv
<1> QED BY <1>8, <1>10, <1>14, <1>15 DEF Good, new, old

(* A card or a dispute is put at the end of a good stream.                   *)
LEMMA AppendedIsRaw ==
    ASSUME NEW doc, Good(doc), NEW e \in Events, Len(doc.events) < MaxStream, MaxStream \in Nat,
           ~e.dismissed, e.shown \subseteq e.sections, e.related \subseteq Published!Inputs(doc.events),
           e.kind = "dispute" => \A c \in DOMAIN doc.events :
              doc.events[c].kind = "dispute" => ~(doc.events[c].issue = e.issue /\ doc.events[c].epoch = e.epoch)
    PROVE  LET more == [doc EXCEPT !.events = Append(@, e)]
           IN  Raw(more) /\ Published!Inputs(doc.events) \subseteq Published!Inputs(more.events)
<1> DEFINE old == doc.events
           new == Append(old, e)
           more == [doc EXCEPT !.events = Append(@, e)]
           n == Len(old) + 1
           R == Published!Representatives(old)
           Q == Published!Representatives(new)
<1>1. Raw(doc)
  BY DEF Good
<1>2. old \in Seq(Events) /\ doc.history \subseteq DOMAIN old /\ doc \in Docs
  BY <1>1 DEF Raw, Docs
<1>3. more.events = new /\ more.history = doc.history /\ more = [events |-> new, history |-> doc.history]
  BY <1>2 DEF Docs
<1>4. \A i \in Published!Inputs(old) : /\ old[i].shown \subseteq old[i].sections
                                       /\ old[i].dismissed => i \in R
  BY <1>1 DEF Raw
<1>5. \A i \in DOMAIN old : old[i].related \subseteq Published!Inputs(old)
  BY <1>1 DEF Raw
<1>6. \A c, d \in DOMAIN old :
          /\ old[c].kind = "dispute" /\ old[d].kind = "dispute" /\ c # d
          => <<old[c].issue, old[c].epoch>> # <<old[d].issue, old[d].epoch>>
  BY <1>1 DEF Raw
<1>7. Len(old) < MaxStream /\ e.related \subseteq Published!Inputs(old)
      /\ (e.kind = "dispute" => \A c \in DOMAIN old :
              old[c].kind = "dispute" => ~(old[c].issue = e.issue /\ old[c].epoch = e.epoch))
  OBVIOUS
<1> HIDE DEF old, R, more
<1>8. new \in Seq(Events) /\ Len(new) = n /\ n <= MaxStream /\ n \in Nat /\ DOMAIN new = DOMAIN old \cup {n} /\ new[n] = e
      /\ n \notin DOMAIN old /\ \A i \in DOMAIN old : new[i] = old[i]
  <2>1. Len(old) \in Nat /\ DOMAIN old = 1..Len(old)
    BY <1>2
  <2>2. new \in Seq(Events) /\ Len(new) = n /\ new[n] = e /\ \A i \in DOMAIN old : new[i] = old[i]
    BY <1>2, <2>1, AppendProperties
  <2> QED BY <1>7, <2>1, <2>2
<1> HIDE DEF new, n
<1>9. Published!Inputs(old) \subseteq Published!Inputs(new) /\ Published!Inputs(new) \subseteq Published!Inputs(old) \cup {n}
  BY <1>8 DEF Published!Inputs
<1>10. \A i \in DOMAIN old : i \in R <=> i \in Published!Representatives(new)
  <2>1. Len(old) <= Len(new)
    BY <1>2, <1>8 DEF n
  <2>2. \A i \in DOMAIN old : SameCard(old[i], new[i])
    BY <1>8 DEF SameCard
  <2> QED BY <1>2, <1>8, <2>1, <2>2, SameRepresentatives DEF R
<1>11. \A i \in Published!Inputs(new) : /\ new[i].shown \subseteq new[i].sections
                                        /\ new[i].dismissed => i \in Published!Representatives(new)
  <2> SUFFICES ASSUME NEW i \in Published!Inputs(new)
               PROVE  /\ new[i].shown \subseteq new[i].sections
                      /\ new[i].dismissed => i \in Published!Representatives(new)
    OBVIOUS
  <2>1. CASE i = n
    BY <1>8, <2>1
  <2>2. CASE i \in Published!Inputs(old)
    <3>1. i \in DOMAIN old
      BY <2>2 DEF Published!Inputs
    <3> QED BY <1>4, <1>8, <1>10, <2>2, <3>1
  <2> QED BY <1>9, <2>1, <2>2
<1>12. \A i \in DOMAIN new : new[i].related \subseteq Published!Inputs(new)
  BY <1>5, <1>7, <1>8, <1>9
<1>13. ASSUME NEW c \in DOMAIN new, NEW d \in DOMAIN new, new[c].kind = "dispute", new[d].kind = "dispute", c # d,
              new[c].issue = new[d].issue, new[c].epoch = new[d].epoch
       PROVE  FALSE
  <2>1. CASE c = n
    BY <1>7, <1>8, <1>13, <2>1
  <2>2. CASE d = n
    BY <1>7, <1>8, <1>13, <2>2
  <2>3. CASE c # n /\ d # n
    BY <1>6, <1>8, <1>13, <2>3
  <2> QED BY <2>1, <2>2, <2>3
<1>14. more \in Docs /\ more.history \subseteq DOMAIN new
  BY <1>2, <1>3, <1>8 DEF Docs
<1>15. Raw(more)
  BY <1>3, <1>8, <1>11, <1>12, <1>13, <1>14 DEF Raw
<1> QED BY <1>3, <1>9, <1>15 DEF more, old

(* A card on display is a representative that was not dismissed before.      *)
LEMMA DismissedIsGood ==
    ASSUME NEW doc, Good(doc), NEW i \in DOMAIN doc.events, ~doc.events[i].hidden
    PROVE  LET less == [doc EXCEPT !.events[i] = [@ EXCEPT !.hidden = TRUE, !.dismissed = TRUE]]
           IN  Good(less) /\ Len(less.events) = Len(doc.events)
               /\ Published!Inputs(less.events) = Published!Inputs(doc.events)
<1> DEFINE old == doc.events
           less == [doc EXCEPT !.events[i] = [@ EXCEPT !.hidden = TRUE, !.dismissed = TRUE]]
           new == less.events
           R == Published!Representatives(old)
           e == [old[i] EXCEPT !.hidden = TRUE, !.dismissed = TRUE]
<1>1. Raw(doc) /\ CardsInv(old)
  BY DEF Good
<1>2. old \in Seq(Events) /\ doc.history \subseteq DOMAIN old /\ doc \in Docs /\ Len(old) <= MaxStream
  BY <1>1 DEF Raw, Docs
<1>3. less = [events |-> new, history |-> doc.history] /\ new = [old EXCEPT ![i] = e]
  <2>1. less = [doc EXCEPT !.events[i] = e]
    OBVIOUS
  <2> DEFINE q == [old EXCEPT ![i] = e]
  <2>2. less = [doc EXCEPT !.events = q]
    BY <2>1
  <2> HIDE DEF e, q, less
  <2>3. less = [events |-> q, history |-> doc.history]
    BY <1>2, <2>2 DEF Docs
  <2> QED BY <2>3 DEF q
<1>4. i \in DOMAIN old /\ old[i] \in Events /\ ~old[i].hidden
  BY <1>2
<1>5. \A j \in Published!Inputs(old) : /\ old[j].shown \subseteq old[j].sections
                                       /\ old[j].dismissed => j \in R
  BY <1>1 DEF Raw
<1>6. \A j \in DOMAIN old : old[j].related \subseteq Published!Inputs(old)
  BY <1>1 DEF Raw
<1>7. \A c, d \in DOMAIN old :
          /\ old[c].kind = "dispute" /\ old[d].kind = "dispute" /\ c # d
          => <<old[c].issue, old[c].epoch>> # <<old[d].issue, old[d].epoch>>
  BY <1>1 DEF Raw
<1>8. \A j \in Published!Inputs(old) :
        /\ ~old[j].hidden => j \in R
        /\ old[j].dismissed => old[j].hidden
        /\ j \in R => old[j].shown \cap Published!Delivered(old, Earlier(R, j)) = {}
  BY <1>1 DEF CardsInv
<1> HIDE DEF old, less, new, R
<1>9. /\ e \in Events /\ SameCard(e, old[i]) /\ e.kind = old[i].kind /\ e.shown = old[i].shown
      /\ e.sections = old[i].sections /\ e.hidden /\ e.dismissed
      /\ e.issue = old[i].issue /\ e.epoch = old[i].epoch /\ e.related = old[i].related
  BY <1>4 DEF Events, SameCard
<1> HIDE DEF e
<1>10. /\ new \in Seq(Events) /\ DOMAIN new = DOMAIN old /\ Len(new) = Len(old) /\ new[i] = e
       /\ \A j \in DOMAIN old \ {i} : new[j] = old[j]
  <2>1. DOMAIN new = DOMAIN old /\ new[i] = e /\ \A j \in DOMAIN old \ {i} : new[j] = old[j]
    BY <1>2, <1>3, <1>4
  <2>2. new \in Seq(Events)
    BY <1>2, <1>3, <1>4, <1>9, ExceptSeq
  <2> QED BY <1>2, <2>1, <2>2
<1>11. \A j \in DOMAIN old :
         /\ SameCard(new[j], old[j]) /\ new[j].kind = old[j].kind /\ new[j].sections = old[j].sections
         /\ new[j].shown = old[j].shown /\ new[j].related = old[j].related
         /\ new[j].issue = old[j].issue /\ new[j].epoch = old[j].epoch
  <2>1. \A j \in DOMAIN old : j = i \/ new[j] = old[j]
    BY <1>10
  <2> QED BY <1>9, <1>10, <2>1 DEF SameCard
<1>12. Published!Inputs(new) = Published!Inputs(old)
  BY <1>10, <1>11 DEF Published!Inputs
<1>13. Published!Representatives(new) = R
  <2>1. StandFor(Published!Representatives(new), new, Len(new)) /\ StandFor(R, old, Len(old))
    BY <1>2, <1>10, RepresentativesStand DEF R
  <2>2. Len(new) <= Len(old)
    BY <1>2, <1>10
  <2>3. \A j \in DOMAIN new : j \in Published!Representatives(new) <=> j \in R
    BY <1>2, <1>10, <1>11, <2>2, SameRepresentatives DEF R
  <2>4. Published!Representatives(new) \subseteq DOMAIN new /\ R \subseteq DOMAIN new
    BY <1>10, <1>12, <2>1 DEF StandFor, Published!Inputs
  <2> QED BY <2>3, <2>4
<1>14. \A j \in DOMAIN old : Published!Delivered(new, Earlier(R, j)) = Published!Delivered(old, Earlier(R, j))
  <2>1. R \subseteq DOMAIN old
    <3>1. StandFor(R, old, Len(old))
      BY <1>2, RepresentativesStand DEF R
    <3> QED BY <3>1 DEF StandFor, Published!Inputs
  <2> QED BY <1>11, <2>1 DEF Published!Delivered, Earlier
<1>15. i \in Published!Inputs(old) => i \in R
  BY <1>4, <1>8
<1>16. \A j \in Published!Inputs(old) : j \in DOMAIN old
  BY DEF Published!Inputs
<1>17. Raw(less)
  <2>1. less \in Docs /\ less.events = new /\ less.history \subseteq DOMAIN new
    BY <1>2, <1>3, <1>10 DEF Docs
  <2>2. \A j \in Published!Inputs(new) : new[j].shown \subseteq new[j].sections /\ (new[j].dismissed => j \in R)
    <3> SUFFICES ASSUME NEW j \in Published!Inputs(old)
                 PROVE  new[j].shown \subseteq new[j].sections /\ (new[j].dismissed => j \in R)
      BY <1>12
    <3>1. j = i \/ new[j] = old[j]
      BY <1>10, <1>16
    <3> QED BY <1>5, <1>11, <1>15, <1>16, <3>1
  <2>3. \A j \in DOMAIN new : new[j].related \subseteq Published!Inputs(new)
    BY <1>6, <1>10, <1>11, <1>12
  <2>4. \A c, d \in DOMAIN new :
          /\ new[c].kind = "dispute" /\ new[d].kind = "dispute" /\ c # d
          => <<new[c].issue, new[c].epoch>> # <<new[d].issue, new[d].epoch>>
    BY <1>7, <1>10, <1>11
  <2> QED BY <1>2, <1>10, <1>13, <2>1, <2>2, <2>3, <2>4 DEF Raw
<1>18. CardsInv(new)
  <2> SUFFICES ASSUME NEW j \in Published!Inputs(old)
               PROVE  /\ ~new[j].hidden => j \in R
                      /\ new[j].dismissed => new[j].hidden
                      /\ j \in R => new[j].shown \cap Published!Delivered(new, Earlier(R, j)) = {}
    BY <1>12, <1>13 DEF CardsInv
  <2>1. j \in DOMAIN old
    BY <1>16
  <2>2. j \in R => new[j].shown \cap Published!Delivered(new, Earlier(R, j)) = {}
    BY <1>8, <1>11, <1>14, <2>1
  <2>3. CASE j = i
    BY <1>9, <1>10, <2>2, <2>3
  <2>4. CASE j # i
    BY <1>8, <1>10, <2>1, <2>2, <2>4
  <2> QED BY <2>3, <2>4
<1>19. less.events = new
  BY <1>3
<1> QED BY <1>10, <1>12, <1>17, <1>18, <1>19 DEF Good, less, old

-----------------------------------------------------------------------------
(* The stream, its copies and the dispute under way.                         *)

GoodDocs == {doc \in Docs : Good(doc)}
Ends == {"publish", "dismiss", "dispute"}
Writing == [at : {"begun"}, for : Ends] \cup [at : {"copied"}, for : Ends, copy : GoodDocs]
Disputing(events) ==
    [at : {"reviewing", "settling"}, batch : SUBSET Published!Inputs(events), published : SUBSET [issue : Issues, epoch : Nat]]

StreamInv ==
    /\ stream \in GoodDocs /\ signalFile \in GoodDocs
    /\ writers \in [1..MaxWriters -> {Published!Calm} \cup Writing]
DisputeInv == dispute \in {Published!Calm} \cup Disputing(stream.events)
SignalsInv == StreamInv /\ DisputeInv /\ behind \in 0..MaxStream /\ epoch \in 1..MaxEpoch

LEMMA SignalsInit == SurfacesInit => SignalsInv
<1> SUFFICES ASSUME Published!Init PROVE SignalsInv
  BY DEF SurfacesInit
<1> DEFINE doc == [events |-> <<>>, history |-> {}]
<1>1. stream = doc /\ signalFile = doc
  BY DEF Published!Init, Published!Empty
<1>2. /\ writers = [w \in 1..MaxWriters |-> Published!Calm] /\ dispute = Published!Calm
      /\ behind = 0 /\ epoch = 1
  BY DEF Published!Init
<1>3. doc \in Docs /\ doc.events = <<>> /\ doc.history = {}
  BY DEF Docs
<1> HIDE DEF doc
<1>4. Published!Inputs(doc.events) = {} /\ DOMAIN doc.events = {} /\ Len(doc.events) = 0
  BY <1>3 DEF Published!Inputs
<1>5. MaxStream \in Nat /\ MaxEpoch \in Nat \ {0}
  BY PublishedAssumption
<1>6. Good(doc)
  BY <1>3, <1>4, <1>5 DEF Good, Raw, CardsInv
<1> QED BY <1>1, <1>2, <1>3, <1>5, <1>6 DEF SignalsInv, StreamInv, DisputeInv, GoodDocs

(* A change of the document: it is good, and told cards stay where they are. *)
LEMMA ChangeIsGood ==
    ASSUME StreamInv, NEW doc \in GoodDocs, NEW for \in Ends, Published!Change(doc, for), UNCHANGED signalFile
    PROVE  StreamInv' /\ stream' = doc
<1>1. stream' = doc
  BY DEF Published!Change
<1>2. PICK w \in 1..MaxWriters : writers' = [writers EXCEPT ![w] = [at |-> "begun", for |-> for]]
  BY DEF Published!Change, Published!BeginWrite
<1>3. [at |-> "begun", for |-> for] \in Writing
  BY DEF Writing
<1>4. writers' \in [1..MaxWriters -> {Published!Calm} \cup Writing]
  BY <1>2, <1>3 DEF StreamInv
<1> QED BY <1>1, <1>4 DEF StreamInv

LEMMA GoodParts ==
    ASSUME NEW doc \in GoodDocs
    PROVE  Good(doc) /\ Raw(doc) /\ doc.events \in Seq(Events) /\ Len(doc.events) \in 0..MaxStream /\ doc \in Docs
<1>1. Good(doc) /\ doc \in Docs
  BY DEF GoodDocs
<1>2. Raw(doc)
  BY <1>1 DEF Good
<1>3. doc.events \in Seq(Events) /\ Len(doc.events) <= MaxStream
  BY <1>1, <1>2 DEF Raw, Docs
<1>4. Len(doc.events) \in 0..MaxStream
  BY <1>3, PublishedAssumption
<1> QED BY <1>1, <1>2, <1>3, <1>4

LEMMA NormalisedDocs ==
    ASSUME NEW doc, Raw(doc)
    PROVE  /\ Published!Normalised(doc) \in GoodDocs
           /\ Published!Inputs(Published!Normalised(doc).events) = Published!Inputs(doc.events)
<1>1. Good(Published!Normalised(doc))
  BY NormalisedIsGood
<1>2. Published!Normalised(doc) \in Docs
  BY <1>1 DEF Good, Raw
<1> QED BY <1>1, <1>2, NormalisedIsGood DEF GoodDocs

(* The dispute under way is about cards that stay cards.                     *)
LEMMA DisputeStays ==
    ASSUME DisputeInv, UNCHANGED dispute, Published!Inputs(stream.events) \subseteq Published!Inputs(stream'.events)
    PROVE  DisputeInv'
<1>1. CASE dispute = Published!Calm
  BY <1>1 DEF DisputeInv
<1>2. CASE dispute \in Disputing(stream.events)
  BY <1>2 DEF DisputeInv, Disputing
<1> QED BY <1>1, <1>2 DEF DisputeInv

LEMMA PublicationStep ==
    ASSUME SignalsInv, NEW card \in Cards, NEW raw \in BOOLEAN, Published!Publish(card, raw)
    PROVE  SignalsInv'
<1> DEFINE e == [Published!Event EXCEPT !.sources = card.sources, !.text = card.text,
                                        !.sections = card.sections, !.shown = card.sections]
           more == [stream EXCEPT !.events = Append(@, e)]
           doc == Published!Normalised(more)
<1>1. /\ Len(stream.events) < MaxStream /\ Published!Change(doc, "publish")
      /\ UNCHANGED <<signalFile, dispute, behind, epoch>>
  BY DEF Published!Publish, Published!attacker
<1>2. /\ e \in Events /\ e.kind = "input" /\ e.dismissed = FALSE /\ e.shown \subseteq e.sections /\ e.related = {}
  <2>1. card.sources \in SUBSET Origins /\ card.text \in Texts /\ card.sections \in SUBSET Sections
    BY DEF Origins, Texts, Sections
  <2> QED BY <2>1 DEF Published!Event, Events, Texts
<1> HIDE DEF e
<1>3. Good(stream) /\ MaxStream \in Nat
  BY GoodParts, PublishedAssumption DEF SignalsInv, StreamInv
<1>4. Raw(more) /\ Published!Inputs(stream.events) \subseteq Published!Inputs(more.events)
  BY <1>1, <1>2, <1>3, AppendedIsRaw
<1> HIDE DEF more
<1>5. doc \in GoodDocs /\ Published!Inputs(stream.events) \subseteq Published!Inputs(doc.events)
  BY <1>4, NormalisedDocs
<1> HIDE DEF doc
<1>6. StreamInv' /\ stream' = doc
  BY <1>1, <1>5, ChangeIsGood DEF SignalsInv, Ends
<1>7. DisputeInv'
  BY <1>1, <1>5, <1>6, DisputeStays DEF SignalsInv
<1> QED BY <1>1, <1>6, <1>7 DEF SignalsInv

LEMMA DismissStep ==
    ASSUME SignalsInv, NEW i \in 1..MaxStream, Published!Dismiss(i)
    PROVE  SignalsInv'
<1> DEFINE doc == [stream EXCEPT !.events[i] = [@ EXCEPT !.hidden = TRUE, !.dismissed = TRUE]]
<1>1. /\ i \in DOMAIN stream.events /\ ~stream.events[i].hidden /\ Published!Change(doc, "dismiss")
      /\ UNCHANGED <<signalFile, dispute, behind, epoch>>
  BY DEF Published!Dismiss, Published!attacker
<1>2. Good(stream)
  BY GoodParts DEF SignalsInv, StreamInv
<1>3. Good(doc) /\ Published!Inputs(doc.events) = Published!Inputs(stream.events)
  BY <1>1, <1>2, DismissedIsGood
<1>4. doc \in GoodDocs
  BY <1>3 DEF GoodDocs, Good, Raw
<1> HIDE DEF doc
<1>5. StreamInv' /\ stream' = doc
  BY <1>1, <1>4, ChangeIsGood DEF SignalsInv, Ends
<1>6. DisputeInv'
  BY <1>1, <1>3, <1>5, DisputeStays DEF SignalsInv
<1> QED BY <1>1, <1>5, <1>6 DEF SignalsInv

(* A dispute is published when no event of the week says it already.         *)
LEMMA ChallengeStep ==
    ASSUME SignalsInv, NEW issue \in Issues, NEW related \in SUBSET (1..MaxStream),
           NEW cites \in {card.sections : card \in Cards}, Published!Challenge(issue, related, cites)
    PROVE  SignalsInv'
<1> DEFINE e == [Published!Event EXCEPT !.kind = "dispute", !.issue = issue, !.epoch = epoch,
                                        !.related = related, !.cites = cites]
           more == [stream EXCEPT !.events = Append(@, e)]
           doc == Published!Normalised(more)
           it == [issue |-> issue, epoch |-> epoch]
<1>1. dispute.at = "reviewing" /\ related \subseteq dispute.batch /\ UNCHANGED <<signalFile, behind, epoch>>
  BY DEF Published!Challenge
<1>2. epoch \in Nat
  BY PublishedAssumption DEF SignalsInv
<1>3. dispute \in Disputing(stream.events)
  BY <1>1 DEF SignalsInv, DisputeInv, Published!Calm
<1>4. related \subseteq Published!Inputs(stream.events)
  BY <1>1, <1>3 DEF Disputing
<1>5. CASE UNCHANGED <<stream, writers>> /\ dispute' = [dispute EXCEPT !.at = "settling"]
  <2>1. StreamInv'
    BY <1>1, <1>5 DEF SignalsInv, StreamInv
  <2>2. DisputeInv'
    BY <1>3, <1>5 DEF DisputeInv, Disputing
  <2> QED BY <1>1, <2>1, <2>2 DEF SignalsInv
<1>6. CASE /\ ~Published!Disputed(issue) /\ Len(stream.events) < MaxStream
           /\ Published!Change(doc, "dispute")
           /\ dispute' = [dispute EXCEPT !.at = "settling", !.published = {it}]
  <2>1. /\ e \in Events /\ e.kind = "dispute" /\ e.dismissed = FALSE /\ e.shown \subseteq e.sections
        /\ e.related = related /\ e.issue = issue /\ e.epoch = epoch
    <3>1. cites \in SUBSET Sections /\ related \in SUBSET Nat
      BY DEF Sections
    <3>2. issue \in Issues \cup {""} /\ "" \in Texts
      BY DEF Texts
    <3> DEFINE blank == Published!Event
    <3>3. blank \in Events /\ blank.dismissed = FALSE /\ blank.shown = {} /\ blank.sections = {}
      BY <3>2 DEF Published!Event, Events
    <3> HIDE DEF blank
    <3>4. e = [blank EXCEPT !.kind = "dispute", !.issue = issue, !.epoch = epoch, !.related = related, !.cites = cites]
      BY DEF blank
    <3> HIDE DEF e
    <3> QED BY <1>2, <3>1, <3>2, <3>3, <3>4 DEF Events
  <2> HIDE DEF e
  <2>2. Good(stream) /\ MaxStream \in Nat
    BY GoodParts, PublishedAssumption DEF SignalsInv, StreamInv
  <2>3. \A c \in DOMAIN stream.events :
           stream.events[c].kind = "dispute" => ~(stream.events[c].issue = issue /\ stream.events[c].epoch = epoch)
    BY <1>6 DEF Published!Disputed
  <2>4. Raw(more) /\ Published!Inputs(stream.events) \subseteq Published!Inputs(more.events)
    BY <1>4, <1>6, <2>1, <2>2, <2>3, AppendedIsRaw
  <2> HIDE DEF more
  <2>5. doc \in GoodDocs /\ Published!Inputs(stream.events) \subseteq Published!Inputs(doc.events)
    BY <2>4, NormalisedDocs
  <2> HIDE DEF doc
  <2>6. StreamInv' /\ stream' = doc
    BY <1>1, <1>6, <2>5, ChangeIsGood DEF SignalsInv, Ends
  <2>7. it \in [issue : Issues, epoch : Nat]
    BY <1>2
  <2> HIDE DEF it
  <2>8. DisputeInv'
    BY <1>3, <1>6, <2>5, <2>6, <2>7 DEF DisputeInv, Disputing
  <2> QED BY <1>1, <2>6, <2>8 DEF SignalsInv
<1> QED BY <1>5, <1>6 DEF Published!Challenge

(* A copy is of a good document, and so is what is written.                  *)
LEMMA WriteStep ==
    ASSUME SignalsInv, NEW w \in 1..MaxWriters,
           Published!Copy(w) \/ Published!Write(w) \/ Published!WriteFails(w)
    PROVE  SignalsInv'
<1>1. UNCHANGED <<stream, behind, epoch>>
  BY DEF Published!Copy, Published!Write, Published!WriteFails
<1>2. stream \in GoodDocs /\ signalFile \in GoodDocs /\ writers \in [1..MaxWriters -> {Published!Calm} \cup Writing]
  BY DEF SignalsInv, StreamInv
<1>3. writers[w].at # "idle" => writers[w] \in Writing
  BY <1>2 DEF Published!Calm
<1>4. CASE Published!Copy(w)
  <2> DEFINE copied == [at |-> "copied", for |-> writers[w].for, copy |-> stream]
  <2>1. writers[w].at = "begun" /\ writers' = [writers EXCEPT ![w] = copied] /\ UNCHANGED <<signalFile, dispute>>
    BY <1>4 DEF Published!Copy, Published!attacker
  <2>2. copied \in Writing
    BY <1>2, <1>3, <2>1 DEF Writing
  <2> HIDE DEF copied
  <2>3. StreamInv'
    BY <1>1, <1>2, <2>1, <2>2 DEF StreamInv
  <2> QED BY <1>1, <2>1, <2>3, DisputeStays DEF SignalsInv
<1>5. CASE Published!Write(w)
  <2>1. writers[w].at = "copied" /\ signalFile' = writers[w].copy /\ UNCHANGED dispute
        /\ writers' = [writers EXCEPT ![w] = Published!Calm]
    BY <1>5 DEF Published!Write, Published!attacker
  <2>2. writers[w].copy \in GoodDocs
    BY <1>3, <2>1 DEF Writing
  <2>3. StreamInv'
    BY <1>1, <1>2, <2>1, <2>2 DEF StreamInv
  <2> QED BY <1>1, <2>1, <2>3, DisputeStays DEF SignalsInv
<1>6. CASE Published!WriteFails(w)
  <2>1. UNCHANGED signalFile /\ dispute' \in {Published!Calm, dispute}
        /\ writers' = [writers EXCEPT ![w] = Published!Calm]
    BY <1>6 DEF Published!WriteFails
  <2>2. StreamInv'
    BY <1>1, <1>2, <2>1 DEF StreamInv
  <2>3. DisputeInv'
    BY <1>1, <2>1 DEF SignalsInv, DisputeInv
  <2> QED BY <1>1, <2>2, <2>3 DEF SignalsInv
<1> QED BY <1>4, <1>5, <1>6

(* The reviewer takes cards from the stream and does not change it.          *)
LEMMA ReviewerStep ==
    ASSUME SignalsInv,
           \/ Published!InitializeExisting \/ Published!Skip \/ Published!Examine \/ Published!Yield
           \/ Published!Silent \/ Published!Complete
    PROVE  SignalsInv'
<1>1. UNCHANGED <<stream, signalFile, writers, behind, epoch>>
  BY DEF Published!InitializeExisting, Published!Skip, Published!Examine, Published!Yield, Published!Silent,
         Published!Complete
<1>2. StreamInv'
  BY <1>1 DEF SignalsInv, StreamInv
<1>3. DisputeInv'
  <2>1. CASE dispute' \in {dispute, Published!Calm}
    BY <1>1, <2>1 DEF SignalsInv, DisputeInv
  <2>2. CASE Published!Examine
    <3>1. Published!Batch \subseteq Published!Inputs(stream.events)
      BY DEF Published!Batch, Published!Unreviewed, Published!Candidates
    <3>2. [at |-> "reviewing", batch |-> Published!Batch, published |-> {}] \in Disputing(stream.events)
      BY <3>1 DEF Disputing
    <3> QED BY <1>1, <2>2, <3>2 DEF Published!Examine, DisputeInv
  <2>3. CASE Published!Silent
    <3>1. dispute \in Disputing(stream.events)
      BY <2>3 DEF Published!Silent, Published!Calm, SignalsInv, DisputeInv
    <3> QED BY <1>1, <2>3, <3>1 DEF Published!Silent, DisputeInv, Disputing
  <2>4. Published!InitializeExisting \/ Published!Skip \/ Published!Yield \/ Published!Complete
        => dispute' \in {dispute, Published!Calm}
    BY DEF Published!InitializeExisting, Published!Skip, Published!Yield, Published!Complete
  <2> QED BY <2>1, <2>2, <2>3, <2>4
<1> QED BY <1>1, <1>2, <1>3 DEF SignalsInv

(* What is loaded is normalised again, and then on disk.                     *)
LEMMA ReloadStep == ASSUME SignalsInv, Published!Restart PROVE SignalsInv'
<1>1. /\ stream' = Published!Normalised(signalFile) /\ signalFile' = stream'
      /\ writers' = [w \in 1..MaxWriters |-> Published!Calm] /\ dispute' = Published!Calm
      /\ behind' = IF behind > Len(stream'.events) THEN Len(stream'.events) ELSE behind
      /\ UNCHANGED epoch
  BY DEF Published!Restart
<1>2. Raw(signalFile)
  BY GoodParts DEF SignalsInv, StreamInv
<1>3. stream' \in GoodDocs
  BY <1>1, <1>2, NormalisedDocs
<1>4. Len(stream'.events) \in 0..MaxStream
  BY <1>3, GoodParts
<1>5. behind' \in 0..MaxStream
  BY <1>1, <1>4 DEF SignalsInv
<1>6. writers' \in [1..MaxWriters -> {Published!Calm} \cup Writing]
  BY <1>1
<1> QED BY <1>1, <1>3, <1>5, <1>6 DEF SignalsInv, StreamInv, DisputeInv

LEMMA SignalsStep == SignalsInv /\ Published!Next => SignalsInv'
<1> SUFFICES ASSUME SignalsInv, Published!Next PROVE SignalsInv'
  OBVIOUS
<1>1. CASE \E card \in Cards, raw \in BOOLEAN : Published!Publish(card, raw)
  BY <1>1, PublicationStep
<1>2. CASE \E i \in 1..MaxStream : Published!Dismiss(i)
  BY <1>2, DismissStep
<1>3. CASE \E w \in 1..MaxWriters : Published!Copy(w) \/ Published!Write(w) \/ Published!WriteFails(w)
  BY <1>3, WriteStep
<1>4. CASE \/ Published!InitializeExisting \/ Published!Skip \/ Published!Examine \/ Published!Yield
           \/ Published!Silent \/ Published!Complete
  BY <1>4, ReviewerStep
<1>5. CASE \E issue \in Issues, related \in SUBSET (1..MaxStream), cites \in {card.sections : card \in Cards} :
              Published!Challenge(issue, related, cites)
  BY <1>5, ChallengeStep
<1>6. CASE Published!ConversationMoves
  <2>1. behind' = Len(stream.events) /\ UNCHANGED <<stream, signalFile, writers, dispute, epoch>>
    BY <1>6 DEF Published!ConversationMoves, Published!attacker
  <2>2. behind' \in 0..MaxStream
    BY <2>1, GoodParts DEF SignalsInv, StreamInv
  <2> QED BY <2>1, <2>2 DEF SignalsInv, StreamInv, DisputeInv
<1>7. CASE Published!NextEpoch
  <2>1. epoch < MaxEpoch /\ epoch' = epoch + 1 /\ UNCHANGED <<stream, signalFile, writers, dispute, behind>>
    BY <1>7 DEF Published!NextEpoch, Published!attacker
  <2>2. epoch' \in 1..MaxEpoch
    BY <2>1, PublishedAssumption DEF SignalsInv
  <2> QED BY <2>1, <2>2 DEF SignalsInv, StreamInv, DisputeInv
<1>8. CASE Published!Restart
  BY <1>8, ReloadStep
<1> QED BY <1>1, <1>2, <1>3, <1>4, <1>5, <1>6, <1>7, <1>8 DEF Published!Next

LEMMA SignalsPromises == SignalsInv => NothingIsShownTwice
<1> SUFFICES ASSUME SignalsInv PROVE NothingIsShownTwice
  OBVIOUS
<1> DEFINE R == Published!Representatives(stream.events)
<1>1. stream.events \in Seq(Events) /\ Raw(stream) /\ CardsInv(stream.events) /\ Raw(signalFile)
  BY GoodParts DEF SignalsInv, StreamInv, Good
<1>2. Published!TypeOK
  BY <1>1 DEF Published!TypeOK, SignalsInv, Raw
<1>3. \A i \in Published!Visible : i \in R /\ i \in Published!Inputs(stream.events)
  BY <1>1 DEF CardsInv, Published!Visible
<1>4. \A i, j \in R : i # j => /\ stream.events[i].text # stream.events[j].text
                               /\ stream.events[i].sources \cap stream.events[j].sources = {}
  <2>1. \A i, j \in R : j < i => /\ stream.events[i].text # stream.events[j].text
                                 /\ stream.events[i].sources \cap stream.events[j].sources = {}
    BY <1>1, RepresentativesDiffer
  <2>2. R \subseteq Nat
    <3>1. StandFor(R, stream.events, Len(stream.events))
      BY <1>1, RepresentativesStand
    <3> QED BY <3>1 DEF StandFor
  <2>3. \A i, j \in R : i # j => j < i \/ i < j
    BY <2>2
  <2> HIDE DEF R
  <2> QED BY <2>1, <2>3
<1>5. ASSUME NEW i \in R, NEW j \in R, j < i, i \in Published!Inputs(stream.events), j \in Published!Inputs(stream.events)
      PROVE  stream.events[i].shown \cap stream.events[j].shown = {}
  <2>1. stream.events[j].sections \subseteq Published!Delivered(stream.events, Earlier(R, i))
    BY <1>1, <1>5, RepresentativesDiffer
  <2>2. stream.events[i].shown \cap Published!Delivered(stream.events, Earlier(R, i)) = {}
    BY <1>1, <1>5 DEF CardsInv
  <2>3. stream.events[j].shown \subseteq stream.events[j].sections
    BY <1>1, <1>5 DEF Raw
  <2> QED BY <2>1, <2>2, <2>3
<1>6. Published!ShownOnce
  <2> SUFFICES ASSUME NEW i \in Published!Visible, NEW j \in Published!Visible, i # j
               PROVE  /\ stream.events[i].text # stream.events[j].text
                      /\ stream.events[i].sources \cap stream.events[j].sources = {}
                      /\ stream.events[i].shown \cap stream.events[j].shown = {}
    BY DEF Published!ShownOnce
  <2>1. i < j \/ j < i
    BY <1>1 DEF Published!Visible, Published!Inputs
  <2>2. stream.events[i].shown \cap stream.events[j].shown = {}
    BY <1>3, <1>5, <2>1
  <2> QED BY <1>3, <1>4, <2>2
<1>7. Published!DismissedStaysAway
  <2> SUFFICES ASSUME NEW i \in Published!Inputs(stream.events), NEW j \in Published!Visible, stream.events[i].dismissed
               PROVE  /\ stream.events[i].text # stream.events[j].text
                      /\ stream.events[i].sources \cap stream.events[j].sources = {}
    BY DEF Published!DismissedStaysAway
  <2>1. i \in R /\ stream.events[i].hidden
    BY <1>1 DEF Raw, CardsInv
  <2>2. i # j
    BY <2>1 DEF Published!Visible
  <2> QED BY <1>3, <1>4, <2>1, <2>2
<1>8. Published!DisputedOnce
  BY <1>1 DEF Raw, Published!DisputedOnce
<1> QED BY <1>2, <1>6, <1>7, <1>8 DEF NothingIsShownTwice

(* Nothing is shown twice: of cards that share a text, a source or a section *)
(* one is on display, what was dismissed does not come back, and a dispute   *)
(* is raised once in its week: for any cards, disputes, limits and orders of *)
(* publications, dismissals, writes, their failures and restarts (signals.rs,*)
(* dedup.rs, attacker.rs).                                                   *)
THEOREM ShownOnlyOnce == SurfacesSpec => []NothingIsShownTwice
<1>1. SignalsInv /\ [SurfacesNext]_surfacesVars => SignalsInv'
  <2> SUFFICES ASSUME SignalsInv, [SurfacesNext]_surfacesVars PROVE SignalsInv'
    OBVIOUS
  <2>1. Published!Next \/ UNCHANGED signalVars
    BY DEF SurfacesNext, surfacesVars
  <2>2. UNCHANGED signalVars => SignalsInv'
    BY DEF signalVars, SignalsInv, StreamInv, DisputeInv
  <2> QED BY <2>1, <2>2, SignalsStep
<1> QED BY SignalsInit, SignalsPromises, <1>1, PTL DEF SurfacesSpec

=============================================================================
