------------------------ MODULE ExplorationQueueProofs ------------------------
(***************************************************************************)
(* The ownership of what is asked of the exploration queue, for every set  *)
(* of requests, manual runs and follow-ups, whatever their questions, and  *)
(* for every bound and every number of faults.                             *)
(***************************************************************************)
EXTENDS ExplorationQueue, SequenceTheorems, FiniteSetTheorems, TLAPS

-----------------------------------------------------------------------------
(* How often a trigger stands in a queue.                                  *)

Hits(t, q) == {i \in DOMAIN q : q[i] = t}
Hit(t, x) == IF x = t THEN 1 ELSE 0

LEMMA HitsAreFinite ==
    ASSUME NEW T, NEW q \in Seq(T), NEW t
    PROVE  IsFiniteSet(Hits(t, q)) /\ Times(t, q) = Cardinality(Hits(t, q)) /\ Times(t, q) \in Nat
<1>1. DOMAIN q = 1 .. Len(q) /\ Len(q) \in Nat
  BY LenProperties
<1>2. IsFiniteSet(1 .. Len(q))
  BY <1>1, FS_Interval
<1>3. IsFiniteSet(Hits(t, q))
  BY <1>1, <1>2, FS_Subset DEF Hits
<1> QED BY <1>3, FS_CardinalityType DEF Hits, Times

LEMMA TimesInNothing == ASSUME NEW t PROVE Times(t, <<>>) = 0
<1>1. {i \in DOMAIN <<>> : <<>>[i] = t} = {}
  OBVIOUS
<1> QED BY <1>1, FS_EmptySet DEF Times

LEMMA TimesAppend ==
    ASSUME NEW T, NEW q \in Seq(T), NEW x \in T, NEW t
    PROVE  Times(t, Append(q, x)) = Times(t, q) + Hit(t, x)
<1> DEFINE p == Append(q, x)
<1>1. /\ DOMAIN q = 1 .. Len(q) /\ Len(q) \in Nat
      /\ p \in Seq(T) /\ DOMAIN p = 1 .. Len(q) + 1
      /\ \A i \in 1 .. Len(q) : p[i] = q[i]
      /\ p[Len(q) + 1] = x
  BY LenProperties, AppendProperties
<1> HIDE DEF p
<1>2. Len(q) + 1 \notin Hits(t, q)
  BY <1>1 DEF Hits
<1>3. /\ Times(t, p) = Cardinality(Hits(t, p))
      /\ IsFiniteSet(Hits(t, q)) /\ Times(t, q) = Cardinality(Hits(t, q)) /\ Times(t, q) \in Nat
  BY <1>1, HitsAreFinite
<1>4. CASE x = t
  <2>1. Hits(t, p) = Hits(t, q) \cup {Len(q) + 1}
    BY <1>1, <1>4 DEF Hits
  <2>2. Cardinality(Hits(t, p)) = Cardinality(Hits(t, q)) + 1
    BY <1>2, <1>3, <2>1, FS_AddElement
  <2> QED BY <1>4, <1>3, <2>2 DEF Hit, p
<1>5. CASE x # t
  <2>1. Hits(t, p) = Hits(t, q)
    BY <1>1, <1>5 DEF Hits
  <2> QED BY <1>5, <1>3, <2>1 DEF Hit, p
<1> QED BY <1>4, <1>5

LEMMA TimesShifted ==
    ASSUME NEW T, NEW p \in Seq(T), NEW q \in Seq(T), NEW t,
           Len(p) = Len(q) + 1, \A i \in 1 .. Len(q) : p[i + 1] = q[i]
    PROVE  Times(t, p) = Times(t, q) + Hit(t, p[1])
<1> DEFINE Later == Hits(t, p) \ {1}
           f == [i \in Hits(t, q) |-> i + 1]
<1>1. /\ DOMAIN q = 1 .. Len(q) /\ DOMAIN p = 1 .. Len(q) + 1 /\ Len(q) \in Nat
  BY LenProperties
<1>2. f \in Bijection(Hits(t, q), Later)
  <2>1. \A i \in Hits(t, q) : i \in 1 .. Len(q) /\ q[i] = t
    BY <1>1 DEF Hits
  <2>2. \A j \in Later : j \in 2 .. Len(q) + 1 /\ p[j] = t
    BY <1>1 DEF Hits
  <2>3. \A i \in Hits(t, q) : i + 1 \in Later
    <3> SUFFICES ASSUME NEW i \in Hits(t, q) PROVE i + 1 \in Later
      OBVIOUS
    <3>1. i \in 1 .. Len(q) /\ p[i + 1] = t
      BY <2>1
    <3>2. i + 1 \in 1 .. Len(q) + 1 /\ i + 1 # 1
      BY <1>1, <3>1
    <3> QED BY <1>1, <3>1, <3>2 DEF Hits
  <2>4. \A j \in Later : \E i \in Hits(t, q) : f[i] = j
    <3> SUFFICES ASSUME NEW j \in Later PROVE j - 1 \in Hits(t, q) /\ f[j - 1] = j
      OBVIOUS
    <3>1. j - 1 \in 1 .. Len(q) /\ p[(j - 1) + 1] = t /\ (j - 1) + 1 = j
      BY <1>1, <2>2
    <3>2. j - 1 \in Hits(t, q)
      BY <1>1, <3>1 DEF Hits
    <3> QED BY <3>1, <3>2
  <2>5. \A i, j \in Hits(t, q) : f[i] = f[j] => i = j
    BY <1>1, <2>1
  <2>6. f \in [Hits(t, q) -> Later]
    BY <2>3
  <2> HIDE DEF f, Later
  <2> QED BY <2>4, <2>5, <2>6 DEF Bijection, Injection, IsInjective, Surjection
<1>3. Cardinality(Later) = Cardinality(Hits(t, q))
  BY <1>2, HitsAreFinite, FS_Bijection DEF ExistsBijection
<1>4. Cardinality(Later) = Cardinality(Hits(t, p)) - Hit(t, p[1])
  <2>1. 1 \in Hits(t, p) <=> p[1] = t
    BY <1>1 DEF Hits
  <2>2. IsFiniteSet(Hits(t, p)) /\ Cardinality(Hits(t, p)) \in Nat
    BY HitsAreFinite, FS_CardinalityType
  <2>3. Cardinality(Later) = IF 1 \in Hits(t, p) THEN Cardinality(Hits(t, p)) - 1 ELSE Cardinality(Hits(t, p))
    BY <2>2, FS_RemoveElement
  <2> QED BY <2>1, <2>2, <2>3 DEF Hit
<1>5. /\ Times(t, p) = Cardinality(Hits(t, p)) /\ Times(t, p) \in Nat
      /\ Times(t, q) = Cardinality(Hits(t, q)) /\ Times(t, q) \in Nat
  BY HitsAreFinite
<1> QED BY <1>3, <1>4, <1>5 DEF Hit

LEMMA TimesPrepend ==
    ASSUME NEW T, NEW q \in Seq(T), NEW x \in T, NEW t
    PROVE  Times(t, <<x>> \o q) = Times(t, q) + Hit(t, x)
<1>1. <<x>> \in Seq(T) /\ Len(<<x>>) = 1
  OBVIOUS
<1>2. /\ <<x>> \o q \in Seq(T) /\ Len(<<x>> \o q) = Len(q) + 1
      /\ (<<x>> \o q)[1] = x
      /\ \A i \in 1 .. Len(q) : (<<x>> \o q)[i + 1] = q[i]
  BY <1>1, ConcatProperties, LenProperties
<1> QED BY <1>2, TimesShifted

LEMMA TimesTail ==
    ASSUME NEW T, NEW q \in Seq(T), q # <<>>, NEW t
    PROVE  Times(t, q) = Times(t, Tail(q)) + Hit(t, Head(q))
<1>1. /\ Tail(q) \in Seq(T) /\ Len(q) = Len(Tail(q)) + 1
      /\ \A i \in 1 .. Len(Tail(q)) : q[i + 1] = Tail(q)[i]
  BY HeadTailProperties, LenProperties
<1>2. Head(q) = q[1]
  OBVIOUS
<1> QED BY <1>1, <1>2, TimesShifted

-----------------------------------------------------------------------------
(* The types.                                                              *)

Types ==
    /\ turn \in [Requests \cup FollowUps -> {None, "open", "kept", "dropped", "late"}]
    /\ receipt \in [Requests -> Requests \cup {None}]
    /\ intent \in [Requests -> {None} \cup Active \cup Ended]
    /\ saved \in [Requests -> {None} \cup Active \cup Ended]
    /\ ripening \subseteq Requests
    /\ sending \subseteq Manuals
    /\ running \in Triggers \cup {Scheduled, Idle}
    /\ manual \in [Manuals -> {None} \cup Active \cup Ended]
    /\ followUp \in [FollowUps -> {None, "scheduled", "due", "triggered", "canceled", "completed"}]
    /\ marking \subseteq FollowUps
    /\ gate \in Gates /\ due \in BOOLEAN
    /\ adrift \subseteq Requests \cup Manuals
    /\ faults \in 0 .. MaxFaults

Queues ==
    /\ channel \in Seq(Triggers) /\ Len(channel) <= ChannelSize
    /\ pending \in Seq(Triggers)

LEMMA TypeOKParts == TypeOK <=> Types /\ Queues /\ Cardinality(ActiveIntents) <= MaxActive
BY DEF TypeOK, Types, Queues

LEMMA BoundsArePositive ==
    /\ MaxActive \in Nat \ {0} /\ ChannelSize \in Nat \ {0}
    /\ DueLimit \in Nat \ {0} /\ MaxFaults \in Nat \ {0}
BY QueueAssumption

LEMMA FaultsAreBounded == faults \in 0 .. MaxFaults /\ Fault => faults' \in 0 .. MaxFaults
BY BoundsArePositive DEF Fault

LEMMA InitTypes == Init => Types /\ Queues
<1> SUFFICES ASSUME Init PROVE Types /\ Queues
  OBVIOUS
<1>1. Types
  <2>1. "open" \in Gates
    BY QueueAssumption
  <2>2. 0 \in 0 .. MaxFaults
    BY BoundsArePositive
  <2> QED BY <2>1, <2>2 DEF Init, Types
<1>2. Queues
  BY BoundsArePositive, EmptySeq DEF Init, Queues
<1> QED BY <1>1, <1>2

LEMMA TriggersOf ==
    /\ \A m \in Manuals : Of("manual", m) \in Triggers
    /\ \A r \in Requests : Of("intent", r) \in Triggers
    /\ Of("followUp", None) \in Triggers
BY DEF Triggers

LEMMA KindsOf ==
    ASSUME NEW t \in Triggers \cup {Scheduled, Idle}
    PROVE  /\ t.kind = "manual" => t.of \in Manuals /\ t = Of("manual", t.of)
           /\ t.kind = "intent" => t.of \in Requests /\ t = Of("intent", t.of)
BY DEF Triggers, Of, Scheduled, Idle

(* Steps of turns, and of follow-ups.                                      *)
Calls ==
    \/ \E r \in Requests : Merge(r) \/ Enqueue(r) \/ DropRequest(r)
    \/ \E x \in Requests \cup FollowUps : Keep(x)
    \/ \E f \in FollowUps : ScheduleFollowUp(f) \/ DropFollowUp(f) \/ Mature(f)
    \/ MarkTriggered

(* Steps of the world.                                                     *)
Surroundings == IntervalEnds \/ \E g \in Gates : GateChanges(g)

LEMMA CallTypes == Types /\ Calls => Types'
<1> SUFFICES ASSUME Types, Calls PROVE Types'
  OBVIOUS
<1>1. ASSUME NEW r \in Requests, Merge(r) PROVE Types'
  <2>1. PICK i \in Same(r) : receipt' = [receipt EXCEPT ![r] = i]
    BY <1>1 DEF Merge
  <2>2. i \in Requests
    BY DEF Same, ActiveIntents
  <2> QED BY <1>1, <2>1, <2>2 DEF Merge, Types, Write, triggers, follow, world
<1>2. ASSUME NEW r \in Requests, Enqueue(r) PROVE Types'
  BY <1>2, FaultsAreBounded DEF Enqueue, Types, Write, WriteFails, Active, triggers, follow, world
<1>3. ASSUME NEW r \in Requests, DropRequest(r) PROVE Types'
  BY <1>3, FaultsAreBounded DEF DropRequest, Types, Write, WriteFails, Ended, Superseded, triggers, follow, world
<1>4. ASSUME NEW x \in Requests \cup FollowUps, Keep(x) PROVE Types'
  BY <1>4 DEF Keep, Types, journal, triggers, follow, world
<1>5. ASSUME NEW f \in FollowUps, ScheduleFollowUp(f) \/ DropFollowUp(f) \/ Mature(f) PROVE Types'
  BY <1>5 DEF ScheduleFollowUp, DropFollowUp, Mature, Types, turns, journal, triggers, follow, world
<1>6. CASE MarkTriggered
  BY <1>6, FaultsAreBounded DEF MarkTriggered, Types, turns, journal, triggers, follow, world
<1> QED BY <1>1, <1>2, <1>3, <1>4, <1>5, <1>6 DEF Calls

(* Steps of a task or a handler that passes a trigger on.                  *)
Hands ==
    \/ \E r \in Requests : Forward(r)
    \/ \E m \in Manuals : TriggerManual(m) \/ SendManual(m) \/ ClientLeaves(m)
    \/ CheckFollowUps

LEMMA HandTypes == Types /\ (Hands \/ Surroundings \/ Receive) => Types'
<1> SUFFICES ASSUME Types, Hands \/ Surroundings \/ Receive PROVE Types'
  OBVIOUS
<1>1. ASSUME NEW r \in Requests, Forward(r) PROVE Types'
  BY <1>1 DEF Forward, Types, turns, follow, world
<1>2. ASSUME NEW m \in Manuals, TriggerManual(m) PROVE Types'
  BY <1>2 DEF TriggerManual, Accept, Receipt, Types, Active, turns, journal, triggers, follow, world
<1>3. ASSUME NEW m \in Manuals, SendManual(m) PROVE Types'
  BY <1>3 DEF SendManual, Fails, Receipt, Types, Ended, turns, journal, follow, world
<1>4. ASSUME NEW m \in Manuals, ClientLeaves(m) PROVE Types'
  BY <1>4, FaultsAreBounded DEF ClientLeaves, Types, turns, journal, triggers, follow, world
<1>5. CASE CheckFollowUps
  <2>1. DueFollowUps \subseteq FollowUps
    BY DEF DueFollowUps
  <2>2. kSubset(DueLimit, DueFollowUps) \subseteq SUBSET DueFollowUps
    BY DEF kSubset
  <2>3. marking' \subseteq FollowUps
    BY <1>5, <2>1, <2>2 DEF CheckFollowUps
  <2> QED BY <1>5, <2>3 DEF CheckFollowUps, Types, turns, journal, world
<1>6. CASE Surroundings
  BY <1>6 DEF Surroundings, IntervalEnds, GateChanges, Types, turns, journal, triggers, follow
<1>7. CASE Receive
  BY <1>7 DEF Receive, Types, turns, journal, follow, world
<1> QED BY <1>1, <1>2, <1>3, <1>4, <1>5, <1>6, <1>7 DEF Hands

(* Steps of the scheduler between two passes, and of one at its end.       *)
LEMMA FrontType == Queues => Front \in Triggers \cup {Scheduled}
<1>1. ASSUME Queues, pending # <<>> PROVE Head(pending) \in Triggers
  BY <1>1, HeadTailProperties DEF Queues
<1> QED BY <1>1 DEF Front

LEMMA SchedulerTypes == Types /\ Queues /\ Scheduler => Types'
<1> SUFFICES ASSUME Types, Queues, Scheduler PROVE Types'
  OBVIOUS
<1>1. CASE StartPass
  BY <1>1, FrontType DEF StartPass, Types, turns, journal, follow, world
<1>2. ASSUME NEW m \in Manuals, StartManual(m) PROVE Types'
  <2>1. running' \in Triggers \cup {Scheduled, Idle}
    BY <1>2, FrontType DEF StartManual, Types
  <2>2. CASE Explores(m) /\ UNCHANGED <<due, adrift, faults>>
    BY <1>2, <2>1, <2>2 DEF StartManual, Explores, Receipt, Types, Active, turns, journal, follow
  <2>3. CASE Unwritten(m) /\ due' = FALSE
    BY <1>2, <2>1, <2>3, FaultsAreBounded
       DEF StartManual, Unwritten, Fails, Receipt, Types, Ended, turns, journal, follow
  <2> QED BY <1>2, <2>2, <2>3 DEF StartManual
<1>3. ASSUME NEW r \in Requests, StartIntent(r) PROVE Types'
  <2>1. running' \in Triggers \cup {Scheduled, Idle}
    BY <1>3, FrontType DEF StartIntent, Types
  <2>2. [intent EXCEPT ![r] = "exploring"] \in [Requests -> {None} \cup Active \cup Ended]
    BY DEF Types, Active
  <2>3. intent' \in [Requests -> {None} \cup Active \cup Ended] /\ saved' \in [Requests -> {None} \cup Active \cup Ended]
    BY <1>3, <2>2 DEF StartIntent, Types, Write, WriteFails
  <2>4. adrift' \subseteq Requests \cup Manuals /\ faults' \in 0 .. MaxFaults
    BY <1>3, FaultsAreBounded DEF StartIntent, Types, WriteFails
  <2> QED BY <1>3, <2>1, <2>3, <2>4 DEF StartIntent, Types, turns, follow, world
<1> QED BY <1>1, <1>2, <1>3 DEF Scheduler

LEMMA SettleTypes ==
    ASSUME Types, NEW o \in Ended, Settle(o)
    PROVE  /\ intent' \in [Requests -> {None} \cup Active \cup Ended]
           /\ saved' \in [Requests -> {None} \cup Active \cup Ended]
           /\ manual' \in [Manuals -> {None} \cup Active \cup Ended]
           /\ adrift' \subseteq Requests \cup Manuals /\ faults' \in 0 .. MaxFaults
<1>1. CASE running.kind = "intent"
  <2>1. SettleIntent(o)
    BY <1>1 DEF Settle
  <2>2. [intent EXCEPT ![running.of] = o] \in [Requests -> {None} \cup Active \cup Ended]
    BY DEF Types
  <2> QED BY <2>1, <2>2, FaultsAreBounded DEF SettleIntent, WriteOrNot, Write, WriteFails, Types
<1>2. CASE running.kind = "manual"
  <2>1. SettleManual(o) /\ running.of \in Manuals
    BY <1>2, KindsOf DEF Settle, Types
  <2>2. CASE Completes(running.of, o) /\ UNCHANGED <<adrift, faults>>
    BY <2>1, <2>2 DEF SettleManual, Completes, Receipt, Types
  <2>3. CASE Unwritten(running.of)
    BY <2>1, <2>3, FaultsAreBounded DEF SettleManual, Unwritten, Fails, Receipt, Types, Ended
  <2> QED BY <2>1, <2>2, <2>3 DEF SettleManual
<1>3. CASE running.kind \notin {"intent", "manual"}
  BY <1>3 DEF Settle, Types
<1> QED BY <1>1, <1>2, <1>3

LEMMA RequeueTypes ==
    ASSUME Types, Requeue
    PROVE  /\ manual' \in [Manuals -> {None} \cup Active \cup Ended]
           /\ faults' \in 0 .. MaxFaults /\ UNCHANGED <<intent, saved, adrift>>
BY FaultsAreBounded DEF Requeue, Requeued, Fails, Receipt, Types, Active, Ended

LEMMA LookedAtTypes ==
    ASSUME Types, FollowUpsLookedAt
    PROVE  followUp' \in [FollowUps -> {None, "scheduled", "due", "triggered", "canceled", "completed"}]
BY DEF FollowUpsLookedAt, Types

LEMMA EndTypes == Types /\ End => Types'
<1> SUFFICES ASSUME Types, End PROVE Types'
  OBVIOUS
<1>1. "failed" \in Ended /\ "superseded" \in Ended
  BY DEF Ended
<1>2. ASSUME NEW o \in Ended, Complete(o) PROVE Types'
  <2> USE <1>2, SettleTypes, LookedAtTypes DEF Complete
  <2>1. /\ intent' \in [Requests -> {None} \cup Active \cup Ended]
        /\ saved' \in [Requests -> {None} \cup Active \cup Ended]
        /\ manual' \in [Manuals -> {None} \cup Active \cup Ended]
        /\ adrift' \subseteq Requests \cup Manuals /\ faults' \in 0 .. MaxFaults
    OBVIOUS
  <2>2. followUp' \in [FollowUps -> {None, "scheduled", "due", "triggered", "canceled", "completed"}]
    OBVIOUS
  <2> QED BY <2>1, <2>2 DEF Types, turns, triggers
<1>3. CASE Fail
  <2>1. /\ intent' \in [Requests -> {None} \cup Active \cup Ended]
        /\ saved' \in [Requests -> {None} \cup Active \cup Ended]
        /\ manual' \in [Manuals -> {None} \cup Active \cup Ended]
        /\ adrift' \subseteq Requests \cup Manuals /\ faults' \in 0 .. MaxFaults
    BY <1>1, <1>3, SettleTypes DEF Fail
  <2> QED BY <1>3, <2>1 DEF Fail, Types, turns, triggers, follow
<1>4. CASE Yield
  <2>1. /\ intent' \in [Requests -> {None} \cup Active \cup Ended]
        /\ saved' \in [Requests -> {None} \cup Active \cup Ended]
        /\ manual' \in [Manuals -> {None} \cup Active \cup Ended]
        /\ adrift' \subseteq Requests \cup Manuals /\ faults' \in 0 .. MaxFaults
    <3>1. CASE Requeue
      BY <3>1, RequeueTypes DEF Types
    <3>2. CASE Settle("superseded")
      BY <1>1, <3>2, SettleTypes
    <3> QED BY <1>4, <3>1, <3>2 DEF Yield
  <2>2. followUp' \in [FollowUps -> {None, "scheduled", "due", "triggered", "canceled", "completed"}]
    BY <1>4, LookedAtTypes DEF Yield, Types
  <2>3. due' \in BOOLEAN
    BY <1>4 DEF Yield, Types
  <2> QED BY <1>4, <2>1, <2>2, <2>3 DEF Yield, Types, turns
<1>5. CASE Reconnect
  <2>1. /\ manual' \in [Manuals -> {None} \cup Active \cup Ended]
        /\ faults' \in 0 .. MaxFaults /\ UNCHANGED <<intent, saved, adrift>>
    BY <1>5, RequeueTypes DEF Reconnect
  <2> QED BY <1>5, <2>1 DEF Reconnect, Types, turns, follow, world
<1> QED BY <1>2, <1>3, <1>4, <1>5 DEF End

LEMMA RestartTypes == Types /\ Restart => Types'
<1> SUFFICES ASSUME Types, Restart PROVE Types'
  OBVIOUS
<1>1. /\ intent' \in [Requests -> {None} \cup Active \cup Ended]
      /\ saved' \in [Requests -> {None} \cup Active \cup Ended]
  BY DEF Restart, Types, Active
<1>2. manual' \in [Manuals -> {None} \cup Active \cup Ended]
  BY DEF Restart, Recovered, Types, Ended
<1>3. turn' \in [Requests \cup FollowUps -> {None, "open", "kept", "dropped", "late"}]
  BY DEF Restart, Types
<1> QED BY <1>1, <1>2, <1>3, FaultsAreBounded DEF Restart, Types

(* What a step is, in the groups the proofs go by.                         *)
LEMMA StepGroups ==
    [Next]_vars => \/ Calls \/ Hands \/ Surroundings \/ Receive \/ Scheduler \/ End \/ Restart
                   \/ UNCHANGED vars
BY DEF Next, Calls, Hands, Surroundings

LEMMA NextTypes == Types /\ Queues /\ [Next]_vars => Types'
<1> SUFFICES ASSUME Types, Queues, [Next]_vars PROVE Types'
  OBVIOUS
<1>1. CASE UNCHANGED vars
  BY <1>1 DEF vars, turns, journal, triggers, follow, world, Types
<1> QED BY <1>1, StepGroups, CallTypes, HandTypes, SchedulerTypes, EndTypes, RestartTypes

-----------------------------------------------------------------------------
(* The two queues.                                                         *)

LEMMA SendQueues == ASSUME Queues, NEW t \in Triggers, Fits(t), Send(t), UNCHANGED pending PROVE Queues'
<1>1. channel' \in Seq(Triggers) /\ Len(channel') = Len(channel) + 1
  BY AppendProperties DEF Send, Queues
<1>2. Len(channel) \in Nat
  BY LenProperties DEF Queues
<1>3. Len(channel') <= ChannelSize
  BY <1>1, <1>2, BoundsArePositive DEF Fits
<1> QED BY <1>1, <1>3 DEF Queues

LEMMA ReceiveQueues ==
    ASSUME Queues, Receive
    PROVE  Queues' /\ Head(channel) \in Triggers
<1>1. /\ channel # <<>> /\ Head(channel) \in Triggers
      /\ channel' \in Seq(Triggers) /\ Len(channel') = Len(channel) - 1
  BY HeadTailProperties DEF Receive, Queues
<1>2. Len(channel') <= ChannelSize
  BY <1>1, LenProperties, BoundsArePositive DEF Queues
<1>3. <<Head(channel)>> \in Seq(Triggers)
  BY <1>1
<1>4. <<Head(channel)>> \o pending \in Seq(Triggers) /\ Append(pending, Head(channel)) \in Seq(Triggers)
  BY <1>1, <1>3, ConcatProperties, AppendProperties DEF Queues
<1>5. pending' \in Seq(Triggers)
  BY <1>4 DEF Receive
<1> QED BY <1>1, <1>2, <1>5 DEF Queues

LEMMA TakenQueues == ASSUME Queues, Taken, UNCHANGED channel PROVE Queues'
<1>1. pending' \in Seq(Triggers)
  BY HeadTailProperties, EmptySeq DEF Taken, Queues
<1> QED BY <1>1 DEF Queues

LEMMA RequeueQueues == ASSUME Types, Queues, Requeue, UNCHANGED channel PROVE Queues'
<1>1. running \in Triggers
  BY KindsOf, TriggersOf DEF Requeue, Types
<1>2. <<running>> \in Seq(Triggers)
  BY <1>1
<1>3. <<running>> \o pending \in Seq(Triggers)
  BY <1>2, ConcatProperties DEF Queues
<1> QED BY <1>3 DEF Requeue, Queues

LEMMA NextQueues == Types /\ Queues /\ [Next]_vars => Queues'
<1> SUFFICES ASSUME Types, Queues, [Next]_vars PROVE Queues'
  OBVIOUS
<1>1. CASE Calls
  <2>1. UNCHANGED <<channel, pending>>
    BY <1>1 DEF Calls, Merge, Enqueue, DropRequest, Keep, ScheduleFollowUp, DropFollowUp, Mature, MarkTriggered, triggers
  <2> QED BY <2>1 DEF Queues
<1>2. CASE Hands
  <2>1. ASSUME NEW r \in Requests, Forward(r) PROVE Queues'
    <3>1. CASE UNCHANGED channel
      BY <2>1, <3>1 DEF Forward, Queues
    <3>2. CASE Fits(Of("intent", r)) /\ Send(Of("intent", r))
      BY <2>1, <3>2, TriggersOf, SendQueues DEF Forward
    <3> QED BY <2>1, <3>1, <3>2 DEF Forward
  <2>2. ASSUME NEW m \in Manuals, TriggerManual(m) \/ ClientLeaves(m) PROVE Queues'
    BY <2>2 DEF TriggerManual, ClientLeaves, triggers, Queues
  <2>3. ASSUME NEW m \in Manuals, SendManual(m) PROVE Queues'
    <3>1. CASE UNCHANGED channel
      BY <2>3, <3>1 DEF SendManual, Queues
    <3>2. CASE Fits(Of("manual", m)) /\ Send(Of("manual", m))
      BY <2>3, <3>2, TriggersOf, SendQueues DEF SendManual
    <3> QED BY <2>3, <3>1, <3>2 DEF SendManual
  <2>4. CASE CheckFollowUps
    BY <2>4, TriggersOf, SendQueues DEF CheckFollowUps
  <2> QED BY <1>2, <2>1, <2>2, <2>3, <2>4 DEF Hands
<1>3. CASE Surroundings \/ UNCHANGED vars
  BY <1>3 DEF Surroundings, IntervalEnds, GateChanges, vars, triggers, Queues
<1>4. CASE Receive
  BY <1>4, ReceiveQueues
<1>5. CASE Scheduler
  BY <1>5, TakenQueues DEF Scheduler, StartPass, StartManual, StartIntent
<1>6. CASE End
  <2>1. CASE UNCHANGED <<channel, pending>>
    BY <2>1 DEF Queues
  <2>2. CASE Requeue /\ UNCHANGED channel
    BY <2>2, RequeueQueues
  <2> QED BY <1>6, <2>1, <2>2 DEF End, Complete, Fail, Yield, Reconnect, triggers
<1>7. CASE Restart
  BY <1>7, EmptySeq, BoundsArePositive DEF Restart, Queues
<1> QED BY <1>1, <1>2, <1>3, <1>4, <1>5, <1>6, <1>7, StepGroups

-----------------------------------------------------------------------------
(* The journal: few intents are active, in memory and on disk, and what is *)
(* active in memory is active on disk.                                     *)

ActiveIn(journal2) == {r \in Requests : journal2[r] \in Active}

JournalOK ==
    /\ Cardinality(ActiveIn(intent)) <= MaxActive
    /\ Cardinality(ActiveIn(saved)) <= MaxActive
    /\ IntentsSurviveRestarts

LEMMA FewerActive ==
    ASSUME NEW j1, NEW j2, ActiveIn(j2) \subseteq ActiveIn(j1), Cardinality(ActiveIn(j1)) <= MaxActive
    PROVE  Cardinality(ActiveIn(j2)) <= MaxActive
<1>1. IsFiniteSet(Requests) /\ ActiveIn(j1) \subseteq Requests
  BY QueueAssumption DEF ActiveIn
<1>2. IsFiniteSet(ActiveIn(j1))
  BY <1>1, FS_Subset
<1>3. Cardinality(ActiveIn(j2)) <= Cardinality(ActiveIn(j1)) /\ IsFiniteSet(ActiveIn(j2))
  BY <1>2, FS_Subset
<1>4. Cardinality(ActiveIn(j1)) \in Nat /\ Cardinality(ActiveIn(j2)) \in Nat
  BY <1>2, <1>3, FS_CardinalityType
<1> QED BY <1>3, <1>4, BoundsArePositive

LEMMA OneMoreActive ==
    ASSUME NEW j1, NEW j2, NEW r \in Requests, ActiveIn(j2) \subseteq ActiveIn(j1) \cup {r},
           Cardinality(ActiveIn(j1)) < MaxActive
    PROVE  Cardinality(ActiveIn(j2)) <= MaxActive
<1>1. IsFiniteSet(Requests) /\ ActiveIn(j1) \subseteq Requests
  BY QueueAssumption DEF ActiveIn
<1>2. IsFiniteSet(ActiveIn(j1)) /\ Cardinality(ActiveIn(j1)) \in Nat
  BY <1>1, FS_Subset, FS_CardinalityType
<1>3. /\ IsFiniteSet(ActiveIn(j1) \cup {r})
      /\ Cardinality(ActiveIn(j1) \cup {r}) <= Cardinality(ActiveIn(j1)) + 1
      /\ Cardinality(ActiveIn(j1) \cup {r}) \in Nat
  <2> DEFINE A == ActiveIn(j1)
  <2>1. IsFiniteSet(A) /\ Cardinality(A) \in Nat
    BY <1>2
  <2> HIDE DEF A
  <2>2. /\ IsFiniteSet(A \cup {r})
        /\ Cardinality(A \cup {r}) = IF r \in A THEN Cardinality(A) ELSE Cardinality(A) + 1
    BY <2>1, FS_AddElement
  <2> QED BY <2>1, <2>2 DEF A
<1>4. Cardinality(ActiveIn(j2)) <= Cardinality(ActiveIn(j1) \cup {r}) /\ IsFiniteSet(ActiveIn(j2))
  BY <1>3, FS_Subset
<1>5. Cardinality(ActiveIn(j2)) \in Nat
  BY <1>4, FS_CardinalityType
<1> QED BY <1>2, <1>3, <1>4, <1>5, BoundsArePositive

(* A change that activates nothing, written or not.                        *)
LEMMA LessJournal ==
    ASSUME JournalOK, NEW j2, ActiveIn(j2) \subseteq ActiveIn(intent), WriteOrNot(j2), UNCHANGED adrift
    PROVE  JournalOK'
<1>1. Cardinality(ActiveIn(j2)) <= MaxActive
  BY FewerActive DEF JournalOK
<1>2. intent' = j2 /\ (saved' = j2 \/ saved' = saved)
  BY DEF WriteOrNot, Write, WriteFails
<1>3. Cardinality(ActiveIn(intent')) <= MaxActive /\ Cardinality(ActiveIn(saved')) <= MaxActive
  BY <1>1, <1>2 DEF JournalOK
<1>4. ASSUME NEW r \in Requests \ adrift', intent'[r] \in Active PROVE saved'[r] \in Active
  <2>1. r \in ActiveIn(j2)
    BY <1>2, <1>4 DEF ActiveIn
  <2>2. saved[r] \in Active
    BY <1>4, <2>1 DEF JournalOK, IntentsSurviveRestarts, ActiveIntents, ActiveIn
  <2> QED BY <1>2, <1>4, <2>2
<1>5. IntentsSurviveRestarts'
  BY <1>4 DEF IntentsSurviveRestarts, ActiveIntents
<1> QED BY <1>3, <1>5 DEF JournalOK, ActiveIn

LEMMA KeptJournal ==
    ASSUME JournalOK, UNCHANGED <<intent, saved>>, adrift \subseteq adrift'
    PROVE  JournalOK'
BY DEF JournalOK, IntentsSurviveRestarts, ActiveIntents, ActiveIn

LEMMA EnqueueJournal == ASSUME Types, JournalOK, NEW r \in Requests, Enqueue(r) PROVE JournalOK'
<1> DEFINE j2 == [intent EXCEPT ![r] = "queued"]
<1>1. intent' = j2 /\ (saved' = j2 \/ (saved' = saved /\ r \in adrift')) /\ adrift \subseteq adrift'
  BY DEF Enqueue, Write, WriteFails
<1>2. Cardinality(ActiveIn(intent)) < MaxActive
  BY DEF Enqueue, ActiveIntents, ActiveIn
<1>3. \A q \in Requests \ {r} : j2[q] = intent[q]
  BY DEF Types
<1> HIDE DEF j2
<1>4. ActiveIn(j2) \subseteq ActiveIn(intent) \cup {r}
  BY <1>3 DEF ActiveIn
<1>5. Cardinality(ActiveIn(j2)) <= MaxActive
  BY <1>2, <1>4, OneMoreActive
<1>6. Cardinality(ActiveIn(intent')) <= MaxActive /\ Cardinality(ActiveIn(saved')) <= MaxActive
  BY <1>1, <1>5 DEF JournalOK
<1>7. IntentsSurviveRestarts'
  BY <1>1, <1>3 DEF JournalOK, IntentsSurviveRestarts, ActiveIntents
<1> QED BY <1>6, <1>7 DEF JournalOK, ActiveIn

LEMMA StartIntentJournal == ASSUME Types, JournalOK, NEW r \in Requests, StartIntent(r) PROVE JournalOK'
<1> DEFINE j2 == [intent EXCEPT ![r] = "exploring"]
<1>1. CASE intent[r] # "queued" /\ UNCHANGED <<intent, saved, running, adrift, faults>>
  BY <1>1, KeptJournal
<1>2. CASE intent[r] = "queued"
  <2>1. \A q \in Requests : q # r => j2[q] = intent[q]
    BY DEF Types
  <2>2. ActiveIn(j2) \subseteq ActiveIn(intent)
    BY <1>2, <2>1 DEF ActiveIn, Active
  <2>3. CASE Write(j2) /\ UNCHANGED <<adrift, faults>>
    BY <2>2, <2>3, LessJournal DEF WriteOrNot
  <2>4. CASE WriteFails(j2) /\ adrift' = adrift \cup {r}
    <3> HIDE DEF j2
    <3>1. Cardinality(ActiveIn(j2)) <= MaxActive
      BY <2>2, FewerActive DEF JournalOK
    <3>2. intent' = j2 /\ saved' = saved
      BY <2>4 DEF WriteFails
    <3>3. IntentsSurviveRestarts'
      BY <2>1, <2>4, <3>2 DEF JournalOK, IntentsSurviveRestarts, ActiveIntents
    <3>4. Cardinality(ActiveIn(intent')) <= MaxActive /\ Cardinality(ActiveIn(saved')) <= MaxActive
      BY <3>1, <3>2 DEF JournalOK
    <3> QED BY <3>3, <3>4 DEF JournalOK, ActiveIn
  <2> QED BY <1>2, <2>3, <2>4 DEF StartIntent
<1> QED BY <1>1, <1>2 DEF StartIntent

LEMMA SettleJournal == ASSUME Types, JournalOK, NEW o \in Ended, Settle(o) PROVE JournalOK'
<1>1. CASE running.kind = "intent"
  <2> DEFINE j2 == [intent EXCEPT ![running.of] = o]
  <2>1. WriteOrNot(j2) /\ UNCHANGED adrift
    BY <1>1 DEF Settle, SettleIntent
  <2>2. \A q \in Requests : j2[q] = intent[q] \/ j2[q] = o
    BY DEF Types
  <2>3. o \notin Active
    BY DEF Active, Ended
  <2> HIDE DEF j2
  <2>4. ActiveIn(j2) \subseteq ActiveIn(intent)
    BY <2>2, <2>3 DEF ActiveIn
  <2> QED BY <2>1, <2>4, LessJournal
<1>2. CASE running.kind = "manual"
  <2>1. UNCHANGED <<intent, saved>> /\ adrift \subseteq adrift'
    BY <1>2 DEF Settle, SettleManual, Unwritten
  <2> QED BY <2>1, KeptJournal
<1>3. CASE running.kind \notin {"intent", "manual"}
  BY <1>3, KeptJournal DEF Settle
<1> QED BY <1>1, <1>2, <1>3

LEMMA RestartJournal == ASSUME Types, JournalOK, Restart PROVE JournalOK'
<1>1. intent' = saved' /\ \A r \in Requests : intent'[r] = IF saved[r] = "exploring" THEN "queued" ELSE saved[r]
  BY DEF Restart
<1>2. ActiveIn(intent') = ActiveIn(saved)
  BY <1>1 DEF ActiveIn, Active
<1>3. Cardinality(ActiveIn(intent')) <= MaxActive /\ Cardinality(ActiveIn(saved')) <= MaxActive
  BY <1>1, <1>2 DEF JournalOK
<1>4. IntentsSurviveRestarts'
  BY <1>1 DEF IntentsSurviveRestarts, ActiveIntents
<1> QED BY <1>3, <1>4 DEF JournalOK, ActiveIn

LEMMA NextJournal == Types /\ JournalOK /\ [Next]_vars => JournalOK'
<1> SUFFICES ASSUME Types, JournalOK, [Next]_vars PROVE JournalOK'
  OBVIOUS
<1>0. "failed" \in Ended /\ "superseded" \in Ended
  BY DEF Ended
<1>1. CASE Calls
  <2>1. ASSUME NEW r \in Requests, Merge(r) PROVE JournalOK'
    BY <2>1, LessJournal DEF Merge, WriteOrNot
  <2>2. ASSUME NEW r \in Requests, DropRequest(r) PROVE JournalOK'
    <3>1. ActiveIn(Superseded(receipt[r])) \subseteq ActiveIn(intent)
      BY DEF ActiveIn, Superseded, Types, Active
    <3>2. WriteOrNot(Superseded(receipt[r])) /\ UNCHANGED adrift
      BY <2>2 DEF DropRequest, WriteOrNot
    <3> QED BY <3>1, <3>2, LessJournal
  <2>3. CASE UNCHANGED <<intent, saved, adrift>>
    BY <2>3, KeptJournal
  <2>4. \/ \E r \in Requests : Merge(r) \/ Enqueue(r) \/ DropRequest(r)
        \/ UNCHANGED <<intent, saved, adrift>>
    BY <1>1 DEF Calls, Keep, ScheduleFollowUp, DropFollowUp, Mature, MarkTriggered, journal
  <2> QED BY <2>1, <2>2, <2>3, <2>4, EnqueueJournal
<1>2. CASE Hands \/ Surroundings \/ Receive \/ UNCHANGED vars
  <2>1. UNCHANGED <<intent, saved>> /\ adrift \subseteq adrift'
    BY <1>2 DEF Hands, Forward, TriggerManual, SendManual, ClientLeaves, CheckFollowUps, Surroundings,
                IntervalEnds, GateChanges, Receive, vars, journal
  <2> QED BY <2>1, KeptJournal
<1>3. CASE Scheduler
  <2>1. ASSUME NEW m \in Manuals, StartManual(m) PROVE JournalOK'
    <3>1. UNCHANGED <<intent, saved>> /\ adrift \subseteq adrift'
      BY <2>1 DEF StartManual, Unwritten, journal
    <3> QED BY <3>1, KeptJournal
  <2>2. CASE StartPass
    BY <2>2, KeptJournal DEF StartPass, journal
  <2> QED BY <1>3, <2>1, <2>2, StartIntentJournal DEF Scheduler
<1>4. CASE End
  <2>1. CASE \E o \in Ended : Settle(o)
    BY <2>1, SettleJournal
  <2>2. CASE Requeue
    BY <2>2, KeptJournal DEF Requeue
  <2> QED BY <1>0, <1>4, <2>1, <2>2 DEF End, Complete, Fail, Yield, Reconnect
<1>5. CASE Restart
  BY <1>5, RestartJournal
<1> QED BY <1>1, <1>2, <1>3, <1>4, <1>5, StepGroups

-----------------------------------------------------------------------------
(* Who holds an intent: what is active, in memory or on disk, is held by a *)
(* turn that was not dropped, or was left without a receipt.               *)

Wanted(r) == Holders(r) = {} \/ \E x \in Holders(r) : turn[x] # "dropped"

HoldersOK ==
    /\ \A r \in Requests : turn[r] = None => receipt[r] = None /\ intent[r] \notin Active /\ saved[r] \notin Active
    /\ \A x \in Requests : receipt[x] # None => turn[receipt[x]] # None
    /\ \A r \in Requests : intent[r] \in Active \/ saved[r] \in Active => Wanted(r)

LEMMA NoneIsNothingElse ==
    /\ None \notin Requests /\ None \notin Active
    /\ None \notin {"open", "kept", "dropped", "late"}
BY QueueAssumption DEF Active

LEMMA InitHolders == Init => HoldersOK
<1> SUFFICES ASSUME Init PROVE HoldersOK
  OBVIOUS
<1>1. \A r \in Requests : Holders(r) = {}
  BY NoneIsNothingElse DEF Init, Holders
<1> QED BY <1>1, NoneIsNothingElse DEF Init, HoldersOK, Wanted

(* A step that gives no receipt, drops no turn and activates nothing.      *)
LEMMA KeptHolders ==
    ASSUME Types, HoldersOK, UNCHANGED receipt,
           \A x \in Requests : turn'[x] = "dropped" => turn[x] = "dropped",
           \A x \in Requests : turn'[x] = None => turn[x] = None,
           \A x \in Requests : intent'[x] \in Active \/ saved'[x] \in Active
                                  => intent[x] \in Active \/ saved[x] \in Active
    PROVE  HoldersOK'
<1>1. \A r \in Requests : Wanted(r) => Wanted(r)'
  BY DEF Wanted, Holders
<1>2. \A x \in Requests : receipt[x] # None => receipt[x] \in Requests
  BY DEF Types
<1> QED BY <1>1, <1>2 DEF HoldersOK

LEMMA MergeHolders == ASSUME Types, HoldersOK, NEW r \in Requests, Merge(r) PROVE HoldersOK'
<1>1. PICK i \in Same(r) : receipt' = [receipt EXCEPT ![r] = i]
  BY DEF Merge
<1>2. i \in Requests /\ intent[i] \in Active /\ i # None
  BY <1>1, NoneIsNothingElse DEF Same, ActiveIntents
<1>3. /\ turn[r] = None /\ turn' = [turn EXCEPT ![r] = "open"]
      /\ intent' = intent /\ saved' = intent
  BY DEF Merge, Write
<1>4. /\ turn'[r] = "open" /\ \A x \in Requests : x # r => turn'[x] = turn[x]
      /\ receipt'[r] = i /\ \A x \in Requests : x # r => receipt'[x] = receipt[x]
      /\ receipt[r] = None
  BY <1>1, <1>3 DEF Types, HoldersOK
<1>5. turn[i] # None
  BY <1>2, NoneIsNothingElse DEF HoldersOK
<1>6. \A q \in Requests : q # i => Holders(q)' = Holders(q)
  BY <1>4, NoneIsNothingElse DEF Holders
<1>7. \A q \in Requests : intent[q] \in Active => Wanted(q)'
  <2>1. Wanted(i)'
    BY <1>4 DEF Wanted, Holders
  <2>2. ASSUME NEW q \in Requests, q # i, Wanted(q) PROVE Wanted(q)'
    BY <1>4, <1>6, <2>2 DEF Wanted, Holders
  <2> QED BY <2>1, <2>2 DEF HoldersOK
<1>8. \A q \in Requests : turn'[q] = None => receipt'[q] = None /\ intent'[q] \notin Active /\ saved'[q] \notin Active
  BY <1>3, <1>4, NoneIsNothingElse DEF HoldersOK
<1>9. \A x \in Requests : receipt'[x] # None => turn'[receipt'[x]] # None
  <2>1. \A q \in Requests : turn[q] # None => turn'[q] # None
    BY <1>4, NoneIsNothingElse
  <2>2. \A x \in Requests : receipt[x] # None => receipt[x] \in Requests
    BY DEF Types
  <2> QED BY <1>2, <1>4, <1>5, <2>1, <2>2 DEF HoldersOK
<1> QED BY <1>3, <1>7, <1>8, <1>9 DEF HoldersOK

LEMMA EnqueueHolders == ASSUME Types, HoldersOK, NEW r \in Requests, Enqueue(r) PROVE HoldersOK'
<1>1. /\ turn[r] = None /\ receipt[r] = None /\ turn' = [turn EXCEPT ![r] = "open"]
      /\ intent' = [intent EXCEPT ![r] = "queued"] /\ (saved' = intent' \/ saved' = saved)
      /\ receipt' = [receipt EXCEPT ![r] = r] \/ receipt' = receipt
  BY DEF Enqueue, Write, WriteFails, HoldersOK
<1>2. /\ turn'[r] = "open" /\ \A x \in Requests : x # r => turn'[x] = turn[x]
      /\ receipt'[r] \in {r, None} /\ \A x \in Requests : x # r => receipt'[x] = receipt[x]
      /\ \A x \in Requests : x # r => intent'[x] = intent[x]
      /\ \A x \in Requests : saved'[x] \in {intent'[x], saved[x]}
  BY <1>1 DEF Types
<1>3. Holders(r) = {}
  BY <1>1, NoneIsNothingElse DEF Holders, HoldersOK
<1>4. \A x \in Requests : receipt[x] # None => receipt[x] \in Requests
  BY DEF Types
<1>5. Wanted(r)'
  BY <1>2, <1>3, NoneIsNothingElse DEF Wanted, Holders
<1>6. \A q \in Requests : q # r => Holders(q)' = Holders(q)
  BY <1>1, <1>2, NoneIsNothingElse DEF Holders
<1>7. ASSUME NEW q \in Requests, q # r, Wanted(q) PROVE Wanted(q)'
  BY <1>2, <1>3, <1>6, <1>7, <1>1, NoneIsNothingElse DEF Wanted, Holders
<1>8. \A q \in Requests : intent'[q] \in Active \/ saved'[q] \in Active => Wanted(q)'
  BY <1>2, <1>5, <1>7 DEF HoldersOK
<1>9. \A q \in Requests : turn'[q] = None => receipt'[q] = None /\ intent'[q] \notin Active /\ saved'[q] \notin Active
  BY <1>2, NoneIsNothingElse DEF HoldersOK
<1>10. \A x \in Requests : receipt'[x] # None => turn'[receipt'[x]] # None
  <2>1. \A q \in Requests : turn[q] # None => turn'[q] # None
    BY <1>2, NoneIsNothingElse
  <2> QED BY <1>2, <1>4, <2>1, NoneIsNothingElse DEF HoldersOK
<1> QED BY <1>8, <1>9, <1>10 DEF HoldersOK

LEMMA DropHolders == ASSUME Types, HoldersOK, NEW r \in Requests, DropRequest(r) PROVE HoldersOK'
<1> DEFINE i == receipt[r]
<1>1. /\ turn[r] = "open" /\ receipt' = receipt /\ (i = None \/ i \in Requests)
  BY DEF DropRequest, Types
<1>2. CASE WriteFails(Superseded(i)) /\ turn' = [turn EXCEPT ![r] = "kept"]
  <2>1. \A x \in Requests : turn'[x] = "dropped" => turn[x] = "dropped"
    BY <1>2 DEF Types
  <2>2. \A x \in Requests : turn'[x] = None => turn[x] = None
    BY <1>2, NoneIsNothingElse DEF Types
  <2>3. \A x \in Requests : intent'[x] \in {intent[x], "superseded"} /\ saved'[x] = saved[x]
    BY <1>2 DEF WriteFails, Superseded, Types
  <2>4. \A x \in Requests : intent'[x] \in Active \/ saved'[x] \in Active
                              => intent[x] \in Active \/ saved[x] \in Active
    BY <2>3 DEF Active
  <2> QED BY <1>1, <2>1, <2>2, <2>4, KeptHolders
<1>3. CASE Write(intent) /\ Begun(i) /\ turn' = [turn EXCEPT ![r] = "late"]
  <2>1. \A x \in Requests : turn'[x] = "dropped" => turn[x] = "dropped"
    BY <1>3 DEF Types
  <2>2. \A x \in Requests : turn'[x] = None => turn[x] = None
    BY <1>3, NoneIsNothingElse DEF Types
  <2>3. \A x \in Requests : intent'[x] \in Active \/ saved'[x] \in Active => intent[x] \in Active
    BY <1>3 DEF Write
  <2> QED BY <1>1, <2>1, <2>2, <2>3, KeptHolders
<1>4. CASE Write(Superseded(i)) /\ ~Begun(i) /\ turn' = [turn EXCEPT ![r] = "dropped"]
  <2>1. turn'[r] = "dropped" /\ \A x \in Requests : x # r => turn'[x] = turn[x]
    BY <1>4 DEF Types
  <2>2. \A x \in Requests : turn'[x] = None => turn[x] = None /\ x # r
    BY <2>1, NoneIsNothingElse
  <2>3. \A x \in Requests : x # i => intent'[x] = intent[x] /\ saved'[x] = intent[x]
    BY <1>4 DEF Write, Superseded, Types
  <2>4. i \in Requests => intent'[i] \notin Active /\ saved'[i] \notin Active
    BY <1>4, NoneIsNothingElse DEF Write, Superseded, Begun, Types, Active
  <2>5. \A q \in Requests : q # i => r \notin Holders(q)
    BY DEF Holders
  <2>6. ASSUME NEW q \in Requests, q # i, Wanted(q) PROVE Wanted(q)'
    BY <1>1, <2>1, <2>5, <2>6 DEF Wanted, Holders
  <2>7. \A q \in Requests : intent'[q] \in Active \/ saved'[q] \in Active => Wanted(q)'
    BY <2>3, <2>4, <2>6 DEF HoldersOK
  <2>8. \A x \in Requests : receipt'[x] # None => turn'[receipt'[x]] # None
    <3>1. \A x \in Requests : receipt[x] # None => receipt[x] \in Requests
      BY DEF Types
    <3> QED BY <1>1, <2>2, <3>1 DEF HoldersOK
  <2>9. \A x \in Requests : turn[x] = None => x # i
    BY <1>1, NoneIsNothingElse DEF HoldersOK
  <2>10. \A x \in Requests : turn'[x] = None => receipt'[x] = None /\ intent'[x] \notin Active /\ saved'[x] \notin Active
    BY <1>1, <2>2, <2>3, <2>9 DEF HoldersOK
  <2> QED BY <2>7, <2>8, <2>10 DEF HoldersOK
<1>5. Begun(i) \/ i = None => Superseded(i) = intent
  BY DEF Superseded
<1> QED BY <1>2, <1>3, <1>4, <1>5 DEF DropRequest

LEMMA NextHolders == Types /\ HoldersOK /\ [Next]_vars => HoldersOK'
<1> SUFFICES ASSUME Types, HoldersOK, [Next]_vars PROVE HoldersOK'
  OBVIOUS
<1>1. CASE Calls
  <2>1. ASSUME NEW x \in Requests \cup FollowUps, Keep(x) PROVE HoldersOK'
    <3>1. /\ receipt' = receipt /\ intent' = intent /\ saved' = saved
          /\ \A q \in Requests : turn'[q] # turn[q] => turn'[q] = "kept"
      BY <2>1 DEF Keep, Types, journal
    <3> QED BY <3>1, NoneIsNothingElse, KeptHolders
  <2>2. ASSUME NEW f \in FollowUps, ScheduleFollowUp(f) \/ DropFollowUp(f) \/ Mature(f) PROVE HoldersOK'
    <3>1. f \notin Requests
      BY QueueAssumption
    <3>2. /\ receipt' = receipt /\ intent' = intent /\ saved' = saved
          /\ \A q \in Requests : turn'[q] = turn[q]
      BY <2>2, <3>1 DEF ScheduleFollowUp, DropFollowUp, Mature, Types, journal, turns
    <3> QED BY <3>2, KeptHolders
  <2>3. CASE MarkTriggered
    BY <2>3, KeptHolders DEF MarkTriggered, turns, journal
  <2> QED BY <1>1, <2>1, <2>2, <2>3, MergeHolders, EnqueueHolders, DropHolders DEF Calls
<1>2. CASE Hands \/ Surroundings \/ Receive \/ UNCHANGED vars
  <2>1. UNCHANGED <<turn, receipt, intent, saved>>
    BY <1>2 DEF Hands, Forward, TriggerManual, SendManual, ClientLeaves, CheckFollowUps, Surroundings,
                IntervalEnds, GateChanges, Receive, vars, journal, turns
  <2> QED BY <2>1, KeptHolders
<1>3. CASE Scheduler
  <2>1. ASSUME NEW m \in Manuals, StartManual(m) PROVE HoldersOK'
    BY <2>1, KeptHolders DEF StartManual, journal, turns
  <2>2. CASE StartPass
    BY <2>2, KeptHolders DEF StartPass, journal, turns
  <2>3. ASSUME NEW r \in Requests, StartIntent(r) PROVE HoldersOK'
    <3>1. CASE UNCHANGED <<intent, saved>>
      BY <2>3, <3>1, KeptHolders DEF StartIntent, turns
    <3>2. CASE intent[r] = "queued"
      <4>1. intent[r] \in Active
        BY <3>2 DEF Active
      <4>2. WriteOrNot([intent EXCEPT ![r] = "exploring"]) \/ UNCHANGED <<intent, saved>>
        BY <2>3 DEF StartIntent, WriteOrNot
      <4>3. \A x \in Requests : intent'[x] = intent[x] \/ x = r
        BY <4>2 DEF WriteOrNot, Write, WriteFails, Types
      <4>4. \A x \in Requests : saved'[x] \in {intent'[x], saved[x]}
        BY <4>2 DEF WriteOrNot, Write, WriteFails
      <4>5. UNCHANGED <<turn, receipt>>
        BY <2>3 DEF StartIntent, turns
      <4>6. \A x \in Requests : intent'[x] \in Active \/ saved'[x] \in Active
                                  => intent[x] \in Active \/ saved[x] \in Active
        BY <4>1, <4>3, <4>4
      <4> QED BY <4>5, <4>6, KeptHolders
    <3> QED BY <2>3, <3>1, <3>2 DEF StartIntent
  <2> QED BY <1>3, <2>1, <2>2, <2>3 DEF Scheduler
<1>4. CASE End
  <2>1. "failed" \in Ended /\ "superseded" \in Ended
    BY DEF Ended
  <2>2. UNCHANGED <<turn, receipt>>
    BY <1>4 DEF End, Complete, Fail, Yield, Reconnect, turns
  <2>3. ASSUME NEW o \in Ended, Settle(o) PROVE HoldersOK'
    <3>1. CASE WriteOrNot([intent EXCEPT ![running.of] = o])
      <4>1. \A x \in Requests : intent'[x] \in {intent[x], o} /\ saved'[x] \in {intent'[x], saved[x]}
        BY <3>1 DEF WriteOrNot, Write, WriteFails, Types
      <4>2. o \notin Active
        BY DEF Active, Ended
      <4> QED BY <2>2, <4>1, <4>2, KeptHolders
    <3>2. CASE UNCHANGED <<intent, saved>>
      BY <2>2, <3>2, KeptHolders
    <3> QED BY <2>3, <3>1, <3>2 DEF Settle, SettleIntent, SettleManual
  <2>4. CASE Requeue
    BY <2>2, <2>4, KeptHolders DEF Requeue
  <2> QED BY <1>4, <2>1, <2>3, <2>4 DEF End, Complete, Fail, Yield, Reconnect
<1>5. CASE Restart
  <2>1. /\ UNCHANGED receipt
        /\ \A x \in Requests : turn'[x] = IF turn[x] = "open" THEN "kept" ELSE turn[x]
        /\ \A x \in Requests : intent'[x] = saved'[x]
        /\ \A x \in Requests : intent'[x] = IF saved[x] = "exploring" THEN "queued" ELSE saved[x]
    BY <1>5 DEF Restart, Types
  <2>2. \A x \in Requests : intent'[x] \in Active => saved[x] \in Active
    BY <2>1 DEF Active
  <2> QED BY <2>1, <2>2, NoneIsNothingElse, KeptHolders
<1> QED BY <1>1, <1>2, <1>3, <1>4, <1>5, StepGroups

(* What comes to run was queued, and is wanted.                            *)
LEMMA OnlyTheWantedStart ==
    ASSUME HoldersOK, NEW r \in Requests, intent[r] = "queued"
    PROVE  Holders(r) = {} \/ \E x \in Holders(r) : turn[x] # "dropped"
BY DEF HoldersOK, Wanted, Active

-----------------------------------------------------------------------------
(* Where the trigger of a manual run is.                                   *)

Waiting(t) == Times(t, channel) + Times(t, pending)
Waits(m) == Waiting(Of("manual", m))
Sends(m) == IF m \in sending THEN 1 ELSE 0
Runs(m) == IF running = Of("manual", m) THEN 1 ELSE 0
Owes(m) == IF manual[m] \in Active THEN 1 ELSE 0

Owned(m) == Waits(m) + Sends(m) + Runs(m) = Owes(m)

ManualsOK == \A m \in Manuals \ adrift : Owned(m)

LEMMA OfManual ==
    /\ \A m, n : Of("manual", m) = Of("manual", n) <=> m = n
    /\ \A m, r : Of("manual", m) # Of("intent", r)
    /\ \A m : Of("manual", m) \notin {Scheduled, Idle, Of("followUp", None)}
    /\ \A m : Of("manual", m).kind = "manual" /\ Of("manual", m).of = m
BY DEF Of, Scheduled, Idle

LEMMA WaitingType ==
    ASSUME Queues, NEW t
    PROVE  Times(t, channel) \in Nat /\ Times(t, pending) \in Nat /\ Waiting(t) \in Nat
<1>1. Times(t, channel) \in Nat /\ Times(t, pending) \in Nat
  BY HitsAreFinite DEF Queues
<1> QED BY <1>1 DEF Waiting

LEMMA LoadTypes ==
    ASSUME Queues, NEW m
    PROVE  Waits(m) \in Nat /\ Sends(m) \in {0, 1} /\ Runs(m) \in {0, 1} /\ Owes(m) \in {0, 1}
BY WaitingType DEF Waits, Sends, Runs, Owes

LEMMA SendsIsCounted == \A m : Cardinality(sending \cap {m}) = Sends(m)
<1> SUFFICES ASSUME NEW m PROVE Cardinality(sending \cap {m}) = Sends(m)
  OBVIOUS
<1>1. CASE m \in sending
  <2>1. sending \cap {m} = {m}
    BY <1>1
  <2> QED BY <1>1, <2>1, FS_Singleton DEF Sends
<1>2. CASE m \notin sending
  <2>1. sending \cap {m} = {}
    BY <1>2
  <2> QED BY <1>2, <2>1, FS_EmptySet DEF Sends
<1> QED BY <1>1, <1>2

(* A step that moves no manual run, though it may strand some.             *)
LEMMA KeptManuals ==
    ASSUME ManualsOK, adrift \subseteq adrift',
           \A m \in Manuals : Waits(m)' = Waits(m) /\ Sends(m)' = Sends(m)
                              /\ Runs(m)' = Runs(m) /\ Owes(m)' = Owes(m)
    PROVE  ManualsOK'
BY DEF ManualsOK, Owned

(* One that moves m0, and no other.                                        *)
LEMMA OneMoves ==
    ASSUME ManualsOK, adrift \subseteq adrift', NEW m0 \in Manuals,
           \A m \in Manuals : m # m0 => Waits(m)' = Waits(m) /\ Sends(m)' = Sends(m)
                                        /\ Runs(m)' = Runs(m) /\ Owes(m)' = Owes(m),
           Owned(m0) /\ m0 \notin adrift' => Owned(m0)'
    PROVE  ManualsOK'
BY DEF ManualsOK, Owned

(* Another trigger in the channel, at the front of the queue or taken.     *)
LEMMA SendWaiting ==
    ASSUME Queues, NEW x \in Triggers, Send(x), UNCHANGED pending, NEW t
    PROVE  Waiting(t)' = Waiting(t) + Hit(t, x)
<1>1. Times(t, channel') = Times(t, channel) + Hit(t, x)
  BY TimesAppend DEF Queues, Send
<1>2. Hit(t, x) \in Nat
  BY DEF Hit
<1> QED BY <1>1, <1>2, WaitingType DEF Waiting

LEMMA TakenWaiting ==
    ASSUME Queues, Taken, UNCHANGED channel, NEW t, t # Scheduled
    PROVE  Waiting(t) = Waiting(t)' + Hit(t, Front) /\ Waiting(t)' \in Nat
<1>1. Queues'
  BY TakenQueues
<1>2. Times(t, pending') \in Nat /\ Times(t, channel') \in Nat /\ Hit(t, Front) \in Nat
  BY <1>1, HitsAreFinite DEF Queues, Hit
<1>3. CASE pending = <<>>
  <2>1. Hit(t, Front) = 0 /\ pending' = pending
    BY <1>3 DEF Front, Hit, Taken
  <2> QED BY <1>2, <2>1 DEF Waiting
<1>4. CASE pending # <<>>
  <2>1. Times(t, pending) = Times(t, pending') + Hit(t, Front)
    BY <1>4, TimesTail DEF Queues, Taken, Front
  <2> QED BY <1>2, <2>1, WaitingType DEF Waiting
<1> QED BY <1>3, <1>4

LEMMA RequeueWaiting ==
    ASSUME Queues, NEW x \in Triggers, pending' = <<x>> \o pending, UNCHANGED channel, NEW t
    PROVE  Waiting(t)' = Waiting(t) + Hit(t, x)
<1>1. Times(t, pending') = Times(t, pending) + Hit(t, x)
  BY TimesPrepend DEF Queues
<1>2. Hit(t, x) \in Nat
  BY DEF Hit
<1> QED BY <1>1, <1>2, WaitingType DEF Waiting

LEMMA ReceiveWaiting == ASSUME Queues, Receive, NEW t PROVE Waiting(t)' = Waiting(t)
<1>1. PICK h \in Triggers : /\ channel # <<>> /\ h = Head(channel) /\ channel' = Tail(channel)
                            /\ pending' \in {<<h>> \o pending, Append(pending, h)}
  BY ReceiveQueues DEF Receive
<1>2. Times(t, channel) = Times(t, channel') + Hit(t, h)
  BY <1>1, TimesTail DEF Queues
<1>3. Times(t, pending') = Times(t, pending) + Hit(t, h)
  <2>1. Times(t, <<h>> \o pending) = Times(t, pending) + Hit(t, h)
    BY TimesPrepend DEF Queues
  <2>2. Times(t, Append(pending, h)) = Times(t, pending) + Hit(t, h)
    BY TimesAppend DEF Queues
  <2> QED BY <1>1, <2>1, <2>2
<1>4. Times(t, channel') \in Nat /\ Times(t, pending') \in Nat
  BY ReceiveQueues, HitsAreFinite DEF Queues
<1>5. Hit(t, h) \in Nat
  BY DEF Hit
<1> QED BY <1>2, <1>3, <1>4, <1>5, WaitingType DEF Waiting

LEMMA HandManuals == Types /\ Queues /\ ManualsOK /\ Hands => ManualsOK'
<1> SUFFICES ASSUME Types, Queues, ManualsOK, Hands PROVE ManualsOK'
  OBVIOUS
<1>1. ASSUME NEW t \in Triggers, t.kind # "manual", Send(t), UNCHANGED <<pending, sending, running, manual, adrift>>
      PROVE  ManualsOK'
  <2>1. \A m : Hit(Of("manual", m), t) = 0
    BY <1>1, OfManual DEF Hit
  <2>2. \A m \in Manuals : Waits(m)' = Waits(m)
    BY <1>1, <2>1, SendWaiting, LoadTypes DEF Waits
  <2> QED BY <1>1, <2>2, KeptManuals DEF Sends, Runs, Owes
<1>2. ASSUME UNCHANGED <<channel, pending, sending, running, manual, adrift>> PROVE ManualsOK'
  BY <1>2, KeptManuals DEF Waits, Waiting, Sends, Runs, Owes
<1>3. ASSUME NEW r \in Requests, Forward(r) PROVE ManualsOK'
  <2>1. Of("intent", r) \in Triggers /\ Of("intent", r).kind # "manual"
    BY DEF Triggers, Of
  <2> QED BY <1>1, <1>2, <1>3, <2>1 DEF Forward
<1>4. CASE CheckFollowUps
  <2>1. Of("followUp", None) \in Triggers /\ Of("followUp", None).kind # "manual"
    BY DEF Triggers, Of
  <2> QED BY <1>1, <1>4, <2>1 DEF CheckFollowUps
<1>5. ASSUME NEW n \in Manuals, TriggerManual(n) PROVE ManualsOK'
  <2>1. /\ manual[n] = None /\ manual' = [manual EXCEPT ![n] = "queued"]
        /\ sending' = sending \cup {n} /\ UNCHANGED <<channel, pending, running, adrift>>
    BY <1>5 DEF TriggerManual, Accept, Receipt, triggers
  <2>2. \A m \in Manuals : m # n => manual'[m] = manual[m] /\ (m \in sending' <=> m \in sending)
    BY <2>1 DEF Types
  <2>3. \A m \in Manuals : Waits(m)' = Waits(m) /\ Runs(m)' = Runs(m)
    BY <2>1 DEF Waits, Waiting, Runs
  <2>4. Owes(n) = 0 /\ Owes(n)' = 1 /\ Sends(n)' = 1
    BY <2>1, NoneIsNothingElse DEF Owes, Active, Sends, Types
  <2>5. Owned(n) => Owned(n)'
    BY <2>3, <2>4, LoadTypes DEF Owned
  <2> QED BY <2>1, <2>2, <2>3, <2>5, OneMoves DEF Sends, Owes
<1>6. ASSUME NEW n \in Manuals, SendManual(n) PROVE ManualsOK'
  <2>1. n \in sending /\ sending' = sending \ {n} /\ UNCHANGED <<pending, running, adrift>>
    BY <1>6 DEF SendManual
  <2>2. \A m \in Manuals : Runs(m)' = Runs(m) /\ (m # n => Sends(m)' = Sends(m))
    BY <2>1 DEF Runs, Sends
  <2>3. Sends(n) = 1 /\ Sends(n)' = 0
    BY <2>1 DEF Sends
  <2>4. CASE Send(Of("manual", n)) /\ UNCHANGED manual
    <3>1. \A m \in Manuals : Waits(m)' = Waits(m) + Hit(Of("manual", m), Of("manual", n))
      BY <2>1, <2>4, SendWaiting, TriggersOf DEF Waits
    <3>2. \A m \in Manuals : Hit(Of("manual", m), Of("manual", n)) = IF m = n THEN 1 ELSE 0
      BY OfManual DEF Hit
    <3>3. \A m \in Manuals : m # n => Waits(m)' = Waits(m)
      BY <3>1, <3>2, LoadTypes
    <3>4. Waits(n)' = Waits(n) + 1
      BY <3>1, <3>2
    <3>5. \A m \in Manuals : Owes(m)' = Owes(m)
      BY <2>4 DEF Owes
    <3>6. Owned(n) => Owned(n)'
      BY <2>2, <2>3, <3>4, <3>5, LoadTypes DEF Owned
    <3> QED BY <2>1, <2>2, <3>3, <3>5, <3>6, OneMoves
  <2>5. CASE Fails(n) /\ UNCHANGED channel
    <3>1. /\ manual'[n] \notin Active /\ \A m \in Manuals : m # n => manual'[m] = manual[m]
      BY <2>5 DEF Fails, Receipt, Types, Active
    <3>2. \A m \in Manuals : Waits(m)' = Waits(m)
      BY <2>1, <2>5 DEF Waits, Waiting
    <3>3. Owes(n)' = 0 /\ \A m \in Manuals : m # n => Owes(m)' = Owes(m)
      BY <3>1 DEF Owes
    <3>4. Owned(n) => Owned(n)'
      BY <2>2, <2>3, <3>2, <3>3, LoadTypes DEF Owned
    <3> QED BY <2>1, <2>2, <3>2, <3>3, <3>4, OneMoves
  <2> QED BY <1>6, <2>4, <2>5 DEF SendManual
<1>7. ASSUME NEW n \in Manuals, ClientLeaves(n) PROVE ManualsOK'
  <2>1. /\ sending' = sending \ {n} /\ adrift' = adrift \cup {n}
        /\ UNCHANGED <<channel, pending, running, manual>>
    BY <1>7 DEF ClientLeaves, triggers
  <2> QED BY <2>1, OneMoves DEF Waits, Waiting, Sends, Runs, Owes
<1> QED BY <1>3, <1>4, <1>5, <1>6, <1>7 DEF Hands

LEMMA SchedulerManuals == Types /\ Queues /\ ManualsOK /\ Scheduler => ManualsOK'
<1> SUFFICES ASSUME Types, Queues, ManualsOK, Scheduler PROVE ManualsOK'
  OBVIOUS
<1>1. /\ running = Idle /\ Taken /\ UNCHANGED <<channel, sending>> /\ adrift \subseteq adrift'
      /\ running' \in {Front, Idle}
  BY DEF Scheduler, StartPass, StartManual, Unwritten, StartIntent
<1>2. \A m \in Manuals : Waits(m) = Waits(m)' + Hit(Of("manual", m), Front)
  BY <1>1, TakenWaiting, OfManual DEF Waits
<1>3. \A m \in Manuals : Sends(m)' = Sends(m) /\ Runs(m) = 0
  BY <1>1, OfManual DEF Sends, Runs
<1>4. \A m \in Manuals : Waits(m)' \in Nat
  BY <1>1, TakenWaiting, OfManual DEF Waits
<1>5. ASSUME UNCHANGED manual, \A m \in Manuals : Front # Of("manual", m) PROVE ManualsOK'
  <2>1. \A m \in Manuals : Hit(Of("manual", m), Front) = 0 /\ Runs(m)' = 0 /\ Owes(m)' = Owes(m)
    BY <1>1, <1>5, OfManual DEF Hit, Runs, Owes
  <2>2. \A m \in Manuals : Waits(m)' = Waits(m)
    BY <1>2, <1>4, <2>1
  <2> QED BY <1>1, <1>3, <2>1, <2>2, KeptManuals
<1>6. ASSUME NEW n \in Manuals, StartManual(n) PROVE ManualsOK'
  <2>1. Front = Of("manual", n)
    BY <1>6 DEF StartManual
  <2>2. \A m \in Manuals : Hit(Of("manual", m), Front) = IF m = n THEN 1 ELSE 0
    BY <2>1, OfManual DEF Hit
  <2>3. Waits(n) = Waits(n)' + 1
    BY <1>2, <2>2
  <2>4. \A m \in Manuals : m # n => Waits(m)' = Waits(m)
    BY <1>2, <1>4, <2>2
  <2>5. \A m \in Manuals : m # n => Runs(m)' = 0
    BY <1>1, <2>1, OfManual DEF Runs
  <2>6. CASE running' = Front /\ Explores(n)
    <3>1. manual'[n] \in Active /\ \A m \in Manuals : m # n => manual'[m] = manual[m]
      BY <2>6 DEF Explores, Receipt, Types, Active
    <3>2. Owes(n)' = 1 /\ \A m \in Manuals : m # n => Owes(m)' = Owes(m)
      BY <3>1 DEF Owes
    <3>3. Runs(n)' = 1
      BY <2>1, <2>6 DEF Runs
    <3>4. Owned(n) => Owned(n)'
      BY <1>3, <1>4, <2>3, <3>2, <3>3, LoadTypes DEF Owned
    <3> QED BY <1>1, <1>3, <2>4, <2>5, <3>2, <3>4, OneMoves
  <2>7. CASE Unwritten(n) /\ UNCHANGED running
    <3>1. /\ manual'[n] \notin Active \/ n \in adrift'
          /\ \A m \in Manuals : m # n => manual'[m] = manual[m]
      BY <2>7 DEF Unwritten, Fails, Receipt, Types, Active
    <3>2. (n \notin adrift' => Owes(n)' = 0) /\ \A m \in Manuals : m # n => Owes(m)' = Owes(m)
      BY <3>1 DEF Owes
    <3>3. Runs(n)' = 0
      BY <1>1, <2>7, OfManual DEF Runs
    <3>4. Owned(n) /\ n \notin adrift' => Owned(n)'
      BY <1>3, <1>4, <2>3, <3>2, <3>3, LoadTypes DEF Owned
    <3> QED BY <1>1, <1>3, <2>4, <2>5, <3>2, <3>4, OneMoves
  <2> QED BY <1>6, <2>6, <2>7 DEF StartManual
<1>7. CASE StartPass
  <2>1. Front.kind # "manual" /\ UNCHANGED manual
    BY <1>7 DEF StartPass
  <2> QED BY <1>5, <2>1, OfManual
<1>8. ASSUME NEW r \in Requests, StartIntent(r) PROVE ManualsOK'
  <2>1. Front = Of("intent", r) /\ UNCHANGED manual
    BY <1>8 DEF StartIntent
  <2> QED BY <1>5, <2>1, OfManual
<1> QED BY <1>6, <1>7, <1>8 DEF Scheduler

(* A pass that ends, whatever it was for.                                  *)
LEMMA SettleManuals ==
    ASSUME Types, Queues, ManualsOK, NEW o \in Ended, Settle(o), running' = Idle,
           UNCHANGED <<channel, pending, sending>>
    PROVE  ManualsOK'
<1>1. \A m \in Manuals : Waits(m)' = Waits(m) /\ Sends(m)' = Sends(m) /\ Runs(m)' = 0
  BY OfManual DEF Waits, Waiting, Sends, Runs
<1>2. CASE running.kind = "manual"
  <2>1. PICK n \in Manuals : n = running.of /\ running = Of("manual", n)
    BY <1>2, KindsOf DEF Types
  <2>2. SettleManual(o)
    BY <1>2 DEF Settle
  <2>3. Runs(n) = 1 /\ \A m \in Manuals : m # n => Runs(m) = 0
    BY <2>1, OfManual DEF Runs
  <2>4. /\ manual'[n] \notin Active \/ n \in adrift'
        /\ \A m \in Manuals : m # n => manual'[m] = manual[m]
        /\ adrift \subseteq adrift'
    BY <2>1, <2>2 DEF SettleManual, Completes, Unwritten, Fails, Receipt, Types, Active, Ended
  <2>5. (n \notin adrift' => Owes(n)' = 0) /\ \A m \in Manuals : m # n => Owes(m)' = Owes(m)
    BY <2>4 DEF Owes
  <2>6. Owned(n) /\ n \notin adrift' => Owned(n)'
    BY <1>1, <2>1, <2>3, <2>5, LoadTypes DEF Owned
  <2> QED BY <1>1, <2>1, <2>3, <2>4, <2>5, <2>6, OneMoves
<1>3. CASE running.kind # "manual"
  <2>1. \A m \in Manuals : Runs(m) = 0
    BY <1>3, OfManual DEF Runs
  <2>2. UNCHANGED <<manual, adrift>>
    BY <1>3 DEF Settle, SettleIntent
  <2> QED BY <1>1, <2>1, <2>2, KeptManuals DEF Owes
<1> QED BY <1>2, <1>3

LEMMA RequeueManuals ==
    ASSUME Types, Queues, ManualsOK, Requeue, running' = Idle, UNCHANGED <<channel, sending>>
    PROVE  ManualsOK'
<1>1. PICK n \in Manuals : n = running.of /\ running = Of("manual", n) /\ running \in Triggers
  BY KindsOf, TriggersOf DEF Requeue, Types
<1>2. /\ UNCHANGED adrift
      /\ \/ Receipt(n, "queued") /\ pending' = <<running>> \o pending
         \/ Receipt(n, "failed") /\ UNCHANGED pending
  BY <1>1 DEF Requeue, Requeued, Fails
<1>3. \A m \in Manuals : Sends(m)' = Sends(m) /\ Runs(m)' = 0
  BY OfManual DEF Sends, Runs
<1>4. Runs(n) = 1 /\ \A m \in Manuals : m # n => Runs(m) = 0
  BY <1>1, OfManual DEF Runs
<1>5. \A m \in Manuals : m # n => Owes(m)' = Owes(m)
  BY <1>2 DEF Owes, Receipt, Types
<1>6. CASE Receipt(n, "queued") /\ pending' = <<running>> \o pending
  <2>1. \A m \in Manuals : Waits(m)' = Waits(m) + Hit(Of("manual", m), running)
    BY <1>1, <1>6, RequeueWaiting DEF Waits
  <2>2. \A m \in Manuals : Hit(Of("manual", m), running) = IF m = n THEN 1 ELSE 0
    BY <1>1, OfManual DEF Hit
  <2>3. Waits(n)' = Waits(n) + 1
    BY <1>1, <2>1, <2>2, LoadTypes
  <2>4. \A m \in Manuals : m # n => Waits(m)' = Waits(m)
    BY <2>1, <2>2, LoadTypes
  <2>5. Owes(n)' = 1
    BY <1>1, <1>6 DEF Owes, Receipt, Types, Active
  <2>6. Owned(n) => Owned(n)'
    <3>1. Owes(n) \in {0, 1} /\ Sends(n) \in {0, 1} /\ Waits(n) \in Nat
      BY LoadTypes
    <3> QED BY <1>1, <1>3, <1>4, <2>3, <2>5, <3>1 DEF Owned
  <2> QED BY <1>1, <1>2, <1>3, <1>4, <1>5, <2>4, <2>6, OneMoves
<1>7. CASE Receipt(n, "failed") /\ UNCHANGED pending
  <2>1. \A m \in Manuals : Waits(m)' = Waits(m)
    BY <1>7 DEF Waits, Waiting
  <2>2. Owes(n)' = 0
    BY <1>1, <1>7 DEF Owes, Receipt, Types, Active
  <2>3. Owned(n) => Owned(n)'
    <3>1. Owes(n) \in {0, 1} /\ Sends(n) \in {0, 1} /\ Waits(n) \in Nat
      BY LoadTypes
    <3> QED BY <1>1, <1>3, <1>4, <2>1, <2>2, <3>1 DEF Owned
  <2> QED BY <1>1, <1>2, <1>3, <1>4, <1>5, <2>1, <2>3, OneMoves
<1> QED BY <1>2, <1>6, <1>7

LEMMA RestartManuals == ASSUME Types, Restart PROVE ManualsOK'
<1>1. /\ channel' = <<>> /\ pending' = <<>> /\ sending' = {} /\ running' = Idle
      /\ \A m \in Manuals : manual'[m] \notin Active
  BY DEF Restart, Recovered, Active
<1>2. \A m \in Manuals : Waits(m)' = 0 /\ Sends(m)' = 0 /\ Runs(m)' = 0 /\ Owes(m)' = 0
  BY <1>1, TimesInNothing, OfManual DEF Waits, Waiting, Sends, Runs, Owes
<1> QED BY <1>2 DEF ManualsOK, Owned

LEMMA InitManuals == Init => ManualsOK
<1> SUFFICES ASSUME Init PROVE ManualsOK
  OBVIOUS
<1>1. \A m \in Manuals : Waits(m) = 0 /\ Sends(m) = 0 /\ Runs(m) = 0 /\ Owes(m) = 0
  BY TimesInNothing, OfManual, NoneIsNothingElse DEF Init, Waits, Waiting, Sends, Runs, Owes
<1> QED BY <1>1 DEF ManualsOK, Owned

LEMMA NextManuals == Types /\ Queues /\ ManualsOK /\ [Next]_vars => ManualsOK'
<1> SUFFICES ASSUME Types, Queues, ManualsOK, [Next]_vars PROVE ManualsOK'
  OBVIOUS
<1>1. CASE Calls \/ Surroundings \/ UNCHANGED vars
  <2>1. UNCHANGED <<channel, pending, sending, running, manual>> /\ adrift \subseteq adrift'
    BY <1>1 DEF Calls, Merge, Enqueue, DropRequest, Keep, ScheduleFollowUp, DropFollowUp, Mature, MarkTriggered,
                Surroundings, IntervalEnds, GateChanges, vars, triggers
  <2> QED BY <2>1, KeptManuals DEF Waits, Waiting, Sends, Runs, Owes
<1>2. CASE Receive
  <2>1. UNCHANGED <<sending, running, manual, adrift>>
    BY <1>2 DEF Receive
  <2> QED BY <1>2, <2>1, ReceiveWaiting, KeptManuals DEF Waits, Sends, Runs, Owes
<1>3. CASE End
  <2>1. "failed" \in Ended /\ "superseded" \in Ended
    BY DEF Ended
  <2>2. running' = Idle /\ UNCHANGED <<channel, sending>>
    BY <1>3 DEF End, Complete, Fail, Yield, Reconnect, triggers
  <2>3. CASE (\E o \in Ended : Settle(o)) /\ UNCHANGED pending
    BY <2>2, <2>3, SettleManuals
  <2>4. CASE Requeue
    BY <2>2, <2>4, RequeueManuals
  <2> QED BY <1>3, <2>1, <2>3, <2>4 DEF End, Complete, Fail, Yield, Reconnect, triggers
<1>4. CASE Restart
  BY <1>4, RestartManuals
<1> QED BY <1>1, <1>2, <1>3, <1>4, StepGroups, HandManuals, SchedulerManuals

LEMMA ManualsParts == ManualsOK <=> ManualRunsAreOwned
<1>1. \A m \in Manuals : m \in Unfinished <=> manual[m] \in Active
  BY DEF Unfinished
<1> QED BY <1>1, SendsIsCounted DEF ManualsOK, Owned, Waits, Waiting, Runs, Owes, ManualRunsAreOwned

-----------------------------------------------------------------------------
(* Where the trigger of an intent is.                                      *)

OnItsWay(r) ==
    /\ intent[r] = "queued" => r \in ripening \/ Waiting(Of("intent", r)) > 0
    /\ intent[r] = "exploring" => running = Of("intent", r)

IntentsOK == \A r \in Requests \ adrift : OnItsWay(r)

LEMMA OfIntent ==
    /\ \A q, r : Of("intent", q) = Of("intent", r) <=> q = r
    /\ \A r, m : Of("intent", r) # Of("manual", m)
    /\ \A r : Of("intent", r) \notin {Scheduled, Idle, Of("followUp", None)}
    /\ \A r : Of("intent", r).kind = "intent" /\ Of("intent", r).of = r
BY DEF Of, Scheduled, Idle

(* A step that takes no trigger of an intent, and starts none.             *)
LEMMA KeptIntents ==
    ASSUME IntentsOK, adrift \subseteq adrift', running' = running \/ running.kind # "intent",
           \A r \in Requests \ adrift' :
              /\ intent'[r] = "queued" =>
                    \/ r \in ripening'
                    \/ /\ intent[r] = "queued"
                       /\ r \in ripening \/ Waiting(Of("intent", r)) > 0
                             => r \in ripening' \/ Waiting(Of("intent", r))' > 0
              /\ intent'[r] = "exploring" => intent[r] = "exploring"
    PROVE  IntentsOK'
BY OfIntent DEF IntentsOK, OnItsWay

LEMMA MoreWaits ==
    ASSUME Queues, NEW x \in Triggers, NEW t,
           \/ Send(x) /\ UNCHANGED pending
           \/ pending' = <<x>> \o pending /\ UNCHANGED channel
    PROVE  (Waiting(t) > 0 \/ x = t) => Waiting(t)' > 0
<1>1. Waiting(t)' = Waiting(t) + Hit(t, x)
  BY SendWaiting, RequeueWaiting
<1>2. Waiting(t) \in Nat /\ Hit(t, x) \in {0, 1} /\ (x = t => Hit(t, x) = 1)
  BY WaitingType DEF Hit
<1> QED BY <1>1, <1>2

LEMMA CallIntents == Types /\ Queues /\ IntentsOK /\ Calls => IntentsOK'
<1> SUFFICES ASSUME Types, Queues, IntentsOK, Calls PROVE IntentsOK'
  OBVIOUS
<1>1. UNCHANGED <<channel, pending, running>> /\ adrift \subseteq adrift' /\ ripening \subseteq ripening'
  BY DEF Calls, Merge, Enqueue, DropRequest, Keep, ScheduleFollowUp, DropFollowUp, Mature, MarkTriggered,
         triggers, journal
<1>2. \A t : Waiting(t)' = Waiting(t)
  BY <1>1 DEF Waiting
<1>3. \A r \in Requests \ adrift' :
         /\ intent'[r] = "queued" => intent[r] = "queued" \/ r \in ripening'
         /\ intent'[r] = "exploring" => intent[r] = "exploring"
  <2>1. ASSUME NEW q \in Requests, Enqueue(q)
        PROVE  /\ intent' = [intent EXCEPT ![q] = "queued"]
               /\ q \in ripening' \/ q \in adrift'
    BY <2>1 DEF Enqueue, Write, WriteFails
  <2>2. ASSUME NEW q \in Requests, DropRequest(q)
        PROVE  \A r \in Requests : intent'[r] \in {intent[r], "superseded"}
    BY <2>2 DEF DropRequest, Write, WriteFails, Superseded, Types
  <2>3. \/ \E q \in Requests : Enqueue(q) \/ DropRequest(q)
        \/ UNCHANGED intent
    BY DEF Calls, Merge, Write, Keep, ScheduleFollowUp, DropFollowUp, Mature, MarkTriggered, journal
  <2> QED BY <2>1, <2>2, <2>3 DEF Types
<1> QED BY <1>1, <1>2, <1>3, KeptIntents

LEMMA HandIntents == Types /\ Queues /\ IntentsOK /\ (Hands \/ Receive) => IntentsOK'
<1> SUFFICES ASSUME Types, Queues, IntentsOK, Hands \/ Receive PROVE IntentsOK'
  OBVIOUS
<1>1. UNCHANGED <<intent, running>> /\ adrift \subseteq adrift'
  BY DEF Hands, Forward, TriggerManual, SendManual, ClientLeaves, CheckFollowUps, Receive, journal
<1>2. CASE UNCHANGED ripening
  <2>1. \/ UNCHANGED <<channel, pending>>
        \/ UNCHANGED pending /\ \E x \in Triggers : Send(x)
        \/ Receive
        \/ \E r \in Requests : Forward(r)
    BY TriggersOf DEF Hands, TriggerManual, SendManual, ClientLeaves, CheckFollowUps, triggers
  <2>2. ASSUME NEW r \in Requests, Forward(r)
        PROVE  \/ UNCHANGED <<channel, pending>>
               \/ UNCHANGED pending /\ \E x \in Triggers : Send(x)
    BY <2>2, TriggersOf DEF Forward
  <2>3. CASE UNCHANGED <<channel, pending>>
    BY <1>1, <1>2, <2>3, KeptIntents DEF Waiting
  <2>4. CASE UNCHANGED pending /\ \E x \in Triggers : Send(x)
    <3>1. \A t : Waiting(t) > 0 => Waiting(t)' > 0
      BY <2>4, MoreWaits
    <3> QED BY <1>1, <1>2, <3>1, KeptIntents
  <2>5. CASE Receive
    <3>1. \A t : Waiting(t)' = Waiting(t)
      BY <2>5, ReceiveWaiting
    <3> QED BY <1>1, <1>2, <3>1, KeptIntents
  <2> QED BY <2>1, <2>2, <2>3, <2>4, <2>5
<1>3. ASSUME NEW q \in Requests, Forward(q) PROVE IntentsOK'
  <2>1. ripening' = ripening \ {q} /\ UNCHANGED pending
    BY <1>3 DEF Forward
  <2>2. CASE intent[q] = "queued" /\ Send(Of("intent", q))
    <3>1. \A r \in Requests : Waiting(Of("intent", r)) > 0 \/ r = q => Waiting(Of("intent", r))' > 0
      BY <2>1, <2>2, MoreWaits, TriggersOf, OfIntent
    <3>2. \A r \in Requests : r # q => (r \in ripening => r \in ripening')
      BY <2>1
    <3> QED BY <1>1, <3>1, <3>2, KeptIntents
  <2>3. CASE intent[q] # "queued" /\ UNCHANGED channel
    <3>1. \A t : Waiting(t)' = Waiting(t)
      BY <2>1, <2>3 DEF Waiting
    <3>2. \A r \in Requests : intent[r] = "queued" => (r \in ripening => r \in ripening')
      BY <2>1, <2>3
    <3> QED BY <1>1, <3>1, <3>2, KeptIntents
  <2> QED BY <1>3, <2>2, <2>3 DEF Forward
<1>4. UNCHANGED ripening \/ \E q \in Requests : Forward(q)
  BY DEF Hands, TriggerManual, SendManual, ClientLeaves, CheckFollowUps, Receive, journal
<1> QED BY <1>2, <1>3, <1>4

LEMMA SchedulerIntents == Types /\ Queues /\ IntentsOK /\ Scheduler => IntentsOK'
<1> SUFFICES ASSUME Types, Queues, IntentsOK, Scheduler PROVE IntentsOK'
  OBVIOUS
<1>1. /\ running = Idle /\ Taken /\ UNCHANGED <<channel, ripening>> /\ adrift \subseteq adrift'
  BY DEF Scheduler, StartPass, StartManual, Unwritten, StartIntent, journal
<1>2. \A r \in Requests \ adrift : intent[r] # "exploring"
  BY <1>1, OfIntent DEF IntentsOK, OnItsWay
<1>3. \A r \in Requests : Front # Of("intent", r) /\ Waiting(Of("intent", r)) > 0 => Waiting(Of("intent", r))' > 0
  <2> SUFFICES ASSUME NEW r \in Requests, Front # Of("intent", r), Waiting(Of("intent", r)) > 0
               PROVE  Waiting(Of("intent", r))' > 0
    OBVIOUS
  <2>1. Hit(Of("intent", r), Front) = 0
    BY DEF Hit
  <2> QED BY <1>1, <2>1, TakenWaiting, OfIntent
<1>4. running.kind # "intent"
  BY <1>1 DEF Idle, Of
<1>5. CASE UNCHANGED intent /\ \A r \in Requests : Front # Of("intent", r)
  BY <1>1, <1>3, <1>4, <1>5, KeptIntents
<1>6. ASSUME NEW q \in Requests, StartIntent(q) PROVE IntentsOK'
  <2>1. Front = Of("intent", q) /\ \A r \in Requests : r # q => Front # Of("intent", r)
    BY <1>6, OfIntent DEF StartIntent
  <2>2. \A r \in Requests : r # q => intent'[r] = intent[r]
    BY <1>6 DEF StartIntent, Write, WriteFails, Types
  <2>3. \/ intent'[q] = "exploring" /\ running' = Of("intent", q)
        \/ q \in adrift'
        \/ intent'[q] = intent[q] /\ intent[q] # "queued"
    BY <1>6 DEF StartIntent, Write, Types
  <2>4. OnItsWay(q)' \/ q \in adrift'
    BY <1>1, <1>2, <2>3 DEF OnItsWay
  <2>5. \A r \in Requests \ adrift' : r # q => OnItsWay(r)'
    BY <1>1, <1>2, <1>3, <2>1, <2>2 DEF IntentsOK, OnItsWay
  <2> QED BY <2>4, <2>5 DEF IntentsOK
<1>7. ASSUME NEW m \in Manuals, StartManual(m) PROVE UNCHANGED intent /\ Front = Of("manual", m)
  BY <1>7 DEF StartManual, journal
<1>8. CASE StartPass
  <2>1. UNCHANGED intent /\ Front.kind # "intent"
    BY <1>8 DEF StartPass, journal
  <2> QED BY <1>5, <2>1, OfIntent
<1> QED BY <1>5, <1>6, <1>7, <1>8, OfIntent DEF Scheduler

LEMMA SettleIntents ==
    ASSUME Types, Queues, IntentsOK, NEW o \in Ended, Settle(o), running' = Idle,
           UNCHANGED <<channel, pending, ripening>>
    PROVE  IntentsOK'
<1>1. \A t : Waiting(t)' = Waiting(t)
  BY DEF Waiting
<1>2. adrift \subseteq adrift'
  BY DEF Settle, SettleIntent, SettleManual, Unwritten
<1>3. CASE running.kind = "intent"
  <2>1. PICK q \in Requests : q = running.of /\ running = Of("intent", q)
    BY <1>3, KindsOf DEF Types
  <2>2. intent' = [intent EXCEPT ![q] = o]
    BY <1>3, <2>1 DEF Settle, SettleIntent, WriteOrNot, Write, WriteFails
  <2>3. intent'[q] \notin Active /\ \A r \in Requests : r # q => intent'[r] = intent[r]
    BY <2>2 DEF Types, Active, Ended
  <2>4. \A r \in Requests \ adrift' : r # q => intent[r] # "exploring"
    BY <1>2, <2>1, OfIntent DEF IntentsOK, OnItsWay
  <2>5. ASSUME NEW r \in Requests \ adrift' PROVE OnItsWay(r)'
    <3>1. OnItsWay(r)
      BY <1>2, <2>5 DEF IntentsOK
    <3>2. Waiting(Of("intent", r))' = Waiting(Of("intent", r))
      BY <1>1
    <3> QED BY <2>3, <2>4, <3>1, <3>2 DEF OnItsWay, Active
  <2> QED BY <2>5 DEF IntentsOK
<1>4. CASE running.kind # "intent"
  <2>1. UNCHANGED intent
    BY <1>4 DEF Settle, SettleManual
  <2> QED BY <1>1, <1>2, <1>4, <2>1, KeptIntents
<1> QED BY <1>3, <1>4

LEMMA RequeueIntents ==
    ASSUME Types, Queues, IntentsOK, Requeue, UNCHANGED <<channel, ripening>>
    PROVE  IntentsOK'
<1>1. running \in Triggers /\ running.kind = "manual" /\ UNCHANGED <<intent, adrift>>
  BY KindsOf, TriggersOf DEF Requeue, Types
<1>2. \A t : Waiting(t) > 0 => Waiting(t)' > 0
  <2>1. CASE UNCHANGED pending
    BY <2>1 DEF Waiting
  <2>2. CASE pending' = <<running>> \o pending
    BY <1>1, <2>2, MoreWaits
  <2> QED BY <2>1, <2>2 DEF Requeue
<1> QED BY <1>1, <1>2, KeptIntents

LEMMA NextIntents == Types /\ Queues /\ IntentsOK /\ [Next]_vars => IntentsOK'
<1> SUFFICES ASSUME Types, Queues, IntentsOK, [Next]_vars PROVE IntentsOK'
  OBVIOUS
<1>1. CASE Surroundings \/ UNCHANGED vars
  <2>1. UNCHANGED <<channel, pending, ripening, running, intent, adrift>>
    BY <1>1 DEF Surroundings, IntervalEnds, GateChanges, vars, triggers, journal
  <2> QED BY <2>1, KeptIntents DEF Waiting
<1>2. CASE End
  <2>1. "failed" \in Ended /\ "superseded" \in Ended
    BY DEF Ended
  <2>2. running' = Idle /\ UNCHANGED <<channel, ripening>>
    BY <1>2 DEF End, Complete, Fail, Yield, Reconnect, triggers
  <2>3. CASE (\E o \in Ended : Settle(o)) /\ UNCHANGED pending
    BY <2>2, <2>3, SettleIntents
  <2>4. CASE Requeue
    BY <2>2, <2>4, RequeueIntents
  <2> QED BY <1>2, <2>1, <2>3, <2>4 DEF End, Complete, Fail, Yield, Reconnect, triggers
<1>3. CASE Restart
  <2>1. \A r \in Requests : intent'[r] # "exploring" /\ (intent'[r] = "queued" => r \in ripening')
    BY <1>3 DEF Restart
  <2> QED BY <2>1 DEF IntentsOK, OnItsWay
<1> QED BY <1>1, <1>2, <1>3, StepGroups, CallIntents, HandIntents, SchedulerIntents

-----------------------------------------------------------------------------
(* The inductive invariant.                                                *)

IInv == Types /\ Queues /\ JournalOK /\ HoldersOK /\ ManualsOK /\ IntentsOK

LEMMA InitIInv == Init => IInv
<1> SUFFICES ASSUME Init PROVE IInv
  OBVIOUS
<1>1. JournalOK
  <2>1. ActiveIn(intent) = {} /\ ActiveIn(saved) = {} /\ ActiveIntents = {}
    BY NoneIsNothingElse DEF Init, ActiveIn, ActiveIntents
  <2> QED BY <2>1, FS_EmptySet, BoundsArePositive DEF JournalOK, IntentsSurviveRestarts
<1>2. IntentsOK
  BY NoneIsNothingElse DEF Init, IntentsOK, OnItsWay, Active
<1> QED BY <1>1, <1>2, InitTypes, InitHolders, InitManuals DEF IInv

LEMMA NextIInv == IInv /\ [Next]_vars => IInv'
BY NextTypes, NextQueues, NextJournal, NextHolders, NextManuals, NextIntents DEF IInv

LEMMA IInvSuffices ==
    IInv => TypeOK /\ ManualRunsAreOwned /\ IntentsAreOnTheirWay /\ IntentsSurviveRestarts
<1> SUFFICES ASSUME IInv PROVE TypeOK /\ ManualRunsAreOwned /\ IntentsAreOnTheirWay /\ IntentsSurviveRestarts
  OBVIOUS
<1>1. TypeOK
  BY TypeOKParts DEF IInv, JournalOK, ActiveIn, ActiveIntents
<1>2. IntentsAreOnTheirWay
  BY DEF IInv, IntentsOK, OnItsWay, Waiting, IntentsAreOnTheirWay
<1> QED BY <1>1, <1>2, ManualsParts DEF IInv, JournalOK

\* Whatever was asked for is neither lost nor run twice, through refusals, yields, failed
\* writes and restarts, and what only dropped turns asked for never starts
\* (exploration.rs, exploration/intent.rs, exploration/manual_run.rs).
THEOREM ExplorationsAreOwned == Spec => RunsAreOwned
<1> DEFINE Good == TypeOK /\ ManualRunsAreOwned /\ IntentsAreOnTheirWay /\ IntentsSurviveRestarts
           Starts == \A r \in Requests :
                        intent[r] = "queued" /\ intent'[r] = "exploring"
                            => \/ Holders(r) = {}
                               \/ \E x \in Holders(r) : turn[x] # "dropped"
<1>1. IInv => Good /\ Starts
  BY IInvSuffices, OnlyTheWantedStart DEF IInv
<1>2. RunsAreOwned <=> []Good /\ [][Starts]_vars
  BY DEF RunsAreOwned, DroppedIntentsNeverStart
<1> HIDE DEF Good, Starts
<1> QED BY <1>1, <1>2, InitIInv, NextIInv, PTL DEF Spec
=============================================================================
