--------------------------- MODULE PermissionProofs ---------------------------
(***************************************************************************)
(* The promises of the permission broker for every set of requests, keys   *)
(* and drafts.                                                             *)
(***************************************************************************)
EXTENDS Permission, TLAPS

(* What a delivered decision was allowed to be, and where its request is.    *)
DeliveredOK(r) ==
    /\ channel[r] = delivered[r]
    /\ delivered[r] # None =>
         /\ r \in Interactive
         /\ Allowed(r, delivered[r])
         /\ r \notin pending
         /\ pc[r] \in {"waiting", "polled", "expired", "done"}

(* What a finished request returned.                                         *)
ReturnedOK(r) ==
    /\ pc[r] \in {"checked", "waiting", "polled", "expired"} => r \in Interactive
    /\ pc[r] # "done" => outcome[r].decision = None
    /\ pc[r] = "done" =>
         \/ outcome[r] = [decision |-> delivered[r], source |-> "user"] /\ delivered[r] # None
         \/ outcome[r] = [decision |-> "decline", source |-> "timeout"]
         \/ outcome[r] = [decision |-> "decline", source |-> "backgroundPolicy"] /\ delivered[r] = None
         \/ /\ outcome[r] = [decision |-> "acceptForSession", source |-> "sessionGrant"]
            /\ delivered[r] = None
            /\ KeyOf[r] \in grants

IInv ==
    /\ TypeOK
    /\ GrantsComeFromTheUser
    /\ PendingIsExact
    /\ \A r \in Requests : DeliveredOK(r) /\ ReturnedOK(r)

LEMMA InitIInv == Init => IInv
BY DEF Init, IInv, TypeOK, GrantsComeFromTheUser, PendingIsExact, DeliveredOK, ReturnedOK,
       Stages, Decisions, Sources, None, ReceiverAlive

(* A request that returns keeps every other request as it was.               *)
LEMMA ReturnEffect ==
    ASSUME TypeOK, NEW r \in Requests, NEW d, NEW s, Return(r, d, s)
    PROVE  /\ pc'[r] = "done" /\ outcome'[r] = [decision |-> d, source |-> s]
           /\ \A q \in Requests \ {r} : pc'[q] = pc[q] /\ outcome'[q] = outcome[q]
BY DEF Return, TypeOK

LEMMA NextType == TypeOK /\ [Next]_vars => TypeOK'
<1> SUFFICES ASSUME TypeOK, [Next]_vars PROVE TypeOK'
  OBVIOUS
<1>1. ASSUME NEW r \in Requests, NEW d \in Decisions, NEW s \in Sources, Return(r, d, s)
      PROVE  /\ pc' \in [Requests -> Stages]
             /\ outcome' \in [Requests -> [decision: Decisions \cup {None}, source: Sources \cup {None}]]
  BY <1>1 DEF Return, TypeOK, Stages
<1>2. {"acceptForSession", "decline"} \subseteq Decisions /\ Sources = {"user", "sessionGrant",
         "backgroundPolicy", "timeout"}
  BY DEF Decisions, Sources
<1>3. ASSUME NEW r \in Requests, Step(r) PROVE TypeOK'
  <2>1. CASE ReuseGrant(r) \/ DeclineBackground(r) \/ RemoveExpired(r)
    BY <1>1, <1>2, <2>1 DEF ReuseGrant, DeclineBackground, RemoveExpired, TypeOK
  <2>2. CASE ReceiveDecision(r)
    <3>1. channel[r] \in Decisions
      BY <2>2 DEF ReceiveDecision, TypeOK
    <3> QED BY <1>1, <1>2, <2>2, <3>1 DEF ReceiveDecision, TypeOK
  <2>3. CASE CheckGrant(r) \/ PollReceiver(r) \/ DeadlineElapsed(r) \/ Enqueue(r)
    BY <2>3 DEF CheckGrant, PollReceiver, DeadlineElapsed, Enqueue, TypeOK, Stages
  <2> QED BY <1>3, <2>1, <2>2, <2>3 DEF Step
<1>4. ASSUME NEW r \in Requests, NEW d \in Decisions, Resolve(r, d) PROVE TypeOK'
  <2>1. KeyOf[r] # NoKey => KeyOf[r] \in Keys
    BY PermissionAssumption
  <2>2. grants' \subseteq Keys
    BY <1>4, <2>1 DEF Resolve, TypeOK
  <2> QED BY <1>4, <2>2 DEF Resolve, TypeOK
<1>5. CASE UNCHANGED vars
  BY <1>5 DEF vars, TypeOK
<1> QED BY <1>3, <1>4, <1>5 DEF Next

LEMMA StepIInv ==
    ASSUME IInv, NEW r \in Requests, Step(r)
    PROVE  IInv'
<1> USE DEF IInv
<1>1. TypeOK'
  BY NextType DEF Next
<1>2. grants' = grants /\ delivered' = delivered /\ channel' = channel
  BY DEF Step, ReuseGrant, DeclineBackground, CheckGrant, Enqueue, ReceiveDecision,
         PollReceiver, DeadlineElapsed, RemoveExpired
<1>3. GrantsComeFromTheUser'
  BY <1>2 DEF GrantsComeFromTheUser
<1>4. \A q \in Requests \ {r} :
         pc'[q] = pc[q] /\ outcome'[q] = outcome[q] /\ (q \in pending' <=> q \in pending)
  BY ReturnEffect
     DEF Step, ReuseGrant, DeclineBackground, CheckGrant, Enqueue, ReceiveDecision,
         PollReceiver, DeadlineElapsed, RemoveExpired, TypeOK
<1>5. /\ DeliveredOK(r)' /\ ReturnedOK(r)'
      /\ ReceiverAlive(r)' /\ channel'[r] = None => r \in pending'
      /\ r \in pending' => pc'[r] \in {"waiting", "polled", "expired"} /\ channel'[r] = None
  <2>1. CASE ReuseGrant(r)
    BY <1>2, <2>1, ReturnEffect
       DEF ReuseGrant, DeliveredOK, ReturnedOK, PendingIsExact, ReceiverAlive
  <2>2. CASE DeclineBackground(r)
    BY <1>2, <2>2, ReturnEffect
       DEF DeclineBackground, DeliveredOK, ReturnedOK, PendingIsExact, ReceiverAlive
  <2>3. CASE ReceiveDecision(r)
    BY <1>2, <2>3, ReturnEffect
       DEF ReceiveDecision, DeliveredOK, ReturnedOK, PendingIsExact, ReceiverAlive
  <2>4. CASE RemoveExpired(r)
    BY <1>2, <2>4, ReturnEffect
       DEF RemoveExpired, DeliveredOK, ReturnedOK, PendingIsExact, ReceiverAlive
  <2>5. CASE CheckGrant(r) \/ Enqueue(r) \/ PollReceiver(r) \/ DeadlineElapsed(r)
    BY <1>2, <2>5
       DEF CheckGrant, Enqueue, PollReceiver, DeadlineElapsed, DeliveredOK, ReturnedOK,
           PendingIsExact, ReceiverAlive, TypeOK
  <2> QED BY <2>1, <2>2, <2>3, <2>4, <2>5 DEF Step
<1>6. PendingIsExact' /\ \A q \in Requests : DeliveredOK(q)' /\ ReturnedOK(q)'
  BY <1>2, <1>4, <1>5 DEF PendingIsExact, DeliveredOK, ReturnedOK, ReceiverAlive
<1> QED BY <1>1, <1>3, <1>6

LEMMA ResolveIInv ==
    ASSUME IInv, NEW r \in Requests, NEW d \in Decisions, Resolve(r, d)
    PROVE  IInv'
<1> USE DEF IInv
<1>1. TypeOK'
  BY NextType DEF Next
<1>2. /\ UNCHANGED <<pc, outcome>> /\ pending' = pending \ {r} /\ r \in pending
      /\ delivered[r] = None /\ Allowed(r, d) /\ r \in Interactive /\ grants \subseteq grants'
      /\ pc[r] \in {"waiting", "polled", "expired"}
  BY DEF Resolve, DeliveredOK, PendingIsExact, ReturnedOK
<1>3. CASE ReceiverAlive(r)
  <2>1. /\ channel'[r] = d /\ delivered'[r] = d
        /\ \A q \in Requests \ {r} : channel'[q] = channel[q] /\ delivered'[q] = delivered[q]
    BY <1>3 DEF Resolve, TypeOK
  <2>2. d # None
    BY DEF Decisions, None
  <2>3. GrantsComeFromTheUser'
    <3>1. grants' \subseteq grants \cup (IF d = "acceptForSession" THEN {KeyOf[r]} ELSE {})
      BY <1>3 DEF Resolve
    <3>2. ASSUME NEW k \in grants
          PROVE  \E q \in Interactive \cap AllowAccept \cap AllowSession :
                    KeyOf[q] = k /\ delivered'[q] = "acceptForSession"
      BY <1>2, <2>1, PermissionAssumption DEF GrantsComeFromTheUser, None
    <3>3. d = "acceptForSession" => r \in Interactive \cap AllowAccept \cap AllowSession
      BY <1>2 DEF Allowed
    <3> QED BY <2>1, <3>1, <3>2, <3>3 DEF GrantsComeFromTheUser
  <2>4. PendingIsExact' /\ \A q \in Requests : DeliveredOK(q)' /\ ReturnedOK(q)'
    BY <1>2, <2>1, <2>2 DEF PendingIsExact, DeliveredOK, ReturnedOK, ReceiverAlive
  <2> QED BY <1>1, <2>3, <2>4
<1>4. CASE ~ReceiverAlive(r)
  <2>1. UNCHANGED <<channel, delivered, grants>>
    BY <1>4 DEF Resolve
  <2>2. GrantsComeFromTheUser'
    BY <2>1 DEF GrantsComeFromTheUser
  <2>3. PendingIsExact' /\ \A q \in Requests : DeliveredOK(q)' /\ ReturnedOK(q)'
    BY <1>2, <1>4, <2>1 DEF PendingIsExact, DeliveredOK, ReturnedOK, ReceiverAlive
  <2> QED BY <1>1, <2>2, <2>3
<1> QED BY <1>3, <1>4

LEMMA Invariant == Spec => []IInv
<1>1. IInv /\ [Next]_vars => IInv'
  <2> SUFFICES ASSUME IInv, [Next]_vars PROVE IInv'
    OBVIOUS
  <2>1. CASE UNCHANGED vars
    BY <2>1
       DEF IInv, vars, TypeOK, GrantsComeFromTheUser, PendingIsExact, DeliveredOK, ReturnedOK,
           ReceiverAlive
  <2> QED BY <2>1, StepIInv, ResolveIInv DEF Next
<1> QED BY <1>1, InitIInv, PTL DEF Spec

(* A session grant is always one the user gave for its key to a live        *)
(* interactive request that offered it (permission.rs resolve).              *)
THEOREM GrantsAreTheUsers == Spec => []GrantsComeFromTheUser
<1>1. IInv => GrantsComeFromTheUser
  BY DEF IInv
<1> QED BY <1>1, Invariant, PTL

(* No acceptance comes out of request that the user did not give, directly  *)
(* or for the session of its key.                                            *)
THEOREM AcceptancesAreAuthorised == Spec => []AcceptanceIsAuthorised
<1>1. IInv => AcceptanceIsAuthorised
  <2> SUFFICES ASSUME IInv, NEW r \in Requests, outcome[r].decision \in Accepting
               PROVE  \/ r \in Interactive \cap AllowAccept /\ delivered[r] = outcome[r].decision
                      \/ KeyOf[r] \in grants /\ outcome[r].source = "sessionGrant"
    BY DEF AcceptanceIsAuthorised
  <2>1. DeliveredOK(r) /\ ReturnedOK(r) /\ outcome[r].decision # None
    BY DEF IInv, Accepting, None
  <2> QED BY <2>1 DEF DeliveredOK, ReturnedOK, Allowed, Accepting
<1> QED BY <1>1, Invariant, PTL

(* The list of prompts shows exactly the requests that can still be answered.*)
THEOREM PromptsAreExact == Spec => []PendingIsExact
<1>1. IInv => PendingIsExact
  BY DEF IInv
<1> QED BY <1>1, Invariant, PTL

(* A delivered decision is acted upon unless the deadline passed with it.    *)
THEOREM DecisionsAreActedOn == Spec => []DeliveredDecisionActedOn
<1>1. IInv => DeliveredDecisionActedOn
  BY DEF IInv, ReturnedOK, DeliveredDecisionActedOn
<1> QED BY <1>1, Invariant, PTL
=============================================================================
