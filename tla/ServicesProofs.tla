---------------------------- MODULE ServicesProofs ----------------------------
(***************************************************************************)
(* What the services of a turn promise, for every value of the constants:  *)
(* the tools of every set of stages, the connection to any number of       *)
(* Identities, threads of any number of Topics and surfaces, turns of any  *)
(* number of events, any lanes and authorizations of the Drive.  Each      *)
(* part's invariant is preserved by its own steps; the steps of another    *)
(* part leave its variables alone.                                         *)
(***************************************************************************)
EXTENDS MCServices, SequenceTheorems, FiniteSetTheorems, FunctionTheorems, TLAPS

-----------------------------------------------------------------------------
(* The tools of a run.                                                       *)

Bounded(w) ==
    /\ w.by \notin {"autonomous_scout", "ambient_sense", "attacker"}
    /\ w.tool \in {"update_current_map", "update_open_loops"} => w.by = "maintenance"
    /\ w.by = "reflection" /\ w.tool \in Tools!Ledger => w.verified

(* The tools whose handlers write into a store. *)
StoreTools == Tools!Writes \cup Tools!Ledger \cup Tools!Hunch
              \cup {"submit_feedback", "complete_orientation", "revise_orientation"}

(* What a stage that only observes is allowed writes nowhere. *)
LEMMA ObserversWriteNothing ==
    ASSUME NEW origin \in {"autonomous_scout", "ambient_sense", "attacker"}, NEW tool \in Tools!Allowed(origin)
    PROVE  tool \notin StoreTools
<1>1. tool \in Tools!AllowedPcp(origin) \cup Tools!AllowedSymbiont(origin, Tools!Calibrating)
  BY DEF Tools!Allowed, Tools!AllowedAt
<1>2. CASE origin = "autonomous_scout"
  <2>1. Tools!AllowedPcp(origin) = Tools!ReadPcp
    BY <1>2 DEF Tools!AllowedPcp
  <2>2. Tools!AllowedSymbiont(origin, Tools!Calibrating) = Tools!History \cup {"submit_exploration_finding"}
    BY <1>2 DEF Tools!AllowedSymbiont
  <2> QED BY <1>1, <2>1, <2>2 DEF Tools!ReadPcp, Tools!History, StoreTools, Tools!Writes, Tools!Ledger,
         Tools!Hunch,
             Tools!Documents, Tools!Settings, Tools!Submissions
<1>3. CASE origin = "ambient_sense"
  <2>1. Tools!AllowedPcp(origin) = {}
    BY <1>3 DEF Tools!AllowedPcp
  <2>2. Tools!AllowedSymbiont(origin, Tools!Calibrating) = {"submit_sensing_candidates"}
    BY <1>3 DEF Tools!AllowedSymbiont
  <2> QED BY <1>1, <2>1, <2>2 DEF StoreTools, Tools!Writes, Tools!Ledger, Tools!Hunch,
             Tools!Documents, Tools!Settings, Tools!Submissions
<1>4. CASE origin = "attacker"
  <2>1. Tools!AllowedPcp(origin) = {}
    BY <1>4 DEF Tools!AllowedPcp
  <2>2. Tools!AllowedSymbiont(origin, Tools!Calibrating) = {"submit_attacker_assessment"}
    BY <1>4 DEF Tools!AllowedSymbiont
  <2> QED BY <1>1, <2>1, <2>2 DEF StoreTools, Tools!Writes, Tools!Ledger, Tools!Hunch,
             Tools!Documents, Tools!Settings, Tools!Submissions
<1> QED BY <1>2, <1>3, <1>4

(* What a handled call writes stays within the bounds of its stage, if the   *)
(* ledger's tools verify what they cite.                                     *)
LEMMA HandledIsBounded ==
    ASSUME NEW tool \in StoreTools, Tools!Handled(tool), NEW cites,
           toolRun = "reflection" /\ tool \in Tools!Ledger => cites \subseteq known'
    PROVE  Bounded([tool |-> tool, by |-> toolRun, cites |-> cites, verified |-> cites \subseteq known'])
<1>1. tool \in Tools!Allowed(toolRun) /\ tool \in Tools!Accepted(toolRun)
  BY DEF Tools!Handled
<1>2. toolRun \notin {"autonomous_scout", "ambient_sense", "attacker"}
  BY <1>1, ObserversWriteNothing
<1>3. tool \in {"update_current_map", "update_open_loops"} => toolRun = "maintenance"
  BY <1>1 DEF Tools!Accepted
<1> QED BY <1>2, <1>3 DEF Bounded

(* Every action that changes a store writes what is bounded. *)
WritesBounded ==
    \/ UNCHANGED stores
    \/ \E w : Bounded(w) /\ stores' = stores \cup {w}

LEMMA WroteIsBounded ==
    ASSUME NEW tool \in StoreTools, Tools!Handled(tool), NEW cites, Tools!Wrote(tool, cites),
           toolRun = "reflection" /\ tool \in Tools!Ledger => cites \subseteq known'
    PROVE  WritesBounded
<1> DEFINE w == [tool |-> tool, by |-> toolRun, cites |-> cites, verified |-> cites \subseteq known']
<1>1. Bounded(w)
  BY HandledIsBounded
<1>2. stores' = stores \cup {w}
  BY DEF Tools!Wrote
<1> QED BY <1>1, <1>2 DEF WritesBounded

LEMMA ToolStep == Tools!Next => WritesBounded
<1> SUFFICES ASSUME Tools!Next PROVE WritesBounded
  OBVIOUS
<1>1. CASE \/ \E o \in ToolStages : Tools!BeginRun(o)
           \/ \E b \in BOOLEAN : Tools!EndRun(b)
           \/ Tools!Assess \/ Tools!BeginCalibration
           \/ \E r \in Revisions : Tools!RecordMessage(r) \/ Tools!RetractMessage(r)
  BY <1>1 DEF WritesBounded, Tools!BeginRun, Tools!EndRun, Tools!Assess, Tools!BeginCalibration,
              Tools!RecordMessage, Tools!RetractMessage
<1>2. CASE Tools!CompleteOrientation
  <2>1. "complete_orientation" \in StoreTools /\ "complete_orientation" \notin Tools!Ledger
    BY DEF StoreTools, Tools!Ledger
  <2> QED BY <1>2, <2>1, WroteIsBounded DEF Tools!CompleteOrientation
<1>3. ASSUME NEW cites \in SUBSET Revisions, Tools!Feedback(cites) \/ Tools!ReviseOrientation(cites)
      PROVE  WritesBounded
  <2>1. /\ "submit_feedback" \in StoreTools /\ "submit_feedback" \notin Tools!Ledger
        /\ "revise_orientation" \in StoreTools /\ "revise_orientation" \notin Tools!Ledger
    BY DEF StoreTools, Tools!Ledger
  <2> QED BY <1>3, <2>1, WroteIsBounded DEF Tools!Feedback, Tools!ReviseOrientation
<1>4. ASSUME NEW tool, Tools!WriteStore(tool)
      PROVE  WritesBounded
  <2>1. tool \in StoreTools
    BY <1>4 DEF Tools!WriteStore, StoreTools
  <2>2. {} \subseteq known'
    OBVIOUS
  <2> QED BY <1>4, <2>1, <2>2, WroteIsBounded DEF Tools!WriteStore
<1>5. ASSUME NEW tool, NEW cites \in SUBSET Revisions, Tools!WriteLedger(tool, cites)
      PROVE  WritesBounded
  <2>1. tool \in StoreTools
    BY <1>5 DEF Tools!WriteLedger, StoreTools
  <2>2. cites \subseteq known'
    BY <1>5 DEF Tools!WriteLedger, Tools!Verified
  <2> QED BY <1>5, <2>1, <2>2, WroteIsBounded DEF Tools!WriteLedger
<1>6. ASSUME NEW tool, NEW cites \in SUBSET Revisions, Tools!ReviseHunch(tool, cites)
      PROVE  WritesBounded
  <2>1. tool \in StoreTools /\ tool \notin Tools!Ledger
    BY <1>6 DEF Tools!ReviseHunch, Tools!Hunch, Tools!Ledger, StoreTools
  <2> QED BY <1>6, <2>1, WroteIsBounded DEF Tools!ReviseHunch
<1>7. ASSUME NEW tool, NEW cites \in SUBSET Revisions, Tools!Read(tool) \/ Tools!HandOff(tool, cites)
      PROVE  WritesBounded
  BY <1>7 DEF Tools!Read, Tools!HandOff, WritesBounded
<1>8. CASE Tools!ToolCall
  BY <1>8, <1>4, <1>5, <1>6, <1>7 DEF Tools!ToolCall
<1> QED BY <1>1, <1>2, <1>3, <1>8 DEF Tools!Next

(* For any stages and revisions, and whatever schemas a thread was told of   *)
(* by runs of other origins, no observing stage writes, the maps are         *)
(* maintenance's, and what a reflection cites is verified (codex/tools.rs).  *)
THEOREM StagesStayBounded == ServicesSpec => []StagesKeepTheirBounds
<1>1. StagesKeepTheirBounds <=> \A w \in stores : Bounded(w)
  BY DEF StagesKeepTheirBounds, Tools!StagesKeepTheirBounds, Bounded
<1>2. ServicesInit => StagesKeepTheirBounds
  BY <1>1 DEF ServicesInit, Tools!Init
<1>3. StagesKeepTheirBounds /\ [ServicesNext]_servicesVars => StagesKeepTheirBounds'
  <2> SUFFICES ASSUME StagesKeepTheirBounds, [ServicesNext]_servicesVars
               PROVE  StagesKeepTheirBounds'
    OBVIOUS
  <2>1. WritesBounded
    BY ToolStep DEF ServicesNext, servicesVars, toolVars, WritesBounded
  <2>2. \A w \in stores' : Bounded(w)
    BY <1>1, <2>1 DEF WritesBounded
  <2> QED BY <2>2 DEF StagesKeepTheirBounds, Tools!StagesKeepTheirBounds, Bounded
<1> QED BY <1>2, <1>3, PTL DEF ServicesSpec
-----------------------------------------------------------------------------
(* The connection to the PCP Runtimes.                                       *)

Approval == [of : Identities, answer : {"pending", "asked", "other", "rejected", "revoked"}]
Session == [registration : Nat, generation : Nat]
ProbeSteps == [at : {"selected", "begin"}, purpose : {"open", "monitor", "recovery"},
               instance : Identities, generation : Nat]
CallSteps == [at : {"sent", "again", "recovering", "recovered", "done", "failed"}, kind : {"read", "write"},
              first : Session, applied : Nat]

PcpType ==
    /\ runtimes \in [Identities -> [up : BOOLEAN, generation : Nat]]
    /\ approvals \in Seq(Approval)
    /\ enrolled \in [instance : Identities \cup {NoIdentity}, request : Nat, registration : Nat, rejected : BOOLEAN]
    /\ probe \in {Pcp!Quiet} \cup ProbeSteps
    /\ client \in {Pcp!NoClient} \cup [owner : Identities, session : Session]
    /\ call \in {Pcp!Quiet} \cup CallSteps

(* The request and the registration that are kept exist, and are of the     *)
(* Identity that is selected: of none while none is.                         *)
EnrolledAt(r) == r # 0 => r \in DOMAIN approvals /\ approvals[r].of = enrolled.instance
EnrolledIsOf == EnrolledAt(enrolled.request) /\ EnrolledAt(enrolled.registration)

ProbeIsEnrolled == probe # Pcp!Quiet => probe.instance = enrolled.instance

(* A probe that a call waits for keeps the call waiting.                     *)
RecoveryWaits == probe # Pcp!Quiet /\ probe.purpose = "recovery" => call.at = "recovering"

SessionApproved ==
    client # Pcp!NoClient =>
        LET r == client.session.registration
        IN  /\ r \in DOMAIN approvals /\ approvals[r].of = client.owner
            /\ approvals[r].answer \in {"asked", "revoked"}

CallOnce ==
    call # Pcp!Quiet /\ call.kind = "write" =>
        /\ call.at # "again" /\ (call.at = "sent" => call.applied = 0) /\ call.applied <= 1

PcpInv == PcpType /\ EnrolledIsOf /\ ProbeIsEnrolled /\ RecoveryWaits /\ SessionApproved /\ CallOnce

LEMMA QuietIsNoStep == Pcp!Quiet \notin ProbeSteps /\ Pcp!Quiet \notin CallSteps
BY DEF Pcp!Quiet, ProbeSteps, CallSteps

LEMMA NoClientIsNone == ServicesAssumption => Pcp!NoClient \notin [owner : Identities, session : Session]
BY DEF Pcp!NoClient, ServicesAssumption

LEMMA PcpInit == ServicesInit => PcpInv
<1> SUFFICES ASSUME Pcp!Init PROVE PcpInv
  BY DEF ServicesInit
<1>1. PcpType
  <2>1. approvals \in Seq(Approval)
    BY DEF Pcp!Init
  <2> QED BY <2>1 DEF Pcp!Init, PcpType, Pcp!Unauthorised
<1> QED BY <1>1 DEF Pcp!Init, PcpInv, EnrolledIsOf, EnrolledAt, ProbeIsEnrolled, RecoveryWaits,
       SessionApproved, CallOnce,
        Pcp!Unauthorised

(* The steps by what they do to the requests: nothing, a new one, or an      *)
(* answer.  A request stays of its Identity, an approval is only revoked.    *)
ApprovalsGrow ==
    /\ DOMAIN approvals \subseteq DOMAIN approvals'
    /\ \A r \in DOMAIN approvals :
          /\ approvals'[r].of = approvals[r].of
          /\ approvals[r].answer \in {"asked", "revoked"} => approvals'[r].answer \in {"asked", "revoked"}

LEMMA AnswerStep ==
    ASSUME PcpInv, NEW r \in DOMAIN approvals, NEW answer \in {"asked", "other", "rejected", "revoked"},
           Pcp!UserAnswers(r, answer)
    PROVE  approvals' \in Seq(Approval) /\ ApprovalsGrow
<1>1. approvals \in Seq(Approval) /\ approvals[r] \in Approval
  BY DEF PcpInv, PcpType
<1> DEFINE new == [approvals[r] EXCEPT !.answer = answer]
<1>2. new \in Approval /\ new.of = approvals[r].of /\ new.answer = answer
  BY <1>1 DEF Approval
<1>3. approvals' = [approvals EXCEPT ![r] = new]
  BY DEF Pcp!UserAnswers
<1>4. approvals[r].answer \in {"asked", "revoked"} => answer \in {"asked", "revoked"}
  BY DEF Pcp!UserAnswers
<1> HIDE DEF new
<1>5. approvals' \in Seq(Approval)
  BY <1>1, <1>2, <1>3
<1> QED BY <1>1, <1>2, <1>3, <1>4, <1>5 DEF ApprovalsGrow

LEMMA BeginStep ==
    ASSUME PcpInv, Pcp!BeginRequest
    PROVE  /\ approvals' \in Seq(Approval) /\ ApprovalsGrow
           /\ Len(approvals) + 1 \in DOMAIN approvals'
           /\ approvals'[Len(approvals) + 1].of = probe.instance
<1>1. approvals \in Seq(Approval) /\ probe \in ProbeSteps
  BY DEF PcpInv, PcpType, Pcp!BeginRequest
<1> DEFINE new == [of |-> probe.instance, answer |-> "pending"]
<1>2. new \in Approval /\ new.of = probe.instance
  BY <1>1 DEF Approval, ProbeSteps
<1>3. approvals' = Append(approvals, new)
  BY DEF Pcp!BeginRequest
<1> HIDE DEF new
<1>4. /\ approvals' \in Seq(Approval) /\ Len(approvals') = Len(approvals) + 1
      /\ \A i \in 1..Len(approvals) : approvals'[i] = approvals[i]
      /\ approvals'[Len(approvals) + 1] = new
  BY <1>1, <1>2, <1>3
<1> QED BY <1>1, <1>2, <1>4 DEF ApprovalsGrow

(* What the connection keeps about requests survives when they grow and the  *)
(* rest stays.                                                               *)
LEMMA KeptWhileGrowing ==
    ASSUME PcpInv, ApprovalsGrow
    PROVE  /\ UNCHANGED enrolled => EnrolledIsOf'
           /\ UNCHANGED client => SessionApproved'
<1>1. ASSUME UNCHANGED enrolled PROVE EnrolledIsOf'
  BY <1>1 DEF PcpInv, EnrolledIsOf, EnrolledAt, ApprovalsGrow
<1>2. ASSUME UNCHANGED client PROVE SessionApproved'
  BY <1>2 DEF PcpInv, SessionApproved, ApprovalsGrow
<1> QED BY <1>1, <1>2

(* A probe selects an Identity: what was approved for another stays behind.  *)
LEMMA DiscoverStep ==
    ASSUME PcpInv, NEW purpose \in {"open", "monitor", "recovery"}, Pcp!Discover(purpose)
    PROVE  PcpInv'
<1> DEFINE i == Pcp!Selected
<1>1. i \in Identities
  BY DEF Pcp!Discover
<1>2. PcpType /\ EnrolledIsOf /\ ProbeIsEnrolled /\ SessionApproved /\ CallOnce
  BY DEF PcpInv
<1>3. /\ enrolled' = Pcp!Remembered(i)
      /\ UNCHANGED <<runtimes, approvals, client>>
  BY DEF Pcp!Discover
<1>4. \/ probe' = Pcp!Quiet
      \/ probe' = [at |-> "selected", purpose |-> purpose, instance |-> i, generation |-> runtimes[i].generation]
  BY DEF Pcp!Discover
<1>5. \/ call' = call
      \/ call.at = "recovering" /\ call' = [call EXCEPT !.at = "failed"]
  BY DEF Pcp!Discover
<1> HIDE DEF i
<1>6. /\ enrolled' \in [instance : Identities \cup {NoIdentity}, request : Nat, registration : Nat, rejected : BOOLEAN]
      /\ enrolled'.instance = i
      /\ \/ enrolled'.request = 0 /\ enrolled'.registration = 0
         \/ /\ enrolled'.request = enrolled.request /\ enrolled'.registration = enrolled.registration
            /\ enrolled.instance \in {i, NoIdentity}
  <2> DEFINE Kept == [instance : Identities \cup {NoIdentity}, request : Nat, registration : Nat, rejected : BOOLEAN]
  <2>1. enrolled \in Kept
    BY <1>2 DEF PcpType
  <2>2. CASE enrolled.instance \in {i, NoIdentity}
    <3>1. enrolled' = [enrolled EXCEPT !.instance = i]
      BY <1>3, <2>2 DEF Pcp!Remembered
    <3> QED BY <1>1, <2>1, <2>2, <3>1
  <2>3. CASE enrolled.instance \notin {i, NoIdentity}
    <3>1. enrolled' = [instance |-> i, request |-> 0, registration |-> 0, rejected |-> FALSE]
      BY <1>3, <2>3 DEF Pcp!Remembered, Pcp!Unauthorised
    <3> QED BY <1>1, <3>1
  <2> QED BY <2>2, <2>3
<1>7. enrolled.instance = NoIdentity => enrolled.request = 0 /\ enrolled.registration = 0
  <2>1. ASSUME NEW r \in DOMAIN approvals PROVE approvals[r].of \in Identities
    <3>1. approvals \in Seq(Approval)
      BY <1>2 DEF PcpType
    <3>2. approvals[r] \in Approval
      BY <3>1
    <3> QED BY <3>2 DEF Approval
  <2> QED BY <1>2, <2>1, ServicesAssumption DEF EnrolledIsOf, EnrolledAt, ServicesAssumption
<1>8. EnrolledIsOf'
  BY <1>2, <1>3, <1>6, <1>7 DEF EnrolledIsOf, EnrolledAt
<1>9. probe' \in {Pcp!Quiet} \cup ProbeSteps /\ ProbeIsEnrolled'
  <2>1. runtimes[i].generation \in Nat
    BY <1>1, <1>2 DEF PcpType
  <2> QED BY <1>1, <1>4, <1>6, <2>1 DEF ProbeSteps, ProbeIsEnrolled
<1>10. call' \in {Pcp!Quiet} \cup CallSteps /\ CallOnce'
  <2>1. CASE call' = call
    BY <1>2, <2>1 DEF PcpType, CallOnce
  <2>2. CASE call.at = "recovering" /\ call' = [call EXCEPT !.at = "failed"]
    <3>1. call \in CallSteps
      BY <1>2, <2>2 DEF PcpType, Pcp!Quiet
    <3>2. call # Pcp!Quiet
      BY <2>2 DEF Pcp!Quiet
    <3> QED BY <1>2, <2>2, <3>1, <3>2 DEF CallSteps, CallOnce
  <2> QED BY <1>5, <2>1, <2>2
<1>11. SessionApproved'
  BY <1>2, <1>3 DEF SessionApproved
<1>12. PcpType'
  BY <1>2, <1>3, <1>6, <1>9, <1>10 DEF PcpType
<1>13. RecoveryWaits'
  <2>1. purpose = "recovery" => call.at = "recovering"
    BY DEF Pcp!Discover
  <2>2. probe' = Pcp!Quiet \/ call' = call
    BY DEF Pcp!Discover
  <2> QED BY <1>4, <2>1, <2>2 DEF RecoveryWaits
<1> QED BY <1>8, <1>9, <1>10, <1>11, <1>12, <1>13 DEF PcpInv

(* Whatever ends a probe leaves the write of a call where it was.            *)
LEMMA CallFails ==
    ASSUME PcpInv, \/ call' = call
                   \/ \E at \in {"failed", "recovered"} : call # Pcp!Quiet /\ call' = [call EXCEPT !.at = at]
    PROVE  call' \in {Pcp!Quiet} \cup CallSteps /\ CallOnce'
<1>1. CASE call' = call
  BY <1>1 DEF PcpInv, PcpType, CallOnce
<1>2. ASSUME NEW at \in {"failed", "recovered"}, call # Pcp!Quiet, call' = [call EXCEPT !.at = at]
      PROVE  call' \in {Pcp!Quiet} \cup CallSteps /\ CallOnce'
  <2>1. call \in CallSteps
    BY <1>2 DEF PcpInv, PcpType
  <2> QED BY <1>2, <2>1 DEF CallSteps, CallOnce, PcpInv
<1> QED BY <1>1, <1>2
(* A step of a probe that neither activates nor begins anything: it ends, or *)
(* goes on to ask anew, for the Identity it selected.                        *)
LEMMA ProbeStep ==
    ASSUME PcpInv,
           \/ probe' = Pcp!Quiet
           \/ probe # Pcp!Quiet /\ probe' = [probe EXCEPT !.at = "begin"] /\ enrolled'.instance = enrolled.instance
    PROVE  probe' \in {Pcp!Quiet} \cup ProbeSteps /\ ProbeIsEnrolled'
<1>1. CASE probe' = Pcp!Quiet
  BY <1>1 DEF ProbeIsEnrolled
<1>2. CASE probe # Pcp!Quiet /\ probe' = [probe EXCEPT !.at = "begin"] /\ enrolled'.instance = enrolled.instance
  <2>1. probe \in ProbeSteps
    BY <1>2 DEF PcpInv, PcpType
  <2> QED BY <1>2, <2>1 DEF ProbeSteps, ProbeIsEnrolled, PcpInv
<1> QED BY <1>1, <1>2

(* The Runtime's answer "active": a registration of this Identity, of the    *)
(* access asked for, becomes the session of a client opened for it.          *)
LEMMA ActivatedStep ==
    ASSUME PcpInv, NEW r \in DOMAIN approvals, Pcp!Activated(r), probe # Pcp!Quiet,
           approvals[r].of = probe.instance, Pcp!MatchesIntent(r),
           UNCHANGED <<runtimes, approvals>>
    PROVE  PcpInv'
<1>1. PcpType /\ EnrolledIsOf /\ ProbeIsEnrolled /\ SessionApproved /\ CallOnce /\ probe \in ProbeSteps
  BY DEF PcpInv, PcpType
<1>2. probe.instance \in Identities /\ probe.generation \in Nat /\ r \in Nat
  BY <1>1 DEF ProbeSteps, PcpType
<1> DEFINE session == [registration |-> r, generation |-> probe.generation]
<1>3. session \in Session /\ session.registration = r
  BY <1>2 DEF Session
<1>4. /\ enrolled' \in [instance : Identities \cup {NoIdentity}, request : Nat, registration : Nat, rejected : BOOLEAN]
      /\ enrolled'.request = 0 /\ enrolled'.registration = r /\ enrolled'.instance = probe.instance
  BY <1>1, <1>2 DEF PcpType, Pcp!Activated
<1>5. EnrolledIsOf'
  BY <1>4 DEF EnrolledIsOf, EnrolledAt
<1>6. probe' = Pcp!Quiet
  BY DEF Pcp!Activated
<1>7. \/ client' = [owner |-> probe.instance, session |-> session]
      \/ client.owner = probe.instance /\ client' = [client EXCEPT !.session = session]
      \/ client' = client
  BY DEF Pcp!Activated
<1> HIDE DEF session
<1>8. client' \in {Pcp!NoClient} \cup [owner : Identities, session : Session] /\ SessionApproved'
  <2>1. CASE client' = [owner |-> probe.instance, session |-> session]
    BY <1>2, <1>3, <2>1 DEF SessionApproved, Pcp!MatchesIntent
  <2>2. CASE client.owner = probe.instance /\ client' = [client EXCEPT !.session = session]
    <3>1. client \in [owner : Identities, session : Session]
      BY <1>1, <1>2, <2>2, ServicesAssumption DEF PcpType, Pcp!NoClient, ServicesAssumption
    <3>2. client' \in [owner : Identities, session : Session] /\ client'.session = session /\ client'.owner = client.owner
      BY <1>3, <2>2, <3>1
    <3> QED BY <1>3, <2>2, <3>2 DEF SessionApproved, Pcp!MatchesIntent
  <2>3. CASE client' = client
    BY <1>1, <2>3 DEF SessionApproved, PcpType
  <2> QED BY <1>7, <2>1, <2>2, <2>3
<1>9. \/ call' = call
      \/ \E at \in {"failed", "recovered"} : probe.purpose = "recovery" /\ call' = [call EXCEPT !.at = at]
  BY DEF Pcp!Activated
<1>10. call' \in {Pcp!Quiet} \cup CallSteps /\ CallOnce'
  <2>1. probe.purpose = "recovery" => call # Pcp!Quiet
    BY DEF PcpInv, RecoveryWaits, Pcp!Quiet
  <2> QED BY <1>9, <2>1, CallFails
<1>11. PcpType'
  BY <1>1, <1>4, <1>6, <1>8, <1>10 DEF PcpType
<1> QED BY <1>5, <1>6, <1>8, <1>10, <1>11 DEF PcpInv, ProbeIsEnrolled, RecoveryWaits

(* The other steps of a probe, and its ends.                                 *)
LEMMA EndsStep ==
    ASSUME PcpInv, probe # Pcp!Quiet, Pcp!Ends
    PROVE  /\ probe' = Pcp!Quiet /\ call' \in {Pcp!Quiet} \cup CallSteps /\ CallOnce'
           /\ ProbeIsEnrolled' /\ RecoveryWaits'
<1>1. probe.purpose = "recovery" => call # Pcp!Quiet
  BY DEF PcpInv, RecoveryWaits, Pcp!Quiet
<1>2. \/ call' = call
      \/ \E at \in {"failed", "recovered"} : call # Pcp!Quiet /\ call' = [call EXCEPT !.at = at]
  BY <1>1 DEF Pcp!Ends
<1>3. probe' = Pcp!Quiet
  BY DEF Pcp!Ends
<1> QED BY <1>2, <1>3, CallFails DEF ProbeIsEnrolled, RecoveryWaits

LEMMA OpenSessionStep == ASSUME PcpInv, Pcp!OpenSession PROVE PcpInv'
<1> DEFINE r == enrolled.registration
<1>1. PcpType /\ EnrolledIsOf /\ r \in DOMAIN approvals /\ probe # Pcp!Quiet
  BY DEF PcpInv, EnrolledIsOf, EnrolledAt, Pcp!OpenSession, Pcp!Quiet
<1>2. CASE approvals[r].of = probe.instance /\ Pcp!MatchesIntent(r)
  BY <1>1, <1>2, ActivatedStep DEF Pcp!OpenSession
<1>3. CASE ~(approvals[r].of = probe.instance /\ Pcp!MatchesIntent(r))
  <2>1. /\ enrolled' = Pcp!Unauthorised(enrolled.instance)
        /\ probe' = [probe EXCEPT !.at = "begin"]
        /\ UNCHANGED <<runtimes, approvals, client, call>>
    BY <1>3 DEF Pcp!OpenSession
  <2>2. /\ enrolled' \in [instance : Identities \cup {NoIdentity}, request : Nat, registration : Nat, rejected : BOOLEAN]
        /\ enrolled'.instance = enrolled.instance /\ enrolled'.request = 0 /\ enrolled'.registration = 0
    BY <1>1, <2>1 DEF PcpType, Pcp!Unauthorised
  <2>3. probe' \in {Pcp!Quiet} \cup ProbeSteps /\ ProbeIsEnrolled'
    BY <1>1, <2>1, <2>2, ProbeStep
  <2>4. EnrolledIsOf'
    BY <2>2 DEF EnrolledIsOf, EnrolledAt
  <2>5. SessionApproved' /\ CallOnce' /\ PcpType'
    BY <1>1, <2>1, <2>2, <2>3 DEF PcpInv, SessionApproved, CallOnce, PcpType
  <2>6. RecoveryWaits'
    <3>1. probe \in ProbeSteps
      BY <1>1 DEF PcpType
    <3> QED BY <1>1, <2>1, <3>1 DEF PcpInv, RecoveryWaits, ProbeSteps
  <2> QED BY <2>3, <2>4, <2>5, <2>6 DEF PcpInv
<1> QED BY <1>2, <1>3

LEMMA ReadStatusStep == ASSUME PcpInv, Pcp!ReadStatus PROVE PcpInv'
<1> DEFINE r == enrolled.request
<1>1. /\ PcpType /\ EnrolledIsOf /\ r \in DOMAIN approvals /\ probe # Pcp!Quiet
      /\ approvals[r].of = probe.instance
  BY DEF PcpInv, EnrolledIsOf, EnrolledAt, ProbeIsEnrolled, Pcp!ReadStatus, Pcp!Quiet
<1>2. UNCHANGED <<runtimes, approvals>>
  BY DEF Pcp!ReadStatus
<1>3. CASE Pcp!MatchesIntent(r) /\ Pcp!Activated(r)
  BY <1>1, <1>2, <1>3, ActivatedStep
<1> DEFINE Kept == [instance : Identities \cup {NoIdentity}, request : Nat, registration : Nat, rejected : BOOLEAN]
<1>4. CASE Pcp!Ends /\ UNCHANGED <<enrolled, client>>
  <2>1. EnrolledIsOf' /\ SessionApproved' /\ PcpType'
    BY <1>1, <1>2, <1>4, EndsStep DEF PcpInv, EnrolledIsOf, EnrolledAt, SessionApproved, PcpType
  <2> QED BY <1>1, <1>4, <2>1, EndsStep DEF PcpInv
<1>5. CASE enrolled' = [enrolled EXCEPT !.request = 0, !.rejected = TRUE] /\ Pcp!Ends /\ UNCHANGED client
  <2>1. enrolled' \in Kept /\ enrolled'.request = 0
        /\ enrolled'.instance = enrolled.instance /\ enrolled'.registration = enrolled.registration
    BY <1>1, <1>5 DEF PcpType
  <2>2. EnrolledIsOf'
    BY <1>1, <1>2, <2>1 DEF EnrolledIsOf, EnrolledAt
  <2>3. SessionApproved' /\ PcpType'
    BY <1>1, <1>2, <1>5, <2>1, EndsStep DEF PcpInv, SessionApproved, PcpType
  <2> QED BY <1>1, <1>5, <2>2, <2>3, EndsStep DEF PcpInv
<1>6. CASE /\ enrolled' = [enrolled EXCEPT !.request = 0]
           /\ probe' = [probe EXCEPT !.at = "begin"] /\ UNCHANGED <<client, call>>
  <2>1. enrolled' \in Kept /\ enrolled'.request = 0
        /\ enrolled'.instance = enrolled.instance /\ enrolled'.registration = enrolled.registration
    BY <1>1, <1>6 DEF PcpType
  <2>2. EnrolledIsOf'
    BY <1>1, <1>2, <2>1 DEF EnrolledIsOf, EnrolledAt
  <2>3. probe' \in {Pcp!Quiet} \cup ProbeSteps /\ ProbeIsEnrolled'
    BY <1>1, <1>6, <2>1, ProbeStep
  <2>4. SessionApproved' /\ CallOnce' /\ PcpType'
    BY <1>1, <1>2, <1>6, <2>1, <2>3 DEF PcpInv, SessionApproved, CallOnce, PcpType
  <2>5. RecoveryWaits'
    <3>1. probe \in ProbeSteps
      BY <1>1 DEF PcpType
    <3> QED BY <1>1, <1>6, <3>1 DEF PcpInv, RecoveryWaits, ProbeSteps
  <2> QED BY <2>2, <2>3, <2>4, <2>5 DEF PcpInv
<1> QED BY <1>3, <1>4, <1>5, <1>6 DEF Pcp!ReadStatus

LEMMA BeginRequestStep == ASSUME PcpInv, Pcp!BeginRequest PROVE PcpInv'
<1>1. PcpType /\ ProbeIsEnrolled /\ probe # Pcp!Quiet /\ enrolled.registration = 0 /\ Pcp!Ends
      /\ UNCHANGED <<runtimes, client>>
  BY DEF PcpInv, Pcp!BeginRequest
<1>2. Len(approvals) + 1 \in Nat
  BY <1>1 DEF PcpType
<1>3. enrolled' = [enrolled EXCEPT !.request = Len(approvals) + 1]
  BY DEF Pcp!BeginRequest
<1>4. /\ enrolled' \in [instance : Identities \cup {NoIdentity}, request : Nat, registration : Nat, rejected : BOOLEAN]
      /\ enrolled'.request = Len(approvals) + 1
      /\ enrolled'.instance = enrolled.instance /\ enrolled'.registration = 0
  BY <1>1, <1>2, <1>3 DEF PcpType
<1>5. EnrolledIsOf'
  BY <1>1, <1>4, BeginStep DEF EnrolledIsOf, EnrolledAt, ProbeIsEnrolled
<1>6. SessionApproved'
  BY <1>1, BeginStep, KeptWhileGrowing
<1>7. PcpType'
  BY <1>1, <1>4, BeginStep, EndsStep DEF PcpType
<1> QED BY <1>1, <1>5, <1>6, <1>7, EndsStep DEF PcpInv

(* The steps of a call by itself.                                            *)
PcpCallStep ==
    \/ \E kind \in {"read", "write"} : Pcp!StartCall(kind)
    \/ Pcp!Answered
    \/ \E applied \in BOOLEAN : Pcp!TransportFails(applied)
    \/ Pcp!RecoveredMeanwhile
    \/ Pcp!CallGoesOn

LEMMA CallStepOnce == ASSUME PcpInv, PcpCallStep PROVE call' \in {Pcp!Quiet} \cup CallSteps /\ CallOnce'
<1>1. call \in {Pcp!Quiet} \cup CallSteps /\ CallOnce /\ PcpType
  BY DEF PcpInv, PcpType
<1>2. ASSUME NEW kind \in {"read", "write"}, Pcp!StartCall(kind)
      PROVE  call' \in CallSteps /\ CallOnce'
  <2>1. client \in [owner : Identities, session : Session]
    BY <1>1, <1>2 DEF Pcp!StartCall, PcpType
  <2>2. client.session \in Session
    BY <2>1
  <2>3. call' = [at |-> "sent", kind |-> kind, first |-> client.session, applied |-> 0]
    BY <1>2 DEF Pcp!StartCall
  <2> QED BY <2>2, <2>3 DEF CallSteps, CallOnce
<1>3. CASE Pcp!Answered
  <2>1. call \in CallSteps /\ call # Pcp!Quiet /\ call.at \in {"sent", "again"}
    BY <1>1, <1>3 DEF Pcp!Answered, Pcp!Quiet
  <2>2. call' = [call EXCEPT !.at = "done", !.applied = call.applied + 1]
    BY <1>3 DEF Pcp!Answered
  <2>3. call.applied + 1 \in Nat
    BY <2>1 DEF CallSteps
  <2>4. call' \in CallSteps /\ call'.at = "done" /\ call'.kind = call.kind /\ call'.applied = call.applied + 1
    BY <2>1, <2>2, <2>3 DEF CallSteps
  <2> QED BY <1>1, <2>1, <2>4 DEF CallOnce, CallSteps
<1>4. ASSUME NEW applied \in BOOLEAN, Pcp!TransportFails(applied)
      PROVE  call' \in CallSteps /\ CallOnce'
  <2>1. call \in CallSteps /\ call # Pcp!Quiet /\ call.at \in {"sent", "again"}
    BY <1>1, <1>4 DEF Pcp!TransportFails, Pcp!Quiet
  <2>2. PICK at \in {"recovering", "failed"}, n \in {call.applied, call.applied + 1} :
            call' = [call EXCEPT !.at = at, !.applied = n]
    BY <1>4 DEF Pcp!TransportFails
  <2>3. n \in Nat
    BY <2>1 DEF CallSteps
  <2>4. call' \in CallSteps /\ call'.at = at /\ call'.kind = call.kind /\ call'.applied = n
    BY <2>1, <2>2, <2>3 DEF CallSteps
  <2> QED BY <1>1, <2>1, <2>4 DEF CallOnce, CallSteps
<1>5. CASE Pcp!RecoveredMeanwhile
  <2>1. call # Pcp!Quiet
    BY <1>5 DEF Pcp!RecoveredMeanwhile, Pcp!Quiet
  <2> QED BY <1>5, <2>1, CallFails DEF Pcp!RecoveredMeanwhile
<1>6. CASE Pcp!CallGoesOn
  <2>1. CASE call' = Pcp!Quiet
    BY <2>1 DEF CallOnce
  <2>2. CASE call.at = "recovered" /\ call' = [call EXCEPT !.at = IF Pcp!RetrySafe(call.kind) THEN "again" ELSE "failed"]
    <3>1. call \in CallSteps /\ call # Pcp!Quiet
      BY <1>1, <2>2 DEF Pcp!Quiet
    <3>2. PICK at \in {"again", "failed"} :
              call' = [call EXCEPT !.at = at] /\ (at = "again" => call.kind = "read")
      BY <2>2 DEF Pcp!RetrySafe
    <3>3. call' \in CallSteps /\ call'.at = at /\ call'.kind = call.kind /\ call'.applied = call.applied
      BY <3>1, <3>2 DEF CallSteps
    <3> QED BY <1>1, <3>1, <3>2, <3>3 DEF CallOnce
  <2> QED BY <1>6, <2>1, <2>2 DEF Pcp!CallGoesOn
<1> QED BY <1>2, <1>3, <1>4, <1>5, <1>6 DEF PcpCallStep

LEMMA CallStepPcp == ASSUME PcpInv, PcpCallStep PROVE PcpInv'
<1>1. UNCHANGED <<runtimes, approvals, enrolled, probe, client>>
  BY DEF PcpCallStep, Pcp!StartCall, Pcp!Answered, Pcp!TransportFails, Pcp!RecoveredMeanwhile, Pcp!CallGoesOn
<1>2. call.at = "recovering" => probe = Pcp!Quiet
  BY DEF PcpCallStep, Pcp!StartCall, Pcp!Answered, Pcp!TransportFails, Pcp!RecoveredMeanwhile, Pcp!CallGoesOn,
         Pcp!Quiet
<1>3. PcpType'
  BY <1>1, CallStepOnce DEF PcpInv, PcpType
<1> QED BY <1>1, <1>2, <1>3, CallStepOnce
        DEF PcpInv, EnrolledIsOf, EnrolledAt, ProbeIsEnrolled, RecoveryWaits, SessionApproved

LEMMA RuntimeStep ==
    ASSUME PcpInv, NEW i \in Identities, Pcp!RuntimeStarts(i) \/ Pcp!RuntimeStops(i)
    PROVE  PcpInv'
<1>1. UNCHANGED <<approvals, enrolled, probe, client, call>>
  BY DEF Pcp!RuntimeStarts, Pcp!RuntimeStops
<1>2. runtimes \in [Identities -> [up : BOOLEAN, generation : Nat]]
  BY DEF PcpInv, PcpType
<1>3. PICK new \in [up : BOOLEAN, generation : Nat] : runtimes' = [runtimes EXCEPT ![i] = new]
  <2>1. runtimes[i] \in [up : BOOLEAN, generation : Nat]
    BY <1>2
  <2>2. CASE Pcp!RuntimeStarts(i)
    <3> DEFINE new == [up |-> TRUE, generation |-> runtimes[i].generation + 1]
    <3>1. new \in [up : BOOLEAN, generation : Nat]
      BY <2>1
    <3>2. runtimes' = [runtimes EXCEPT ![i] = new]
      BY <2>2 DEF Pcp!RuntimeStarts
    <3> QED BY <3>1, <3>2
  <2>3. CASE Pcp!RuntimeStops(i)
    <3>1. [runtimes[i] EXCEPT !.up = FALSE] \in [up : BOOLEAN, generation : Nat]
      BY <2>1
    <3> QED BY <2>3, <3>1 DEF Pcp!RuntimeStops
  <2> QED BY <2>2, <2>3
<1>4. PcpType'
  BY <1>1, <1>2, <1>3 DEF PcpInv, PcpType
<1> QED BY <1>1, <1>4 DEF PcpInv, EnrolledIsOf, EnrolledAt, ProbeIsEnrolled, RecoveryWaits, SessionApproved,
       CallOnce

LEMMA PcpRestartStep == ASSUME PcpInv, Pcp!Restart PROVE PcpInv'
<1>1. UNCHANGED <<runtimes, approvals, enrolled>> /\ probe' = Pcp!Quiet /\ client' = Pcp!NoClient /\ call' = Pcp!Quiet
  BY DEF Pcp!Restart
<1>2. PcpType'
  BY <1>1 DEF PcpInv, PcpType
<1> QED BY <1>1, <1>2 DEF PcpInv, EnrolledIsOf, EnrolledAt, ProbeIsEnrolled, RecoveryWaits, SessionApproved,
       CallOnce

LEMMA UserAnswersStep ==
    ASSUME PcpInv, NEW r \in DOMAIN approvals, NEW answer \in {"asked", "other", "rejected", "revoked"},
           Pcp!UserAnswers(r, answer)
    PROVE  PcpInv'
<1>1. UNCHANGED <<runtimes, enrolled, probe, client, call>>
  BY DEF Pcp!UserAnswers
<1>2. PcpType'
  BY <1>1, AnswerStep DEF PcpInv, PcpType
<1>3. EnrolledIsOf' /\ SessionApproved'
  BY <1>1, AnswerStep, KeptWhileGrowing
<1> QED BY <1>1, <1>2, <1>3 DEF PcpInv, ProbeIsEnrolled, RecoveryWaits, CallOnce

LEMMA ProbeFailsStep == ASSUME PcpInv, Pcp!ProbeFails PROVE PcpInv'
<1>1. probe # Pcp!Quiet /\ Pcp!Ends /\ UNCHANGED <<runtimes, approvals, enrolled, client>>
  BY DEF Pcp!ProbeFails
<1>2. PcpType' /\ EnrolledIsOf' /\ SessionApproved'
  BY <1>1, EndsStep DEF PcpInv, PcpType, EnrolledIsOf, EnrolledAt, SessionApproved
<1> QED BY <1>1, <1>2, EndsStep DEF PcpInv

LEMMA PcpStep == PcpInv /\ Pcp!Next => PcpInv'
<1> SUFFICES ASSUME PcpInv, Pcp!Next PROVE PcpInv'
  OBVIOUS
<1>1. CASE \E i \in Identities : Pcp!RuntimeStarts(i) \/ Pcp!RuntimeStops(i)
  BY <1>1, RuntimeStep
<1>2. CASE \E r \in DOMAIN approvals, answer \in Pcp!Answers \cup {"revoked"} : Pcp!UserAnswers(r, answer)
  BY <1>2, UserAnswersStep DEF Pcp!Answers
<1>3. CASE \E purpose \in {"open", "monitor", "recovery"} : Pcp!Discover(purpose)
  BY <1>3, DiscoverStep
<1>4. CASE Pcp!ProbeFails \/ Pcp!OpenSession \/ Pcp!ReadStatus \/ Pcp!BeginRequest
  BY <1>4, ProbeFailsStep, OpenSessionStep, ReadStatusStep, BeginRequestStep
<1>5. CASE PcpCallStep
  BY <1>5, CallStepPcp
<1>6. CASE Pcp!Restart
  BY <1>6, PcpRestartStep
<1> QED BY <1>1, <1>2, <1>3, <1>4, <1>5, <1>6 DEF Pcp!Next, PcpCallStep

(* For any number of Identities, Runtimes' generations, requests and calls:  *)
(* a registration is presented to the Identity that approved it only, the    *)
(* session in use is of the access that was asked for, and a write whose     *)
(* answer was lost is not applied twice (enrollment.rs, pcp_connection.rs).  *)
THEOREM ConnectionStaysAsApproved == ServicesSpec => []ConnectionIsAsApproved
<1>1. PcpInv /\ [ServicesNext]_servicesVars => PcpInv'
  <2> SUFFICES ASSUME PcpInv, [ServicesNext]_servicesVars PROVE PcpInv'
    OBVIOUS
  <2>1. CASE Pcp!Next
    BY <2>1, PcpStep
  <2>2. CASE UNCHANGED enrollmentVars
    BY <2>2 DEF enrollmentVars, PcpInv, PcpType, EnrolledIsOf, EnrolledAt, ProbeIsEnrolled, RecoveryWaits,
                SessionApproved, CallOnce
  <2> QED BY <2>1, <2>2 DEF ServicesNext, servicesVars, enrollmentVars
<1>2. PcpInv => ConnectionIsAsApproved
  BY DEF PcpInv, EnrolledIsOf, EnrolledAt, SessionApproved, CallOnce, ConnectionIsAsApproved,
         Pcp!RegistrationsStay, Pcp!SessionIsAsApproved, Pcp!WritesApplyOnce
<1> QED BY PcpInit, <1>1, <1>2, PTL DEF ServicesSpec

-----------------------------------------------------------------------------
(* A native turn.                                                            *)

EndKinds == {"completed", "interrupted", "failed", "error"}
Asks == Turn!Kinds \cup {""}
WireMessages == [kind : EndKinds \cup {"started", "delta", "request"}, turn : Nat, asks : Asks]
InboxMessages == [kind : {"turn/start", "turn/interrupt"}, turn : Nat \ {0}]
Readers == [at : {"turn"}, turn : Nat, id : Nat, wanted : BOOLEAN, sent : BOOLEAN,
            deadline : {"none", "set", "passed"}, mayEscalate : BOOLEAN, deeper : BOOLEAN, text : SUBSET Nat]

TurnType ==
    /\ asked \in Nat
    /\ reader \in {Turn!Away, [at |-> "deeper"]} \cup Readers
    /\ inbox \in Seq(InboxMessages) /\ wire \in Seq(WireMessages)
    /\ appServer \in [turn : Nat, waits : Asks, up : BOOLEAN]

(* The reader is in the turn asked for last, and took text of no other.      *)
ReaderOK ==
    Turn!InTurn => /\ reader.turn = asked /\ asked # 0
                   /\ reader.id \in {0, asked} /\ reader.text \subseteq {asked}

(* The server runs that turn or none, and none when nobody reads.            *)
ServerOK == appServer.turn \in {0, asked} /\ (~Turn!InTurn => appServer.turn = 0)

(* The wire carries messages of that turn only; behind its end, nothing.     *)
WireOK ==
    /\ wire # <<>> => Turn!InTurn
    /\ \A i \in 1..Len(wire) :
          /\ wire[i].turn = asked
          /\ wire[i].kind \in EndKinds => i = Len(wire) /\ appServer.turn = 0

(* A turn/start that is not read yet is the only one, and nothing of its     *)
(* turn has happened.                                                        *)
StartsOK ==
    \A i \in 1..Len(inbox) : inbox[i].kind = "turn/start" =>
        /\ Turn!InTurn /\ inbox[i].turn = asked /\ wire = <<>> /\ appServer.turn = 0
        /\ \A j \in 1..Len(inbox) : inbox[j].kind = "turn/start" => j = i

TurnInv == TurnType /\ ReaderOK /\ ServerOK /\ WireOK /\ StartsOK

LEMMA AppendedSeq ==
    ASSUME NEW T, NEW q \in Seq(T), NEW m \in T, NEW r, r = Append(q, m)
    PROVE  /\ r \in Seq(T) /\ r # <<>> /\ Len(r) = Len(q) + 1 /\ Len(q) \in Nat
           /\ \A i \in 1..Len(q) : r[i] = q[i]
           /\ r[Len(q) + 1] = m
OBVIOUS

LEMMA TailedSeq ==
    ASSUME NEW T, NEW q \in Seq(T), q # <<>>, NEW r, r = Tail(q)
    PROVE  /\ r \in Seq(T) /\ Len(q) = Len(r) + 1 /\ Len(r) \in Nat
           /\ \A i \in 1..Len(r) : i + 1 \in 1..Len(q) /\ r[i] = q[i + 1]
           /\ Head(q) = q[1] /\ 1 \in 1..Len(q) /\ q[1] \in T
           /\ r # <<>> => 1 # Len(q)
OBVIOUS

LEMMA EmptyIsSeq == ASSUME NEW T PROVE <<>> \in Seq(T) /\ Len(<<>>) = 0 /\ 1..0 = {}
OBVIOUS

LEMMA TurnInit == ServicesInit => TurnInv
<1> SUFFICES ASSUME Turn!Init PROVE TurnInv
  BY DEF ServicesInit
<1>1. inbox = <<>> /\ wire = <<>> /\ reader = Turn!Away /\ asked = 0 /\ appServer = [turn |-> 0, waits |-> "", up |-> TRUE]
  BY DEF Turn!Init
<1>2. ~Turn!InTurn
  BY <1>1 DEF Turn!InTurn, Turn!Away
<1>3. /\ inbox \in Seq(InboxMessages) /\ wire \in Seq(WireMessages)
      /\ 1..Len(inbox) = {} /\ 1..Len(wire) = {}
  BY <1>1, EmptyIsSeq
<1>4. TurnType
  BY <1>1, <1>3 DEF TurnType, Asks
<1>5. WireOK /\ StartsOK
  BY <1>1, <1>3 DEF WireOK, StartsOK
<1> QED BY <1>1, <1>2, <1>4, <1>5 DEF TurnInv, ReaderOK, ServerOK

(* The server writes a message of the turn it runs, its end only as the last.*)
Speaks(m, s) ==
    /\ appServer.turn # 0 /\ m \in WireMessages /\ m.turn = appServer.turn
    /\ wire' = Append(wire, m)
    /\ s \in [turn : Nat, waits : Asks, up : BOOLEAN] /\ appServer' = s
    /\ s.turn \in {0, appServer.turn} /\ (m.kind \in EndKinds => s.turn = 0)
    /\ UNCHANGED <<reader, asked>>

LEMMA SpeaksStep ==
    ASSUME TurnInv, NEW m, NEW s, Speaks(m, s),
           inbox' = inbox \/ (inbox # <<>> /\ inbox' = Tail(inbox))
    PROVE  TurnInv'
<1>1. TurnType /\ ReaderOK /\ ServerOK /\ WireOK /\ StartsOK
  BY DEF TurnInv
<1>2. Turn!InTurn /\ appServer.turn = asked /\ asked # 0 /\ Turn!InTurn'
  BY <1>1 DEF ServerOK, Speaks, Turn!InTurn
<1>3. inbox' \in Seq(InboxMessages) /\ \A i \in 1..Len(inbox') : inbox'[i].kind # "turn/start"
  <2>1. inbox \in Seq(InboxMessages) /\ \A i \in 1..Len(inbox) : inbox[i].kind # "turn/start"
    BY <1>1 DEF TurnType, StartsOK, Speaks
  <2>2. CASE inbox # <<>> /\ inbox' = Tail(inbox)
    BY <2>1, <2>2, TailedSeq
  <2> QED BY <2>1, <2>2
<1>4. /\ wire' \in Seq(WireMessages) /\ Len(wire') = Len(wire) + 1 /\ Len(wire) \in Nat
      /\ \A i \in 1..Len(wire) : wire'[i] = wire[i]
      /\ wire'[Len(wire) + 1] = m
  BY <1>1, AppendedSeq DEF TurnType, Speaks
<1>5. \A i \in 1..Len(wire) : wire[i].kind \notin EndKinds /\ wire[i].turn = asked
  BY <1>1 DEF WireOK, Speaks
<1>6. WireOK'
  BY <1>2, <1>4, <1>5 DEF WireOK, Speaks
<1>7. TurnType'
  BY <1>1, <1>3, <1>4 DEF TurnType, Speaks
<1>8. ReaderOK' /\ ServerOK'
  BY <1>1, <1>2 DEF ReaderOK, ServerOK, Speaks, Turn!InTurn
<1>9. StartsOK'
  BY <1>3 DEF StartsOK
<1> QED BY <1>6, <1>7, <1>8, <1>9 DEF TurnInv

LEMMA ServerSpeaksStep ==
    ASSUME TurnInv,
           \/ Turn!ServerSpeaks
           \/ \E what \in Turn!Kinds : Turn!ServerAsks(what)
           \/ \E status \in {"completed", "failed"} : Turn!ServerEnds(status)
           \/ Turn!ServerErrs
    PROVE  TurnInv'
<1>1. appServer \in [turn : Nat, waits : Asks, up : BOOLEAN] /\ appServer.turn \in Nat
  BY DEF TurnInv, TurnType
<1>2. UNCHANGED <<reader, asked, inbox>> /\ appServer.turn # 0
  BY DEF Turn!ServerSpeaks, Turn!ServerAsks, Turn!ServerEnds, Turn!ServerErrs, Turn!Chatter, Turn!Unread
<1>3. CASE Turn!ServerSpeaks
  <2> DEFINE m == [kind |-> "delta", turn |-> appServer.turn, asks |-> ""]
  <2>1. m \in WireMessages
    BY <1>1 DEF WireMessages, Asks
  <2>2. wire' = Append(wire, m) /\ appServer' = appServer
    BY <1>3 DEF Turn!ServerSpeaks, Turn!Emit, Turn!Message
  <2>3. Speaks(m, appServer)
    BY <1>1, <1>2, <2>1, <2>2 DEF Speaks, EndKinds
  <2> QED BY <1>2, <2>3, SpeaksStep
<1>4. ASSUME NEW what \in Turn!Kinds, Turn!ServerAsks(what) PROVE TurnInv'
  <2> DEFINE n == [kind |-> "request", turn |-> appServer.turn, asks |-> ""]
             m == [n EXCEPT !.asks = what]
             s == [appServer EXCEPT !.waits = what]
  <2>1. m \in WireMessages /\ m.kind = "request" /\ m.turn = appServer.turn
    <3>1. n \in WireMessages /\ n.kind = "request" /\ n.turn = appServer.turn
      BY <1>1 DEF WireMessages, Asks
    <3> HIDE DEF n
    <3> QED BY <3>1 DEF WireMessages, Asks
  <2>2. wire' = Append(wire, m) /\ appServer' = s
    BY <1>4 DEF Turn!ServerAsks, Turn!Emit, Turn!Message
  <2>3. s \in [turn : Nat, waits : Asks, up : BOOLEAN] /\ s.turn = appServer.turn
    BY <1>1 DEF Asks
  <2> HIDE DEF s, m
  <2>4. Speaks(m, s)
    BY <1>1, <1>2, <2>1, <2>2, <2>3 DEF Speaks, EndKinds
  <2> QED BY <1>2, <2>4, SpeaksStep
<1>5. ASSUME NEW status \in {"completed", "failed"}, Turn!ServerEnds(status) PROVE TurnInv'
  <2> DEFINE m == [kind |-> status, turn |-> appServer.turn, asks |-> ""]
             s == [appServer EXCEPT !.turn = 0]
  <2>1. m \in WireMessages
    BY <1>1 DEF WireMessages, Asks, EndKinds
  <2>2. wire' = Append(wire, m) /\ appServer' = s
    BY <1>5 DEF Turn!ServerEnds, Turn!Emit, Turn!Message
  <2>3. s \in [turn : Nat, waits : Asks, up : BOOLEAN] /\ s.turn = 0
    BY <1>1
  <2> HIDE DEF s
  <2>4. Speaks(m, s)
    BY <1>1, <1>2, <2>1, <2>2, <2>3 DEF Speaks
  <2> QED BY <1>2, <2>4, SpeaksStep
<1>6. CASE Turn!ServerErrs
  <2> DEFINE m == [kind |-> "error", turn |-> appServer.turn, asks |-> ""]
             s == [appServer EXCEPT !.turn = 0]
  <2>1. m \in WireMessages
    BY <1>1 DEF WireMessages, Asks, EndKinds
  <2>2. wire' = Append(wire, m) /\ appServer' = s
    BY <1>6, ServicesAssumption DEF Turn!ServerErrs, Turn!Emit, Turn!Message, ServicesAssumption
  <2>3. s \in [turn : Nat, waits : Asks, up : BOOLEAN] /\ s.turn = 0
    BY <1>1
  <2> HIDE DEF s
  <2>4. Speaks(m, s)
    BY <1>1, <1>2, <2>1, <2>2, <2>3 DEF Speaks
  <2> QED BY <1>2, <2>4, SpeaksStep
<1> QED BY <1>3, <1>4, <1>5, <1>6

LEMMA ServerInterruptsStep == ASSUME TurnInv, Turn!ServerInterrupts PROVE TurnInv'
<1>1. TurnType /\ ReaderOK /\ ServerOK /\ WireOK /\ StartsOK
  BY DEF TurnInv
<1>2. /\ inbox # <<>> /\ inbox' = Tail(inbox) /\ Head(inbox).kind = "turn/interrupt"
      /\ UNCHANGED <<reader, asked>>
  BY DEF Turn!ServerInterrupts, Turn!Unread
<1>3. /\ inbox' \in Seq(InboxMessages) /\ Head(inbox) \in InboxMessages
      /\ Len(inbox) = Len(inbox') + 1 /\ Len(inbox') \in Nat
      /\ \A i \in 1..Len(inbox') : i + 1 \in 1..Len(inbox) /\ inbox'[i] = inbox[i + 1]
  BY <1>1, <1>2, TailedSeq DEF TurnType
<1>4. CASE Head(inbox).turn = appServer.turn
  <2> DEFINE m == [kind |-> "interrupted", turn |-> appServer.turn, asks |-> ""]
             s == [appServer EXCEPT !.turn = 0, !.waits = ""]
  <2>1. m \in WireMessages
    BY <1>1 DEF WireMessages, Asks, EndKinds, TurnType
  <2>2. wire' = Append(wire, m) /\ appServer' = s
    BY <1>4 DEF Turn!ServerInterrupts, Turn!Emit, Turn!Message
  <2>3. s \in [turn : Nat, waits : Asks, up : BOOLEAN] /\ s.turn = 0
    BY <1>1 DEF TurnType, Asks
  <2>4. appServer.turn # 0
    BY <1>3, <1>4 DEF InboxMessages
  <2> HIDE DEF s
  <2>5. Speaks(m, s)
    BY <1>2, <2>1, <2>2, <2>3, <2>4 DEF Speaks
  <2> QED BY <1>2, <2>5, SpeaksStep
<1>5. CASE Head(inbox).turn # appServer.turn
  <2>1. UNCHANGED <<appServer, wire>>
    BY <1>5 DEF Turn!ServerInterrupts
  <2>2. StartsOK'
    <3> SUFFICES ASSUME NEW i \in 1..Len(inbox'), inbox'[i].kind = "turn/start"
                 PROVE  /\ Turn!InTurn' /\ inbox'[i].turn = asked' /\ wire' = <<>> /\ appServer'.turn = 0
                        /\ \A j \in 1..Len(inbox') : inbox'[j].kind = "turn/start" => j = i
      BY DEF StartsOK
    <3>1. i + 1 \in 1..Len(inbox) /\ inbox[i + 1].kind = "turn/start" /\ inbox[i + 1].turn = inbox'[i].turn
      BY <1>3
    <3>2. /\ Turn!InTurn /\ inbox[i + 1].turn = asked /\ wire = <<>> /\ appServer.turn = 0
          /\ \A j \in 1..Len(inbox) : inbox[j].kind = "turn/start" => j = i + 1
      BY <1>1, <3>1 DEF StartsOK
    <3>3. ASSUME NEW j \in 1..Len(inbox'), inbox'[j].kind = "turn/start" PROVE j = i
      <4>1. j + 1 \in 1..Len(inbox) /\ inbox[j + 1].kind = "turn/start"
        BY <1>3, <3>3
      <4>2. j + 1 = i + 1
        BY <3>2, <4>1
      <4> QED BY <1>3, <4>2
    <3> QED BY <1>2, <2>1, <3>1, <3>2, <3>3 DEF Turn!InTurn
  <2>3. TurnType' /\ ReaderOK' /\ ServerOK' /\ WireOK'
    BY <1>1, <1>2, <1>3, <2>1 DEF TurnType, ReaderOK, ServerOK, WireOK, Turn!InTurn
  <2> QED BY <2>2, <2>3 DEF TurnInv
<1> QED BY <1>4, <1>5

(* The server reads the only turn/start: the wire is empty behind it.        *)
LEMMA ServerStartsStep == ASSUME TurnInv, Turn!ServerStarts PROVE TurnInv'
<1>1. TurnType /\ ReaderOK /\ ServerOK /\ WireOK /\ StartsOK
  BY DEF TurnInv
<1>2. /\ inbox # <<>> /\ inbox' = Tail(inbox) /\ Head(inbox).kind = "turn/start"
      /\ UNCHANGED <<reader, asked>>
  BY DEF Turn!ServerStarts, Turn!Unread
<1>3. /\ inbox' \in Seq(InboxMessages) /\ Head(inbox) = inbox[1] /\ 1 \in 1..Len(inbox)
      /\ Len(inbox) = Len(inbox') + 1 /\ Len(inbox') \in Nat
      /\ \A i \in 1..Len(inbox') : i + 1 \in 1..Len(inbox) /\ inbox'[i] = inbox[i + 1]
  BY <1>1, <1>2, TailedSeq DEF TurnType
<1>4. /\ Turn!InTurn /\ Head(inbox).turn = asked /\ wire = <<>> /\ appServer.turn = 0
      /\ \A j \in 1..Len(inbox) : inbox[j].kind = "turn/start" => j = 1
  BY <1>1, <1>2, <1>3 DEF StartsOK
<1>5. \A i \in 1..Len(inbox') : inbox'[i].kind # "turn/start"
  <2> SUFFICES ASSUME NEW i \in 1..Len(inbox'), inbox'[i].kind = "turn/start" PROVE FALSE
    OBVIOUS
  <2>1. i + 1 = 1
    BY <1>3, <1>4
  <2> QED BY <1>3, <2>1
<1> DEFINE m == [kind |-> "started", turn |-> asked, asks |-> ""]
           s == [appServer EXCEPT !.turn = asked, !.waits = ""]
<1>6. wire' = Append(wire, m) /\ appServer' = s
  BY <1>4 DEF Turn!ServerStarts, Turn!Emit, Turn!Message
<1>7. m \in WireMessages /\ s \in [turn : Nat, waits : Asks, up : BOOLEAN] /\ s.turn = asked
  BY <1>1 DEF TurnType, WireMessages, Asks
<1>8. wire' \in Seq(WireMessages) /\ Len(wire') = 1 /\ wire'[1] = m
  <2> HIDE DEF m, s
  <2>1. wire \in Seq(WireMessages) /\ Len(wire) = 0
    BY <1>4, EmptyIsSeq
  <2> QED BY <1>6, <1>7, <2>1, AppendedSeq
<1>9. m.turn = asked /\ m.kind \notin EndKinds
  BY DEF EndKinds
<1> HIDE DEF m, s
<1>10. WireOK'
  BY <1>2, <1>4, <1>8, <1>9 DEF WireOK, Turn!InTurn
<1>11. TurnType' /\ ReaderOK' /\ ServerOK'
  BY <1>1, <1>2, <1>3, <1>4, <1>6, <1>7, <1>8 DEF TurnType, ReaderOK, ServerOK, Turn!InTurn
<1>12. StartsOK'
  BY <1>5 DEF StartsOK
<1> QED BY <1>10, <1>11, <1>12 DEF TurnInv

LEMMA ServerDiesStep == ASSUME TurnInv, Turn!ServerDies PROVE TurnInv'
<1> DEFINE s == [appServer EXCEPT !.up = FALSE, !.turn = 0, !.waits = ""]
<1>1. UNCHANGED <<inbox, wire, reader, asked>> /\ appServer' = s
  BY DEF Turn!ServerDies, Turn!Unread
<1>2. s \in [turn : Nat, waits : Asks, up : BOOLEAN] /\ s.turn = 0
  BY DEF TurnInv, TurnType, Asks
<1> HIDE DEF s
<1>3. TurnType'
  BY <1>1, <1>2 DEF TurnInv, TurnType
<1>4. WireOK' /\ ReaderOK' /\ ServerOK'
  BY <1>1, <1>2 DEF TurnInv, WireOK, ReaderOK, ServerOK, Turn!InTurn
<1>5. StartsOK'
  BY <1>1, <1>2 DEF TurnInv, StartsOK, Turn!InTurn
<1> QED BY <1>3, <1>4, <1>5 DEF TurnInv

(* What the client does while its turn lasts: it reads a message, or none,   *)
(* learns its id, keeps text, and at most writes an interrupt.               *)
Interrupt(of) == [kind |-> "turn/interrupt", turn |-> of]

Reads ==
    /\ Turn!InTurn /\ reader' \in Readers /\ reader'.turn = reader.turn
    /\ reader'.id \in {0, asked} /\ reader'.text \subseteq {asked}
    /\ wire' = wire \/ (wire # <<>> /\ wire' = Tail(wire))
    /\ inbox' = inbox \/ (asked # 0 /\ inbox' = Append(inbox, Interrupt(asked)))
    /\ appServer' \in [turn : Nat, waits : Asks, up : BOOLEAN] /\ appServer'.turn = appServer.turn
    /\ UNCHANGED asked

LEMMA ReadsStep == ASSUME TurnInv, Reads PROVE TurnInv'
<1>1. TurnType /\ ReaderOK /\ ServerOK /\ WireOK /\ StartsOK
  BY DEF TurnInv
<1>2. /\ Turn!InTurn /\ Turn!InTurn' /\ reader' \in Readers /\ reader'.turn = reader.turn
      /\ reader'.id \in {0, asked} /\ reader'.text \subseteq {asked} /\ asked' = asked /\ asked \in Nat
      /\ appServer' \in [turn : Nat, waits : Asks, up : BOOLEAN] /\ appServer'.turn = appServer.turn
  BY <1>1 DEF Reads, Turn!InTurn, Readers, TurnType
<1>3. ReaderOK' /\ ServerOK'
  BY <1>1, <1>2 DEF ReaderOK, ServerOK
<1>4. /\ inbox' \in Seq(InboxMessages)
      /\ \A i \in 1..Len(inbox') : inbox'[i].kind = "turn/start" => i \in 1..Len(inbox) /\ inbox'[i] = inbox[i]
  <2>1. CASE inbox' = inbox
    BY <1>1, <2>1 DEF TurnType
  <2>2. CASE asked # 0 /\ inbox' = Append(inbox, Interrupt(asked))
    <3>1. Interrupt(asked) \in InboxMessages /\ Interrupt(asked).kind # "turn/start"
      BY <1>2, <2>2 DEF InboxMessages, Interrupt
    <3>2. inbox \in Seq(InboxMessages)
      BY <1>1 DEF TurnType
    <3>3. /\ inbox' \in Seq(InboxMessages) /\ Len(inbox') = Len(inbox) + 1 /\ Len(inbox) \in Nat
          /\ \A i \in 1..Len(inbox) : inbox'[i] = inbox[i]
          /\ inbox'[Len(inbox) + 1] = Interrupt(asked)
      BY <2>2, <3>1, <3>2, AppendedSeq
    <3> QED BY <3>1, <3>3
  <2> QED BY <2>1, <2>2 DEF Reads
<1>5. wire' \in Seq(WireMessages) /\ WireOK' /\ (wire = <<>> => wire' = <<>>)
  <2>1. CASE wire' = wire
    BY <1>1, <1>2, <2>1 DEF TurnType, WireOK
  <2>2. CASE wire # <<>> /\ wire' = Tail(wire)
    <3>1. wire \in Seq(WireMessages)
      BY <1>1 DEF TurnType
    <3>2. /\ wire' \in Seq(WireMessages) /\ Len(wire) = Len(wire') + 1 /\ Len(wire') \in Nat
          /\ \A i \in 1..Len(wire') : i + 1 \in 1..Len(wire) /\ wire'[i] = wire[i + 1]
      BY <2>2, <3>1, TailedSeq
    <3>3. ASSUME NEW i \in 1..Len(wire')
          PROVE  wire'[i].turn = asked /\ (wire'[i].kind \in EndKinds => i = Len(wire') /\ appServer.turn = 0)
      BY <1>1, <3>2 DEF WireOK
    <3> QED BY <1>2, <2>2, <3>2, <3>3 DEF WireOK
  <2> QED BY <2>1, <2>2 DEF Reads
<1>6. TurnType'
  BY <1>2, <1>4, <1>5 DEF TurnType
<1>7. StartsOK'
  <2> SUFFICES ASSUME NEW i \in 1..Len(inbox'), inbox'[i].kind = "turn/start"
               PROVE  /\ Turn!InTurn' /\ inbox'[i].turn = asked' /\ wire' = <<>> /\ appServer'.turn = 0
                      /\ \A j \in 1..Len(inbox') : inbox'[j].kind = "turn/start" => j = i
    BY DEF StartsOK
  <2>1. i \in 1..Len(inbox) /\ inbox[i].kind = "turn/start" /\ inbox[i] = inbox'[i]
    BY <1>4
  <2>2. /\ inbox[i].turn = asked /\ wire = <<>> /\ appServer.turn = 0
        /\ \A j \in 1..Len(inbox) : inbox[j].kind = "turn/start" => j = i
    BY <1>1, <2>1 DEF StartsOK
  <2> QED BY <1>2, <1>4, <1>5, <2>1, <2>2
<1> QED BY <1>3, <1>5, <1>6, <1>7 DEF TurnInv

(* The reader of a turn, and what Interrupted and Learn make of one.         *)
LEMMA ReaderInTurn ==
    ASSUME TurnInv, Turn!InTurn
    PROVE  /\ reader \in Readers /\ asked \in Nat /\ asked # 0 /\ reader.turn = asked
           /\ reader.id \in {0, asked} /\ reader.text \subseteq {asked}
           /\ appServer \in [turn : Nat, waits : Asks, up : BOOLEAN]
BY DEF TurnInv, TurnType, ReaderOK, Turn!InTurn, Turn!Away

LEMMA InterruptedReads ==
    ASSUME asked \in Nat, NEW r \in Readers, r.turn = asked, r.id \in {0, asked}, r.text \subseteq {asked},
           Turn!Interrupted(r)
    PROVE  /\ reader' \in Readers /\ reader'.turn = asked
           /\ reader'.id \in {0, asked} /\ reader'.text \subseteq {asked}
           /\ inbox' = inbox \/ (asked # 0 /\ inbox' = Append(inbox, Interrupt(asked)))
<1>1. CASE r.id # 0 /\ ~r.sent
  <2> DEFINE n == [r EXCEPT !.sent = TRUE]
  <2>1. reader' = n /\ inbox' = Append(inbox, Interrupt(r.id))
    BY <1>1 DEF Turn!Interrupted, Turn!Send, Interrupt
  <2>2. n \in Readers /\ n.turn = r.turn /\ n.id = r.id /\ n.text = r.text
    BY DEF Readers
  <2> QED BY <1>1, <2>1, <2>2
<1>2. CASE ~(r.id # 0 /\ ~r.sent)
  BY <1>2 DEF Turn!Interrupted
<1> QED BY <1>1, <1>2

LEMMA FirstOfWire ==
    ASSUME TurnInv, wire # <<>>
    PROVE  /\ Turn!InTurn /\ Turn!Next1 \in WireMessages /\ Turn!Next1.turn = asked
           /\ Turn!Next1.kind \in EndKinds => Tail(wire) = <<>> /\ appServer.turn = 0
           /\ \A i \in 1..Len(inbox) : inbox[i].kind # "turn/start"
<1> DEFINE r == Tail(wire)
<1>1. wire \in Seq(WireMessages) /\ WireOK /\ StartsOK
  BY DEF TurnInv, TurnType
<1>2. /\ Head(wire) = wire[1] /\ 1 \in 1..Len(wire) /\ wire[1] \in WireMessages
      /\ r # <<>> => 1 # Len(wire)
  BY <1>1, TailedSeq
<1> HIDE DEF r
<1>3. wire[1].turn = asked /\ (wire[1].kind \in EndKinds => 1 = Len(wire) /\ appServer.turn = 0) /\ Turn!InTurn
  BY <1>1, <1>2 DEF WireOK
<1>4. \A i \in 1..Len(inbox) : inbox[i].kind # "turn/start"
  BY <1>1 DEF StartsOK
<1> QED BY <1>2, <1>3, <1>4 DEF Turn!Next1, r

LEMMA NoticesStep == ASSUME TurnInv, Turn!SeeInput \/ Turn!SensingDeadline PROVE TurnInv'
<1>1. /\ Turn!InTurn /\ UNCHANGED <<appServer, wire, asked>>
  BY DEF Turn!SeeInput, Turn!SensingDeadline
<1>2. /\ reader \in Readers /\ asked \in Nat /\ asked # 0 /\ reader.turn = asked
      /\ reader.id \in {0, asked} /\ reader.text \subseteq {asked}
      /\ appServer \in [turn : Nat, waits : Asks, up : BOOLEAN]
  BY <1>1, ReaderInTurn
<1>3. CASE Turn!SeeInput
  <2> DEFINE r == [reader EXCEPT !.wanted = TRUE]
  <2>1. r \in Readers /\ r.turn = asked /\ r.id \in {0, asked} /\ r.text \subseteq {asked}
    BY <1>2 DEF Readers
  <2>2. Turn!Interrupted(r)
    BY <1>3 DEF Turn!SeeInput
  <2> HIDE DEF r
  <2> QED BY <1>1, <1>2, <2>1, <2>2, InterruptedReads, ReadsStep DEF Reads
<1>4. CASE Turn!SensingDeadline
  <2> DEFINE late == [reader EXCEPT !.deadline = "passed", !.wanted = TRUE]
             sent == [late EXCEPT !.sent = TRUE]
  <2>1. late \in Readers /\ late.turn = asked /\ late.id \in {0, asked} /\ late.text \subseteq {asked}
    BY <1>2 DEF Readers
  <2>2. IF reader.id # 0 THEN reader' = sent /\ Turn!Send("turn/interrupt", reader.id)
                         ELSE reader' = late /\ UNCHANGED inbox
    BY <1>4 DEF Turn!SensingDeadline
  <2> HIDE DEF late
  <2>3. sent \in Readers /\ sent.turn = asked /\ sent.id \in {0, asked} /\ sent.text \subseteq {asked}
    BY <2>1 DEF Readers
  <2> HIDE DEF sent
  <2>4. Reads
    BY <1>1, <1>2, <2>1, <2>2, <2>3 DEF Reads, Turn!Send, Interrupt
  <2> QED BY <2>4, ReadsStep
<1> QED BY <1>3, <1>4

LEMMA HandlesStep ==
    ASSUME TurnInv,
           Turn!HandleRequest \/ Turn!OverlookQuestion \/ Turn!HandleStarted \/ Turn!HandleDelta \/ Turn!Ignore
    PROVE  TurnInv'
<1>1. Turn!InTurn /\ wire # <<>> /\ wire' = Tail(wire) /\ UNCHANGED asked
  BY DEF Turn!HandleRequest, Turn!OverlookQuestion, Turn!HandleStarted, Turn!HandleDelta, Turn!Ignore, Turn!Take
<1>2. /\ reader \in Readers /\ asked \in Nat /\ asked # 0 /\ reader.turn = asked
      /\ reader.id \in {0, asked} /\ reader.text \subseteq {asked}
      /\ appServer \in [turn : Nat, waits : Asks, up : BOOLEAN]
  BY <1>1, ReaderInTurn
<1>3. Turn!Next1 \in WireMessages /\ Turn!Next1.turn = asked
  BY <1>1, FirstOfWire
<1>4. CASE Turn!HandleRequest
  <2> DEFINE s == [appServer EXCEPT !.waits = ""]
             d == reader.deeper \/ (Turn!Next1.asks = "escalate" /\ reader.mayEscalate)
             r == [reader EXCEPT !.deeper = d]
  <2>1. s \in [turn : Nat, waits : Asks, up : BOOLEAN] /\ s.turn = appServer.turn
    BY <1>2 DEF Asks
  <2>2. appServer' \in {s, appServer} /\ reader' = r /\ UNCHANGED inbox
    BY <1>4 DEF Turn!HandleRequest, Turn!Answer
  <2> HIDE DEF s
  <2>3. d \in BOOLEAN
    BY <1>2 DEF Readers
  <2> HIDE DEF d
  <2>4. r \in Readers /\ r.turn = asked /\ r.id = reader.id /\ r.text = reader.text
    BY <1>2, <2>3 DEF Readers
  <2> HIDE DEF r
  <2>5. Reads
    BY <1>1, <1>2, <2>1, <2>2, <2>4 DEF Reads
  <2> QED BY <2>5, ReadsStep
<1>5. CASE Turn!OverlookQuestion \/ Turn!Ignore
  <2>1. UNCHANGED <<appServer, inbox, reader>>
    BY <1>5 DEF Turn!OverlookQuestion, Turn!Ignore
  <2>2. Reads
    BY <1>1, <1>2, <2>1 DEF Reads
  <2> QED BY <2>2, ReadsStep
<1>6. CASE Turn!HandleStarted
  <2> DEFINE r == [reader EXCEPT !.id = Turn!Next1.turn]
  <2>1. r \in Readers /\ r.turn = asked /\ r.id \in {0, asked} /\ r.text \subseteq {asked}
    BY <1>2, <1>3 DEF Readers
  <2>2. Turn!Learn(r) /\ UNCHANGED appServer
    BY <1>6 DEF Turn!HandleStarted
  <2> HIDE DEF r
  <2>3. /\ reader' \in Readers /\ reader'.turn = asked
        /\ reader'.id \in {0, asked} /\ reader'.text \subseteq {asked}
        /\ inbox' = inbox \/ (asked # 0 /\ inbox' = Append(inbox, Interrupt(asked)))
    BY <1>2, <2>1, <2>2, InterruptedReads DEF Turn!Learn
  <2>4. Reads
    BY <1>1, <1>2, <2>2, <2>3 DEF Reads
  <2> QED BY <2>4, ReadsStep
<1>7. CASE Turn!HandleDelta
  <2> DEFINE u == reader.text \cup {Turn!Next1.turn}
             r == [reader EXCEPT !.text = u]
  <2>1. u \subseteq {asked}
    BY <1>2, <1>3
  <2>2. reader' = r /\ UNCHANGED <<appServer, inbox>>
    BY <1>7 DEF Turn!HandleDelta
  <2> HIDE DEF u
  <2>3. r \in Readers /\ r.turn = asked /\ r.id = reader.id /\ r.text = u
    BY <1>2, <2>1 DEF Readers
  <2> HIDE DEF r
  <2>4. Reads
    BY <1>1, <1>2, <2>1, <2>2, <2>3 DEF Reads
  <2> QED BY <2>4, ReadsStep
<1> QED BY <1>4, <1>5, <1>6, <1>7

(* A turn is over, by its end or by a restart, or another one is asked for.  *)
LEMMA OverStep ==
    ASSUME TurnInv, NEW d, d \in {Turn!Away, [at |-> "deeper"]}, reader' = d, wire' = <<>>, UNCHANGED asked,
           appServer' \in [turn : Nat, waits : Asks, up : BOOLEAN], appServer'.turn = 0,
           inbox' \in Seq(InboxMessages),
           \A i \in 1..Len(inbox') : inbox'[i].kind # "turn/start"
    PROVE  TurnInv'
<1>1. ~Turn!InTurn'
  BY DEF Turn!InTurn, Turn!Away
<1>2. wire' \in Seq(WireMessages) /\ 1..Len(wire') = {}
  BY EmptyIsSeq
<1>3. TurnType'
  BY <1>2 DEF TurnInv, TurnType
<1>4. ReaderOK' /\ ServerOK' /\ StartsOK'
  BY <1>1 DEF ReaderOK, ServerOK, StartsOK
<1>5. WireOK'
  BY <1>2 DEF WireOK
<1> QED BY <1>3, <1>4, <1>5 DEF TurnInv

LEMMA HandleEndStep ==
    ASSUME TurnInv, Turn!HandleEnd
    PROVE  TurnInv' /\ verdict' = [asked |-> asked, got |-> asked]
<1>1. /\ Turn!InTurn /\ wire # <<>> /\ wire' = Tail(wire) /\ UNCHANGED <<asked, inbox, appServer>>
      /\ Turn!Next1.kind \in EndKinds
      /\ verdict' = [asked |-> reader.turn, got |-> Turn!Next1.turn]
  BY DEF Turn!HandleEnd, Turn!Take, EndKinds
<1>2. /\ Turn!Next1.turn = asked /\ wire' = <<>> /\ appServer.turn = 0
      /\ \A i \in 1..Len(inbox) : inbox[i].kind # "turn/start"
  BY <1>1, FirstOfWire
<1>3. reader.turn = asked
  BY <1>1, ReaderInTurn
<1>4. PICK d \in {Turn!Away, [at |-> "deeper"]} : reader' = d
  BY DEF Turn!HandleEnd
<1>5. /\ appServer' \in [turn : Nat, waits : Asks, up : BOOLEAN] /\ appServer'.turn = 0
      /\ inbox' \in Seq(InboxMessages)
  BY <1>1, <1>2 DEF TurnInv, TurnType
<1>6. TurnInv'
  BY <1>1, <1>2, <1>4, <1>5, OverStep
<1> QED BY <1>1, <1>2, <1>3, <1>6

LEMMA RestartStep == ASSUME TurnInv, Turn!Restart PROVE TurnInv'
<1> DEFINE s == [turn |-> 0, waits |-> "", up |-> TRUE]
<1>1. appServer' = s /\ inbox' = <<>> /\ wire' = <<>> /\ reader' = Turn!Away /\ UNCHANGED asked
  BY DEF Turn!Restart
<1>2. s \in [turn : Nat, waits : Asks, up : BOOLEAN] /\ s.turn = 0
  BY DEF Asks
<1> HIDE DEF s
<1>3. inbox' \in Seq(InboxMessages) /\ 1..Len(inbox') = {}
  BY <1>1, EmptyIsSeq
<1>4. \A i \in 1..Len(inbox') : inbox'[i].kind # "turn/start"
  BY <1>3
<1> QED BY <1>1, <1>2, <1>3, <1>4, OverStep

(* Nothing of a turn is under way when the next one is asked for.            *)
LEMMA TurnBegins ==
    ASSUME TurnInv, ~Turn!InTurn, NEW lead \in BOOLEAN, NEW sensing \in BOOLEAN,
           Turn!Begin(lead, sensing), appServer' = appServer, wire' = wire
    PROVE  TurnInv'
<1>1. /\ wire = <<>> /\ appServer.turn = 0 /\ asked \in Nat
      /\ inbox \in Seq(InboxMessages) /\ \A i \in 1..Len(inbox) : inbox[i].kind # "turn/start"
      /\ appServer \in [turn : Nat, waits : Asks, up : BOOLEAN]
  BY DEF TurnInv, TurnType, WireOK, ServerOK, StartsOK
<1> DEFINE m == [kind |-> "turn/start", turn |-> asked + 1]
           l == IF sensing THEN "set" ELSE "none"
           r == [at |-> "turn", turn |-> asked + 1, id |-> 0, wanted |-> FALSE, sent |-> FALSE,
                 deadline |-> l, mayEscalate |-> lead, deeper |-> FALSE, text |-> {}]
<1>2. asked' = asked + 1 /\ inbox' = Append(inbox, m) /\ reader' = r
  BY DEF Turn!Begin, Turn!Send
<1>3. l \in {"none", "set", "passed"}
  OBVIOUS
<1> HIDE DEF l
<1>4. r \in Readers /\ r.at = "turn" /\ r.turn = asked + 1 /\ r.id = 0 /\ r.text = {}
  BY <1>1, <1>3 DEF Readers
<1>5. m \in InboxMessages /\ m.turn = asked + 1 /\ asked + 1 # 0
  BY <1>1 DEF InboxMessages
<1> HIDE DEF r, m
<1>6. /\ inbox' \in Seq(InboxMessages) /\ Len(inbox') = Len(inbox) + 1 /\ Len(inbox) \in Nat
      /\ \A i \in 1..Len(inbox) : inbox'[i] = inbox[i]
      /\ inbox'[Len(inbox) + 1] = m
  BY <1>1, <1>2, <1>5, AppendedSeq
<1>7. Turn!InTurn' /\ wire' = <<>> /\ appServer' = appServer
  BY <1>1, <1>2, <1>4 DEF Turn!InTurn
<1>8. wire' \in Seq(WireMessages) /\ 1..Len(wire') = {}
  BY <1>7, EmptyIsSeq
<1>9. TurnType'
  BY <1>1, <1>2, <1>4, <1>6, <1>7, <1>8 DEF TurnType
<1>10. ReaderOK' /\ ServerOK'
  BY <1>1, <1>2, <1>4, <1>5, <1>7 DEF ReaderOK, ServerOK
<1>11. WireOK'
  BY <1>7, <1>8 DEF WireOK
<1>12. \A i \in 1..Len(inbox') : inbox'[i].kind = "turn/start" => i = Len(inbox) + 1 /\ inbox'[i].turn = asked'
  BY <1>1, <1>2, <1>5, <1>6
<1>13. StartsOK'
  BY <1>1, <1>7, <1>12 DEF StartsOK
<1> QED BY <1>9, <1>10, <1>11, <1>13 DEF TurnInv

(* The cache holds the own writes before the cached read only while nothing  *)
(* was written since, and the end that was taken is the turn's own.          *)
ReuseOK == writes \in Nat /\ cache \in Nat \cup {-1} /\ (cache # Turn!NotCached => cache = writes)
VerdictOK == verdict.got = verdict.asked
TurnsInv == TurnInv /\ ReuseOK /\ VerdictOK

LEMMA ServerStep ==
    ASSUME TurnInv,
           \/ Turn!ServerStarts \/ Turn!ServerInterrupts \/ Turn!ServerSpeaks \/ Turn!ServerErrs \/ Turn!ServerDies
           \/ \E what \in Turn!Kinds : Turn!ServerAsks(what)
           \/ \E status \in {"completed", "failed"} : Turn!ServerEnds(status)
    PROVE  TurnInv' /\ UNCHANGED <<cache, writes, verdict>>
<1>1. UNCHANGED <<cache, writes, verdict>>
  BY DEF Turn!ServerStarts, Turn!ServerInterrupts, Turn!ServerSpeaks, Turn!ServerErrs, Turn!ServerDies,
         Turn!ServerAsks, Turn!ServerEnds, Turn!Unread
<1> QED BY <1>1, ServerStartsStep, ServerInterruptsStep, ServerSpeaksStep, ServerDiesStep

LEMMA TurnsStep == ASSUME TurnsInv, Turn!Next PROVE TurnsInv'
<1>1. TurnInv /\ ReuseOK /\ VerdictOK
  BY DEF TurnsInv
<1>2. CASE \/ Turn!ServerStarts \/ Turn!ServerInterrupts \/ Turn!ServerSpeaks \/ Turn!ServerErrs \/ Turn!ServerDies
           \/ \E what \in Turn!Kinds : Turn!ServerAsks(what)
           \/ \E status \in {"completed", "failed"} : Turn!ServerEnds(status)
  <2>1. TurnInv' /\ UNCHANGED <<cache, writes, verdict>>
    BY <1>1, <1>2, ServerStep
  <2> QED BY <1>1, <2>1 DEF TurnsInv, ReuseOK, VerdictOK
<1>3. CASE Turn!SeeInput \/ Turn!SensingDeadline
  <2>1. UNCHANGED <<cache, writes, verdict>>
    BY <1>3 DEF Turn!SeeInput, Turn!SensingDeadline
  <2> QED BY <1>1, <1>3, <2>1, NoticesStep DEF TurnsInv, ReuseOK, VerdictOK
<1>4. CASE Turn!HandleRequest
  <2>1. TurnInv' /\ verdict' = verdict
    BY <1>1, <1>4, HandlesStep DEF Turn!HandleRequest
  <2>2. PICK what : Turn!Deduplicated(what)
    BY <1>4 DEF Turn!HandleRequest
  <2>3. ReuseOK'
    <3>1. CASE what = "write"
      BY <1>1, <2>2, <3>1 DEF ReuseOK, Turn!Deduplicated, Turn!NotCached
    <3>2. CASE what # "write"
      BY <1>1, <2>2, <3>2 DEF ReuseOK, Turn!Deduplicated, Turn!NotCached
    <3> QED BY <3>1, <3>2
  <2> QED BY <1>1, <2>1, <2>3 DEF TurnsInv, VerdictOK
<1>5. CASE Turn!OverlookQuestion \/ Turn!HandleStarted \/ Turn!HandleDelta \/ Turn!Ignore
  <2>1. UNCHANGED <<cache, writes, verdict>>
    BY <1>5 DEF Turn!OverlookQuestion, Turn!HandleStarted, Turn!HandleDelta, Turn!Ignore
  <2> QED BY <1>1, <1>5, <2>1, HandlesStep DEF TurnsInv, ReuseOK, VerdictOK
<1>6. CASE Turn!HandleEnd
  <2>1. UNCHANGED <<cache, writes>>
    BY <1>6 DEF Turn!HandleEnd
  <2> QED BY <1>1, <1>6, <2>1, HandleEndStep DEF TurnsInv, ReuseOK, VerdictOK
<1>7. CASE Turn!Restart
  <2>1. UNCHANGED <<cache, writes, verdict>>
    BY <1>7 DEF Turn!Restart
  <2> QED BY <1>1, <1>7, <2>1, RestartStep DEF TurnsInv, ReuseOK, VerdictOK
<1>8. CASE Turn!Type
  <2>1. UNCHANGED <<appServer, inbox, wire, reader, asked, cache, writes, verdict>>
    BY <1>8 DEF Turn!Type, Turn!transport
  <2> QED BY <1>1, <2>1 DEF TurnsInv, ReuseOK, VerdictOK, TurnInv, TurnType, ReaderOK, ServerOK, WireOK, StartsOK,
                            Turn!InTurn
<1>9. CASE Turn!GoDeeper \/ \E s, e \in BOOLEAN : Turn!Call(s, e)
  <2>1. PICK lead \in BOOLEAN, sensing \in BOOLEAN : Turn!Begin(lead, sensing)
    BY <1>9 DEF Turn!GoDeeper, Turn!Call
  <2>2. ~Turn!InTurn /\ UNCHANGED <<appServer, wire, verdict>>
    <3>1. CASE Turn!GoDeeper
      BY <3>1 DEF Turn!GoDeeper, Turn!InTurn
    <3>2. CASE \E s, e \in BOOLEAN : Turn!Call(s, e)
      <4>1. reader = Turn!Away /\ UNCHANGED <<appServer, wire, verdict>>
        BY <3>2 DEF Turn!Call
      <4> QED BY <4>1 DEF Turn!InTurn, Turn!Away
    <3> QED BY <1>9, <3>1, <3>2
  <2>3. TurnInv'
    BY <1>1, <2>1, <2>2, TurnBegins
  <2>4. cache' = Turn!NotCached /\ writes' = 0
    BY <2>1 DEF Turn!Begin
  <2> QED BY <1>1, <2>2, <2>3, <2>4 DEF TurnsInv, ReuseOK, VerdictOK, Turn!NotCached
<1> QED BY <1>2, <1>3, <1>4, <1>5, <1>6, <1>7, <1>8, <1>9 DEF Turn!Next

(* The end a Codex call takes is the end of the turn it asked for, and so is *)
(* all the text it keeps, although the client matches by thread alone until  *)
(* it knows the turn's id: whatever is on the pipe belongs to the turn asked *)
(* for last, an end is the last message of its turn, and no start waits to   *)
(* be read behind it.  A cached tool result is never older than the turn's   *)
(* own writes.  For every number of turns and messages, of a server whose    *)
(* turns stop at their error events (codex/client.rs, codex/tools.rs).       *)
THEOREM TurnsStayTheirOwn == ServicesSpec => []TurnsAreTheirOwn
<1>1. ServicesInit => TurnsInv
  <2>1. ServicesInit => cache = -1 /\ writes = 0 /\ verdict = [asked |-> 0, got |-> 0]
    BY DEF ServicesInit, Turn!Init, Turn!NotCached, Turn!NoVerdict
  <2>2. ServicesInit => ReuseOK /\ VerdictOK
    BY <2>1 DEF ReuseOK, VerdictOK, Turn!NotCached
  <2> QED BY <2>2, TurnInit DEF TurnsInv
<1>2. TurnsInv /\ [ServicesNext]_servicesVars => TurnsInv'
  <2> SUFFICES ASSUME TurnsInv, [ServicesNext]_servicesVars PROVE TurnsInv'
    OBVIOUS
  <2>1. CASE Turn!Next
    BY <2>1, TurnsStep
  <2>2. CASE UNCHANGED turnVars
    BY <2>2 DEF turnVars, TurnsInv, ReuseOK, VerdictOK, TurnInv, TurnType, ReaderOK, ServerOK, WireOK, StartsOK,
                Turn!InTurn
  <2> QED BY <2>1, <2>2 DEF ServicesNext, servicesVars, turnVars
<1>3. TurnsInv => TurnsAreTheirOwn
  BY DEF TurnsInv, TurnInv, ReuseOK, VerdictOK, ReaderOK, TurnsAreTheirOwn, Turn!TurnsEndThemselves,
         Turn!ReuseIsCurrent
<1> QED BY <1>1, <1>2, <1>3, PTL DEF ServicesSpec

-----------------------------------------------------------------------------
(* The authorization of the Drive.                                           *)

Places == {"new", "binding", "armed", "waiting", "accepted", "called", "exchanged", "authorized", "failed", "ended"}

(* Where the flows are, and what names them.                               *)
FlowsOK ==
    /\ flows \in [Drive!FlowIds -> [at : Places, told : BOOLEAN]]
    /\ offered \in Drive!FlowIds \cup {0} /\ cancellation \in Drive!FlowIds \cup {0}

LEMMA FlowIdsAreNotZero == 0 \notin Drive!FlowIds
BY DEF Drive!FlowIds

LEMMA InitFlows == Drive!Init => FlowsOK
BY DEF Drive!Init, FlowsOK, Places

(* A step of a flow moves it, and may tell one other to stop.              *)
LEMMA FlowStep ==
    ASSUME FlowsOK, NEW f \in Drive!FlowIds,
           \/ Drive!Start(f) \/ Drive!Armed(f) \/ Drive!Shown(f) \/ Drive!Accepts(f)
           \/ Drive!ReadsCallback(f) \/ Drive!Exchanges(f) \/ Drive!Stores(f) \/ Drive!Ends(f)
    PROVE  FlowsOK'
<1>1. CASE Drive!Start(f) \/ Drive!Accepts(f) \/ Drive!ReadsCallback(f) \/ Drive!Exchanges(f) \/ Drive!Stores(f)
  BY <1>1 DEF FlowsOK, Drive!Start, Drive!Accepts, Drive!ReadsCallback, Drive!Exchanges, Drive!Stores, Places
<1>2. CASE Drive!Shown(f)
  BY <1>2 DEF FlowsOK, Drive!Shown, Places
<1>3. CASE Drive!Armed(f)
  BY <1>3 DEF FlowsOK, Drive!Armed, Places
<1>4. CASE Drive!Ends(f)
  <2>1. PICK how : Drive!Finishes(f, how)
    BY <1>4 DEF Drive!Ends
  <2>2. flows[f] \in [at : Places, told : BOOLEAN]
    BY DEF FlowsOK
  <2>3. [flows[f] EXCEPT !.at = "ended"] \in [at : Places, told : BOOLEAN]
    BY <2>2 DEF Places
  <2>4. CASE Drive!IsPending(f)
    <3>1. \A g \in Drive!FlowIds : [flows[g] EXCEPT !.told = @ \/ g = cancellation] \in [at : Places, told : BOOLEAN]
      BY DEF FlowsOK
    <3>2. flows' \in [Drive!FlowIds -> [at : Places, told : BOOLEAN]]
      BY <2>1, <2>3, <2>4, <3>1 DEF Drive!Finishes
    <3>3. offered' = 0 /\ cancellation' = 0
      BY <2>1, <2>4 DEF Drive!Finishes
    <3> QED BY <3>2, <3>3 DEF FlowsOK
  <2>5. CASE ~Drive!IsPending(f)
    BY <2>1, <2>3, <2>5 DEF Drive!Finishes, FlowsOK
  <2> QED BY <2>4, <2>5
<1> QED BY <1>1, <1>2, <1>3, <1>4

LEMMA CancelFlows == ASSUME FlowsOK, Drive!Cancels PROVE FlowsOK'
<1>1. CASE cancellation # 0 /\ flows' = Drive!Told(cancellation) /\ offered' = 0
  BY <1>1 DEF FlowsOK, Drive!Cancels, Drive!Told
<1>2. CASE UNCHANGED <<flows, offered>>
  BY <1>2 DEF FlowsOK, Drive!Cancels
<1> QED BY <1>1, <1>2 DEF Drive!Cancels

LEMMA NextFlows == FlowsOK /\ [Drive!Next]_oauthVars => FlowsOK'
<1> SUFFICES ASSUME FlowsOK, [Drive!Next]_oauthVars PROVE FlowsOK'
  OBVIOUS
<1>1. CASE Drive!Cancel \/ Drive!Disconnect
  BY <1>1, CancelFlows DEF Drive!Cancel, Drive!Disconnect
<1>2. CASE Drive!Removes \/ Drive!Forgets \/ Drive!ReadCredential \/ Drive!TakeToken \/ Drive!Refresh \/ UNCHANGED oauthVars
  BY <1>2 DEF FlowsOK, Drive!Removes, Drive!Forgets, Drive!ReadCredential, Drive!TakeToken, Drive!Refresh,
         oauthVars
<1> QED BY <1>1, <1>2, FlowStep DEF Drive!Next

-----------------------------------------------------------------------------
(* What the poll holds: nothing, a credential, or its token too.         *)
PollOK ==
    \/ poll = [at |-> "idle"]
    \/ \E c : poll = [at |-> "read", credential |-> c] \/ poll = [at |-> "refreshing", credential |-> c]
    \/ \E c : poll = [at |-> "served", credential |-> c, token |-> c]

LEMMA NextPoll == PollOK /\ [Drive!Next]_oauthVars => PollOK'
<1> SUFFICES ASSUME PollOK, [Drive!Next]_oauthVars PROVE PollOK'
  OBVIOUS
<1>1. CASE UNCHANGED poll
  BY <1>1 DEF PollOK
<1>2. CASE Drive!ReadCredential
  BY <1>2 DEF PollOK, Drive!ReadCredential
<1>3. CASE Drive!TakeToken
  <2>1. PICK c : poll = [at |-> "read", credential |-> c]
    BY <1>3 DEF PollOK, Drive!TakeToken
  <2>2. CASE poll' = [poll EXCEPT !.at = "refreshing"]
    <3>1. poll' = [at |-> "refreshing", credential |-> c]
      BY <2>1, <2>2
    <3> QED BY <3>1 DEF PollOK
  <2>3. CASE tokenCache = c /\ poll' = [at |-> "served", credential |-> c, token |-> tokenCache]
    BY <2>3 DEF PollOK
  <2> QED BY <1>3, <2>1, <2>2, <2>3 DEF Drive!TakeToken, Drive!CacheFits
<1>4. CASE Drive!Refresh
  BY <1>4 DEF PollOK, Drive!Refresh
<1>5. Drive!Next => UNCHANGED poll \/ Drive!ReadCredential \/ Drive!TakeToken \/ Drive!Refresh
  BY DEF Drive!Next, Drive!Start, Drive!Armed, Drive!Shown, Drive!Accepts, Drive!ReadsCallback,
         Drive!Exchanges, Drive!Stores, Drive!Ends, Drive!Finishes,
         Drive!Cancel, Drive!Disconnect, Drive!Removes, Drive!Forgets
<1> QED BY <1>1, <1>2, <1>3, <1>4, <1>5 DEF oauthVars

(* Who takes the flow that is shown away: the end of its own task, which   *)
(* moves it, or the user, who moves none.                                  *)
OwnEnd ==
    offered # 0 /\ offered' = 0 =>
        flows'[offered].at = "ended" \/ \A f \in Drive!FlowIds : flows'[f].at = flows[f].at

LEMMA NextOwnEnd == FlowsOK /\ [Drive!Next]_oauthVars => OwnEnd
<1> SUFFICES ASSUME FlowsOK, [Drive!Next]_oauthVars, offered # 0, offered' = 0
             PROVE  flows'[offered].at = "ended" \/ \A f \in Drive!FlowIds : flows'[f].at = flows[f].at
  BY DEF OwnEnd
<1>1. ASSUME NEW f \in Drive!FlowIds, Drive!Shown(f) PROVE FALSE
  BY <1>1, FlowIdsAreNotZero DEF Drive!Shown
<1>2. ASSUME NEW f \in Drive!FlowIds, Drive!Ends(f) PROVE flows'[offered].at = "ended"
  <2>1. Drive!IsPending(f)
    BY <1>2 DEF Drive!Ends, Drive!Finishes
  <2> QED BY <1>2, <2>1 DEF Drive!Ends, Drive!Finishes, Drive!IsPending, FlowsOK
<1>3. ASSUME NEW f \in Drive!FlowIds, \/ Drive!Start(f) \/ Drive!Armed(f) \/ Drive!Accepts(f)
             \/ Drive!ReadsCallback(f) \/ Drive!Exchanges(f) \/ Drive!Stores(f)
      PROVE  FALSE
  BY <1>3 DEF Drive!Start, Drive!Armed, Drive!Accepts, Drive!ReadsCallback, Drive!Exchanges, Drive!Stores
<1>4. CASE Drive!Cancels
  BY <1>4 DEF Drive!Cancels, Drive!Told, FlowsOK
<1>5. CASE Drive!Removes \/ Drive!Forgets \/ Drive!ReadCredential \/ Drive!TakeToken \/ Drive!Refresh \/ UNCHANGED oauthVars
  BY <1>5 DEF Drive!Removes, Drive!Forgets, Drive!ReadCredential, Drive!TakeToken, Drive!Refresh, oauthVars
<1> QED BY <1>1, <1>2, <1>3, <1>4, <1>5 DEF Drive!Next, Drive!Cancel, Drive!Disconnect

-----------------------------------------------------------------------------
(* Whatever the number of authorizations: the Drive is read with the token *)
(* of the credential that was read, and what is shown as waiting for the   *)
(* browser is ended by its own task or by the user                         *)
(* (oauth.rs, access_token, start, cancel).                                *)
THEOREM AccountsAreKeptApart == ServicesSpec => AccountsStayApart
<1>1. ServicesInit => FlowsOK /\ PollOK
  BY InitFlows DEF ServicesInit, Drive!Init, PollOK
<1>2. PollOK => Drive!TokensFitTheAccount
  BY DEF PollOK, Drive!TokensFitTheAccount
<1>3. [ServicesNext]_servicesVars => [Drive!Next]_oauthVars
  BY DEF ServicesNext, servicesVars, oauthVars
<1>4. ServicesSpec => []FlowsOK
  BY <1>1, <1>3, NextFlows, PTL DEF ServicesSpec
<1>5. FlowsOK /\ [Drive!Next]_oauthVars => [OwnEnd]_oauthVars
  BY NextOwnEnd
<1>6. ServicesSpec => [][OwnEnd]_oauthVars
  BY <1>3, <1>4, <1>5, PTL DEF ServicesSpec
<1>7. ServicesSpec => []Drive!TokensFitTheAccount
  BY <1>1, <1>2, <1>3, NextPoll, PTL DEF ServicesSpec
<1> QED BY <1>6, <1>7, PTL DEF AccountsStayApart, Drive!AccountsStayApart, Drive!OnlyItsOwnEnd,
       Drive!oauthVars, OwnEnd, oauthVars
-----------------------------------------------------------------------------
(* The models of the lanes.                                                  *)

ConfigEdits == [step : {"none", "checked", "persisted", "gone"}, as : Compute!Settings]

(* One list of choices is saved, or none, and what an update carries is one. *)
ConfigOK ==
    /\ catalog \subseteq Choices
    /\ configFile = {} \/ \E saved \in Compute!Settings : configFile = {saved}
    /\ configEdits \in [Compute!Updates -> ConfigEdits]

LEMMA DefaultIsAChoice == catalog \subseteq Choices /\ Compute!Eligible # {} => Compute!Default \in Choices
  BY DEF Compute!Eligible, Compute!Default

LEMMA HydratedIsASetting ==
    ASSUME NEW saved \in Compute!Settings, Compute!Default \in Choices
    PROVE  Compute!HydrateLegacySense(saved) \in Compute!Settings
  BY DEF Compute!HydrateLegacySense, Compute!Settings

LEMMA MigratedIsASetting ==
    ASSUME NEW saved \in Compute!Settings, Compute!Default \in Choices
    PROVE  Compute!MigrateLegacyLightweightModels(saved) \in Compute!Settings
  BY DEF Compute!MigrateLegacyLightweightModels, Compute!Settings

(* What the upgrade of a file leaves as it is. *)
LEMMA UpgradeKeepsChoices ==
    ASSUME NEW saved \in Compute!Settings, NEW lane \in Lanes, saved[lane] \notin TooSmall \cup {Unset}
    PROVE  Compute!MigrateLegacyLightweightModels(Compute!HydrateLegacySense(saved))[lane] = saved[lane]
<1>1. Compute!HydrateLegacySense(saved)[lane] = saved[lane]
  BY DEF Compute!HydrateLegacySense, Compute!Settings
<1> QED BY <1>1 DEF Compute!MigrateLegacyLightweightModels

LEMMA ConfigInit == Compute!Init => ConfigOK
<1> SUFFICES ASSUME Compute!Init PROVE ConfigOK
  OBVIOUS
<1>1. config \in Compute!Settings
  BY DEF Compute!Init, Compute!Settings
<1>2. configEdits \in [Compute!Updates -> ConfigEdits]
  <2>1. [step |-> "none", as |-> config] \in ConfigEdits
    BY <1>1 DEF ConfigEdits
  <2> QED BY <2>1 DEF Compute!Init
<1> QED BY <1>2 DEF Compute!Init, ConfigOK

LEMMA OpenKeepsOneFile ==
    ASSUME ConfigOK, Compute!Eligible # {}, NEW saved \in configFile, Compute!Open(saved)
    PROVE  \E written \in Compute!Settings : configFile' = {written}
<1>1. saved \in Compute!Settings /\ configFile = {saved}
  BY DEF ConfigOK
<1> DEFINE upgraded == Compute!MigrateLegacyLightweightModels(Compute!HydrateLegacySense(saved))
<1>2. upgraded \in Compute!Settings
  BY <1>1, DefaultIsAChoice, HydratedIsASetting, MigratedIsASetting DEF ConfigOK
<1>3. configFile' = {upgraded} \/ configFile' = configFile
  BY DEF Compute!Open
<1> QED BY <1>1, <1>2, <1>3

LEMMA ConfigNext == ConfigOK /\ [Compute!Next]_configVars => ConfigOK'
<1> SUFFICES ASSUME ConfigOK, [Compute!Next]_configVars PROVE ConfigOK'
  OBVIOUS
<1>1. CASE UNCHANGED configVars
  BY <1>1 DEF ConfigOK, configVars
<1>2. CASE Compute!CatalogChanges
  BY <1>2 DEF ConfigOK, Compute!CatalogChanges
<1>3. CASE Compute!Start
  <2>1. \E written \in Compute!Settings : configFile' = {written}
    <3>1. CASE \E saved \in configFile : Compute!Open(saved)
      BY <1>3, <3>1, OpenKeepsOneFile DEF Compute!Start
    <3>2. CASE config' = Compute!Defaults /\ configFile' = {config'}
      <4>1. Compute!Default \in Choices
        BY <1>3, DefaultIsAChoice DEF ConfigOK, Compute!Start
      <4>2. Compute!Defaults \in Compute!Settings
        BY <4>1 DEF Compute!Defaults, Compute!Settings
      <4> QED BY <3>2, <4>2
    <3> QED BY <1>3, <3>1, <3>2 DEF Compute!Start
  <2> QED BY <1>3, <2>1 DEF ConfigOK, Compute!Start
<1>4. CASE Compute!Stop
  BY <1>4 DEF ConfigOK, ConfigEdits, Compute!Stop
<1>5. ASSUME NEW r \in Compute!Updates, Compute!Check(r) PROVE ConfigOK'
  <2>1. PICK draft \in Compute!Settings :
            configEdits' = [configEdits EXCEPT ![r] = [step |-> "checked", as |-> Compute!HydrateLegacySense(draft)]]
    BY <1>5 DEF Compute!Check
  <2>2. Compute!HydrateLegacySense(draft) \in Compute!Settings
    BY <1>5, DefaultIsAChoice, HydratedIsASetting DEF ConfigOK, Compute!Check
  <2> QED BY <1>5, <2>1, <2>2 DEF ConfigOK, ConfigEdits, Compute!Check
<1>6. ASSUME NEW r \in Compute!Updates, Compute!Persist(r) PROVE ConfigOK'
  BY <1>6 DEF ConfigOK, ConfigEdits, Compute!Persist
<1>7. ASSUME NEW r \in Compute!Updates, Compute!Use(r) PROVE ConfigOK'
  BY <1>7 DEF ConfigOK, ConfigEdits, Compute!Use
<1> QED BY <1>1, <1>2, <1>3, <1>4, <1>5, <1>6, <1>7 DEF Compute!Next

(* What a start of the program does to the choices that are saved. *)
StartKeeps ==
    \A saved \in configFile, lane \in Lanes :
        ~up /\ up' /\ saved[lane] \notin TooSmall \cup {Unset} =>
            /\ config'[lane] = saved[lane]
            /\ \A written \in configFile' : written[lane] = saved[lane]

LEMMA NextKeeps == ConfigOK /\ [Compute!Next]_configVars => StartKeeps
<1> SUFFICES ASSUME ConfigOK, [Compute!Next]_configVars, NEW saved \in configFile, NEW lane \in Lanes,
                    ~up, up', saved[lane] \notin TooSmall \cup {Unset}
             PROVE  config'[lane] = saved[lane] /\ \A written \in configFile' : written[lane] = saved[lane]
  BY DEF StartKeeps
<1>1. Compute!Start
  BY DEF Compute!Next, Compute!CatalogChanges, Compute!Stop, Compute!Check, Compute!Persist, Compute!Use,
         configVars
<1>2. saved \in Compute!Settings /\ configFile = {saved}
  BY DEF ConfigOK
<1> DEFINE upgraded == Compute!MigrateLegacyLightweightModels(Compute!HydrateLegacySense(saved))
<1>3. config' = upgraded /\ (configFile' = {upgraded} \/ configFile' = {saved})
  BY <1>1, <1>2 DEF Compute!Start, Compute!Open
<1>4. upgraded[lane] = saved[lane]
  BY <1>2, UpgradeKeepsChoices
<1> HIDE DEF upgraded
<1> QED BY <1>3, <1>4

(* Whatever Codex offers when the program starts, and however many updates   *)
(* are under way: a saved choice above the minimum stays, in the file and in *)
(* memory (compute.rs, open).                                                *)
THEOREM ChoicesAreKept == ServicesSpec => ChoicesStay
<1>1. ServicesInit => ConfigOK
  BY ConfigInit DEF ServicesInit
<1>2. [ServicesNext]_servicesVars => [Compute!Next]_configVars
  BY DEF ServicesNext, servicesVars, configVars
<1>3. ServicesSpec => []ConfigOK
  BY <1>1, <1>2, ConfigNext, PTL DEF ServicesSpec
<1>4. ConfigOK /\ [Compute!Next]_configVars => [StartKeeps]_configVars
  BY NextKeeps
<1>5. ServicesSpec => [][StartKeeps]_configVars
  BY <1>2, <1>3, <1>4, PTL DEF ServicesSpec
<1> QED BY <1>5, PTL DEF ChoicesStay, Compute!ChoicesStay, Compute!configVars, StartKeeps, configVars
-----------------------------------------------------------------------------
(* The native threads.                                                       *)

Once(q) == q \in Seq(Topics) /\ \A a, b \in DOMAIN q : q[a] = q[b] => a = b

LEMMA ThreadCardinality == \A some : Threads!Cardinality(some) = Cardinality(some)
BY DEF Threads!Cardinality, Cardinality

(* A Topic is taken out of the order of use.                                 *)
LEMMA WithoutOne ==
    ASSUME NEW q, Once(q), NEW x
    PROVE  Once(Threads!Without(q, x)) /\ Threads!ToSet(Threads!Without(q, x)) = Threads!ToSet(q) \ {x}
<1> DEFINE i == CHOOSE i \in DOMAIN q : q[i] = x
           front == SubSeq(q, 1, i - 1)
           back == SubSeq(q, i + 1, Len(q))
           rest == front \o back
<1>1. CASE x \notin Threads!ToSet(q)
  BY <1>1 DEF Threads!Without
<1>2. CASE x \in Threads!ToSet(q)
  <2>1. i \in DOMAIN q /\ q[i] = x
    BY <1>2 DEF Threads!ToSet
  <2>2. Threads!Without(q, x) = rest
    BY <1>2 DEF Threads!Without, Threads!RemoveAt
  <2> HIDE DEF i
  <2>3. q \in Seq(Topics) /\ Len(q) \in Nat /\ DOMAIN q = 1..Len(q) /\ i \in 1..Len(q)
    BY <2>1 DEF Once
  <2>4. /\ front \in Seq(Topics) /\ Len(front) = i - 1
        /\ \A k \in 1..(i - 1) : front[k] = q[k]
    BY <2>3, SubSeqProperties
  <2>5. /\ back \in Seq(Topics) /\ Len(back) = Len(q) - i
        /\ \A k \in 1..(Len(q) - i) : back[k] = q[i + k]
    <3>1. i + 1 \in Int /\ Len(q) \in Int /\ \A k \in (i + 1)..Len(q) : q[k] \in Topics
      BY <2>3
    <3>2. /\ SubSeq(q, i + 1, Len(q)) \in Seq(Topics)
          /\ Len(SubSeq(q, i + 1, Len(q))) = IF i + 1 <= Len(q) THEN Len(q) - (i + 1) + 1 ELSE 0
          /\ \A k \in 1..(Len(q) - (i + 1) + 1) : SubSeq(q, i + 1, Len(q))[k] = q[(i + 1) + k - 1]
      BY <3>1, SubSeqProperties
    <3> HIDE DEF back
    <3>3. back \in Seq(Topics) /\ Len(back) = Len(q) - i
      <4>1. (IF i + 1 <= Len(q) THEN Len(q) - (i + 1) + 1 ELSE 0) = Len(q) - i
        <5>1. \A n \in Nat : \A j \in 1..n : (IF j + 1 <= n THEN n - (j + 1) + 1 ELSE 0) = n - j
          OBVIOUS
        <5> QED BY ONLY <2>3, <5>1
      <4>2. Len(back) = (IF i + 1 <= Len(q) THEN Len(q) - (i + 1) + 1 ELSE 0)
        BY ONLY <3>2 DEF back
      <4>3. back \in Seq(Topics)
        BY ONLY <3>2 DEF back
      <4> QED BY <4>1, <4>2, <4>3
    <3>4. ASSUME NEW k \in 1..(Len(q) - i) PROVE back[k] = q[i + k]
      <4>1. (i + 1) + k - 1 = i + k /\ k \in 1..(Len(q) - (i + 1) + 1)
        BY <2>3
      <4> QED BY <3>2, <4>1 DEF back
    <3> QED BY <3>3, <3>4
  <2> HIDE DEF front, back
  <2>6. /\ rest \in Seq(Topics) /\ Len(rest) = Len(q) - 1 /\ DOMAIN rest = 1..(Len(q) - 1)
        /\ \A k \in 1..(Len(q) - 1) : rest[k] = IF k < i THEN q[k] ELSE q[k + 1]
    <3>0. /\ rest \in Seq(Topics) /\ Len(rest) = Len(front) + Len(back)
          /\ \A k \in 1..(Len(front) + Len(back)) :
                rest[k] = IF k <= Len(front) THEN front[k] ELSE back[k - Len(front)]
      BY <2>4, <2>5, ConcatProperties
    <3> HIDE DEF rest
    <3>1. rest \in Seq(Topics) /\ Len(rest) = Len(q) - 1
      BY <2>3, <2>4, <2>5, <3>0
    <3>2. ASSUME NEW k \in 1..(Len(q) - 1), k < i PROVE rest[k] = q[k]
      <4>1. k \in 1..(Len(front) + Len(back)) /\ k <= Len(front) /\ k \in 1..(i - 1)
        BY <2>3, <2>4, <2>5, <3>2
      <4> QED BY <2>4, <3>0, <4>1
    <3>3. ASSUME NEW k \in 1..(Len(q) - 1), ~(k < i) PROVE rest[k] = q[k + 1]
      <4>1. k - Len(front) \in 1..(Len(q) - i) /\ i + (k - Len(front)) = k + 1
        BY <2>3, <2>4, <3>3
      <4>2. rest[k] = back[k - Len(front)]
        <5>1. k \in 1..(Len(front) + Len(back)) /\ ~(k <= Len(front))
          BY <2>3, <2>4, <2>5, <3>3
        <5> QED BY <3>0, <5>1
      <4> QED BY <2>5, <4>1, <4>2
    <3> QED BY <2>3, <3>1, <3>2, <3>3
  <2> HIDE DEF rest
  <2>7. Once(rest)
    <3>1. \A a, b \in DOMAIN q : q[a] = q[b] => a = b
      BY DEF Once
    <3>2. ASSUME NEW a \in DOMAIN rest, NEW b \in DOMAIN rest, rest[a] = rest[b] PROVE a = b
      <4>1. a \in 1..(Len(q) - 1) /\ b \in 1..(Len(q) - 1)
        BY <2>6
      <4>2. a \in DOMAIN q /\ b \in DOMAIN q /\ a + 1 \in DOMAIN q /\ b + 1 \in DOMAIN q
        BY <2>3, <4>1
      <4> QED BY <2>3, <2>6, <3>1, <3>2, <4>1, <4>2
    <3> QED BY <2>6, <3>2 DEF Once
  <2>8. Threads!ToSet(rest) \subseteq Threads!ToSet(q) \ {x}
    <3> SUFFICES ASSUME NEW k \in DOMAIN rest PROVE rest[k] \in Threads!ToSet(q) /\ rest[k] # x
      BY DEF Threads!ToSet
    <3>1. k \in 1..(Len(q) - 1)
      BY <2>6
    <3>2. PICK j \in DOMAIN q : j # i /\ rest[k] = q[j]
      <4>1. CASE k < i
        BY <2>3, <2>6, <3>1, <4>1
      <4>2. CASE ~(k < i)
        <5>1. k + 1 \in DOMAIN q /\ k + 1 # i
          BY <2>3, <3>1, <4>2
        <5> QED BY <2>6, <3>1, <4>2, <5>1
      <4> QED BY <4>1, <4>2
    <3> QED BY <2>1, <3>2 DEF Once, Threads!ToSet
  <2>9. ASSUME NEW j \in DOMAIN q, q[j] # x PROVE q[j] \in Threads!ToSet(rest)
    <3>1. j \in 1..Len(q) /\ j # i
      BY <2>1, <2>3, <2>9
    <3>2. CASE j < i
      <4>1. j \in DOMAIN rest /\ rest[j] = q[j]
        BY <2>3, <2>6, <3>1, <3>2
      <4> QED BY <4>1 DEF Threads!ToSet
    <3>3. CASE j > i
      <4>1. j - 1 \in DOMAIN rest /\ rest[j - 1] = q[j]
        <5>1. j - 1 \in 1..(Len(q) - 1) /\ ~(j - 1 < i) /\ (j - 1) + 1 = j
          BY <2>3, <3>1, <3>3
        <5> QED BY <2>6, <5>1
      <4> QED BY <4>1 DEF Threads!ToSet
    <3> QED BY <2>3, <3>1, <3>2, <3>3
  <2>10. Threads!ToSet(q) \ {x} \subseteq Threads!ToSet(rest)
    BY <2>9 DEF Threads!ToSet
  <2> QED BY <2>2, <2>7, <2>8, <2>10
<1> QED BY <1>1, <1>2

LEMMA AppendedOnce ==
    ASSUME NEW q, Once(q), NEW x \in Topics, x \notin Threads!ToSet(q)
    PROVE  Once(Append(q, x)) /\ Threads!ToSet(Append(q, x)) = Threads!ToSet(q) \cup {x}
<1> DEFINE more == Append(q, x)
<1>1. q \in Seq(Topics) /\ Len(q) \in Nat /\ DOMAIN q = 1..Len(q) /\ \A a \in DOMAIN q : q[a] # x
  BY DEF Once, Threads!ToSet
<1>2. /\ more \in Seq(Topics) /\ Len(more) = Len(q) + 1 /\ more[Len(q) + 1] = x
      /\ \A a \in 1..Len(q) : more[a] = q[a]
  BY <1>1, AppendProperties
<1>3. DOMAIN more = 1..(Len(q) + 1)
  BY <1>2
<1> HIDE DEF more
<1>4. Once(more)
  <2>1. \A a, b \in DOMAIN q : q[a] = q[b] => a = b
    BY DEF Once
  <2>2. ASSUME NEW a \in DOMAIN more, NEW b \in DOMAIN more, more[a] = more[b] PROVE a = b
    <3>1. (a \in DOMAIN q \/ a = Len(q) + 1) /\ (b \in DOMAIN q \/ b = Len(q) + 1)
      BY <1>1, <1>3
    <3> QED BY <1>1, <1>2, <2>1, <2>2, <3>1
  <2> QED BY <1>2, <2>2 DEF Once
<1>5. Threads!ToSet(more) = Threads!ToSet(q) \cup {x}
  <2>1. \A a \in DOMAIN more : more[a] \in Threads!ToSet(q) \cup {x}
    <3> SUFFICES ASSUME NEW a \in DOMAIN more PROVE more[a] \in Threads!ToSet(q) \cup {x}
      OBVIOUS
    <3>1. a \in DOMAIN q \/ a = Len(q) + 1
      BY <1>1, <1>3
    <3> QED BY <1>1, <1>2, <3>1 DEF Threads!ToSet
  <2>2. \A a \in DOMAIN q : q[a] \in Threads!ToSet(more)
    <3> SUFFICES ASSUME NEW a \in DOMAIN q PROVE q[a] \in Threads!ToSet(more)
      OBVIOUS
    <3>1. a \in DOMAIN more /\ more[a] = q[a]
      BY <1>1, <1>2, <1>3
    <3> QED BY <3>1 DEF Threads!ToSet
  <2>3. x \in Threads!ToSet(more)
    <3>1. Len(q) + 1 \in DOMAIN more
      BY <1>1, <1>3
    <3> QED BY <1>2, <3>1 DEF Threads!ToSet
  <2>4. Threads!ToSet(more) \subseteq Threads!ToSet(q) \cup {x}
    BY <2>1 DEF Threads!ToSet
  <2>5. Threads!ToSet(q) \subseteq Threads!ToSet(more)
    BY <2>2 DEF Threads!ToSet
  <2> QED BY <2>3, <2>4, <2>5
<1> QED BY <1>4, <1>5 DEF more

(* The surfaces that start with the process get the next ids, each its own.  *)
LEMMA NumberedApart ==
    ASSUME NEW main \in Nat
    PROVE  LET eager == Threads!Surfaces \ Lazy
               ids == Threads!Numbered(main)
           IN  /\ Cardinality(eager) \in Nat /\ ids \in [Threads!Surfaces -> Nat]
               /\ \A x \in Lazy : x \in Threads!Surfaces => ids[x] = 0
               /\ \A x \in eager : ids[x] \in (main + 1)..(main + Cardinality(eager))
               /\ \A x, y \in eager : ids[x] = ids[y] => x = y
<1> DEFINE eager == Threads!Surfaces \ Lazy
           n == Threads!Cardinality(eager)
           place == CHOOSE f \in [eager -> 1..n] : Threads!IsInjective(f)
           ids == Threads!Numbered(main)
<1>1. IsFiniteSet(eager)
  <2>1. IsFiniteSet(Fresh \cup {"temporary"})
    BY ThreadsAssumption, FS_AddElement
  <2>2. eager \subseteq Fresh \cup {"temporary"}
    BY DEF Threads!Surfaces, Threads!Temporary
  <2> QED BY <2>1, <2>2, FS_Subset
<1>2. n \in Nat /\ ExistsBijection(1..n, eager)
  BY <1>1, FS_CardinalityType, ThreadCardinality
<1>3. ids = [x \in Threads!Surfaces |-> IF x \in Lazy THEN 0 ELSE main + place[x]]
  BY DEF Threads!Numbered
<1>a. n = Cardinality(eager)
  BY ThreadCardinality
<1> HIDE DEF eager, n
<1>4. PICK g \in [1..n -> eager] : (\A a, b \in 1..n : g[a] = g[b] => a = b)
      /\ (\A x \in eager : \E a \in 1..n : g[a] = x)
  BY <1>2 DEF ExistsBijection, Bijection, Injection, Surjection, IsInjective
<1>5. \E f \in [eager -> 1..n] : Threads!IsInjective(f)
  <2> DEFINE f == [x \in eager |-> CHOOSE a \in 1..n : g[a] = x]
  <2>1. \A x \in eager : f[x] \in 1..n /\ g[f[x]] = x
    BY <1>4
  <2>2. DOMAIN f = eager /\ f = [x \in eager |-> f[x]]
    OBVIOUS
  <2> HIDE DEF f
  <2>3. f \in [eager -> 1..n]
    BY <2>1, <2>2
  <2>4. Threads!IsInjective(f)
    BY <2>1, <2>2 DEF Threads!IsInjective
  <2> QED BY <2>3, <2>4
<1>6. place \in [eager -> 1..n] /\ Threads!IsInjective(place)
  BY <1>5
<1> HIDE DEF place
<1>7. \A x \in eager : place[x] \in 1..n
  BY <1>6
<1>8. \A x, y \in eager : place[x] = place[y] => x = y
  BY <1>6 DEF Threads!IsInjective
<1>9. \A x \in eager : x \in Threads!Surfaces /\ x \notin Lazy
  BY DEF eager
<1>10. \A x \in Threads!Surfaces : x \in eager \/ x \in Lazy
  BY DEF eager
<1> HIDE DEF ids
<1>11. /\ DOMAIN ids = Threads!Surfaces /\ ids = [x \in Threads!Surfaces |-> ids[x]]
       /\ \A x \in Threads!Surfaces : ids[x] = IF x \in Lazy THEN 0 ELSE main + place[x]
  BY <1>3
<1>12. \A x \in eager : ids[x] = main + place[x]
  BY <1>9, <1>11
<1>13. \A x \in Lazy : x \in Threads!Surfaces => ids[x] = 0
  BY <1>11
<1>14. \A x \in eager : ids[x] \in (main + 1)..(main + n)
  BY <1>2, <1>7, <1>12
<1>15. \A x, y \in eager : ids[x] = ids[y] => x = y
  <2> SUFFICES ASSUME NEW x \in eager, NEW y \in eager, ids[x] = ids[y] PROVE x = y
    OBVIOUS
  <2>1. main + place[x] = main + place[y] /\ place[x] \in Nat /\ place[y] \in Nat
    BY <1>2, <1>7, <1>12
  <2>2. place[x] = place[y]
    BY <2>1
  <2> QED BY <1>8, <2>2
<1>16. ids \in [Threads!Surfaces -> Nat]
  <2>1. \A x \in Threads!Surfaces : ids[x] \in Nat
    BY <1>2, <1>10, <1>13, <1>14
  <2> QED BY <1>11, <2>1
<1> QED BY <1>2, <1>a, <1>13, <1>14, <1>15, <1>16 DEF eager, ids
(* Every owner of a native thread, and the id it holds; 0 is none.          *)
Owners == Threads!Scopes \cup Threads!Surfaces

Held(o) == IF o \in Threads!Scopes THEN threads[o].id ELSE slots[o]

ThreadInfo == [id : Nat, cursor : Nat, bridge : BOOLEAN]

RegistryInv ==
    /\ threads \in [Threads!Scopes -> ThreadInfo]
    /\ slots \in [Threads!Surfaces -> Nat]
    /\ Once(recency)
    /\ \A s \in Threads!ToSet(recency) : threads[s].id # 0

(* No two owners hold the same thread, and each that is held has its        *)
(* configuration and is one of the process's, while that lives.             *)
HeldInv ==
    /\ given \in Nat
    /\ server \in [up : BOOLEAN, born : SUBSET Nat]
    /\ \A o \in Owners : Held(o) \in 0..given
    /\ \A o, p \in Owners : Held(o) = Held(p) /\ Held(o) # 0 => o = p
    /\ \A o \in Owners : Held(o) # 0 => Held(o) \in settings /\ (server.up => Held(o) \in server.born)

AskedTalks == [stage : {"asked", "calling"}, topic : Threads!TopicSets, at : Nat]
EndingTalks == [stage : {"storing", "marking"}, topic : Threads!TopicSets, at : Nat, ran : Nat]

TalkInv ==
    /\ history \in Seq(SUBSET Topics)
    /\ talks \in [{1, 2} -> {Threads!Quiet} \cup AskedTalks \cup EndingTalks]

ChatCalls == [op : {"chat"}, turn : {1, 2}, stage : {"run", "accepted"}, id : Nat, needs : BOOLEAN,
              roll : BOOLEAN, brings : SUBSET Nat]
SurfaceCalls == [op : Threads!Surfaces, stage : {"run", "accepted", "renew"}, id : Nat]

(* The call that holds the lock holds its owner's thread, until the process  *)
(* is lost; then nobody else holds it.                                       *)
Selects ==
    /\ threadCall.op = "chat" /\ threadCall = [op |-> "chat", turn |-> threadCall.turn, stage |-> "select"]
    /\ threadCall.turn \in {1, 2}
    /\ talks[threadCall.turn].stage = "calling"
    /\ threads[Threads!ScopeOf(threadCall.turn)].id # 0

Chats ==
    /\ threadCall \in ChatCalls
    /\ talks[threadCall.turn].stage = "calling"
    /\ threadCall.id # 0 /\ threadCall.id = threads[Threads!ScopeOf(threadCall.turn)].id

Serves ==
    /\ threadCall \in SurfaceCalls /\ threadCall.stage # "renew"
    /\ threadCall.id # 0 /\ threadCall.id = slots[threadCall.op]

LosesItsThread ==
    /\ threadCall \in SurfaceCalls /\ threadCall.stage = "renew"
    /\ threadCall.id \in 1..given /\ \A o \in Owners : Held(o) = threadCall.id => o = threadCall.op

CallInv == threadCall = Threads!Free \/ Selects \/ Chats \/ Serves \/ LosesItsThread

(* The temporary discussion's next attempt has a thread that took none.      *)
Attempted == threadCall.op = Threads!Temporary /\ threadCall.stage # "run"

FreshInv ==
    /\ spent \subseteq 1..given
    /\ Threads!Temporary \in refused \/ Attempted \/ slots[Threads!Temporary] \notin spent

ThreadsInv == RegistryInv /\ HeldInv /\ TalkInv /\ CallInv /\ FreshInv

LEMMA OwnersApart ==
    /\ Threads!Main \in Threads!Scopes /\ Threads!Temporary \in Threads!Surfaces /\ Threads!Temporary \notin Lazy
    /\ Threads!Main \notin Topics /\ Threads!Scopes \cap Threads!Surfaces = {}
    /\ Threads!Scopes = {Threads!Main} \cup Topics
    /\ \A x \in Threads!Surfaces : x # "chat" /\ x # "free"
BY ThreadsAssumption DEF Threads!Main, Threads!Temporary, Threads!Scopes, Threads!Surfaces

LEMMA HeldIs ==
    /\ \A s \in Threads!Scopes : s \in Owners /\ Held(s) = threads[s].id /\ Held(s)' = threads'[s].id
    /\ \A x \in Threads!Surfaces : x \in Owners /\ Held(x) = slots[x] /\ Held(x)' = slots'[x]
    /\ \A o \in Owners : o \in Threads!Scopes \/ o \in Threads!Surfaces
BY OwnersApart DEF Owners, Held

(* One thread starts and goes to one owner; others may lose theirs.          *)
LEMMA OneStarts ==
    ASSUME HeldInv, Threads!Started, NEW ids, settings' = (settings \cup {given'}) \ ids,
           NEW w \in Owners, Held(w)' = given',
           \A o \in Owners : o # w => Held(o)' = Held(o) \/ Held(o)' = 0,
           \A o \in Owners : Held(o)' # 0 => Held(o)' \notin ids
    PROVE  HeldInv' /\ given' = given + 1 /\ given' # 0
<1>1. /\ given \in Nat /\ given' = given + 1 /\ given' # 0
      /\ server' = [server EXCEPT !.born = @ \cup {given + 1}]
  BY DEF HeldInv, Threads!Started
<1>2. /\ server' \in [up : BOOLEAN, born : SUBSET Nat] /\ server'.up = server.up
      /\ server'.born = server.born \cup {given'}
  <2>1. server \in [up : BOOLEAN, born : SUBSET Nat]
    BY DEF HeldInv
  <2> QED BY <1>1, <2>1
<1>3. \A o \in Owners : Held(o) \in 0..given /\ (Held(o) # 0 => Held(o) \in settings /\ (server.up => Held(o) \in server.born))
  BY DEF HeldInv
<1>4. \A o, p \in Owners : Held(o) = Held(p) /\ Held(o) # 0 => o = p
  BY DEF HeldInv
<1> HIDE DEF Held, Owners
<1>5. \A o \in Owners : Held(o)' \in 0..given'
  BY <1>1, <1>3
<1>6. ASSUME NEW o \in Owners, NEW p \in Owners, Held(o)' = Held(p)', Held(o)' # 0 PROVE o = p
  <2>1. o # w => Held(o)' = Held(o) /\ Held(o) \in 0..given
    BY <1>3, <1>6
  <2>2. p # w => Held(p)' = Held(p) /\ Held(p) \in 0..given
    BY <1>3, <1>6
  <2>3. given' \notin 0..given
    BY <1>1
  <2> QED BY <1>4, <1>6, <2>1, <2>2, <2>3
<1>7. ASSUME NEW o \in Owners, Held(o)' # 0
      PROVE  Held(o)' \in settings' /\ (server'.up => Held(o)' \in server'.born)
  BY <1>2, <1>3, <1>7
<1> QED BY <1>1, <1>2, <1>5, <1>6, <1>7 DEF HeldInv

(* No thread starts; owners may lose theirs, and the process may be lost.    *)
LEMMA NothingStarts ==
    ASSUME HeldInv, given' = given, server' = server \/ server' = [server EXCEPT !.up = FALSE],
           \A o \in Owners : Held(o)' = Held(o) \/ Held(o)' = 0,
           \A o \in Owners : Held(o)' # 0 /\ Held(o)' \in settings => Held(o)' \in settings'
    PROVE  HeldInv'
<1>1. server' \in [up : BOOLEAN, born : SUBSET Nat] /\ (server'.up => server.up /\ server'.born = server.born)
  <2>1. server \in [up : BOOLEAN, born : SUBSET Nat]
    BY DEF HeldInv
  <2> QED BY <2>1
<1>2. \A o \in Owners : Held(o) \in 0..given /\ (Held(o) # 0 => Held(o) \in settings /\ (server.up => Held(o) \in server.born))
  BY DEF HeldInv
<1>3. \A o, p \in Owners : Held(o) = Held(p) /\ Held(o) # 0 => o = p
  BY DEF HeldInv
<1>4. given \in Nat
  BY DEF HeldInv
<1> HIDE DEF Held, Owners
<1>5. \A o \in Owners : Held(o)' \in 0..given'
  BY <1>2, <1>4
<1>6. \A o, p \in Owners : Held(o)' = Held(p)' /\ Held(o)' # 0 => o = p
  BY <1>3
<1>7. \A o \in Owners : Held(o)' # 0 => Held(o)' \in settings' /\ (server'.up => Held(o)' \in server'.born)
  BY <1>1, <1>2
<1> QED BY <1>1, <1>4, <1>5, <1>6, <1>7 DEF HeldInv

LEMMA NewThreads ==
    /\ \A id \in Nat : Threads!NewThread(id) \in ThreadInfo /\ Threads!NewThread(id).id = id
    /\ Once(<<>>) /\ Threads!ToSet(<<>>) = {}
BY DEF Threads!NewThread, ThreadInfo, Once, Threads!ToSet

(* A process starts with threads of its own: no old id is held again.        *)
LEMMA ProcessHolds ==
    ASSUME NEW main \in Nat \ {0},
           threads' = [s \in Threads!Scopes |-> Threads!NewThread(IF s = Threads!Main THEN main ELSE 0)],
           slots' = Threads!Numbered(main), recency' = <<>>,
           given' = main + Cardinality(Threads!Surfaces \ Lazy),
           settings' = main..given', server' = [up |-> TRUE, born |-> main..given']
    PROVE  /\ RegistryInv' /\ HeldInv' /\ given' \in Nat /\ main <= given'
           /\ \A o \in Owners : Held(o)' = 0 \/ Held(o)' >= main
           /\ slots'[Threads!Temporary] >= main
<1> DEFINE eager == Threads!Surfaces \ Lazy
           n == Cardinality(eager)
           ids == Threads!Numbered(main)
<1>1. /\ n \in Nat /\ ids \in [Threads!Surfaces -> Nat]
      /\ \A x \in Lazy : x \in Threads!Surfaces => ids[x] = 0
      /\ \A x \in eager : ids[x] \in (main + 1)..(main + n)
      /\ \A x, y \in eager : ids[x] = ids[y] => x = y
  BY NumberedApart
<1>2. \A x \in Threads!Surfaces : x \in eager \/ x \in Lazy
  OBVIOUS
<1>3. given' = main + n /\ slots' = ids
  OBVIOUS
<1>4. Threads!Temporary \in eager
  BY OwnersApart
<1> HIDE DEF eager, n, ids
<1>5. /\ given' \in Nat /\ main <= given'
      /\ server' \in [up : BOOLEAN, born : SUBSET Nat] /\ server'.born = main..given'
  BY <1>1, <1>3
<1>6. /\ \A s \in Threads!Scopes : threads'[s].id = IF s = Threads!Main THEN main ELSE 0
      /\ threads' \in [Threads!Scopes -> ThreadInfo]
  BY NewThreads
<1>7. RegistryInv'
  BY <1>1, <1>3, <1>6, NewThreads DEF RegistryInv
<1>8. /\ Held(Threads!Main)' = main
      /\ \A s \in Threads!Scopes : s # Threads!Main => Held(s)' = 0
      /\ \A x \in eager : Held(x)' \in (main + 1)..given' /\ x \in Owners
      /\ \A x \in Lazy : x \in Threads!Surfaces => Held(x)' = 0
  <2>1. Held(Threads!Main)' = main
    BY ONLY <1>6, HeldIs, OwnersApart
  <2>2. ASSUME NEW s \in Threads!Scopes, s # Threads!Main PROVE Held(s)' = 0
    BY ONLY <1>6, <2>2, HeldIs
  <2>3. \A x \in eager : Held(x)' = ids[x] /\ x \in Owners
    <3>1. \A x \in eager : x \in Threads!Surfaces
      BY DEF eager
    <3> QED BY ONLY <1>3, <3>1, HeldIs
  <2>4. (main + 1)..(main + n) = (main + 1)..given'
    BY ONLY <1>3
  <2>5. \A x \in Lazy : x \in Threads!Surfaces => Held(x)' = 0
    BY ONLY <1>1, <1>3, HeldIs
  <2> QED BY ONLY <1>1, <2>1, <2>2, <2>3, <2>4, <2>5
<1>9. \A o \in Owners : o = Threads!Main \/ Held(o)' = 0 \/ (o \in eager /\ Held(o)' \in (main + 1)..given')
  BY <1>2, <1>8, HeldIs
<1> HIDE DEF Held, Owners
<1>10. \A o \in Owners : Held(o)' \in 0..given' /\ (Held(o)' # 0 => Held(o)' \in main..given')
  <2> SUFFICES ASSUME NEW o \in Owners PROVE Held(o)' \in 0..given' /\ (Held(o)' # 0 => Held(o)' \in main..given')
    OBVIOUS
  <2>1. main \in Nat /\ main # 0 /\ given' \in Nat /\ main <= given'
    BY <1>5
  <2>2. CASE o = Threads!Main
    BY ONLY <1>8, <2>1, <2>2
  <2>3. CASE Held(o)' = 0
    BY ONLY <2>1, <2>3
  <2>4. CASE Held(o)' \in (main + 1)..given'
    BY ONLY <2>1, <2>4
  <2> QED BY <1>9, <2>2, <2>3, <2>4
<1>11. ASSUME NEW o \in Owners, NEW p \in Owners, Held(o)' = Held(p)', Held(o)' # 0 PROVE o = p
  <2>1. (o = Threads!Main \/ (o \in eager /\ Held(o)' \in (main + 1)..given'))
    BY <1>9, <1>11
  <2>2. (p = Threads!Main \/ (p \in eager /\ Held(p)' \in (main + 1)..given'))
    BY <1>9, <1>11
  <2>3. \A x \in eager : Held(x)' = ids[x]
    BY <1>3, HeldIs DEF eager
  <2>4. main \notin (main + 1)..given'
    BY <1>5
  <2> QED BY <1>1, <1>8, <1>11, <2>1, <2>2, <2>3, <2>4
<1>12. HeldInv'
  BY <1>5, <1>10, <1>11 DEF HeldInv
<1>13. \A o \in Owners : Held(o)' = 0 \/ Held(o)' >= main
  BY <1>5, <1>10
<1>14. slots'[Threads!Temporary] >= main
  BY <1>1, <1>3, <1>4
<1> QED BY <1>5, <1>7, <1>12, <1>13, <1>14

LEMMA RegistryType ==
    ASSUME RegistryInv
    PROVE  /\ threads \in [Threads!Scopes -> ThreadInfo] /\ slots \in [Threads!Surfaces -> Nat]
           /\ Once(recency) /\ \A s \in Threads!ToSet(recency) : s \in Topics /\ threads[s].id # 0
           /\ \A s \in Threads!Scopes : threads[s] \in ThreadInfo /\ threads[s].id \in Nat
<1>1. threads \in [Threads!Scopes -> ThreadInfo] /\ slots \in [Threads!Surfaces -> Nat] /\ Once(recency)
      /\ \A s \in Threads!ToSet(recency) : threads[s].id # 0
  BY DEF RegistryInv
<1>2. \A s \in Threads!ToSet(recency) : s \in Topics
  BY <1>1 DEF Once, Threads!ToSet
<1>3. \A s \in Threads!Scopes : threads[s] \in ThreadInfo /\ threads[s].id \in Nat
  BY <1>1 DEF ThreadInfo
<1> QED BY <1>1, <1>2, <1>3

LEMMA HeldType ==
    ASSUME HeldInv
    PROVE  /\ given \in Nat /\ \A o \in Owners : Held(o) \in 0..given
           /\ \A o, p \in Owners : Held(o) = Held(p) /\ Held(o) # 0 => o = p
BY DEF HeldInv

(* A scope without a thread gets one; the Topic used longest ago may go.     *)
LEMMA Ensured ==
    ASSUME RegistryInv, HeldInv, NEW s \in Threads!Scopes, ~Threads!Present(s),
           Threads!Started, Threads!Ensure(s), UNCHANGED slots
    PROVE  RegistryInv' /\ HeldInv' /\ given' = given + 1 /\ threads'[s].id # 0
<1>1. given \in Nat /\ given' = given + 1 /\ given' \in Nat \ {0}
  BY HeldType DEF Threads!Started
<1>2. Threads!NewThread(given') \in ThreadInfo /\ Threads!NewThread(given').id = given'
      /\ Threads!NewThread(0) \in ThreadInfo /\ Threads!NewThread(0).id = 0
  BY <1>1, NewThreads
<1>3. /\ \A o \in Owners : Held(o) \in 0..given /\ \A p \in Owners : Held(o) = Held(p) /\ Held(o) # 0 => o = p
  BY HeldType
<1>4. \A x \in Threads!Surfaces : Held(x)' = Held(x)
  BY HeldIs
<1>5. CASE s = Threads!Main
  <2>1. /\ threads' = [threads EXCEPT ![Threads!Main] = Threads!NewThread(given')]
        /\ Threads!Forget({threads[Threads!Main].id}) /\ UNCHANGED recency
    BY <1>5 DEF Threads!Ensure
  <2>2. /\ threads' \in [Threads!Scopes -> ThreadInfo] /\ threads'[Threads!Main].id = given'
        /\ \A o \in Threads!Scopes : o # Threads!Main => threads'[o] = threads[o]
    BY <1>2, <2>1, RegistryType, OwnersApart
  <2>3. Held(Threads!Main)' = given' /\ Threads!Main \in Owners /\ Held(Threads!Main) = threads[Threads!Main].id
    BY <2>2, HeldIs, OwnersApart
  <2>4. \A o \in Owners : o # Threads!Main => Held(o)' = Held(o)
    BY <1>4, <2>2, HeldIs
  <2>5. \A o \in Owners : Held(o)' # 0 => Held(o)' \notin {threads[Threads!Main].id}
    <3> HIDE DEF Held, Owners
    <3> SUFFICES ASSUME NEW o \in Owners, Held(o)' # 0, Held(o)' = Held(Threads!Main) PROVE FALSE
      BY <2>3
    <3>1. CASE o = Threads!Main
      BY <1>1, <1>3, <2>3, <3>1
    <3>2. CASE o # Threads!Main
      BY <1>3, <2>3, <2>4, <3>2
    <3> QED BY <3>1, <3>2
  <2>6. HeldInv'
    BY <2>1, <2>3, <2>4, <2>5, OneStarts DEF Threads!Forget
  <2>7. RegistryInv'
    <3>1. \A t \in Threads!ToSet(recency) : threads'[t].id # 0
      BY <2>2, RegistryType, OwnersApart
    <3> QED BY <2>1, <2>2, <3>1, RegistryType DEF RegistryInv
  <2> QED BY <1>1, <1>5, <2>2, <2>6, <2>7
<1>6. CASE s # Threads!Main
  <2> DEFINE order == Append(recency, s)
             full == Len(order) > MaxTopicThreads
  <2>0. PICK out : out = order[1]
    OBVIOUS
  <2> DEFINE
             ids == IF full THEN {threads[out].id} ELSE {}
  <2>1. s \in Topics /\ s \notin Threads!ToSet(recency)
    BY <1>6, OwnersApart DEF Threads!Present
  <2>2. Once(order) /\ Threads!ToSet(order) = Threads!ToSet(recency) \cup {s}
    BY <2>1, AppendedOnce, RegistryType
  <2>3. /\ recency \in Seq(Topics) /\ Len(recency) \in Nat /\ Len(order) = Len(recency) + 1
        /\ order[Len(recency) + 1] = s /\ \A i \in 1..Len(recency) : order[i] = recency[i]
        /\ DOMAIN order = 1..(Len(recency) + 1)
    <3>1. recency \in Seq(Topics)
      BY RegistryType DEF Once
    <3> QED BY <2>1, <3>1, AppendProperties
  <2>4. full => out \in Topics /\ out # s
    <3> SUFFICES ASSUME full PROVE out \in Topics /\ out # s
      OBVIOUS
    <3>1. Len(recency) >= 1
      BY <2>3, ThreadsAssumption
    <3>2. 1 \in DOMAIN recency /\ out = recency[1]
      BY <2>0, <2>3, <3>1
    <3>3. out \in Threads!ToSet(recency)
      BY <3>2 DEF Threads!ToSet
    <3> QED BY <2>1, <3>3, RegistryType
  <2>5. /\ recency' = IF full THEN Threads!Without(order, out) ELSE order
        /\ threads' = [x \in Threads!Scopes |->
               IF full /\ x = out THEN Threads!NewThread(0)
               ELSE IF x = s THEN Threads!NewThread(given') ELSE threads[x]]
        /\ settings' = (settings \cup {given'}) \ ids
    <3> HIDE DEF order
    <3>1. Threads!Evicted(order) = out
      BY <2>0 DEF Threads!Evicted
    <3>2. full => out # s
      BY <2>4
    <3> USE DEF order
    <3> QED BY <1>6, <3>1, <3>2 DEF Threads!Ensure, Threads!Forget
  <2> HIDE DEF order, full
  <2>6. /\ threads' \in [Threads!Scopes -> ThreadInfo] /\ threads'[s].id = given'
        /\ full => threads'[out].id = 0
        /\ \A o \in Threads!Scopes : o # s /\ (full => o # out) => threads'[o] = threads[o]
    <3>1. \A x \in Threads!Scopes : threads[x] \in ThreadInfo
      BY RegistryType
    <3>2. full => out \in Threads!Scopes
      BY <2>4, OwnersApart
    <3>3. \A x \in Threads!Scopes : threads'[x] =
            IF full /\ x = out THEN Threads!NewThread(0)
            ELSE IF x = s THEN Threads!NewThread(given') ELSE threads[x]
      BY <2>5
    <3>4. threads' \in [Threads!Scopes -> ThreadInfo]
      <4>1. \A x \in Threads!Scopes : threads'[x] \in ThreadInfo
        BY <1>2, <3>1, <3>3
      <4>2. threads' = [x \in Threads!Scopes |-> threads'[x]]
        BY <2>5
      <4> QED BY <4>1, <4>2
    <3> QED BY <1>2, <2>4, <3>2, <3>3, <3>4
  <2>7. Held(s)' = given' /\ s \in Owners
    BY <2>6, HeldIs
  <2>8. \A o \in Owners : o # s => Held(o)' = Held(o) \/ Held(o)' = 0
    BY <1>4, <2>6, HeldIs
  <2>9. \A o \in Owners : Held(o)' # 0 => Held(o)' \notin ids
    <3> SUFFICES ASSUME NEW o \in Owners, Held(o)' # 0, full, Held(o)' = threads[out].id PROVE FALSE
      BY DEF ids
    <3>1. out \in Owners /\ Held(out) = threads[out].id /\ Held(out)' = 0
      BY <2>4, <2>6, HeldIs, OwnersApart
    <3> HIDE DEF Held, Owners
    <3>2. CASE o = s
      BY <1>1, <1>3, <2>7, <3>1, <3>2
    <3>3. CASE o # s
      BY <1>3, <2>8, <3>1, <3>3
    <3> QED BY <3>2, <3>3
  <2> HIDE DEF ids
  <2>10. HeldInv'
    BY <2>5, <2>7, <2>8, <2>9, OneStarts
  <2>11. RegistryInv'
    <3>1. Once(recency') /\ Threads!ToSet(recency') = (Threads!ToSet(recency) \cup {s}) \ (IF full THEN {out} ELSE {})
      BY <2>2, <2>5, WithoutOne
    <3>2. \A t \in Threads!ToSet(recency') : threads'[t].id # 0
      BY <1>1, <2>6, <3>1, RegistryType, OwnersApart
    <3> QED BY <2>6, <3>1, <3>2, RegistryType DEF RegistryInv
  <2> QED BY <1>1, <2>6, <2>10, <2>11
<1> QED BY <1>5, <1>6

(* A background thread is renewed, or the old one stays.                     *)
LEMMA Renewed ==
    ASSUME RegistryInv, HeldInv, NEW x \in Threads!Surfaces, NEW previous \in 1..given,
           \A o \in Owners : Held(o) = previous => o = x, Threads!Renew(x, previous)
    PROVE  /\ RegistryInv' /\ HeldInv'
           /\ \/ slots' = [slots EXCEPT ![x] = given'] /\ given' = given + 1 /\ refused' = refused \ {x}
              \/ slots' = slots /\ given' = given /\ refused' = refused \cup {x}
<1>1. CASE /\ Threads!Started /\ slots' = [slots EXCEPT ![x] = given'] /\ Threads!Forget({previous})
           /\ refused' = refused \ {x} /\ UNCHANGED <<threads, recency, threadFaults>>
  <2>1. given \in Nat /\ given' = given + 1 /\ given' \in Nat \ {0}
    BY <1>1, HeldType DEF Threads!Started
  <2>2. slots' \in [Threads!Surfaces -> Nat] /\ slots'[x] = given'
        /\ \A y \in Threads!Surfaces : y # x => slots'[y] = slots[y]
    BY <1>1, <2>1, RegistryType
  <2>3. Held(x)' = given' /\ x \in Owners /\ \A o \in Owners : o # x => Held(o)' = Held(o)
    BY <1>1, <2>2, HeldIs
  <2>4. \A o \in Owners : Held(o)' # 0 => Held(o)' \notin {previous}
    <3> SUFFICES ASSUME NEW o \in Owners, Held(o)' = previous PROVE FALSE
      OBVIOUS
    <3>1. o = x
      BY <2>3
    <3> QED BY <2>1, <2>3, <3>1
  <2>5. HeldInv'
    BY <1>1, <2>3, <2>4, OneStarts DEF Threads!Forget
  <2>6. RegistryInv'
    BY <1>1, <2>2 DEF RegistryInv
  <2> QED BY <1>1, <2>1, <2>5, <2>6
<1>2. CASE Threads!NotStarted /\ refused' = refused \cup {x} /\ UNCHANGED <<threads, recency, slots>>
  <2>1. /\ given' = given /\ settings' = settings
        /\ server' = server \/ server' = [server EXCEPT !.up = FALSE]
    BY <1>2 DEF Threads!NotStarted
  <2>2. \A o \in Owners : Held(o)' = Held(o)
    BY <1>2, HeldIs
  <2>3. HeldInv'
    BY <2>1, <2>2, NothingStarts
  <2> QED BY <1>2, <2>1, <2>3 DEF RegistryInv
<1> QED BY <1>1, <1>2 DEF Threads!Renew

LEMMA Restarts ==
    ASSUME HeldInv, Threads!Restarted
    PROVE  /\ RegistryInv' /\ HeldInv' /\ given' \in Nat /\ given <= given'
           /\ \A o \in Owners : Held(o)' = 0 \/ Held(o)' > given
           /\ slots'[Threads!Temporary] > given
<1>1. given \in Nat
  BY HeldType
<1> DEFINE first == given + 1
<1>2. first \in Nat \ {0}
  BY <1>1
<1>3. /\ threads' = [s \in Threads!Scopes |-> Threads!NewThread(IF s = Threads!Main THEN first ELSE 0)]
      /\ slots' = Threads!Numbered(first) /\ recency' = <<>>
      /\ given' = first + Cardinality(Threads!Surfaces \ Lazy)
      /\ settings' = first..given' /\ server' = [up |-> TRUE, born |-> first..given']
  BY ThreadCardinality DEF Threads!Restarted
<1> HIDE DEF first
<1>4. /\ RegistryInv' /\ HeldInv' /\ given' \in Nat /\ first <= given'
      /\ \A o \in Owners : Held(o)' = 0 \/ Held(o)' >= first
      /\ slots'[Threads!Temporary] >= first
  BY <1>2, <1>3, ProcessHolds
<1>5. /\ \A o \in Owners : Held(o)' = 0 \/ Held(o)' \in Nat
      /\ slots'[Threads!Temporary] \in Nat
  BY <1>4, OwnersApart DEF HeldInv, RegistryInv
<1> HIDE DEF Held, Owners
<1> QED BY <1>1, <1>4, <1>5 DEF first

(* The process is started again, or that fails and nothing else changes.     *)
LEMMA Recovers ==
    ASSUME RegistryInv, HeldInv, Threads!Recover
    PROVE  /\ RegistryInv' /\ HeldInv' /\ given' \in Nat /\ given <= given'
           /\ \/ threads' = threads /\ slots' = slots /\ given' = given /\ refused' = refused
              \/ /\ \A o \in Owners : Held(o)' = 0 \/ Held(o)' > given
                 /\ slots'[Threads!Temporary] > given
<1>1. CASE Threads!Restarted
  BY <1>1, Restarts
<1>2. CASE /\ server' = [server EXCEPT !.up = FALSE]
           /\ UNCHANGED <<threads, recency, slots, settings, given, refused>>
  <2>1. \A o \in Owners : Held(o)' = Held(o)
    BY <1>2, HeldIs
  <2>2. HeldInv'
    BY <1>2, <2>1, NothingStarts
  <2>3. given' \in Nat /\ given <= given'
    BY <1>2, HeldType
  <2> QED BY <1>2, <2>2, <2>3 DEF RegistryInv
<1> QED BY <1>1, <1>2 DEF Threads!Recover

LEMMA TalkType ==
    ASSUME TalkInv, NEW t \in {1, 2}
    PROVE  /\ talks[t] \in {Threads!Quiet} \cup AskedTalks \cup EndingTalks
           /\ talks[t].stage \in {"asked", "calling"} => talks[t] \in AskedTalks
           /\ talks[t].stage \in {"storing", "marking"} => talks[t] \in EndingTalks
           /\ talks[t].stage # "quiet" => Threads!ScopeOf(t) \in Threads!Scopes
<1>1. talks[t] \in {Threads!Quiet} \cup AskedTalks \cup EndingTalks
  BY DEF TalkInv
<1>2. talks[t] = Threads!Quiet => talks[t].stage = "quiet"
  BY DEF Threads!Quiet
<1>3. talks[t] \in AskedTalks => talks[t].stage \in {"asked", "calling"} /\ talks[t].topic \in Threads!TopicSets
  BY DEF AskedTalks
<1>4. talks[t] \in EndingTalks => talks[t].stage \in {"storing", "marking"} /\ talks[t].topic \in Threads!TopicSets
  BY DEF EndingTalks
<1>5. talks[t].topic \in Threads!TopicSets => Threads!ScopeOf(t) \in Threads!Scopes
  <2> SUFFICES ASSUME talks[t].topic \in Threads!TopicSets, talks[t].topic # {}
        PROVE (CHOOSE s \in talks[t].topic : TRUE) \in Topics
    BY OwnersApart DEF Threads!ScopeOf
  <2> QED BY DEF Threads!TopicSets
<1> QED BY <1>1, <1>2, <1>3, <1>4, <1>5

LEMMA SameScope == \A t \in {1, 2} : talks'[t] = talks[t] => Threads!ScopeOf(t)' = Threads!ScopeOf(t)
BY DEF Threads!ScopeOf

(* What a call is, by its operation.                                         *)
LEMMA CallKinds ==
    ASSUME CallInv
    PROVE  /\ threadCall = Threads!Free => threadCall.op = "free"
           /\ threadCall.op = "chat" => (Selects /\ threadCall.stage = "select") \/ Chats
           /\ threadCall.op \in Threads!Surfaces => Serves \/ LosesItsThread
           /\ threadCall.op = "chat" \/ threadCall = Threads!Free => threadCall.op # Threads!Temporary
<1>1. threadCall = Threads!Free => threadCall.op = "free"
  BY DEF Threads!Free
<1>2. Selects => threadCall.op = "chat" /\ threadCall.stage = "select"
  BY DEF Selects
<1>3. Chats => threadCall.op = "chat"
  BY DEF Chats, ChatCalls
<1>4. Serves \/ LosesItsThread => threadCall.op \in Threads!Surfaces
  BY DEF Serves, LosesItsThread, SurfaceCalls
<1>5. \A x \in Threads!Surfaces : x # "chat" /\ x # "free"
  BY OwnersApart
<1> QED BY <1>1, <1>2, <1>3, <1>4, <1>5, OwnersApart DEF CallInv

LEMMA HoldsItsThread ==
    ASSUME CallInv, RegistryInv, HeldInv, Serves
    PROVE  /\ threadCall.op \in Threads!Surfaces /\ threadCall.op \in Owners
           /\ threadCall.id \in 1..given /\ threadCall.id = Held(threadCall.op)
           /\ \A o \in Owners : Held(o) = threadCall.id => o = threadCall.op
<1>1. threadCall.op \in Threads!Surfaces /\ threadCall.id # 0 /\ threadCall.id = slots[threadCall.op]
  BY DEF Serves, SurfaceCalls
<1>2. threadCall.op \in Owners /\ Held(threadCall.op) = threadCall.id
  BY <1>1, HeldIs
<1> HIDE DEF Held, Owners
<1> QED BY <1>1, <1>2, HeldType

LEMMA CallStays ==
    ASSUME CallInv, threadCall' = threadCall, threads' = threads, slots' = slots, given' = given,
           \A t \in {1, 2} : talks[t].stage = "calling" => talks'[t] = talks[t]
    PROVE  CallInv'
<1>1. CASE threadCall = Threads!Free
  BY <1>1 DEF CallInv
<1>2. CASE Selects \/ Chats
  <2>1. PICK t \in {1, 2} : t = threadCall.turn
    BY <1>2 DEF Selects, Chats, ChatCalls
  <2>2. talks'[t] = talks[t] /\ talks[t].stage = "calling" /\ Threads!ScopeOf(t)' = Threads!ScopeOf(t)
    BY <1>2, <2>1, SameScope DEF Selects, Chats
  <2>3. threadCall'.turn = t /\ Threads!ScopeOf(threadCall.turn)' = Threads!ScopeOf(t)
        /\ Threads!ScopeOf(threadCall.turn) = Threads!ScopeOf(t)
    BY <2>1, <2>2 DEF Threads!ScopeOf
  <2>4. Selects => Selects'
    BY <2>1, <2>2, <2>3 DEF Selects
  <2>5. Chats => Chats'
    BY <2>1, <2>2, <2>3 DEF Chats
  <2> QED BY <1>2, <2>4, <2>5 DEF CallInv
<1>3. CASE Serves
  BY <1>3 DEF Serves, CallInv
<1>4. CASE LosesItsThread
  <2>1. \A o \in Owners : Held(o)' = Held(o)
    BY HeldIs
  <2> QED BY <1>4, <2>1 DEF LosesItsThread, CallInv
<1> QED BY <1>1, <1>2, <1>3, <1>4 DEF CallInv

LEMMA FreshStays ==
    ASSUME FreshInv, CallInv, spent' = spent, given \in Nat, given' \in Nat, given <= given',
           \/ /\ slots'[Threads!Temporary] = slots[Threads!Temporary]
              /\ Threads!Temporary \in refused => Threads!Temporary \in refused'
           \/ slots'[Threads!Temporary] > given,
           threadCall.op # Threads!Temporary \/ threadCall' = threadCall
    PROVE  FreshInv'
<1>1. spent' \subseteq 1..given'
  BY DEF FreshInv
<1>2. CASE slots'[Threads!Temporary] > given
  <2>1. slots'[Threads!Temporary] \notin 1..given
    BY <1>2
  <2> QED BY <1>1, <2>1 DEF FreshInv
<1>3. CASE slots'[Threads!Temporary] = slots[Threads!Temporary]
      /\ (Threads!Temporary \in refused => Threads!Temporary \in refused')
  BY <1>1, <1>3 DEF FreshInv, Attempted
<1> QED BY <1>2, <1>3

(* The cursor and the bridge change, the ids stay.                           *)
LEMMA SameIds ==
    ASSUME RegistryInv, NEW s \in Threads!Scopes, NEW at \in Nat,
           \/ threads' = threads
           \/ threads' = [threads EXCEPT ![s].bridge = FALSE]
           \/ threads' = [threads EXCEPT ![s].cursor = at]
    PROVE  threads' \in [Threads!Scopes -> ThreadInfo] /\ \A x \in Threads!Scopes : threads'[x].id = threads[x].id
<1>1. threads \in [Threads!Scopes -> ThreadInfo]
  BY DEF RegistryInv
<1> QED BY <1>1 DEF ThreadInfo

LEMMA UsedLast ==
    ASSUME RegistryInv, NEW s \in Threads!Scopes, threads[s].id # 0
    PROVE  Once(Threads!Use(s)) /\ \A t \in Threads!ToSet(Threads!Use(s)) : threads[t].id # 0
<1> DEFINE rest == Threads!Without(recency, s)
<1>1. CASE s = Threads!Main
  BY <1>1, RegistryType DEF Threads!Use
<1>2. CASE s # Threads!Main
  <2>1. s \in Topics /\ Threads!Use(s) = Append(rest, s)
    BY <1>2, OwnersApart DEF Threads!Use
  <2>2. Once(rest) /\ Threads!ToSet(rest) = Threads!ToSet(recency) \ {s}
    BY RegistryType, WithoutOne
  <2> HIDE DEF rest
  <2>3. Once(Append(rest, s)) /\ Threads!ToSet(Append(rest, s)) = Threads!ToSet(rest) \cup {s}
    BY <2>1, <2>2, AppendedOnce
  <2> QED BY <2>1, <2>2, <2>3, RegistryType
<1> QED BY <1>1, <1>2

LEMMA Ended ==
    ASSUME TalkInv, NEW t \in {1, 2}, talks[t].stage = "calling", NEW stage \in {"quiet", "storing"},
           stage = "storing" => threadCall.id \in Nat, Threads!End(t, stage), history' = history
    PROVE  TalkInv'
<1>1. talks[t].topic \in Threads!TopicSets /\ talks[t].at \in Nat
  BY TalkType DEF AskedTalks
<1>2. CASE stage = "quiet"
  <2>1. talks' = [talks EXCEPT ![t] = Threads!Quiet]
    BY <1>2 DEF Threads!End
  <2> QED BY <2>1 DEF TalkInv
<1>3. CASE stage = "storing"
  <2> DEFINE r == [stage |-> stage, topic |-> talks[t].topic, at |-> talks[t].at, ran |-> threadCall.id]
  <2>1. r \in EndingTalks
    BY <1>1, <1>3 DEF EndingTalks
  <2>2. talks' = [talks EXCEPT ![t] = r]
    BY <1>3 DEF Threads!End, TalkInv
  <2> HIDE DEF r
  <2> QED BY <2>1, <2>2 DEF TalkInv
<1> QED BY <1>2, <1>3

LEMMA TalksOnly ==
    ASSUME TalkInv, NEW t \in {1, 2}, NEW r \in AskedTalks \cup EndingTalks \cup {Threads!Quiet},
           talks' = [talks EXCEPT ![t] = r], history' \in Seq(SUBSET Topics)
    PROVE  TalkInv' /\ \A u \in {1, 2} : u # t => talks'[u] = talks[u]
BY DEF TalkInv

LEMMA Said ==
    ASSUME TalkInv, NEW topic \in Threads!TopicSets
    PROVE  Append(history, topic) \in Seq(SUBSET Topics) /\ Len(history) + 1 \in Nat
<1>1. topic \in SUBSET Topics /\ history \in Seq(SUBSET Topics)
  BY DEF Threads!TopicSets, TalkInv
<1> QED BY <1>1, AppendProperties

LEMMA AskStep ==
    ASSUME ThreadsInv, NEW t \in {1, 2}, NEW topic \in Threads!TopicSets, Threads!Ask(t, topic)
    PROVE  ThreadsInv'
<1> DEFINE r == [stage |-> "asked", topic |-> topic, at |-> Len(history) + 1]
<1>1. /\ talks[t] = Threads!Quiet /\ history' = Append(history, topic) /\ talks' = [talks EXCEPT ![t] = r]
      /\ UNCHANGED <<threads, recency, slots, settings, server, given, refused, spent, threadCall>>
  BY DEF Threads!Ask, Threads!client, Threads!native
<1>2. history' \in Seq(SUBSET Topics) /\ r \in AskedTalks
  BY <1>1, Said DEF ThreadsInv, AskedTalks
<1> HIDE DEF r
<1>3. TalkInv' /\ \A u \in {1, 2} : u # t => talks'[u] = talks[u]
  BY <1>1, <1>2, TalksOnly DEF ThreadsInv
<1>4. CallInv'
  BY <1>1, <1>3, CallStays DEF ThreadsInv, Threads!Quiet
<1> QED BY <1>1, <1>3, <1>4 DEF ThreadsInv, RegistryInv, HeldInv, Held, FreshInv, Attempted

LEMMA StoreReplyStep ==
    ASSUME ThreadsInv, NEW t \in {1, 2}, Threads!StoreReply(t) \/ Threads!SettleSilently(t)
    PROVE  ThreadsInv'
<1> DEFINE at == IF Threads!StoreReply(t) THEN Len(history) + 1 ELSE talks[t].at
           r == [talks[t] EXCEPT !.stage = "marking", !.at = at]
<1>1. talks[t].stage = "storing"
      /\ UNCHANGED <<threads, recency, slots, settings, server, given, refused, spent, threadCall>>
  BY DEF Threads!StoreReply, Threads!SettleSilently, Threads!client, Threads!native
<1>2. talks[t] \in EndingTalks /\ talks[t].topic \in Threads!TopicSets /\ talks[t].at \in Nat
  BY <1>1, TalkType DEF ThreadsInv, EndingTalks
<1>3. history' \in Seq(SUBSET Topics) /\ at \in Nat
  <2>1. CASE Threads!StoreReply(t)
    BY <1>2, <2>1, Said DEF ThreadsInv, Threads!StoreReply
  <2>2. CASE ~Threads!StoreReply(t)
    BY <1>2, <2>2 DEF ThreadsInv, TalkInv, Threads!SettleSilently, Threads!said
  <2> QED BY <2>1, <2>2
<1>4. talks' = [talks EXCEPT ![t] = r]
  <2>1. CASE Threads!StoreReply(t)
    BY <2>1 DEF Threads!StoreReply, ThreadsInv, TalkInv
  <2>2. CASE ~Threads!StoreReply(t)
    <3>1. talks' = [talks EXCEPT ![t].stage = "marking"] /\ at = talks[t].at
      BY <2>2 DEF Threads!SettleSilently
    <3>2. [talks[t] EXCEPT !.stage = "marking"] = r
      BY <1>2, <3>1 DEF EndingTalks
    <3> QED BY <3>1, <3>2 DEF ThreadsInv, TalkInv
  <2> QED BY <2>1, <2>2
<1> HIDE DEF at
<1>5. r \in EndingTalks
  BY <1>2, <1>3 DEF EndingTalks
<1> HIDE DEF r
<1>6. TalkInv' /\ \A u \in {1, 2} : u # t => talks'[u] = talks[u]
  BY <1>3, <1>4, <1>5, TalksOnly DEF ThreadsInv
<1>7. CallInv'
  BY <1>1, <1>6, CallStays DEF ThreadsInv
<1> QED BY <1>1, <1>6, <1>7 DEF ThreadsInv, RegistryInv, HeldInv, Held, FreshInv, Attempted

LEMMA RetractOrDieStep == ASSUME ThreadsInv, (\E i \in DOMAIN history : Threads!Retract(i)) \/ Threads!Die
      PROVE ThreadsInv'
<1>1. UNCHANGED <<history, talks, threads, recency, slots, settings, given, refused, spent, threadCall>>
  BY DEF Threads!Retract, Threads!Die, Threads!client, Threads!native, Threads!said
<1>2. server' = server \/ server' = [server EXCEPT !.up = FALSE]
  BY DEF Threads!Retract, Threads!Die, Threads!client
<1>3. HeldInv'
  <2>1. \A o \in Owners : Held(o)' = Held(o)
    BY <1>1, HeldIs
  <2> QED BY <1>1, <1>2, <2>1, NothingStarts DEF ThreadsInv
<1>4. CallInv'
  BY <1>1, CallStays DEF ThreadsInv
<1> QED BY <1>1, <1>3, <1>4 DEF ThreadsInv, RegistryInv, TalkInv, FreshInv, Attempted

LEMMA EnterStep == ASSUME ThreadsInv, NEW t \in {1, 2}, Threads!Enter(t) PROVE ThreadsInv'
<1> DEFINE r == [talks[t] EXCEPT !.stage = "calling"]
           s == Threads!ScopeOf(t)
<1>1. /\ talks[t].stage = "asked" /\ threadCall = Threads!Free /\ talks' = [talks EXCEPT ![t].stage = "calling"]
      /\ threadCall' = [op |-> "chat", turn |-> t, stage |-> "select"]
      /\ UNCHANGED <<history, slots, refused, spent>>
  BY DEF Threads!Enter, Threads!client, Threads!native, Threads!said
<1>2. talks[t] \in AskedTalks /\ s \in Threads!Scopes
  BY <1>1, TalkType DEF ThreadsInv
<1>3. r \in AskedTalks /\ r.stage = "calling" /\ r.topic = talks[t].topic /\ talks' = [talks EXCEPT ![t] = r]
  BY <1>1, <1>2 DEF AskedTalks
<1> HIDE DEF r
<1>4. talks'[t] = r
  BY <1>3 DEF ThreadsInv, TalkInv
<1>5. TalkInv'
  BY <1>1, <1>3, TalksOnly DEF ThreadsInv, TalkInv
<1>6. RegistryInv' /\ HeldInv' /\ given \in Nat /\ given' \in Nat /\ given <= given' /\ threads'[s].id # 0
  <2>1. CASE Threads!Present(s)
    <3>1. UNCHANGED <<threads, recency, slots, settings, server, given>>
      BY <2>1 DEF Threads!Enter, Threads!client
    <3>2. threads[s].id # 0
      BY <2>1, RegistryType DEF ThreadsInv, Threads!Present
    <3>3. given \in Nat
      BY HeldType DEF ThreadsInv
    <3> QED BY <3>1, <3>2, <3>3 DEF ThreadsInv, RegistryInv, HeldInv, Held
  <2>2. CASE ~Threads!Present(s)
    <3>1. Threads!Started /\ Threads!Ensure(s) /\ UNCHANGED slots
      BY <2>2 DEF Threads!Enter
    <3> HIDE DEF s
    <3>2. PICK u \in Threads!Scopes : u = s
      BY <1>2
    <3>3. RegistryInv' /\ HeldInv' /\ given' = given + 1 /\ threads'[u].id # 0
      BY <2>2, <3>1, <3>2, Ensured DEF ThreadsInv
    <3>4. given \in Nat
      BY HeldType DEF ThreadsInv
    <3> QED BY <3>2, <3>3, <3>4
  <2> QED BY <2>1, <2>2
<1>7. CallInv'
  <2>1. threadCall'.turn = t /\ threadCall'.op = "chat" /\ Threads!ScopeOf(threadCall.turn)' = s
    BY <1>1, <1>3, <1>4 DEF Threads!ScopeOf
  <2>2. Selects'
    BY <1>1, <1>3, <1>4, <1>6, <2>1 DEF Selects
  <2> QED BY <2>2 DEF CallInv
<1>8. FreshInv'
  BY <1>1, <1>6, CallKinds, FreshStays DEF ThreadsInv
<1> QED BY <1>5, <1>6, <1>7, <1>8 DEF ThreadsInv

LEMMA CannotEnterStep == ASSUME ThreadsInv, NEW t \in {1, 2}, Threads!CannotEnter(t) PROVE ThreadsInv'
<1>1. /\ talks[t].stage = "asked" /\ talks' = [talks EXCEPT ![t] = Threads!Quiet]
      /\ given' = given /\ settings' = settings /\ (server' = server \/ server' = [server EXCEPT !.up = FALSE])
      /\ UNCHANGED <<history, threads, recency, slots, refused, spent, threadCall>>
  BY DEF Threads!CannotEnter, Threads!NotStarted, Threads!native, Threads!said
<1>2. TalkInv' /\ \A u \in {1, 2} : u # t => talks'[u] = talks[u]
  BY <1>1, TalksOnly DEF ThreadsInv, TalkInv
<1>3. HeldInv'
  <2>1. \A o \in Owners : Held(o)' = Held(o)
    BY <1>1, HeldIs
  <2> QED BY <1>1, <2>1, NothingStarts DEF ThreadsInv
<1>4. CallInv'
  BY <1>1, <1>2, CallStays DEF ThreadsInv
<1> QED BY <1>1, <1>2, <1>3, <1>4 DEF ThreadsInv, RegistryInv, FreshInv, Attempted

LEMMA SelectStep == ASSUME ThreadsInv, NEW roll \in BOOLEAN, Threads!Select(roll) PROVE ThreadsInv'
<1>1. Selects
  BY CallKinds DEF ThreadsInv, Threads!Select, Chats, ChatCalls
<1>2. PICK t \in {1, 2} : t = threadCall.turn
  BY <1>1 DEF Selects
<1>3. talks[t].stage = "calling" /\ Threads!ScopeOf(threadCall.turn) = Threads!ScopeOf(t)
      /\ threads[Threads!ScopeOf(t)].id # 0
  BY <1>1, <1>2 DEF Selects
<1>4. Threads!ScopeOf(t) \in Threads!Scopes /\ talks[t] \in AskedTalks
  BY <1>3, TalkType DEF ThreadsInv
<1>5. PICK s \in Threads!Scopes : s = Threads!ScopeOf(t)
  BY <1>4
<1> DEFINE cursor == IF threads[s].bridge THEN 0 ELSE threads[s].cursor
           brings == Threads!Bridge(s, cursor, talks[t].at) \cup {talks[t].at}
<1>6. /\ recency' = Threads!Use(s)
      /\ threadCall' = [op |-> "chat", turn |-> t, stage |-> "run", id |-> threads[s].id,
                        needs |-> threads[s].bridge, roll |-> roll, brings |-> brings]
      /\ UNCHANGED <<history, talks, threads, slots, settings, server, given, refused, spent>>
  BY <1>2, <1>3, <1>5 DEF Threads!Select, Threads!native, Threads!said
<1>7. brings \in SUBSET Nat
  <2>1. talks[t].at \in Nat
    BY <1>4 DEF AskedTalks
  <2>2. DOMAIN history \subseteq Nat
    BY DEF ThreadsInv, TalkInv
  <2>3. Threads!Bridge(s, cursor, talks[t].at) \subseteq DOMAIN history
    BY DEF Threads!Bridge, Threads!Seen
  <2> QED BY <2>1, <2>2, <2>3
<1> HIDE DEF brings
<1>8. threads[s].id \in Nat /\ threads[s].bridge \in BOOLEAN
  BY RegistryType DEF ThreadsInv, ThreadInfo
<1>9. CallInv'
  <2>1. threadCall' \in ChatCalls
    BY <1>6, <1>7, <1>8 DEF ChatCalls
  <2>2. threadCall'.turn = t /\ threadCall'.id = threads[s].id
    BY <1>6
  <2>3. Threads!ScopeOf(threadCall.turn)' = Threads!ScopeOf(t)
    BY <1>6, <2>2 DEF Threads!ScopeOf
  <2>4. Chats'
    BY <1>3, <1>5, <1>6, <2>1, <2>2, <2>3 DEF Chats
  <2> QED BY <2>4 DEF CallInv
<1>10. RegistryInv'
  BY <1>3, <1>5, <1>6, UsedLast DEF ThreadsInv, RegistryInv
<1>11. FreshInv'
  <2>1. given \in Nat
    BY HeldType DEF ThreadsInv
  <2>2. threadCall.op # Threads!Temporary
    BY <1>1, CallKinds DEF ThreadsInv, Selects
  <2> QED BY <1>6, <2>1, <2>2, FreshStays DEF ThreadsInv
<1> QED BY <1>6, <1>9, <1>10, <1>11 DEF ThreadsInv, HeldInv, Held, TalkInv

LEMMA GivenType == ThreadsInv => given \in Nat
BY HeldType DEF ThreadsInv

LEMMA AcceptStep == ASSUME ThreadsInv, Threads!Accept PROVE ThreadsInv'
<1>1. Chats
  BY CallKinds DEF ThreadsInv, Threads!Accept, Selects
<1>2. /\ threadCall' = [threadCall EXCEPT !.stage = "accepted"]
      /\ UNCHANGED <<history, talks, threads, recency, slots, settings, server, given, refused, spent>>
  BY DEF Threads!Accept, Threads!client, Threads!said
<1>3. /\ threadCall' \in ChatCalls /\ threadCall'.turn = threadCall.turn /\ threadCall'.id = threadCall.id
  BY <1>1, <1>2 DEF Chats, ChatCalls
<1>4. Threads!ScopeOf(threadCall.turn)' = Threads!ScopeOf(threadCall.turn)
  BY <1>2, <1>3 DEF Threads!ScopeOf
<1>5. CallInv'
  BY <1>1, <1>2, <1>3, <1>4 DEF Chats, CallInv
<1>6. FreshInv'
  <2>1. threadCall.op # Threads!Temporary
    BY <1>1, CallKinds DEF ThreadsInv, Chats, ChatCalls
  <2> QED BY <1>2, <2>1, GivenType, FreshStays DEF ThreadsInv
<1> QED BY <1>2, <1>5, <1>6 DEF ThreadsInv, RegistryInv, HeldInv, Held, TalkInv

(* The turn whose call it is, and its scope.                                 *)
LEMMA ChatOf ==
    ASSUME ThreadsInv, Chats
    PROVE  \E t \in {1, 2}, s \in Threads!Scopes :
              /\ t = threadCall.turn /\ s = Threads!ScopeOf(threadCall.turn) /\ talks[t].stage = "calling"
              /\ threadCall.id = threads[s].id /\ threadCall.id \in Nat \ {0} /\ threadCall.needs \in BOOLEAN
              /\ threadCall.op # Threads!Temporary
<1>1. PICK t \in {1, 2} : t = threadCall.turn
  BY DEF Chats, ChatCalls
<1>2. talks[t].stage = "calling" /\ Threads!ScopeOf(threadCall.turn) = Threads!ScopeOf(t)
  BY <1>1 DEF Chats
<1>3. Threads!ScopeOf(t) \in Threads!Scopes
  BY <1>2, TalkType DEF ThreadsInv
<1>4. /\ threadCall.id = threads[Threads!ScopeOf(threadCall.turn)].id /\ threadCall.id \in Nat \ {0}
      /\ threadCall.needs \in BOOLEAN /\ threadCall.op = "chat"
  BY DEF Chats, ChatCalls
<1>5. threadCall.op # Threads!Temporary
  BY <1>4, CallKinds DEF ThreadsInv
<1> QED BY <1>1, <1>2, <1>3, <1>4, <1>5

LEMMA EndsOf ==
    ASSUME ThreadsInv, NEW t \in {1, 2}, t = threadCall.turn, talks[t].stage = "calling", threadCall.id \in Nat,
           NEW stage \in {"quiet", "storing"}, Threads!End(threadCall.turn, stage), history' = history
    PROVE  TalkInv'
BY Ended DEF ThreadsInv, Threads!End

LEMMA LeaveStep ==
    ASSUME ThreadsInv, NEW interrupted \in BOOLEAN, Threads!Leave(interrupted) \/ Threads!LeaveAndRotate(interrupted)
    PROVE  ThreadsInv'
<1>1. Chats
  BY CallKinds DEF ThreadsInv, Threads!Leave, Threads!LeaveAndRotate, Selects
<1>2. PICK t \in {1, 2}, s \in Threads!Scopes :
              /\ t = threadCall.turn /\ s = Threads!ScopeOf(threadCall.turn) /\ talks[t].stage = "calling"
              /\ threadCall.id = threads[s].id /\ threadCall.id \in Nat \ {0} /\ threadCall.needs \in BOOLEAN
              /\ threadCall.op # Threads!Temporary
  BY <1>1, ChatOf
<1>3. /\ Threads!End(threadCall.turn, IF interrupted THEN "quiet" ELSE "storing")
      /\ threadCall' = Threads!Free
      /\ UNCHANGED <<history, recency, slots, refused, spent>>
  BY DEF Threads!Leave, Threads!LeaveAndRotate, Threads!native, Threads!said
<1>4. TalkInv'
  BY <1>2, <1>3, EndsOf
<1>5. CallInv'
  BY <1>3 DEF CallInv
<1>6. /\ RegistryInv' /\ HeldInv' /\ given \in Nat /\ given' \in Nat /\ given <= given'
  <2>1. CASE /\ threads' = Threads!Bridged(s, threadCall.needs) /\ given' = given /\ settings' = settings
             /\ server' = server \/ server' = [server EXCEPT !.up = FALSE]
    <3>1. threads' = threads \/ threads' = [threads EXCEPT ![s].bridge = FALSE]
      BY <2>1 DEF Threads!Bridged
    <3>2. threads' \in [Threads!Scopes -> ThreadInfo] /\ \A x \in Threads!Scopes : threads'[x].id = threads[x].id
      BY <3>1, SameIds DEF ThreadsInv
    <3>3. \A o \in Owners : Held(o)' = Held(o)
      BY <1>3, <3>2, HeldIs
    <3>4. HeldInv'
      BY <2>1, <3>3, NothingStarts DEF ThreadsInv
    <3>5. RegistryInv'
      <4>1. \A x \in Threads!ToSet(recency) : threads'[x].id # 0
        BY <3>2, RegistryType, OwnersApart DEF ThreadsInv
      <4> QED BY <1>3, <3>2, <4>1, RegistryType DEF ThreadsInv, RegistryInv
    <3> QED BY <2>1, <3>4, <3>5, GivenType
  <2>2. CASE Threads!Started /\ threads' = [threads EXCEPT ![s] = Threads!NewThread(given')]
        /\ Threads!Forget({threadCall.id})
    <3>1. given \in Nat /\ given' = given + 1 /\ given' \in Nat \ {0}
      BY <2>2, GivenType DEF Threads!Started
    <3>2. /\ threads' \in [Threads!Scopes -> ThreadInfo] /\ threads'[s].id = given'
          /\ \A x \in Threads!Scopes : x # s => threads'[x] = threads[x]
      BY <2>2, <3>1, NewThreads, RegistryType DEF ThreadsInv
    <3>3. Held(s)' = given' /\ s \in Owners /\ Held(s) = threadCall.id /\ \A o \in Owners : o # s => Held(o)' = Held(o)
      BY <1>2, <1>3, <3>2, HeldIs
    <3>4. \A o \in Owners : Held(o)' # 0 => Held(o)' \notin {threadCall.id}
      <4>1. /\ \A o \in Owners : Held(o) \in 0..given
            /\ \A o, p \in Owners : Held(o) = Held(p) /\ Held(o) # 0 => o = p
        BY HeldType DEF ThreadsInv
      <4> HIDE DEF Held, Owners
      <4> SUFFICES ASSUME NEW o \in Owners, Held(o)' = threadCall.id PROVE FALSE
        OBVIOUS
      <4>2. CASE o = s
        BY <3>1, <3>3, <4>1, <4>2
      <4>3. CASE o # s
        BY <1>2, <3>3, <4>1, <4>3
      <4> QED BY <4>2, <4>3
    <3>5. HeldInv'
      BY <2>2, <3>3, <3>4, OneStarts DEF ThreadsInv, Threads!Forget
    <3>6. RegistryInv'
      <4>1. \A x \in Threads!ToSet(recency) : threads'[x].id # 0
        BY <3>1, <3>2, RegistryType, OwnersApart DEF ThreadsInv
      <4> QED BY <1>3, <3>2, <4>1, RegistryType DEF ThreadsInv, RegistryInv
    <3> QED BY <3>1, <3>5, <3>6
  <2>3. CASE Threads!Leave(interrupted)
    BY <1>2, <2>1, <2>3 DEF Threads!Leave
  <2>4. CASE Threads!LeaveAndRotate(interrupted)
    BY <1>2, <2>1, <2>2, <2>4 DEF Threads!LeaveAndRotate, Threads!NotStarted
  <2> QED BY <2>3, <2>4
<1>7. FreshInv'
  BY <1>2, <1>3, <1>6, FreshStays DEF ThreadsInv
<1> QED BY <1>4, <1>5, <1>6, <1>7 DEF ThreadsInv

LEMMA FailChatStep == ASSUME ThreadsInv, Threads!FailChat PROVE ThreadsInv'
<1>1. Chats
  BY CallKinds DEF ThreadsInv, Threads!FailChat, Selects
<1>2. PICK t \in {1, 2} : t = threadCall.turn /\ talks[t].stage = "calling" /\ threadCall.id \in Nat
                          /\ threadCall.op # Threads!Temporary
  BY <1>1, ChatOf
<1>3. /\ Threads!End(threadCall.turn, "quiet") /\ threadCall' = Threads!Free /\ UNCHANGED <<history, spent>>
  BY DEF Threads!FailChat, Threads!native, Threads!said
<1>4. TalkInv'
  BY <1>2, <1>3, EndsOf
<1>5. CallInv'
  BY <1>3 DEF CallInv
<1>6. CASE UNCHANGED Threads!client
  <2>1. UNCHANGED <<threads, recency, slots, settings, server, given, refused>>
    BY <1>6 DEF Threads!client
  <2>2. FreshInv'
    BY <1>2, <1>3, <2>1, GivenType, FreshStays DEF ThreadsInv
  <2> QED BY <1>4, <1>5, <2>1, <2>2 DEF ThreadsInv, RegistryInv, HeldInv, Held
<1>7. CASE Threads!Recover
  <2>1. /\ RegistryInv' /\ HeldInv' /\ given' \in Nat /\ given <= given'
        /\ \/ threads' = threads /\ slots' = slots /\ given' = given /\ refused' = refused
           \/ slots'[Threads!Temporary] > given
    BY <1>7, Recovers DEF ThreadsInv
  <2>2. FreshInv'
    BY <1>2, <1>3, <2>1, GivenType, FreshStays DEF ThreadsInv
  <2> QED BY <1>4, <1>5, <2>1, <2>2 DEF ThreadsInv
<1> QED BY <1>6, <1>7 DEF Threads!FailChat

LEMMA MarkStep == ASSUME ThreadsInv, NEW t \in {1, 2}, Threads!Mark(t) PROVE ThreadsInv'
<1>1. /\ talks[t].stage = "marking" /\ threadCall = Threads!Free
      /\ threads' = Threads!Marked(Threads!ScopeOf(t), talks[t].at)
      /\ recency' = IF Threads!Present(Threads!ScopeOf(t)) THEN Threads!Use(Threads!ScopeOf(t)) ELSE recency
      /\ talks' = [talks EXCEPT ![t] = Threads!Quiet]
      /\ UNCHANGED <<history, slots, settings, server, given, refused, spent, threadCall>>
  BY DEF Threads!Mark, Threads!native, Threads!said
<1>2. Threads!ScopeOf(t) \in Threads!Scopes /\ talks[t].at \in Nat
  BY <1>1, TalkType DEF ThreadsInv, EndingTalks
<1>3. PICK s \in Threads!Scopes : s = Threads!ScopeOf(t)
  BY <1>2
<1>4. threads' = threads \/ threads' = [threads EXCEPT ![s].cursor = talks[t].at]
  BY <1>1, <1>3 DEF Threads!Marked
<1>5. threads' \in [Threads!Scopes -> ThreadInfo] /\ \A x \in Threads!Scopes : threads'[x].id = threads[x].id
  BY <1>2, <1>4, SameIds DEF ThreadsInv
<1>6. Once(recency') /\ \A x \in Threads!ToSet(recency') : threads[x].id # 0
  <2>1. CASE Threads!Present(s)
    <3>1. threads[s].id # 0
      BY <2>1, RegistryType DEF ThreadsInv, Threads!Present
    <3> QED BY <1>1, <1>3, <2>1, <3>1, UsedLast DEF ThreadsInv
  <2>2. CASE ~Threads!Present(s)
    BY <1>1, <1>3, <2>2, RegistryType DEF ThreadsInv
  <2> QED BY <2>1, <2>2
<1>7. RegistryInv'
  <2>1. \A x \in Threads!ToSet(recency') : x \in Threads!Scopes
    BY <1>6, OwnersApart DEF Once, Threads!ToSet
  <2> QED BY <1>1, <1>5, <1>6, <2>1, RegistryType DEF ThreadsInv, RegistryInv
<1>8. HeldInv'
  <2>1. \A o \in Owners : Held(o)' = Held(o)
    BY <1>1, <1>5, HeldIs
  <2> QED BY <1>1, <2>1, NothingStarts DEF ThreadsInv
<1>9. TalkInv'
  BY <1>1, TalksOnly DEF ThreadsInv, TalkInv
<1>10. CallInv' /\ FreshInv'
  BY <1>1 DEF ThreadsInv, CallInv, FreshInv, Attempted
<1> QED BY <1>7, <1>8, <1>9, <1>10 DEF ThreadsInv

LEMMA InvalidateStep == ASSUME ThreadsInv, Threads!Invalidate PROVE ThreadsInv'
<1>1. /\ threadCall = Threads!Free
      /\ settings' = settings \ {threads[s].id : s \in Threads!Scopes}
      /\ threads' = [s \in Threads!Scopes |-> Threads!NewThread(0)] /\ recency' = <<>>
      /\ UNCHANGED <<history, talks, slots, server, given, refused, spent, threadCall>>
  BY DEF Threads!Invalidate, Threads!native, Threads!said
<1>2. threads' \in [Threads!Scopes -> ThreadInfo] /\ \A s \in Threads!Scopes : threads'[s].id = 0
  BY <1>1, NewThreads
<1>3. /\ \A s \in Threads!Scopes : Held(s)' = 0 /\ s \in Owners /\ Held(s) = threads[s].id
      /\ \A x \in Threads!Surfaces : Held(x)' = Held(x) /\ x \in Owners
      /\ \A o \in Owners : o \in Threads!Scopes \/ o \in Threads!Surfaces
  BY <1>1, <1>2, HeldIs
<1>4. \A o \in Owners : Held(o)' # 0 /\ Held(o)' \in settings => Held(o)' \in settings'
  <2> SUFFICES ASSUME NEW o \in Owners, Held(o)' # 0, Held(o)' \in settings, NEW s \in Threads!Scopes, Held(o)' = threads[s].id
               PROVE FALSE
    BY <1>1
  <2>1. \A p, q \in Owners : Held(p) = Held(q) /\ Held(p) # 0 => p = q
    BY HeldType DEF ThreadsInv
  <2> HIDE DEF Held, Owners
  <2>2. o \in Threads!Surfaces /\ Held(o)' = Held(o) /\ Held(o) = Held(s) /\ s \in Owners
    BY <1>3
  <2>3. o = s
    BY <2>1, <2>2
  <2> QED BY <2>2, <2>3, OwnersApart
<1>5. HeldInv'
  BY <1>1, <1>3, <1>4, NothingStarts DEF ThreadsInv
<1>6. RegistryInv'
  BY <1>1, <1>2, NewThreads, RegistryType DEF ThreadsInv, RegistryInv
<1> QED BY <1>1, <1>5, <1>6 DEF ThreadsInv, TalkInv, CallInv, FreshInv, Attempted

LEMMA PrepareStep == ASSUME ThreadsInv, Threads!Prepare PROVE ThreadsInv'
<1>1. threadCall = Threads!Free /\ UNCHANGED <<history, talks, spent, threadCall>>
  BY DEF Threads!Prepare, Threads!native, Threads!said
<1>2. CASE UNCHANGED Threads!client
  BY <1>1, <1>2 DEF Threads!client, ThreadsInv, RegistryInv, HeldInv, Held, TalkInv, CallInv, FreshInv, Attempted
<1>3. CASE ~Threads!Present(Threads!Main) /\ Threads!Started /\ Threads!Ensure(Threads!Main)
      /\ UNCHANGED <<slots, refused>>
  <2>1. RegistryInv' /\ HeldInv' /\ given' = given + 1
    BY <1>3, OwnersApart, Ensured DEF ThreadsInv
  <2>2. FreshInv'
    <3>1. threadCall.op # Threads!Temporary
      BY <1>1, CallKinds DEF ThreadsInv
    <3>2. given' \in Nat /\ given <= given'
      BY <2>1, GivenType
    <3> QED BY <1>1, <1>3, <3>1, <3>2, GivenType, FreshStays DEF ThreadsInv
  <2> QED BY <1>1, <2>1, <2>2 DEF ThreadsInv, TalkInv, CallInv
<1>4. CASE Threads!NotStarted /\ UNCHANGED <<threads, recency, slots, refused>>
  <2>1. given' = given /\ settings' = settings /\ (server' = server \/ server' = [server EXCEPT !.up = FALSE])
    BY <1>4 DEF Threads!NotStarted
  <2>2. \A o \in Owners : Held(o)' = Held(o)
    BY <1>4, HeldIs
  <2>3. HeldInv'
    BY <2>1, <2>2, NothingStarts DEF ThreadsInv
  <2> QED BY <1>1, <1>4, <2>1, <2>3 DEF ThreadsInv, RegistryInv, TalkInv, CallInv, FreshInv, Attempted
<1> QED BY <1>2, <1>3, <1>4 DEF Threads!Prepare

LEMMA RecoverRuntimeStep == ASSUME ThreadsInv, Threads!RecoverRuntime PROVE ThreadsInv'
<1>1. threadCall = Threads!Free /\ Threads!Restarted /\ UNCHANGED <<history, talks, spent, threadCall>>
  BY DEF Threads!RecoverRuntime, Threads!native, Threads!said
<1>2. RegistryInv' /\ HeldInv' /\ given' \in Nat /\ given <= given' /\ slots'[Threads!Temporary] > given
  BY <1>1, Restarts DEF ThreadsInv
<1>3. FreshInv'
  BY <1>1, <1>2, GivenType, FreshStays DEF ThreadsInv
<1> QED BY <1>1, <1>2, <1>3 DEF ThreadsInv, TalkInv, CallInv

LEMMA BackgroundStep == ASSUME ThreadsInv, NEW x \in Threads!Surfaces, Threads!Background(x) PROVE ThreadsInv'
<1>1. /\ threadCall = Threads!Free /\ threadCall' = [op |-> x, stage |-> "run", id |-> slots'[x]]
      /\ UNCHANGED <<history, talks, threads, recency, refused, spent>>
  BY DEF Threads!Background, Threads!client, Threads!native, Threads!said
<1>2. /\ RegistryInv' /\ HeldInv' /\ given' \in Nat /\ given <= given' /\ slots'[x] \in Nat \ {0}
      /\ \/ slots' = slots
         \/ slots' = [slots EXCEPT ![x] = given'] /\ given' > given
  <2>1. CASE slots[x] # 0 /\ UNCHANGED Threads!client
    <3>1. UNCHANGED <<threads, recency, slots, settings, server, given>>
      BY <2>1 DEF Threads!client
    <3>2. slots[x] \in Nat \ {0} /\ given \in Nat
      BY <2>1, GivenType, RegistryType DEF ThreadsInv
    <3>3. RegistryInv' /\ HeldInv'
      BY <1>1, <3>1 DEF ThreadsInv, RegistryInv, HeldInv, Held
    <3> QED BY <3>1, <3>2, <3>3
  <2>2. CASE slots[x] = 0 /\ Threads!Started /\ Threads!Forget({}) /\ slots' = [slots EXCEPT ![x] = given']
    <3>1. given \in Nat /\ given' = given + 1 /\ given' \in Nat \ {0} /\ given' > given
      BY <2>2, GivenType DEF Threads!Started
    <3>2. slots' \in [Threads!Surfaces -> Nat] /\ slots'[x] = given'
          /\ \A y \in Threads!Surfaces : y # x => slots'[y] = slots[y]
      BY <2>2, <3>1, RegistryType DEF ThreadsInv
    <3>3. Held(x)' = given' /\ x \in Owners /\ \A o \in Owners : o # x => Held(o)' = Held(o)
      BY <1>1, <3>2, HeldIs
    <3>4. HeldInv'
      <4>1. PICK ids : ids = {}
        OBVIOUS
      <4>2. settings' = (settings \cup {given'}) \ ids
        BY <2>2, <4>1 DEF Threads!Forget
      <4>3. \A o \in Owners : Held(o)' # 0 => Held(o)' \notin ids
        BY <4>1
      <4> QED BY <2>2, <3>3, <4>2, <4>3, OneStarts DEF ThreadsInv
    <3>5. RegistryInv'
      BY <1>1, <3>2 DEF ThreadsInv, RegistryInv
    <3> QED BY <2>2, <3>1, <3>2, <3>4, <3>5
  <2> QED BY <2>1, <2>2 DEF Threads!Background
<1>3. CallInv'
  <2>1. threadCall' \in SurfaceCalls
    BY <1>1, <1>2 DEF SurfaceCalls
  <2>2. Serves'
    BY <1>1, <1>2, <2>1 DEF Serves
  <2> QED BY <2>2 DEF CallInv
<1>4. FreshInv'
  <2>1. threadCall.op # Threads!Temporary
    BY <1>1, CallKinds DEF ThreadsInv
  <2>2. slots'[Threads!Temporary] = slots[Threads!Temporary] \/ slots'[Threads!Temporary] > given
    BY <1>2, OwnersApart, RegistryType DEF ThreadsInv
  <2> QED BY <1>1, <1>2, <2>1, <2>2, GivenType, FreshStays DEF ThreadsInv
<1> QED BY <1>1, <1>2, <1>3, <1>4 DEF ThreadsInv, TalkInv

LEMMA AcceptBackgroundStep == ASSUME ThreadsInv, Threads!AcceptBackground PROVE ThreadsInv'
<1>1. /\ threadCall.op \in Threads!Surfaces /\ threadCall.stage = "run"
      /\ threadCall' = [threadCall EXCEPT !.stage = "accepted"]
      /\ spent' = IF threadCall.op = Threads!Temporary THEN spent \cup {threadCall.id} ELSE spent
      /\ UNCHANGED <<history, talks, threads, recency, slots, settings, server, given, refused>>
  BY DEF Threads!AcceptBackground, Threads!client, Threads!said
<1>2. Serves
  BY <1>1, CallKinds DEF ThreadsInv, LosesItsThread
<1>3. threadCall.id \in 1..given
  BY <1>2, HoldsItsThread DEF ThreadsInv
<1>4. threadCall' \in SurfaceCalls /\ threadCall'.op = threadCall.op /\ threadCall'.id = threadCall.id
      /\ threadCall'.stage = "accepted"
  BY <1>1, <1>2 DEF Serves, SurfaceCalls
<1>5. CallInv'
  BY <1>1, <1>2, <1>4 DEF Serves, CallInv
<1>6. FreshInv'
  BY <1>1, <1>3, <1>4 DEF ThreadsInv, FreshInv, Attempted
<1> QED BY <1>1, <1>5, <1>6 DEF ThreadsInv, RegistryInv, HeldInv, Held, TalkInv

(* A renewal gives the temporary discussion a thread that took no attempt,   *)
(* or is refused.                                                            *)
LEMMA FreshRenewed ==
    ASSUME FreshInv, given \in Nat, slots \in [Threads!Surfaces -> Nat], NEW x \in Threads!Surfaces, spent' = spent,
           \/ slots' = [slots EXCEPT ![x] = given'] /\ given' = given + 1 /\ refused' = refused \ {x}
           \/ slots' = slots /\ given' = given /\ refused' = refused \cup {x},
           x = threadCall.op
    PROVE  FreshInv'
<1>1. given' \in Nat /\ given <= given' /\ spent' \subseteq 1..given'
  BY DEF FreshInv
<1>2. CASE x = Threads!Temporary
  <2>1. Threads!Temporary \in refused' \/ slots'[Threads!Temporary] = given + 1
    BY <1>2
  <2>2. given + 1 \notin spent'
    BY DEF FreshInv
  <2> QED BY <1>1, <2>1, <2>2 DEF FreshInv
<1>3. CASE x # Threads!Temporary
  <2>1. slots'[Threads!Temporary] = slots[Threads!Temporary]
    BY <1>3, OwnersApart
  <2>2. Threads!Temporary \in refused => Threads!Temporary \in refused'
    BY <1>3
  <2> QED BY <1>1, <1>3, <2>1, <2>2 DEF FreshInv, Attempted
<1> QED BY <1>2, <1>3

LEMMA EndBackgroundStep ==
    ASSUME ThreadsInv, NEW ending, Threads!EndBackground(ending) PROVE ThreadsInv'
<1>1. /\ threadCall.op \in Threads!Surfaces /\ threadCall.stage \in {"accepted", "run"} /\ threadCall' = Threads!Free
      /\ IF Threads!Renews(threadCall.op, ending) THEN Threads!Renew(threadCall.op, threadCall.id)
         ELSE UNCHANGED <<Threads!client, threadFaults>>
      /\ UNCHANGED <<history, talks, spent>>
  BY DEF Threads!EndBackground, Threads!native, Threads!said
<1>2. Serves
  BY <1>1, CallKinds DEF ThreadsInv, LosesItsThread
<1>3. PICK x \in Threads!Surfaces, id \in 1..given :
          x = threadCall.op /\ id = threadCall.id /\ \A o \in Owners : Held(o) = id => o = x
  BY <1>2, HoldsItsThread DEF ThreadsInv
<1>4. CASE Threads!Renew(x, id)
  <2>1. /\ RegistryInv' /\ HeldInv'
        /\ \/ slots' = [slots EXCEPT ![x] = given'] /\ given' = given + 1 /\ refused' = refused \ {x}
           \/ slots' = slots /\ given' = given /\ refused' = refused \cup {x}
    BY <1>3, <1>4, Renewed DEF ThreadsInv
  <2>2. FreshInv'
    BY <1>1, <1>3, <2>1, GivenType, RegistryType, FreshRenewed DEF ThreadsInv
  <2> QED BY <1>1, <2>1, <2>2 DEF ThreadsInv, TalkInv, CallInv
<1>5. CASE ~Threads!Renews(threadCall.op, ending)
  <2>1. UNCHANGED <<threads, recency, slots, settings, server, given, refused>>
    BY <1>1, <1>5 DEF Threads!client
  <2>2. threadCall.op # Threads!Temporary
    BY <1>5 DEF Threads!Renews
  <2>3. FreshInv'
    BY <1>1, <2>1, <2>2, GivenType, FreshStays DEF ThreadsInv
  <2> QED BY <1>1, <2>1, <2>3 DEF ThreadsInv, RegistryInv, HeldInv, Held, TalkInv, CallInv
<1> QED BY <1>1, <1>3, <1>4, <1>5

LEMMA LoseBackgroundStep == ASSUME ThreadsInv, Threads!LoseBackground PROVE ThreadsInv'
<1>1. /\ threadCall.op \in Threads!Surfaces /\ threadCall.stage # "renew" /\ Threads!Recover
      /\ threadCall' = IF Threads!Renews(threadCall.op, "failed") THEN [threadCall EXCEPT !.stage = "renew"] ELSE Threads!Free
      /\ UNCHANGED <<history, talks, spent>>
  BY DEF Threads!LoseBackground, Threads!native, Threads!said
<1>2. Serves
  BY <1>1, CallKinds DEF ThreadsInv, LosesItsThread
<1>3. /\ threadCall.id \in 1..given /\ threadCall.op \in Owners
      /\ \A o \in Owners : Held(o) = threadCall.id => o = threadCall.op
  BY <1>2, HoldsItsThread DEF ThreadsInv
<1>4. /\ RegistryInv' /\ HeldInv' /\ given' \in Nat /\ given <= given'
      /\ \/ threads' = threads /\ slots' = slots /\ given' = given /\ refused' = refused
         \/ /\ \A o \in Owners : Held(o)' = 0 \/ Held(o)' > given
            /\ slots'[Threads!Temporary] > given
  BY <1>1, Recovers DEF ThreadsInv
<1>5. given \in Nat
  BY GivenType
<1>6. CASE threadCall' = [threadCall EXCEPT !.stage = "renew"]
  <2>1. threadCall' \in SurfaceCalls /\ threadCall'.stage = "renew" /\ threadCall'.op = threadCall.op
        /\ threadCall'.id = threadCall.id
    BY <1>2, <1>6 DEF Serves, SurfaceCalls
  <2>2. \A o \in Owners : Held(o)' = threadCall.id => o = threadCall.op
    <3>1. CASE threads' = threads /\ slots' = slots
      <4>1. \A o \in Owners : Held(o)' = Held(o)
        BY <3>1, HeldIs
      <4> QED BY <1>3, <4>1
    <3>2. CASE \A o \in Owners : Held(o)' = 0 \/ Held(o)' > given
      BY <1>3, <1>5, <3>2
    <3> QED BY <1>4, <3>1, <3>2
  <2>3. threadCall'.id \in 1..given'
    BY <1>3, <1>4, <1>5, <2>1
  <2>4. CallInv'
    BY <2>1, <2>2, <2>3 DEF LosesItsThread, CallInv
  <2>5. FreshInv'
    <3>1. spent' \subseteq 1..given'
      BY <1>1, <1>4, <1>5 DEF ThreadsInv, FreshInv
    <3>2. CASE threadCall.op = Threads!Temporary
      BY <2>1, <3>1, <3>2 DEF FreshInv, Attempted
    <3>3. CASE threadCall.op # Threads!Temporary
      BY <1>1, <1>4, <1>5, <3>3, FreshStays DEF ThreadsInv
    <3> QED BY <3>2, <3>3
  <2> QED BY <1>1, <1>4, <2>4, <2>5 DEF ThreadsInv, TalkInv
<1>7. CASE ~Threads!Renews(threadCall.op, "failed") /\ threadCall' = Threads!Free
  <2>1. threadCall.op # Threads!Temporary
    BY <1>7 DEF Threads!Renews
  <2>2. FreshInv'
    BY <1>1, <1>4, <1>5, <2>1, FreshStays DEF ThreadsInv
  <2> QED BY <1>1, <1>4, <1>7, <2>2 DEF ThreadsInv, TalkInv, CallInv
<1> QED BY <1>1, <1>6, <1>7

LEMMA RenewAfterLossStep == ASSUME ThreadsInv, Threads!RenewAfterLoss PROVE ThreadsInv'
<1>1. /\ threadCall.op \in Threads!Surfaces /\ threadCall.stage = "renew" /\ threadCall' = Threads!Free
      /\ Threads!Renew(threadCall.op, threadCall.id) /\ UNCHANGED <<history, talks, spent>>
  BY DEF Threads!RenewAfterLoss, Threads!native, Threads!said
<1>2. LosesItsThread
  BY <1>1, CallKinds DEF ThreadsInv, Serves
<1>3. PICK x \in Threads!Surfaces, id \in 1..given :
          x = threadCall.op /\ id = threadCall.id /\ \A o \in Owners : Held(o) = id => o = x
  BY <1>1, <1>2 DEF LosesItsThread
<1>4. /\ RegistryInv' /\ HeldInv'
      /\ \/ slots' = [slots EXCEPT ![x] = given'] /\ given' = given + 1 /\ refused' = refused \ {x}
         \/ slots' = slots /\ given' = given /\ refused' = refused \cup {x}
  BY <1>1, <1>3, Renewed DEF ThreadsInv
<1>5. FreshInv'
  BY <1>1, <1>3, <1>4, GivenType, RegistryType, FreshRenewed DEF ThreadsInv
<1> QED BY <1>1, <1>4, <1>5 DEF ThreadsInv, TalkInv, CallInv

LEMMA ThreadsInit == ServicesInit => ThreadsInv
<1> SUFFICES ASSUME ServicesInit PROVE ThreadsInv
  OBVIOUS
<1> DEFINE n == Cardinality(Threads!Surfaces \ Lazy)
           ids == Threads!Numbered(1)
<1>1. /\ history = <<>> /\ talks = [t \in {1, 2} |-> Threads!Quiet]
      /\ threads = [s \in Threads!Scopes |-> Threads!NewThread(IF s = Threads!Main THEN 1 ELSE 0)]
      /\ recency = <<>> /\ slots = ids /\ given = 1 + n /\ settings = 1..given
      /\ server = [up |-> TRUE, born |-> 1..given] /\ spent = {} /\ threadCall = Threads!Free
  BY ThreadCardinality DEF ServicesInit, Threads!Init
<1>2. /\ n \in Nat /\ ids \in [Threads!Surfaces -> Nat]
      /\ \A x \in Lazy : x \in Threads!Surfaces => ids[x] = 0
      /\ \A x \in Threads!Surfaces \ Lazy : ids[x] \in 2..(1 + n)
      /\ \A x, y \in Threads!Surfaces \ Lazy : ids[x] = ids[y] => x = y
  <2>1. 1 \in Nat /\ 1 + 1 = 2
    OBVIOUS
  <2>2. PICK m \in Nat : m = 1
    BY <2>1
  <2>3. Threads!Numbered(m) = ids
    BY <2>2
  <2>4. /\ n \in Nat /\ Threads!Numbered(m) \in [Threads!Surfaces -> Nat]
        /\ \A x \in Lazy : x \in Threads!Surfaces => Threads!Numbered(m)[x] = 0
        /\ \A x \in Threads!Surfaces \ Lazy : Threads!Numbered(m)[x] \in (m + 1)..(m + n)
        /\ \A x, y \in Threads!Surfaces \ Lazy : Threads!Numbered(m)[x] = Threads!Numbered(m)[y] => x = y
    BY NumberedApart
  <2> HIDE DEF n, ids
  <2> QED BY <2>1, <2>2, <2>3, <2>4
<1> HIDE DEF n, ids
<1>3. threads \in [Threads!Scopes -> ThreadInfo] /\ \A s \in Threads!Scopes : threads[s].id = IF s = Threads!Main THEN 1 ELSE 0
  BY <1>1, NewThreads
<1>4. RegistryInv
  BY <1>1, <1>2, <1>3, NewThreads DEF RegistryInv
<1>5. /\ \A s \in Threads!Scopes : Held(s) = IF s = Threads!Main THEN 1 ELSE 0
      /\ \A x \in Threads!Surfaces : Held(x) = ids[x]
      /\ \A o \in Owners : o \in Threads!Scopes \/ o \in Threads!Surfaces
  BY <1>1, <1>3, HeldIs
<1>6. \A o \in Owners : (o = Threads!Main /\ Held(o) = 1) \/ Held(o) = 0
                        \/ (o \in Threads!Surfaces \ Lazy /\ Held(o) = ids[o] /\ Held(o) \in 2..(1 + n))
  BY <1>2, <1>5
<1> HIDE DEF Held, Owners
<1>7. \A o, p \in Owners : Held(o) = Held(p) /\ Held(o) # 0 => o = p
  <2> SUFFICES ASSUME NEW o \in Owners, NEW p \in Owners, Held(o) = Held(p), Held(o) # 0 PROVE o = p
    OBVIOUS
  <2>1. 1 \notin 2..(1 + n)
    BY <1>2
  <2> QED BY <1>2, <1>6, <2>1
<1>8. \A o \in Owners : Held(o) \in 0..(1 + n) /\ (Held(o) # 0 => Held(o) \in 1..(1 + n))
  BY <1>2, <1>6
<1>9. HeldInv
  BY <1>1, <1>2, <1>7, <1>8 DEF HeldInv
<1>10. TalkInv
  BY <1>1 DEF TalkInv
<1>11. slots[Threads!Temporary] \notin spent
  BY <1>1
<1> QED BY <1>1, <1>4, <1>9, <1>10, <1>11 DEF ThreadsInv, CallInv, FreshInv

LEMMA ThreadsStep == ASSUME ThreadsInv, Threads!Next PROVE ThreadsInv'
<1>1. CASE \E t \in {1, 2} :
             \/ \E topic \in Threads!TopicSets : Threads!Ask(t, topic)
             \/ Threads!Enter(t) \/ Threads!CannotEnter(t) \/ Threads!StoreReply(t) \/ Threads!SettleSilently(t)
             \/ Threads!Mark(t)
  BY <1>1, AskStep, EnterStep, CannotEnterStep, StoreReplyStep, MarkStep
<1>2. CASE \E b \in BOOLEAN : Threads!Select(b) \/ Threads!Leave(b) \/ Threads!LeaveAndRotate(b)
  BY <1>2, SelectStep, LeaveStep
<1>3. CASE Threads!Accept \/ Threads!FailChat
  BY <1>3, AcceptStep, FailChatStep
<1>4. CASE (\E i \in DOMAIN history : Threads!Retract(i)) \/ Threads!Die
  BY <1>4, RetractOrDieStep
<1>5. CASE Threads!Invalidate \/ Threads!Prepare \/ Threads!RecoverRuntime
  BY <1>5, InvalidateStep, PrepareStep, RecoverRuntimeStep
<1>6. CASE \E x \in Threads!Surfaces : Threads!Background(x)
  BY <1>6, BackgroundStep
<1>7. CASE Threads!AcceptBackground \/ Threads!LoseBackground \/ Threads!RenewAfterLoss
  BY <1>7, AcceptBackgroundStep, LoseBackgroundStep, RenewAfterLossStep
<1>8. CASE \E ending \in {"completed", "interrupted", "failed"} : Threads!EndBackground(ending)
  BY <1>8, EndBackgroundStep
<1> QED BY <1>1, <1>2, <1>3, <1>4, <1>5, <1>6, <1>7, <1>8 DEF Threads!Next

(* A call runs on a thread of the living process whose configuration is      *)
(* known: no rotation, eviction, retraction, renewal or restart takes the    *)
(* thread from under it.  An attempt of a temporary discussion starts on a   *)
(* thread no attempt has run on, unless its renewal did not start.  For any  *)
(* Topics and surfaces, any length of the conversation, any number of        *)
(* threads and failures (codex/client.rs, interactive_threads.rs).           *)
THEOREM ThreadsStayAlive == ServicesSpec => []ThreadsAreAlive
<1>1. ThreadsInv /\ [ServicesNext]_servicesVars => ThreadsInv'
  <2> SUFFICES ASSUME ThreadsInv, [ServicesNext]_servicesVars PROVE ThreadsInv'
    OBVIOUS
  <2>1. CASE Threads!Next
    BY <2>1, ThreadsStep
  <2>2. CASE UNCHANGED threadVars
    BY <2>2 DEF threadVars, ThreadsInv, RegistryInv, HeldInv, Held, TalkInv, CallInv, Selects, Chats, Serves,
                LosesItsThread, FreshInv, Attempted, Threads!ScopeOf
  <2> QED BY <2>1, <2>2 DEF ServicesNext, servicesVars, threadVars
<1>2. ThreadsInv => ThreadsAreAlive
  <2> SUFFICES ASSUME ThreadsInv PROVE ThreadsAreAlive
    OBVIOUS
  <2>1. Threads!CallsRunOnLiveThreads
    <3> SUFFICES ASSUME threadCall.op # "free", threadCall.stage \in {"run", "accepted"}, server.up
                 PROVE  threadCall.id \in settings /\ threadCall.id \in server.born
      BY DEF Threads!CallsRunOnLiveThreads
    <3>1. Chats \/ Serves
      BY CallKinds DEF ThreadsInv, CallInv, Selects, LosesItsThread
    <3>2. PICK o \in Owners : Held(o) = threadCall.id /\ Held(o) # 0
      <4>1. CASE Chats
        <5>1. PICK s \in Threads!Scopes : threadCall.id = threads[s].id /\ threadCall.id # 0
          BY <4>1, ChatOf
        <5> QED BY <5>1, HeldIs
      <4>2. CASE Serves
        BY <4>2, HoldsItsThread DEF ThreadsInv
      <4> QED BY <3>1, <4>1, <4>2
    <3> HIDE DEF Held, Owners
    <3> QED BY <3>2 DEF ThreadsInv, HeldInv
  <2>2. Threads!AttemptsStartFresh
    <3> SUFFICES ASSUME threadCall.op = Threads!Temporary, threadCall.stage = "run", Threads!Temporary \notin refused
                 PROVE  threadCall.id \notin spent
      BY DEF Threads!AttemptsStartFresh
    <3>1. Serves
      BY CallKinds, OwnersApart DEF ThreadsInv, LosesItsThread
    <3> QED BY <3>1 DEF Serves, ThreadsInv, FreshInv, Attempted
  <2> QED BY <2>1, <2>2 DEF ThreadsAreAlive
<1> QED BY <1>1, <1>2, ThreadsInit, PTL DEF ServicesSpec
=============================================================================
