----------------------------- MODULE Permission -----------------------------
(***************************************************************************)
(* The permission broker (src/src/permission.rs).  A Codex turn or a host  *)
(* tool calls `request` and waits; the user answers through `resolve`; a   *)
(* deadline bounds the wait.  The broker's mutex makes each locked block   *)
(* one step, but `request` takes it three times (grant check, insertion,   *)
(* removal) and the one-shot channel and the deadline are polled without   *)
(* it, so the steps of several requests and of the user interleave.        *)
(***************************************************************************)
EXTENDS Naturals, FiniteSets

CONSTANTS
    Requests,      \* calls of PermissionBroker::request
    Keys,          \* session keys ("https:example.com")
    NoKey,         \* PermissionRequestDraft.session_key = None
    Interactive,   \* the requests whose origin is "interactive"
    KeyOf,         \* Requests -> Keys \cup {NoKey}
    AllowAccept,   \* the requests whose draft has allow_accept
    AllowSession,  \* ... allow_session
    AllowCancel    \* ... allow_cancel

ASSUME PermissionAssumption ==
    /\ NoKey \notin Keys
    /\ Interactive \subseteq Requests
    /\ KeyOf \in [Requests -> Keys \cup {NoKey}]
    /\ AllowAccept \subseteq Requests
    /\ AllowSession \subseteq Requests
    /\ AllowCancel \subseteq Requests

Decisions == {"accept", "acceptForSession", "decline", "cancel"}
Sources   == {"user", "sessionGrant", "backgroundPolicy", "timeout"}
None      == "none"

VARIABLES
    pc,        \* where each call of `request` stands
    pending,   \* BrokerState.pending
    grants,    \* BrokerState.session_grants
    channel,   \* the decision in each request's one-shot channel
    outcome,   \* what each finished `request` returned
    delivered  \* history: the decisions `resolve` reported as delivered

vars == <<pc, pending, grants, channel, outcome, delivered>>

(***************************************************************************)
(* "polled": the Timeout future has polled the receiver, found nothing,    *)
(* and has yet to poll the deadline; "expired": the deadline won, the      *)
(* receiver is dropped and the entry is still to be removed.               *)
(***************************************************************************)
Stages == {"new", "checked", "waiting", "polled", "expired", "done"}

ReceiverAlive(r) == pc[r] \in {"waiting", "polled"}

Init ==
    /\ pc = [r \in Requests |-> "new"]
    /\ pending = {}
    /\ grants = {}
    /\ channel = [r \in Requests |-> None]
    /\ outcome = [r \in Requests |-> [decision |-> None, source |-> None]]
    /\ delivered = [r \in Requests |-> None]

Return(r, decision, source) ==
    /\ pc' = [pc EXCEPT ![r] = "done"]
    /\ outcome' = [outcome EXCEPT ![r] = [decision |-> decision, source |-> source]]

\* request: a session grant answers at once, whatever the origin.
ReuseGrant(r) ==
    /\ pc[r] = "new"
    /\ KeyOf[r] \in grants
    /\ Return(r, "acceptForSession", "sessionGrant")
    /\ UNCHANGED <<pending, grants, channel, delivered>>

\* request: without a grant only the interactive origin may prompt.
DeclineBackground(r) ==
    /\ pc[r] = "new"
    /\ KeyOf[r] \notin grants
    /\ r \notin Interactive
    /\ Return(r, "decline", "backgroundPolicy")
    /\ UNCHANGED <<pending, grants, channel, delivered>>

\* request: the grant check found nothing; the lock is released.
CheckGrant(r) ==
    /\ pc[r] = "new"
    /\ KeyOf[r] \notin grants
    /\ r \in Interactive
    /\ pc' = [pc EXCEPT ![r] = "checked"]
    /\ UNCHANGED <<pending, grants, channel, outcome, delivered>>

\* request: the entry is inserted and the wait begins.
Enqueue(r) ==
    /\ pc[r] = "checked"
    /\ pending' = pending \cup {r}
    /\ pc' = [pc EXCEPT ![r] = "waiting"]
    /\ UNCHANGED <<grants, channel, outcome, delivered>>

\* request: the receiver yields the user's decision.
ReceiveDecision(r) ==
    /\ pc[r] = "waiting"
    /\ channel[r] # None
    /\ Return(r, channel[r], "user")
    /\ UNCHANGED <<pending, grants, channel, delivered>>

\* Mutant of PollReceiver: the wait has no deadline.
PollForever(r) ==
    /\ pc[r] = "waiting" /\ channel[r] = None
    /\ UNCHANGED vars

\* timeout(..).await polls the receiver first ...
PollReceiver(r) ==
    /\ pc[r] = "waiting"
    /\ channel[r] = None
    /\ pc' = [pc EXCEPT ![r] = "polled"]
    /\ UNCHANGED <<pending, grants, channel, outcome, delivered>>

\* ... and then the deadline, which has passed: the receiver is dropped.
DeadlineElapsed(r) ==
    /\ pc[r] = "polled"
    /\ pc' = [pc EXCEPT ![r] = "expired"]
    /\ UNCHANGED <<pending, grants, channel, outcome, delivered>>

\* Mutant of RemoveExpired: the expired entry stays in the list.
ExpiredStays(r) ==
    /\ pc[r] = "expired"
    /\ Return(r, "decline", "timeout")
    /\ UNCHANGED <<pending, grants, channel, delivered>>

\* Mutant of RemoveExpired: an unanswered request is let through.
ExpiredAccepted(r) ==
    /\ pc[r] = "expired"
    /\ pending' = pending \ {r}
    /\ Return(r, "accept", "timeout")
    /\ UNCHANGED <<grants, channel, delivered>>

\* request: the timeout arm removes the entry and declines.
RemoveExpired(r) ==
    /\ pc[r] = "expired"
    /\ pending' = pending \ {r}
    /\ Return(r, "decline", "timeout")
    /\ UNCHANGED <<grants, channel, delivered>>

\* Mutant of Allowed: a request that needs structured input can be accepted.
AllowedWithoutInput(r, d) ==
    /\ d = "acceptForSession" => r \in AllowSession
    /\ d = "cancel" => r \in AllowCancel

\* What `resolve` refuses before it removes the entry.
Allowed(r, d) ==
    /\ d \in {"accept", "acceptForSession"} => r \in AllowAccept
    /\ d = "acceptForSession" => r \in AllowSession
    /\ d = "cancel" => r \in AllowCancel

\* Mutant of Resolve: a missing session key is granted like any other.
GrantWithoutKey(r, d) ==
    /\ r \in pending
    /\ Allowed(r, d)
    /\ pending' = pending \ {r}
    /\ IF ReceiverAlive(r)
         THEN /\ channel' = [channel EXCEPT ![r] = d]
              /\ delivered' = [delivered EXCEPT ![r] = d]
              /\ grants' = IF d = "acceptForSession" THEN grants \cup {KeyOf[r]} ELSE grants
         ELSE UNCHANGED <<channel, delivered, grants>>
    /\ UNCHANGED <<pc, outcome>>

\* Mutant of Resolve: the grant is recorded before the send is known to succeed.
GrantBeforeSend(r, d) ==
    /\ r \in pending
    /\ Allowed(r, d)
    /\ pending' = pending \ {r}
    /\ grants' = IF d = "acceptForSession" /\ KeyOf[r] # NoKey
                    THEN grants \cup {KeyOf[r]} ELSE grants
    /\ IF ReceiverAlive(r)
         THEN channel' = [channel EXCEPT ![r] = d] /\ delivered' = [delivered EXCEPT ![r] = d]
         ELSE UNCHANGED <<channel, delivered>>
    /\ UNCHANGED <<pc, outcome>>

\* resolve: one locked block; the entry goes even when nobody listens.
Resolve(r, d) ==
    /\ r \in pending
    /\ Allowed(r, d)
    /\ pending' = pending \ {r}
    /\ IF ReceiverAlive(r)
         THEN /\ channel' = [channel EXCEPT ![r] = d]
              /\ delivered' = [delivered EXCEPT ![r] = d]
              /\ grants' = IF d = "acceptForSession" /\ KeyOf[r] # NoKey
                             THEN grants \cup {KeyOf[r]} ELSE grants
         ELSE UNCHANGED <<channel, delivered, grants>>
    /\ UNCHANGED <<pc, outcome>>

Step(r) ==
    \/ ReuseGrant(r) \/ DeclineBackground(r) \/ CheckGrant(r) \/ Enqueue(r)
    \/ ReceiveDecision(r) \/ PollReceiver(r) \/ DeadlineElapsed(r) \/ RemoveExpired(r)

Next == \E r \in Requests : Step(r) \/ \E d \in Decisions : Resolve(r, d)

Spec == Init /\ [][Next]_vars /\ \A r \in Requests : WF_vars(Step(r))

-----------------------------------------------------------------------------
(* Properties                                                               *)

TypeOK ==
    /\ pc \in [Requests -> Stages]
    /\ pending \subseteq Requests
    /\ grants \subseteq Keys
    /\ channel \in [Requests -> Decisions \cup {None}]
    /\ outcome \in [Requests -> [decision: Decisions \cup {None}, source: Sources \cup {None}]]
    /\ delivered \in [Requests -> Decisions \cup {None}]

(* A session grant goes back to a user's acceptance for the session that    *)
(* reached a live interactive request offering it: an answer that came too   *)
(* late, or to a request that did not offer a session, leaves no grant.      *)
GrantsComeFromTheUser ==
    \A k \in grants : \E r \in Interactive \cap AllowAccept \cap AllowSession :
        KeyOf[r] = k /\ delivered[r] = "acceptForSession"

Accepting == {"accept", "acceptForSession"}

(* Nothing runs on an acceptance nobody gave: a request returns one only     *)
(* when the user accepted it and it allowed that, or on a session grant for  *)
(* its key, the only acceptance a background origin can get.                 *)
AcceptanceIsAuthorised ==
    \A r \in Requests : outcome[r].decision \in Accepting =>
        \/ r \in Interactive \cap AllowAccept /\ delivered[r] = outcome[r].decision
        \/ KeyOf[r] \in grants /\ outcome[r].source = "sessionGrant"

(* The list of pending requests is exact: whoever still waits unanswered can *)
(* be answered, and a prompt never outlives the request by more than the     *)
(* removal its own deadline is about to make.                                *)
PendingIsExact ==
    \A r \in Requests :
        /\ ReceiverAlive(r) /\ channel[r] = None => r \in pending
        /\ r \in pending => pc[r] \in {"waiting", "polled", "expired"} /\ channel[r] = None

(* A decision that resolve reported as delivered is what the request acts   *)
(* on, unless the deadline passed in the same poll: then it is a decline.    *)
DeliveredDecisionActedOn ==
    \A r \in Requests : pc[r] = "done" /\ delivered[r] # None =>
        outcome[r] \in {[decision |-> delivered[r], source |-> "user"],
                        [decision |-> "decline", source |-> "timeout"]}

(* Every request is answered, by the user, a grant, policy or the deadline. *)
EveryRequestAnswered == \A r \in Requests : pc[r] = "new" ~> pc[r] = "done"
=============================================================================
