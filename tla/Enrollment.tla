------------------------------- MODULE Enrollment -------------------------------
(***************************************************************************)
(* The connection to the PCP Runtime: its discovery and the approval a     *)
(* registration needs (src/src/pcp_connection/enrollment.rs), and the      *)
(* client that outlives the Runtime's generations (pcp_connection.rs).     *)
(* The user answers a request in the PCP Console and may revoke what was   *)
(* approved; a Runtime stops and is started again, in a new generation;    *)
(* another Identity may take its place.  All of it between two requests of *)
(* a probe, or before the answer of a call.                                *)
(***************************************************************************)
EXTENDS Naturals, Sequences, FiniteSets

CONSTANTS
    Identities,     \* the PCP Identities whose Runtimes may be discovered
    NoIdentity,
    MaxGeneration, MaxRequests, MaxCalls, MaxEnrollmentFaults     \* bounds

VARIABLES
    runtimes,     \* the Runtime of each Identity: is it up, its generation
    requests,     \* the requests of the Runtimes: of an Identity, how they were answered
    enrolled,     \* EnrollmentState, on disk
    probe,        \* EnrollmentManager.operation
    client,       \* ManagedPcpClient: its owner, the session in use
    call,         \* a call on it, and how often the Runtime applied it
    calls, enrollmentFaults

enrollmentVars == <<runtimes, requests, enrolled, probe, client, call, calls, enrollmentFaults>>

Quiet == [at |-> "idle"]
NoClient == [owner |-> NoIdentity]
Unauthorised(instance) == [instance |-> instance, request |-> 0, registration |-> 0, rejected |-> FALSE]

Init ==
    /\ runtimes = [i \in Identities |-> [up |-> FALSE, generation |-> 0]]
    /\ requests = <<>> /\ enrolled = Unauthorised(NoIdentity)
    /\ probe = Quiet /\ client = NoClient /\ call = Quiet /\ calls = 0 /\ enrollmentFaults = 0

Up == {i \in Identities : runtimes[i].up}

-----------------------------------------------------------------------------
\* The Runtimes and the user, external.

RuntimeStarts(i) ==
    /\ ~runtimes[i].up /\ runtimes[i].generation < MaxGeneration
    /\ runtimes' = [runtimes EXCEPT ![i] = [up |-> TRUE, generation |-> @.generation + 1]]
    /\ UNCHANGED <<requests, enrolled, probe, client, call, calls, enrollmentFaults>>

RuntimeStops(i) ==
    /\ runtimes[i].up /\ runtimes' = [runtimes EXCEPT ![i].up = FALSE]
    /\ UNCHANGED <<requests, enrolled, probe, client, call, calls, enrollmentFaults>>

\* The user grants what was asked for or something else, rejects, or revokes.
Answers == {"asked", "other", "rejected"}
UserAnswers(r, answer) ==
    /\ \/ requests[r].answer = "pending" /\ answer \in Answers
       \/ requests[r].answer \in {"asked", "other"} /\ answer = "revoked"
    /\ requests' = [requests EXCEPT ![r].answer = answer]
    /\ UNCHANGED <<runtimes, enrolled, probe, client, call, calls, enrollmentFaults>>

-----------------------------------------------------------------------------
\* A probe.

\* discover_enrollment without a preference: one Runtime, or a failure when there are several
OnlyOne == IF Cardinality(Up) = 1 THEN CHOOSE i \in Up : TRUE ELSE NoIdentity

\* discover_enrollment twice: what is preferred, or the only one.  The second search is made, and may
\* fail, whatever the first one found.
Preferred == IF enrolled.instance # NoIdentity THEN enrolled.instance ELSE client.owner
Selected ==
    IF Cardinality(Up) > 1 THEN "several"
    ELSE IF Preferred \in Up THEN Preferred ELSE OnlyOne

\* Mutant of IsCurrent: a session, whatever its generation.
IsEnrolled(i) == client # NoClient

\* discovered_generation: a monitor has nothing to do while the generation is that of its session.
IsCurrent(i) == client # NoClient /\ client.session.generation = runtimes[i].generation

\* Mutant of Remembered: another Identity inherits the registration.
Inherited(i) == [enrolled EXCEPT !.instance = i]

\* remember_selected_instance: the credential alone goes over to another Identity.
Remembered(i) ==
    IF enrolled.instance \in {i, NoIdentity} THEN [enrolled EXCEPT !.instance = i] ELSE Unauthorised(i)

\* probe_locked up to its first request; open (for = "open"), the monitor, or a call that recovers
Discover(purpose) ==
    /\ probe = Quiet /\ Selected \in Identities
    /\ CASE purpose = "open" -> client = NoClient
         [] purpose = "monitor" -> client # NoClient /\ ~IsCurrent(Selected)
         [] purpose = "recovery" -> call.at = "recovering" /\ client.session = call.first
    /\ enrolled' = Remembered(Selected)
    /\ probe' = IF enrolled'.rejected THEN Quiet
                ELSE [at |-> "selected", purpose |-> purpose, instance |-> Selected,
                      generation |-> runtimes[Selected].generation]
    /\ call' = IF purpose = "recovery" /\ enrolled'.rejected THEN [call EXCEPT !.at = "failed"] ELSE call
    /\ UNCHANGED <<runtimes, requests, client, calls, enrollmentFaults>>

\* Whoever waits for the probe gets no session.
Ends == /\ probe' = Quiet
        /\ call' = IF probe.purpose = "recovery" THEN [call EXCEPT !.at = "failed"] ELSE call

\* No Runtime answers at the socket that was discovered, or an answer is of another generation.
Reached == runtimes[probe.instance] = [up |-> TRUE, generation |-> probe.generation]

ProbeFails ==
    /\ probe # Quiet /\ ~Reached /\ Ends
    /\ UNCHANGED <<runtimes, requests, enrolled, client, calls, enrollmentFaults>>

\* Mutant of MatchesIntent: any access that was approved will do.
AnyApproved(r) == requests[r].answer \in {"asked", "other"}

\* session_matches_intent
MatchesIntent(r) == requests[r].answer = "asked"

\* handle_result, Active: validate_active_session, the new state, and install for its owner only
Activated(r) ==
    /\ enrolled' = [enrolled EXCEPT !.request = 0, !.registration = r, !.instance = probe.instance]
    /\ LET session == [registration |-> r, generation |-> probe.generation]
       IN  \/ /\ probe.purpose = "open"
              /\ client' = [owner |-> probe.instance, session |-> session]
              /\ UNCHANGED call
           \/ /\ probe.purpose # "open" /\ client.owner = probe.instance
              /\ client' = [client EXCEPT !.session = session]
              /\ call' = IF probe.purpose = "recovery" THEN [call EXCEPT !.at = "recovered"] ELSE call
           \/ /\ probe.purpose # "open" /\ client.owner # probe.instance
              /\ UNCHANGED client
              /\ call' = IF probe.purpose = "recovery" THEN [call EXCEPT !.at = "failed"] ELSE call
    /\ probe' = Quiet

\* open_session: what was revoked or is of another access by now is forgotten, and asked for anew.
OpenSession ==
    LET r == enrolled.registration
    IN  /\ probe.at = "selected" /\ r # 0 /\ Reached
        /\ IF requests[r].of = probe.instance /\ MatchesIntent(r) THEN Activated(r)
           ELSE /\ enrolled' = Unauthorised(enrolled.instance)
                /\ probe' = [probe EXCEPT !.at = "begin"] /\ UNCHANGED <<client, call>>
        /\ UNCHANGED <<runtimes, requests, calls, enrollmentFaults>>

\* status: an access that is not the one asked for is an error, and stays the answer to the request.
ReadStatus ==
    LET r == enrolled.request
    IN  /\ probe.at = "selected" /\ enrolled.registration = 0 /\ r # 0 /\ Reached
        /\ \/ MatchesIntent(r) /\ Activated(r)
           \/ ~MatchesIntent(r) /\ requests[r].answer \in {"pending", "other"}
                /\ Ends /\ UNCHANGED <<enrolled, client>>
           \/ requests[r].answer = "rejected"
                /\ enrolled' = [enrolled EXCEPT !.request = 0, !.rejected = TRUE] /\ Ends /\ UNCHANGED client
           \/ requests[r].answer = "revoked"
                /\ enrolled' = [enrolled EXCEPT !.request = 0]
                /\ probe' = [probe EXCEPT !.at = "begin"] /\ UNCHANGED <<client, call>>
        /\ UNCHANGED <<runtimes, requests, calls, enrollmentFaults>>

\* begin, and handle_result: Pending
BeginRequest ==
    /\ probe # Quiet /\ enrolled.registration = 0 /\ enrolled.request = 0 /\ Reached
    /\ Len(requests) < MaxRequests
    /\ requests' = Append(requests, [of |-> probe.instance, answer |-> "pending"])
    /\ enrolled' = [enrolled EXCEPT !.request = Len(requests) + 1]
    /\ Ends
    /\ UNCHANGED <<runtimes, client, calls, enrollmentFaults>>

-----------------------------------------------------------------------------
\* The calls of the stable client.

StartCall(kind) ==
    /\ client # NoClient /\ call = Quiet /\ calls < MaxCalls /\ calls' = calls + 1
    /\ call' = [at |-> "sent", kind |-> kind, first |-> client.session, applied |-> 0]
    /\ UNCHANGED <<runtimes, requests, enrolled, probe, client, enrollmentFaults>>

\* The Runtime serves the sessions of its generation whose registration is approved.
Serves(session) ==
    /\ runtimes[client.owner] = [up |-> TRUE, generation |-> session.generation]
    /\ requests[session.registration].answer # "revoked"

Answered ==
    /\ call.at \in {"sent", "again"} /\ Serves(IF call.at = "sent" THEN call.first ELSE client.session)
    /\ call' = [call EXCEPT !.at = "done", !.applied = @ + 1]
    /\ UNCHANGED <<runtimes, requests, enrolled, probe, client, calls, enrollmentFaults>>

\* transport_failure: the Runtime did not get the call, or its answer was lost.
TransportFails(applied) ==
    /\ call.at \in {"sent", "again"}
    /\ applied => Serves(IF call.at = "sent" THEN call.first ELSE client.session)
    /\ call' = [call EXCEPT !.at = IF call.at = "sent" THEN "recovering" ELSE "failed",
                            !.applied = IF applied THEN @ + 1 ELSE @]
    /\ UNCHANGED <<runtimes, requests, enrolled, probe, client, calls, enrollmentFaults>>

\* recover_after_transport_failure: another session is in use by now, no Runtime can be selected, or
\* Discover("recovery").
RecoveredMeanwhile ==
    /\ call.at = "recovering" /\ probe = Quiet
    /\ call' = [call EXCEPT !.at = IF client.session # call.first THEN "recovered" ELSE "failed"]
    /\ client.session # call.first \/ Selected \notin Identities
    /\ UNCHANGED <<runtimes, requests, enrolled, probe, client, calls, enrollmentFaults>>

\* Mutant of RetrySafe: every call is sent again.
AlwaysSafe(kind) == TRUE

\* retrying_read; a recovering_write is not retried (of context_hub ReadActivity and Inspect are).
RetrySafe(kind) == kind = "read"

CallGoesOn ==
    /\ \/ call.at = "recovered" /\ call' = [call EXCEPT !.at = IF RetrySafe(call.kind) THEN "again" ELSE "failed"]
       \/ call.at \in {"done", "failed"} /\ call' = Quiet
    /\ UNCHANGED <<runtimes, requests, enrolled, probe, client, calls, enrollmentFaults>>

\* The process is started again: the state is read from its file, the client opened anew.
Restart ==
    /\ enrollmentFaults < MaxEnrollmentFaults /\ enrollmentFaults' = enrollmentFaults + 1
    /\ probe' = Quiet /\ client' = NoClient /\ call' = Quiet
    /\ UNCHANGED <<runtimes, requests, enrolled, calls>>

Next ==
    \/ \E i \in Identities : RuntimeStarts(i) \/ RuntimeStops(i)
    \/ \E r \in DOMAIN requests, answer \in Answers \cup {"revoked"} : UserAnswers(r, answer)
    \/ \E purpose \in {"open", "monitor", "recovery"} : Discover(purpose)
    \/ ProbeFails \/ OpenSession \/ ReadStatus \/ BeginRequest
    \/ \E kind \in {"read", "write"} : StartCall(kind)
    \/ \E applied \in BOOLEAN : TransportFails(applied)
    \/ Answered \/ RecoveredMeanwhile \/ CallGoesOn \/ Restart

\* The monitor looks every DISCOVERY_REFRESH_INTERVAL; a probe that began goes on.
Fairness ==
    /\ WF_enrollmentVars(Discover("monitor"))
    /\ WF_enrollmentVars(ProbeFails \/ OpenSession \/ ReadStatus \/ BeginRequest)

Spec == Init /\ [][Next]_enrollmentVars /\ Fairness
-----------------------------------------------------------------------------
TypeOK ==
    /\ enrolled.request \in 0..Len(requests) /\ enrolled.registration \in 0..Len(requests)
    /\ call # Quiet => call.applied \in 0..2

\* A registration is presented to the Identity that approved it and to no other
\* (remember_selected_instance, "must never inherit a registration approved for the previous Identity").
RegistrationsStay ==
    /\ enrolled.registration # 0 => requests[enrolled.registration].of = enrolled.instance
    /\ enrolled.request # 0 => requests[enrolled.request].of = enrolled.instance

\* The session in use is of the Identity the client was opened for, and of the access asked for, until
\* it is revoked (ManagedPcpClient::install, session_matches_intent).
SessionIsAsApproved ==
    client # NoClient =>
        /\ requests[client.session.registration].of = client.owner
        /\ requests[client.session.registration].answer \in {"asked", "revoked"}

\* A write whose answer was lost is not sent again (recovering_write).
WritesApplyOnce == call # Quiet /\ call.kind = "write" => call.applied <= 1

Settled ==
    /\ client # NoClient /\ Up = {client.owner}
    /\ enrolled.instance = client.owner /\ enrolled.registration # 0
    /\ requests[enrolled.registration].answer = "asked"

Connected == client # NoClient /\ client.session.generation = runtimes[client.owner].generation

\* The client of an approved Identity whose Runtime stays up ends with a session of its generation,
\* without anyone calling (monitor_enrollment).
ReconnectsInTheEnd == <>[]Settled => <>[]Connected

\* While the Runtime of the retained Identity is up, a probe can select it (enrollment.rs:617).
RetainedIsSelected == enrolled.instance \in Up => Selected = enrolled.instance
=============================================================================
