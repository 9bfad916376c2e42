----------------------------- MODULE MCServices -----------------------------
(***************************************************************************)
(* Small instances of the services a turn goes through: the permission     *)
(* broker (whose names stand here unqualified), the Codex client's threads *)
(* and turns, the tools of its runs, the models it may use, the PCP        *)
(* connection and the authorization of the Drive.  They share no variable, *)
(* so each behaviour is of one of them, `part`.                            *)
(*                                                                         *)
(* The broker has four requests: an interactive fetch of a host, a         *)
(* background fetch of the same host (which a session grant lets through), *)
(* a Codex command approval (session offered, but no session key) and an   *)
(* elicitation that cannot be accepted without structured input.           *)
(***************************************************************************)
EXTENDS Permission, Sequences

CONSTANTS
    fetch, background, command, form, host, nokey,
    Topics, Fresh, Lazy, MaxTopicThreads, MaxHistory, MaxThreads, MaxFaults,                \* CodexThreads
    MaxTurns, MaxEvents, Resumes,                                                           \* CodexTurn
    ToolStages, Revisions, MaxToolCalls,                                                    \* CodexTools
    Lanes, SenseLane, Choices, TooSmall, Unset, MaxConfigEdits, MaxCatalogs, MaxStarts,     \* ComputeConfig
    Identities, NoIdentity, MaxGeneration, MaxRequests, MaxCalls, MaxEnrollmentFaults,      \* Enrollment
    MaxFlows, MaxReads                                                                      \* DriveOAuth

\* An error event ends its turn at the server too, as the client takes it to (run_turn of codex/client.rs).
ASSUME ServicesAssumption ==
    /\ NoIdentity \notin Identities
    /\ ~Resumes

\* Main, the Topics and the surfaces are told apart, and a surface is no "chat"; one Topic thread at least is kept.
ASSUME ThreadsAssumption ==
    /\ IsFiniteSet(Fresh) /\ Lazy \subseteq Fresh
    /\ "main" \notin Topics /\ "temporary" \notin Fresh
    /\ (Topics \cup {"main", "chat", "free"}) \cap (Fresh \cup {"temporary"}) = {}
    /\ MaxTopicThreads \in Nat \ {0}

\* Which requests the broker is given.
MCInteractive  == {fetch, command, form}
MCKeyOf        == [r \in Requests |-> IF r \in {command, form} THEN nokey ELSE host]
MCAllowAccept  == Requests \ {form}
MCAllowSession == {fetch, background, command}
MCAllowCancel  == {fetch, command, form}

VARIABLES
    part,
    history, hidden, talks, retracted, threads, recency, slots, settings, server, given, told, spent, refused,
    threadCall, threadFaults,
    appServer, inbox, wire, reader, asked, typed, cache, writes, verdict, emitted,
    toolRun, schemas, profile, live, known, stores, toolCalls,
    catalog, config, configFile, configEdits, up, catalogs, starts,
    runtimes, approvals, enrolled, probe, client, call, calls, enrollmentFaults,
    stored, flows, offered, terminal, cancellation, tokenCache, disconnecting, poll, reads

threadVars == <<history, hidden, talks, retracted, threads, recency, slots, settings, server, given, told,
                spent, refused, threadCall, threadFaults>>
turnVars == <<appServer, inbox, wire, reader, asked, typed, cache, writes, verdict, emitted>>
toolVars == <<toolRun, schemas, profile, live, known, stores, toolCalls>>
configVars == <<catalog, config, configFile, configEdits, up, catalogs, starts>>
enrollmentVars == <<runtimes, approvals, enrolled, probe, client, call, calls, enrollmentFaults>>
oauthVars == <<stored, flows, offered, terminal, cancellation, tokenCache, disconnecting, poll, reads>>

Threads == INSTANCE CodexThreads WITH call <- threadCall

Turn == INSTANCE CodexTurn WITH server <- appServer

Tools == INSTANCE CodexTools WITH Stages <- ToolStages, MaxCalls <- MaxToolCalls, calls <- toolCalls

Compute == INSTANCE ComputeConfig

Pcp == INSTANCE Enrollment WITH requests <- approvals

Drive == INSTANCE DriveOAuth WITH pending <- offered, cache <- tokenCache, reader <- poll

Parts == {"permission", "threads", "turn", "tools", "config", "pcp", "drive"}

\* A part that does not run begins in one of its states only.
ServicesInit ==
    /\ part \in Parts
    /\ Init /\ Threads!Init /\ Turn!Init /\ Tools!Init /\ Pcp!Init /\ Drive!Init
    /\ Compute!Init /\ (part # "config" => catalog = {} /\ configFile = {})

ServicesNext ==
    /\ UNCHANGED part
    /\ IF part = "permission" THEN Next ELSE UNCHANGED vars
    /\ IF part = "threads" THEN Threads!Next ELSE UNCHANGED threadVars
    /\ IF part = "turn" THEN Turn!Next ELSE UNCHANGED turnVars
    /\ IF part = "tools" THEN Tools!Next ELSE UNCHANGED toolVars
    /\ IF part = "config" THEN Compute!Next ELSE UNCHANGED configVars
    /\ IF part = "pcp" THEN Pcp!Next ELSE UNCHANGED enrollmentVars
    /\ IF part = "drive" THEN Drive!Next ELSE UNCHANGED oauthVars

servicesVars == <<part, vars, threadVars, turnVars, toolVars, configVars, enrollmentVars, oauthVars>>

\* Each part's own fairness, where it has one.
ServicesFairness ==
    /\ \A r \in Requests : WF_vars(part = "permission" /\ Step(r))
    /\ WF_turnVars(part = "turn" /\ Turn!ClientStep)
    /\ WF_turnVars(part = "turn" /\ (Turn!ServerStarts \/ Turn!ServerInterrupts))
    /\ WF_turnVars(part = "turn" /\ Turn!Silent /\ Turn!Restart)
    /\ WF_enrollmentVars(part = "pcp" /\ Pcp!Discover("monitor"))
    /\ WF_enrollmentVars(part = "pcp" /\ (Pcp!ProbeFails \/ Pcp!OpenSession \/ Pcp!ReadStatus \/ Pcp!BeginRequest))

ServicesSpec == ServicesInit /\ [][ServicesNext]_servicesVars /\ ServicesFairness

-----------------------------------------------------------------------------
\* What each part promises, stated where it is modelled.

\* The broker's prompts are exactly the requests that can be answered, its grants the user's, and every request
\* is answered (permission.rs).
RequestsAreAnswered ==
    /\ [](TypeOK /\ PendingIsExact /\ GrantsComeFromTheUser)
    /\ part = "permission" => EveryRequestAnswered

\* No call runs on a thread that is gone, no attempt on one that was used (codex/client.rs).
ThreadsAreAlive == Threads!CallsRunOnLiveThreads /\ Threads!AttemptsStartFresh

\* A turn is ended by its own end, and its cache never hides its own writes (codex/client.rs, tools.rs).
TurnsAreTheirOwn == Turn!TurnsEndThemselves /\ Turn!ReuseIsCurrent

\* What the user types ends the turn under way (codex/client.rs).
InputEndsTurn == Turn!InputEndsTurn

\* No stage writes what it may not write, whatever its thread was told of (codex/tools.rs, tool_surface.rs).
StagesKeepTheirBounds == Tools!StagesKeepTheirBounds

\* No start of the program loses the user's choice of a model (compute.rs).
ChoicesStay == Compute!ChoicesStay

\* A registration goes to the Identity that approved it, a session has what was approved, and a write is not
\* repeated (pcp_connection/enrollment.rs, client.rs).
ConnectionIsAsApproved ==
    Pcp!RegistrationsStay /\ Pcp!SessionIsAsApproved /\ Pcp!WritesApplyOnce

\* The connection to a Runtime that stays up comes back by itself (pcp_connection/enrollment.rs).
ReconnectsInTheEnd == Pcp!ReconnectsInTheEnd

\* The Drive is read with the token of the account that is connected, and an authorization is ended by its own
\* task or by the user (drive_input/oauth.rs).
AccountsStayApart == Drive!AccountsStayApart
=============================================================================
