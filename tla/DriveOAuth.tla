------------------------------- MODULE DriveOAuth -------------------------------
(***************************************************************************)
(* The authorization of a personal Google Drive account                    *)
(* (src/src/drive_input/oauth.rs): a flow waits for the browser's callback *)
(* or for its cancellation, stores what Google returns and ends; the       *)
(* reader takes access tokens meanwhile, and the user may cancel or        *)
(* disconnect.  Every await is a step of its own.  A credential is named   *)
(* by the flow that obtained it, and so is its access token; both stores   *)
(* behave alike, and one is modelled.                                      *)
(***************************************************************************)
EXTENDS Naturals

CONSTANTS
    MaxFlows, MaxReads     \* bounds: authorizations, reads of the Drive

VARIABLES
    stored,          \* the credential in the store, 0: none
    flows,           \* the flows: where each is, was it told to stop
    pending,         \* FlowState.pending, the id of a flow
    terminal,        \* FlowState.terminal
    cancellation,    \* the flow whose sender is in the slot
    cache,           \* token_cache, the credential its token belongs to
    disconnecting,   \* how far a disconnect has come
    reader,          \* a poll that wants an access token
    reads

oauthVars == <<stored, flows, pending, terminal, cancellation, cache, disconnecting, reader, reads>>

FlowIds == 1 .. MaxFlows
Told(f) == [flows EXCEPT ![f].told = TRUE]

Init ==
    /\ stored = 0 /\ pending = 0 /\ terminal = "none" /\ cancellation = 0 /\ cache = 0
    /\ flows = [f \in FlowIds |-> [at |-> "new", told |-> FALSE]]
    /\ disconnecting = "no" /\ reader = [at |-> "idle"] /\ reads = 0

-----------------------------------------------------------------------------
\* A flow.

\* start: the check; reading the client file and opening the callback's socket follow it
Start(f) ==
    /\ flows[f].at = "new" /\ \A g \in 1 .. f - 1 : flows[g].at # "new"
    /\ pending = 0
    /\ flows' = [flows EXCEPT ![f].at = "binding"]
    /\ UNCHANGED <<stored, pending, terminal, cancellation, cache, disconnecting, reader, reads>>

\* start: the sender that was in the slot is dropped, which wakes its receiver
Armed(f) ==
    /\ flows[f].at = "binding" /\ cancellation' = f
    /\ flows' = [g \in FlowIds |->
                    IF g = f THEN [flows[f] EXCEPT !.at = "armed"]
                    ELSE [flows[g] EXCEPT !.told = @ \/ g = cancellation]]
    /\ UNCHANGED <<stored, pending, terminal, cache, disconnecting, reader, reads>>

\* start: the flow is shown, and its task spawned
Shown(f) ==
    /\ flows[f].at = "armed" /\ pending' = f
    /\ flows' = [flows EXCEPT ![f].at = "waiting"]
    /\ UNCHANGED <<stored, terminal, cancellation, cache, disconnecting, reader, reads>>

\* run_authorization, the select: a callback is taken, even if the cancellation is ready as well; or the
\* flow is cancelled, or its time is up
Accepts(f) ==
    /\ flows[f].at = "waiting"
    /\ \E next \in {"accepted", "failed"} : flows' = [flows EXCEPT ![f].at = next]
    /\ UNCHANGED <<stored, pending, terminal, cancellation, cache, disconnecting, reader, reads>>

\* read_callback and parse_callback: no deadline any more; anything but what Google was asked for, with
\* this flow's state, is a failure
ReadsCallback(f) ==
    /\ flows[f].at = "accepted"
    /\ \E next \in {"called", "failed"} : flows' = [flows EXCEPT ![f].at = next]
    /\ UNCHANGED <<stored, pending, terminal, cancellation, cache, disconnecting, reader, reads>>

\* complete_authorization: the exchange of the code, and a look at the account
Exchanges(f) ==
    /\ flows[f].at = "called"
    /\ \E next \in {"exchanged", "failed"} : flows' = [flows EXCEPT ![f].at = next]
    /\ UNCHANGED <<stored, pending, terminal, cancellation, cache, disconnecting, reader, reads>>

\* run_authorization: the credential is written
Stores(f) ==
    /\ flows[f].at = "exchanged"
    /\ \/ /\ stored' = f /\ flows' = [flows EXCEPT ![f].at = "authorized"]
       \/ /\ flows' = [flows EXCEPT ![f].at = "failed"] /\ UNCHANGED stored
    /\ UNCHANGED <<pending, terminal, cancellation, cache, disconnecting, reader, reads>>

\* Mutant of IsPending: a flow that ends is the one being shown.
Assumed(f) == pending # 0

IsPending(f) == pending = f

\* The end of the spawned task.  Whoever holds the slot by then loses its sender.
Finishes(f, outcome) ==
    /\ IF IsPending(f) THEN
            /\ pending' = 0 /\ terminal' = outcome
            /\ cache' = IF outcome = "connected" THEN f ELSE cache
            /\ cancellation' = 0
            /\ flows' = [g \in FlowIds |->
                            IF g = f THEN [flows[f] EXCEPT !.at = "ended"]
                            ELSE [flows[g] EXCEPT !.told = @ \/ g = cancellation]]
       ELSE /\ flows' = [flows EXCEPT ![f].at = "ended"]
            /\ UNCHANGED <<pending, terminal, cache, cancellation>>
    /\ UNCHANGED <<stored, disconnecting, reader, reads>>

Ends(f) ==
    \/ flows[f].at = "authorized" /\ Finishes(f, "connected")
    \/ flows[f].at = "failed" /\ Finishes(f, "failed")

-----------------------------------------------------------------------------
\* The user.

\* cancel; the receiver is there until run_authorization returns, a little before the task's end
Cancels ==
    /\ cancellation' = 0
    /\ \/ /\ cancellation # 0 /\ flows[cancellation].at # "ended"
          /\ flows' = Told(cancellation) /\ pending' = 0 /\ terminal' = "none"
       \/ /\ cancellation # 0 => flows[cancellation].at \in {"authorized", "failed", "ended"}
          /\ UNCHANGED <<flows, pending, terminal>>

Cancel == Cancels /\ cancellation # 0 /\ UNCHANGED <<stored, cache, disconnecting, reader, reads>>

\* disconnect: cancel, remove the credential, forget its token, forget the outcome
Disconnect ==
    /\ disconnecting = "no" /\ (stored # 0 \/ terminal # "none") /\ Cancels
    /\ disconnecting' = "cancelled" /\ UNCHANGED <<stored, cache, reader, reads>>
Removes ==
    /\ disconnecting = "cancelled" /\ stored' = 0 /\ disconnecting' = "removed"
    /\ UNCHANGED <<flows, pending, terminal, cancellation, cache, reader, reads>>
Forgets ==
    /\ \/ disconnecting = "removed" /\ cache' = 0 /\ disconnecting' = "uncached" /\ UNCHANGED terminal
       \/ disconnecting = "uncached" /\ terminal' = "none" /\ disconnecting' = "no" /\ UNCHANGED cache
    /\ UNCHANGED <<stored, flows, pending, cancellation, reader, reads>>

-----------------------------------------------------------------------------
\* access_token

ReadCredential ==
    /\ reader.at \in {"idle", "served"} /\ stored # 0 /\ reads < MaxReads /\ reads' = reads + 1
    /\ reader' = [at |-> "read", credential |-> stored]
    /\ UNCHANGED <<stored, flows, pending, terminal, cancellation, cache, disconnecting>>

\* Mutant of CacheFits: a token is a token.
AnyToken(credential) == cache # 0

\* by the credential's fingerprint; the token may also have expired
CacheFits(credential) == cache = credential

TakeToken ==
    /\ reader.at = "read"
    /\ \/ /\ CacheFits(reader.credential)
          /\ reader' = [at |-> "served", credential |-> reader.credential, token |-> cache]
       \/ reader' = [reader EXCEPT !.at = "refreshing"]
    /\ UNCHANGED <<stored, flows, pending, terminal, cancellation, cache, disconnecting, reads>>

\* refresh_access_token, which may fail; the cache is taken over whatever happened meanwhile
Refresh ==
    /\ reader.at = "refreshing"
    /\ \/ /\ cache' = reader.credential
          /\ reader' = [at |-> "served", credential |-> reader.credential, token |-> reader.credential]
       \/ reader' = [at |-> "idle"] /\ UNCHANGED cache
    /\ UNCHANGED <<stored, flows, pending, terminal, cancellation, disconnecting, reads>>

Next ==
    \/ \E f \in FlowIds : 
        \/ Start(f) \/ Armed(f) \/ Shown(f) \/ Accepts(f)
        \/ ReadsCallback(f) \/ Exchanges(f) \/ Stores(f) \/ Ends(f)
    \/ Cancel \/ Disconnect \/ Removes \/ Forgets
    \/ ReadCredential \/ TakeToken \/ Refresh

Spec == Init /\ [][Next]_oauthVars

-----------------------------------------------------------------------------
\* The access token a poll reads the Drive with belongs to the account whose credential it read,
\* although the cache survives a reconnect to another one, and is filled after awaits on all sides.
TokensFitTheAccount == reader.at = "served" => reader.token = reader.credential

\* What is shown as waiting for the browser is ended by its own task or by the user: a flow that was
\* cancelled or replaced, and comes to its end late, never ends another one.
OnlyItsOwnEnd ==
    [][pending # 0 /\ pending' = 0 =>
        flows'[pending].at = "ended" \/ \A f \in FlowIds : flows'[f].at = flows[f].at]_oauthVars

\* Two accounts, or two authorizations, are never taken for each other.
AccountsStayApart == []TokensFitTheAccount /\ OnlyItsOwnEnd

\* Refuted by the code: a flow the user cancelled stores nothing.  Once the callback is accepted, or is
\* ready together with the cancellation, nothing looks at the cancellation any more.
CancelledStoresNothing ==
    [][\A f \in FlowIds : stored' = f /\ stored # f => ~flows[f].told]_oauthVars

\* Refuted by the code: after a disconnect the store stays empty until the next authorization is begun.
DisconnectedStays == [][stored = 0 /\ stored' # 0 => pending = stored']_oauthVars

\* Refuted by the code: what is shown as connected is.
ConnectedIsStored == pending = 0 /\ terminal = "connected" /\ disconnecting = "no" => stored # 0
=============================================================================
