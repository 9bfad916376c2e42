------------------------------- MODULE MCLive -------------------------------
(***************************************************************************)
(* Small instances, under fairness, of the intake of candidates (whose     *)
(* names stand here unqualified) and of the temporary discussion.  They    *)
(* share no variable, so each behaviour is of one of them, `part`.         *)
(***************************************************************************)
EXTENDS MCIntake

CONSTANTS r1, r2, None

VARIABLES part, store, current, cancellation, signalled, gate, op, promotion, durable, discarded, chat

discussionVars == <<store, current, cancellation, signalled, gate, op, promotion, durable, discarded, chat>>

\* The second request may find no seed, say too much and lose its client.
Discussion == INSTANCE EphemeralDiscussion WITH
    Requests <- {r1, r2}, Promotions <- {}, MaxTurns <- 2, Leaving <- {r2}, SeedFails <- {r2}, Overlong <- {r2}

LiveInit == part \in {"intake", "discussion"} /\ Init /\ Discussion!Init

LiveNext ==
    /\ UNCHANGED part
    /\ IF part = "intake" THEN Next ELSE UNCHANGED vars
    /\ IF part = "discussion" THEN Discussion!Next ELSE UNCHANGED discussionVars

\* The fairness of each part.
LiveFairness ==
    /\ WF_vars(part = "intake" /\ Start("scheduled"))
    /\ WF_vars(part = "intake" /\ Proceed)
    /\ \A r \in {r1, r2} :
         /\ WF_discussionVars(part = "discussion" /\ Discussion!Announce(r))
         /\ WF_discussionVars(part = "discussion" /\ Discussion!ReadSeed(r))
         /\ WF_discussionVars(part = "discussion" /\ Discussion!Begin(r))
         /\ WF_discussionVars(part = "discussion" /\ Discussion!Complete(r))
         /\ WF_discussionVars(part = "discussion" /\ Discussion!Settle(r))
         /\ SF_discussionVars(part = "discussion" /\ Discussion!PassGate(r))

LiveSpec == LiveInit /\ [][LiveNext]_<<part, vars, discussionVars>> /\ LiveFairness

-----------------------------------------------------------------------------
\* A candidate in the pool is reviewed in the end, if the reviewer does not defer for ever (sensing.rs).
PooledGetReviewed == part = "intake" => CandidatesGetReviewed

\* Every accepted reply and retry of a temporary discussion ends (ephemeral_chat.rs).
RequestsEnd == Discussion!RequestsEnd
=============================================================================
