------------------------------ MODULE TurnSlot ------------------------------
(***************************************************************************)
(* What an interactive response promises, whatever the messages, stops and *)
(* errors inside it: responses are open one at a time, each opens and      *)
(* closes once, and only a response that closed of its own accord (nothing *)
(* queued, not given up) may still deliver a reply, once.                  *)
(***************************************************************************)
CONSTANTS Leases, None

VARIABLES slot, phase

vars == <<slot, phase>>

Phases == {"none", "open", "closed", "replied", "ended"}

Init ==
    /\ slot = None
    /\ phase = [l \in Leases |-> "none"]

Open(l) ==
    /\ slot = None
    /\ phase[l] = "none"
    /\ slot' = l
    /\ phase' = [phase EXCEPT ![l] = "open"]

\* The response settled: its reply is still to come.
Close(l) ==
    /\ slot = l
    /\ slot' = None
    /\ phase' = [phase EXCEPT ![l] = "closed"]

\* The response was stopped or failed: it will deliver nothing.
GiveUp(l) ==
    /\ slot = l
    /\ slot' = None
    /\ phase' = [phase EXCEPT ![l] = "ended"]

Deliver(l, result) ==
    /\ phase[l] = "closed"
    /\ result \in {"replied", "ended"}
    /\ phase' = [phase EXCEPT ![l] = result]
    /\ UNCHANGED slot

Finish(l) == Close(l) \/ GiveUp(l) \/ \E result \in {"replied", "ended"} : Deliver(l, result)

Next == \E l \in Leases : Open(l) \/ Finish(l)

Spec == Init /\ [][Next]_vars

FairSpec == Spec /\ \A l \in Leases : WF_vars(Finish(l))
=============================================================================
