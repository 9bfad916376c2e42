---------------------------- MODULE ComputePolicies ----------------------------
(***************************************************************************)
(* The topic rules that demand a compute lane (src/src/compute_policy.rs), *)
(* edited by the settings page and by the model's tools and written after  *)
(* the lock is released, and the lane a chat turn is given by them         *)
(* (resolve_compute_route of src/src/web.rs, escalation in the client).    *)
(***************************************************************************)
EXTENDS Naturals, Sequences, SequencesExt

CONSTANTS
    RuleTopics,       \* what rules and messages are about
    MaxPolicies,
    MaxPolicyEdits,
    MaxPolicyFaults

VARIABLES
    policies,         \* the rules in memory, in order: [id, topic, lane, enabled]
    policyFile,       \* the rules on disk
    policyTemp,       \* what the temporary file beside them holds, if it is there
    saving,           \* what each edit has still to do, with the rules it encoded
    turnLane,         \* the lane of the running turn, 0 when there is none
    demanded,         \* the lanes that were asked of it
    escalated,
    policyFaults

rules == <<policies, policyFile, policyTemp, saving>>
route == <<turnLane, demanded, escalated>>
policyVars == <<rules, route, policyFaults>>

-----------------------------------------------------------------------------
\* The ranks of the lanes: conversation 2, investigate 3, critical 4.
Conversation == 2
Deep == {3, 4}

Edits == 1 .. MaxPolicyEdits
\* An id: the edit that made it up, and which of its rules got it; edit 0 stands for before.
New == <<0, 0>>
Ids == {<<0, 1>>}
Drafts == [id : Ids \cup {New}, topic : RuleTopics, lane : Deep, enabled : {TRUE}]

Init ==
    /\ policies = <<>> /\ policyFile = <<>> /\ policyTemp = {}
    /\ saving = [e \in Edits |-> [step |-> "none", text |-> <<>>]]
    /\ turnLane = 0 /\ demanded = {} /\ escalated = FALSE
    /\ policyFaults = 0

\* validate_policies
Valid(some) ==
    /\ Len(some) <= MaxPolicies
    /\ \A i, j \in DOMAIN some : some[i].id = some[j].id => i = j

Idle(e) == saving[e].step = "none" /\ \A d \in 1 .. e - 1 : saving[d].step # "none"
Unsaved(e) == saving' = [saving EXCEPT ![e].step = "changed"] /\ UNCHANGED <<policyFile, policyTemp>>

\* policy_from_draft: the id of the rule it replaces, its own, or a new one
FromDraft(draft, id, fresh) == [draft EXCEPT !.id = IF id # New THEN id ELSE fresh]

\* The settings page sends all rules.
Replace(e) ==
    /\ Idle(e)
    /\ \E drafts \in {<<>>} \cup [1 .. 1 -> Drafts] \cup [1 .. 2 -> Drafts] :
           LET new == [i \in DOMAIN drafts |-> FromDraft(drafts[i], drafts[i].id, <<e, i>>)]
           IN  Valid(new) /\ policies' = new
    /\ Unsaved(e)
    /\ UNCHANGED <<route, policyFaults>>

\* The rule with the draft's id, or else with its topic
Replaced(draft) ==
    LET byId == {i \in DOMAIN policies : policies[i].id = draft.id}
    IN  IF byId # {} THEN byId ELSE {i \in DOMAIN policies : policies[i].topic = draft.topic}

Upsert(e) ==
    /\ Idle(e)
    /\ \E draft \in Drafts :
           \/ /\ Replaced(draft) # {}
              /\ LET i == CHOOSE i \in Replaced(draft) : \A j \in Replaced(draft) : i <= j
                 IN  policies' = [policies EXCEPT ![i] = FromDraft(draft, policies[i].id, <<e, 1>>)]
           \/ /\ Replaced(draft) = {} /\ Len(policies) < MaxPolicies
              /\ policies' = Append(policies, FromDraft(draft, draft.id, <<e, 1>>))
    /\ Unsaved(e)
    /\ UNCHANGED <<route, policyFaults>>

Drop(e) ==
    /\ Idle(e)
    /\ \E i \in DOMAIN policies : policies' = RemoveAt(policies, i)
    /\ Unsaved(e)
    /\ UNCHANGED <<route, policyFaults>>

\* persist, without a lock: encode what there is now, ...
Encode(e) ==
    /\ saving[e].step = "changed"
    /\ saving' = [saving EXCEPT ![e] = [step |-> "encoded", text |-> policies]]
    /\ UNCHANGED <<policies, policyFile, policyTemp, route, policyFaults>>

\* ... write it beside the file, ...
WriteTemp(e) ==
    /\ saving[e].step = "encoded"
    /\ policyTemp' = {saving[e].text}
    /\ saving' = [saving EXCEPT ![e].step = "written"]
    /\ UNCHANGED <<policies, policyFile, route, policyFaults>>

\* ... and put it in the file's place, unless another edit has just done so.
Rename(e) ==
    /\ saving[e].step = "written"
    /\ policyFile' \in IF policyTemp = {} THEN {policyFile} ELSE policyTemp
    /\ policyTemp' = {}
    /\ saving' = [saving EXCEPT ![e] = [step |-> "done", text |-> <<>>]]
    /\ UNCHANGED <<policies, route, policyFaults>>

\* The file is read and must be valid, or the program does not start.
Restart ==
    /\ policyFaults < MaxPolicyFaults /\ policyFaults' = policyFaults + 1
    /\ Valid(policyFile)
    /\ policies' = policyFile
    /\ saving' = [e \in Edits |-> IF saving[e].step = "none" THEN saving[e] ELSE [step |-> "done", text |-> <<>>]]
    /\ turnLane' = 0 /\ demanded' = {} /\ escalated' = FALSE
    /\ UNCHANGED <<policyFile, policyTemp>>

-----------------------------------------------------------------------------
Demanding(said) == {i \in DOMAIN policies : policies[i].enabled /\ policies[i].topic \in said}

\* Mutant of Matched: the first rule that matches decides.
MatchedFirst(said) ==
    {policies[i].lane : i \in {j \in Demanding(said) : \A k \in Demanding(said) : j <= k}}

\* match_texts: of the enabled rules that match a message, the one that demands most
Matched(said) ==
    LET lanes == {policies[i].lane : i \in Demanding(said)}
    IN  {l \in lanes : \A m \in lanes : m <= l}

\* resolve_compute_route: what the messages' senders chose, and the rule
ResolveComputeRoute ==
    /\ turnLane = 0
    /\ \E said \in SUBSET RuleTopics, chosen \in SUBSET Deep :
           LET lanes == chosen \cup Matched(said) \cup {Conversation}
           IN  /\ turnLane' = CHOOSE l \in lanes : \A m \in lanes : m <= l
               /\ demanded' = chosen \cup {policies[i].lane : i \in Demanding(said)}
    /\ escalated' = FALSE
    /\ UNCHANGED <<rules, policyFaults>>

\* allows_escalation, once in a turn and upwards; not when the routing is fixed
Escalate(lane) ==
    /\ turnLane # 0 /\ ~escalated
    /\ lane > turnLane
    /\ turnLane' = lane /\ escalated' = TRUE
    /\ UNCHANGED <<rules, demanded, policyFaults>>

EndTurn ==
    /\ turnLane # 0
    /\ turnLane' = 0 /\ demanded' = {} /\ escalated' = FALSE
    /\ UNCHANGED <<rules, policyFaults>>

Next ==
    \/ \E e \in Edits : Replace(e) \/ Upsert(e) \/ Drop(e) \/ Encode(e) \/ WriteTemp(e) \/ Rename(e)
    \/ Restart \/ ResolveComputeRoute \/ EndTurn
    \/ \E lane \in Deep : Escalate(lane)

Spec == Init /\ [][Next]_policyVars

-----------------------------------------------------------------------------
\* Whatever the page and the tools change between each other, the file is one the program starts with
\* (compute_policy.rs, open), and a turn runs in no lower lane than each matching rule and each message
\* demanded when it was routed: "the constraint is already enforced" (web.rs, resolve_compute_route).
RulesAreKept ==
    /\ Valid(policies) /\ Valid(policyFile)
    /\ turnLane # 0 => \A lane \in demanded : turnLane >= lane

\* Refuted by the code: when no edit is being written, the file has the rules that are in force.  The page and
\* a tool may write in the other order than they changed, and through the same temporary file.
RulesAreSaved == (\A e \in Edits : saving[e].step \in {"none", "done"}) => policyFile = policies
=============================================================================
