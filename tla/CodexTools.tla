----------------------------- MODULE CodexTools -----------------------------
(***************************************************************************)
(* The host's tools (src/src/codex/tools.rs, tool_surface.rs): what a      *)
(* run of each origin is offered, what it is allowed, what the handlers    *)
(* accept, and what a call changes.  Native threads outlive runs, and a    *)
(* thread of the lane keeps the schemas that an earlier run of another     *)
(* origin discovered.  Stores with a module of their own (pages, hunches,  *)
(* continuations, intents) appear here as one write of that kind.          *)
(***************************************************************************)
EXTENDS Naturals, FiniteSets

CONSTANTS
    Stages,      \* the origins of the runs, among Origins
    Revisions,   \* the source revisions a call may cite
    MaxCalls     \* bound: calls that change a store

VARIABLES
    toolRun,     \* the run under way: its origin, or "none"
    schemas,     \* per lane, what its thread has been told of: the tools of these stages
    profile,     \* ProfileSnapshot.status
    live,        \* revisions the transcript or PCP still has
    known,       \* revisions the reflection ledger knows
    stores,      \* the writes so far: [tool, by, cites, known]
    calls

toolVars == <<toolRun, schemas, profile, live, known, stores, calls>>

ReadPcp == {"describe", "list_scopes", "browse_index", "search_pages", "semantic_search", "match_intent", "read_pages"}
Activity == {"publish_activity", "read_activity"}
ContextInbox == Activity \cup {"submit_candidate"}
History == {"resolve_source_ref", "search_transcript", "read_background_context"}
Hunch == {"open_hunch", "revise_hunch", "retire_hunch"}
Corrections == {"write_page", "submit_feedback"}

Origins == {"interactive", "continuation", "autonomous", "autonomous_scout", "maintenance", "reflection",
            "ambient_sense", "attacker", "pcp_transcript_migration"}

AllowedPcp(origin) ==
    CASE origin \in {"interactive", "reflection"} -> ReadPcp \cup ContextInbox \cup Corrections
      [] origin = "autonomous" -> ReadPcp \cup ContextInbox \cup {"write_page"}
      [] origin = "continuation" -> ReadPcp \cup Activity \cup {"write_page"}
      [] origin \in {"maintenance", "pcp_transcript_migration"} -> ReadPcp \cup {"write_page"}
      [] origin = "autonomous_scout" -> ReadPcp
      [] OTHER -> {}

AllowedSymbiont(origin, calibrating) ==
    CASE origin = "interactive" ->
            History \cup Hunch \cup
            {"revise_orientation", "reserve_continuation", "request_exploration", "schedule_follow_up", "fetch_url",
             "inspect_x_post", "manage_x_watch", "upsert_compute_policy", "remove_compute_policy", "escalate"}
            \cup (IF calibrating THEN {"complete_orientation"} ELSE {})
      [] origin = "autonomous_scout" -> History \cup {"submit_exploration_finding"}
      [] origin = "continuation" -> {"escalate"}
      [] origin = "autonomous" -> History \cup Hunch \cup {"propose_proactive_message", "inspect_x_post", "escalate"}
      [] origin = "maintenance" -> {"update_current_map", "update_open_loops", "record_profile_review", "escalate"}
      [] origin = "reflection" ->
            Hunch \cup
            {"acknowledge_hunch_feedback", "upsert_episode", "upsert_interaction_hypothesis", "reserve_continuation",
             "request_exploration", "schedule_follow_up", "complete_reflection", "propose_proactive_message", "escalate"}
      [] origin = "ambient_sense" -> {"submit_sensing_candidates"}
      [] origin = "attacker" -> {"submit_attacker_assessment"}
      [] OTHER -> {}

Calibrating == profile = "calibrating"

\* Mutant of AllowedAt: the scout works with the tools of the run it reports to.
AllowedAsReviewer(origin, calibrating) ==
    LET acts == IF origin = "autonomous_scout" THEN "autonomous" ELSE origin
    IN AllowedPcp(acts) \cup AllowedSymbiont(acts, calibrating) \cup AllowedSymbiont(origin, calibrating)

AllowedAt(origin, calibrating) == AllowedPcp(origin) \cup AllowedSymbiont(origin, calibrating)
Allowed(origin) == AllowedAt(origin, Calibrating)

\* What the handlers require besides: the require_* checks, the boundary of a stage.
Accepted(origin) ==
    {t \in UNION {Allowed(o) : o \in Origins} :
        /\ t \in {"update_current_map", "update_open_loops"} => origin = "maintenance"
        /\ t \in {"acknowledge_hunch_feedback", "upsert_episode", "upsert_interaction_hypothesis", "complete_reflection"}
              => origin = "reflection"
        /\ t \in {"schedule_follow_up", "request_exploration", "submit_feedback"} => origin \in {"reflection", "interactive"}
        /\ t = "propose_proactive_message" => origin \in {"reflection", "autonomous"}
        /\ t \in {"reserve_continuation", "manage_x_watch", "upsert_compute_policy", "remove_compute_policy"}
              => origin = "interactive"
        /\ t \in History => origin \in {"interactive", "autonomous", "autonomous_scout"}
        /\ origin = "autonomous_scout" => t \in History \cup ReadPcp \cup ContextInbox \cup {"submit_exploration_finding"}
        /\ origin \in {"ambient_sense", "attacker"} => t \in AllowedSymbiont(origin, FALSE)
        /\ t \in {"submit_sensing_candidates", "submit_exploration_finding", "submit_attacker_assessment"}
              => t \in AllowedSymbiont(origin, FALSE)}

\* Runs of these origins share a native thread.
Lane(origin) ==
    CASE origin \in {"interactive", "continuation"} -> "conversation"
      [] origin \in {"maintenance", "reflection", "pcp_transcript_migration"} -> "background"
      [] OTHER -> origin
NativeThreads == {Lane(o) : o \in Stages}

\* initial and discover: a thread is told of tools of the run's stage, and keeps what it was told.
Stage(origin) == [origin |-> origin, calibrating |-> origin = "interactive" /\ Calibrating]
Told(lane) == UNION {AllowedAt(s.origin, s.calibrating) : s \in schemas[lane]}

Init ==
    /\ toolRun = "none" /\ schemas = [l \in NativeThreads |-> {}]
    /\ profile = "unconfigured"
    /\ live = Revisions /\ known = {} /\ stores = {} /\ calls = 0

BeginRun(origin) ==
    /\ toolRun = "none" /\ toolRun' = origin
    /\ schemas' = [schemas EXCEPT ![Lane(origin)] = @ \cup {Stage(origin)}]
    /\ UNCHANGED <<profile, live, known, stores, calls>>

\* The run ends; a background lane may be given a fresh thread.
EndRun(renewed) ==
    /\ toolRun # "none" /\ toolRun' = "none"
    /\ schemas' = IF renewed THEN [schemas EXCEPT ![Lane(toolRun)] = {}] ELSE schemas
    /\ UNCHANGED <<profile, live, known, stores, calls>>

\* A call reaches its handler.
Handled(tool) ==
    /\ toolRun # "none" /\ tool \in Told(Lane(toolRun))
    /\ tool \in Allowed(toolRun) \cap Accepted(toolRun)
    /\ calls < MaxCalls /\ calls' = calls + 1

Wrote(tool, cites) ==
    stores' = stores \cup {[tool |-> tool, by |-> toolRun, cites |-> cites, verified |-> cites \subseteq known']}

\* Mutant of Verified: a failed verification does not stop the call.
VerifiedLoosely(cites) == known' = known \cup (cites \cap live)

\* ensure_reflection_sources: what the ledger does not know must still exist, and is then known.
Verified(cites) == cites \ known \subseteq live /\ known' = known \cup cites

\* Tools that cite the ledger's revisions.
Ledger == {"upsert_episode", "upsert_interaction_hypothesis", "schedule_follow_up", "request_exploration",
           "acknowledge_hunch_feedback", "complete_reflection"}

WriteLedger(tool, cites) ==
    /\ tool \in Ledger /\ Handled(tool) /\ cites # {}
    /\ Verified(cites) /\ Wrote(tool, cites)
    /\ UNCHANGED <<toolRun, schemas, profile, live>>

ReviseHunch(tool, cites) ==
    /\ tool \in Hunch /\ Handled(tool)
    /\ IF toolRun = "reflection" /\ tool # "open_hunch" THEN cites # {} /\ Verified(cites) ELSE UNCHANGED known
    /\ Wrote(tool, cites)
    /\ UNCHANGED <<toolRun, schemas, profile, live>>

\* A hand-off is only checked; the host takes it from the call when the run completes.
HandOff(tool, cites) ==
    /\ tool \in {"submit_exploration_finding", "propose_proactive_message", "submit_sensing_candidates"} /\ Handled(tool)
    /\ cites # {} => tool # "submit_sensing_candidates"
    /\ IF cites = {} THEN UNCHANGED known ELSE Verified(cites)
    /\ UNCHANGED <<toolRun, schemas, profile, live, stores>>

\* A challenge has a text, a silent assessment has none: a refused one changes as little.
Assess ==
    /\ Handled("submit_attacker_assessment")
    /\ UNCHANGED <<toolRun, schemas, profile, live, known, stores>>

\* Calls that write something of their own, and those that only read or hand off.
Documents == {"update_current_map", "update_open_loops", "record_profile_review"}
Settings == {"manage_x_watch", "upsert_compute_policy", "remove_compute_policy"}
Submissions == {"write_page", "submit_candidate", "publish_activity"}
Writes == Documents \cup Settings \cup Submissions \cup {"reserve_continuation"}
PcpReads == ReadPcp \cup {"read_activity"}
Reads == History \cup PcpReads \cup {"fetch_url", "inspect_x_post", "escalate"}

WriteStore(tool) ==
    /\ tool \in Writes /\ Handled(tool)
    /\ UNCHANGED <<toolRun, schemas, profile, live, known>> /\ Wrote(tool, {})

Read(tool) ==
    /\ tool \in Reads /\ Handled(tool)
    /\ UNCHANGED <<toolRun, schemas, profile, live, known, stores>>

Feedback(cites) ==
    /\ Handled("submit_feedback") /\ cites # {}
    /\ IF toolRun = "reflection" THEN Verified(cites) ELSE cites \subseteq live /\ UNCHANGED known
    /\ Wrote("submit_feedback", cites)
    /\ UNCHANGED <<toolRun, schemas, profile, live>>

CompleteOrientation ==
    /\ Handled("complete_orientation") /\ Calibrating /\ profile' = "ready"
    /\ UNCHANGED <<toolRun, schemas, live, known>> /\ Wrote("complete_orientation", {})

ReviseOrientation(cites) ==
    /\ Handled("revise_orientation") /\ cites # {} /\ profile = "ready"
    /\ UNCHANGED <<toolRun, schemas, profile, live, known>> /\ Wrote("revise_orientation", cites)

-----------------------------------------------------------------------------
(* Around the tools                                                         *)

BeginCalibration ==
    /\ profile # "ready" /\ profile' = "calibrating"
    /\ UNCHANGED <<toolRun, schemas, live, known, stores, calls>>

RecordMessage(r) ==
    /\ r \in live /\ known' = known \cup {r}
    /\ UNCHANGED <<toolRun, schemas, profile, live, stores, calls>>

RetractMessage(r) ==
    /\ live' = live \ {r}
    /\ UNCHANGED <<toolRun, schemas, profile, known, stores, calls>>

ToolCall ==
    toolRun # "none" /\ \E tool \in Told(Lane(toolRun)) :
        \/ WriteStore(tool) \/ Read(tool)
        \/ \E cites \in SUBSET Revisions :
              WriteLedger(tool, cites) \/ ReviseHunch(tool, cites) \/ HandOff(tool, cites)

Next ==
    \/ \E o \in Stages : BeginRun(o)
    \/ \E b \in BOOLEAN : EndRun(b)
    \/ ToolCall \/ Assess \/ CompleteOrientation \/ BeginCalibration
    \/ \E cites \in SUBSET Revisions : Feedback(cites) \/ ReviseOrientation(cites)
    \/ \E r \in Revisions : RecordMessage(r) \/ RetractMessage(r)

Spec == Init /\ [][Next]_toolVars

-----------------------------------------------------------------------------
(* Whatever a thread has been told of by runs of other origins, a scout, a *)
(* sensing run and the attacker change no store, the maps are written by a *)
(* maintenance run only, and what a reflection run writes into its ledger  *)
(* cites revisions that were verified before the write.                    *)
StagesKeepTheirBounds ==
    \A w \in stores :
        /\ w.by \notin {"autonomous_scout", "ambient_sense", "attacker"}
        /\ w.tool \in {"update_current_map", "update_open_loops"} => w.by = "maintenance"
        /\ w.by = "reflection" /\ w.tool \in Ledger => w.verified

(* Discovery lists permitted capabilities only (the description of         *)
(* discover_tools: "Find permitted additional capabilities"): a handler    *)
(* accepts what the stage was told of.                                     *)
DiscoveredToolsWork == toolRun # "none" => Allowed(toolRun) \subseteq Accepted(toolRun)
=============================================================================
