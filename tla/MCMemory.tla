------------------------------ MODULE MCMemory ------------------------------
(***************************************************************************)
(* Small instances of what the assistant keeps and remembers: the          *)
(* retention queue, episodes, hunches, the maintained map, the transcript  *)
(* with its live projection, its search and its migration, the repair of   *)
(* Pages, the two recalls, the ledger of usage and the compute rules.      *)
(* These parts share no variable, so each behaviour is of one of them,     *)
(* `part`, and the others stay as they began.                              *)
(*                                                                         *)
(* The constants of the parts stay constants here, with their values in    *)
(* memory.cfg: MemoryProofs is about every value of theirs.                *)
(***************************************************************************)
EXTENDS Naturals, Sequences, FiniteSets

CONSTANTS
    Proposals, MaxWaiting, MaxPending, MaxVersion, MaxRetentionFaults,                      \* Retention
    Titles, Lookalikes, Exchanges, Statements, MaxEpisodes, MaxHypotheses, MaxParents,      \* Episodes
    MaxOpens,
    HunchPages, MaxHunchRevisions, MaxHunchMessages, MaxHunchFaults,                        \* Hunches
    SourceEvents, BundleSize, Sizes, MaxMessages, MaxEdits, MaxMaintenanceFaults,           \* ContextMaintenance
    MigrationBatch, MaxEntries, MaxTranscriptFaults,                                        \* Transcript
    HistoryPage, LiveLimit, MaxSaid, MaxRestarts,                                           \* LiveConversation
    Kinds, Spaces, IndexBatch, MaxClusters, ContextSide, MaxShown, MaxRows,                 \* TranscriptSearch
    MaxSearchFaults,
    Remembered, MaxPcp, MaxLocal, MaxProfile, RecallSize, FinalSize, MaxDepth,              \* ForegroundRecall
    BridgeTopics, BridgeSaid, BridgeDocuments, BridgePictures, TopicLimit, EvidenceLimit,   \* BridgeRecall
    EvidenceChars, PageLimit, RelatedLimit, EvidenceBudget, ExpandLimit, MaxRead, MaxSources, MaxPictures,
    MaxPictureReads, MaxRetractions,
    Workers, TokenLimit, ReflectionLimit, InterruptLimit, NoteLimit, Retained,              \* Usage
    MaxCompleted, MaxDay, MaxRestores, MaxUsageFaults,
    RuleTopics, MaxPolicies, MaxPolicyEdits, MaxPolicyFaults,                               \* ComputePolicies
    Inventory, Cited, Quotable, ReviewBatch, MaxPages, MaxRepairRevisions, MaxRepairFaults  \* PcpRepair

\* The workers that record calls (InvocationActivity), each limit a number (AutonomyConfig, ReflectionConfig);
\* the bounds are numbers.
ASSUME MemoryAssumption ==
    /\ Workers \subseteq {"exploration", "attacker", "maintenance", "reflection"}
    /\ TokenLimit \in Nat /\ ReflectionLimit \in Nat
    /\ MaxPolicies \in Nat
    /\ MaxEpisodes \in Nat

\* A run is shown something (MAX_SOURCE_EVENTS, MAX_SOURCE_BUNDLE_CHARS).
ASSUME MaintenanceAssumption ==
    /\ SourceEvents \in Nat \ {0} /\ BundleSize \in Nat
    /\ Sizes \subseteq Nat

\* A batch takes something, the live window holds something, and a message has a role (MIGRATION_BATCH_MESSAGES,
\* LIVE_MESSAGE_LIMIT, INDEX_BATCH_SIZE).
ASSUME TranscriptAssumption ==
    /\ MigrationBatch \in Nat \ {0} /\ LiveLimit \in Nat \ {0} /\ IndexBatch \in Nat \ {0}
    /\ Kinds \subseteq [role : {"user", "assistant"}, far : BOOLEAN, about : BOOLEAN]

\* Memory is finite and has the Pages its Pages were derived from, those that cannot be read included.
ASSUME RecallAssumption ==
    /\ IsFiniteSet(Remembered)
    /\ \A r \in Remembered : r.parents \subseteq {q.id : q \in Remembered}

\* What a message of the bridge is, and its limits (BridgeRecallDepth, max_tokens).
ASSUME BridgeAssumption ==
    /\ BridgeSaid \in Seq([user : BOOLEAN, chars : Nat, turn : Nat])
    /\ EvidenceLimit \in Nat /\ EvidenceChars \in Nat /\ EvidenceBudget \in Nat

\* The inventory lists a Page once, and a Page was written from messages; a run takes at least one Page
\* (max_pages_per_run, REVIEW_BATCH_SIZE).
ASSUME RepairAssumption ==
    /\ DOMAIN Inventory = 1 .. Len(Inventory) /\ Len(Inventory) \in Nat
    /\ \A i, j \in DOMAIN Inventory : Inventory[i] = Inventory[j] => i = j
    /\ \A i \in DOMAIN Inventory : Cited[Inventory[i]] \subseteq Quotable
    /\ ReviewBatch \in Nat \ {0} /\ MaxPages \in Nat \ {0}

\* A question about the subject, and a late answer that is not.
MCKinds == {[role |-> "user", far |-> FALSE, about |-> TRUE], [role |-> "assistant", far |-> TRUE, about |-> FALSE]}

\* One Page, written from two messages.
MCInventory == <<"p">>
MCCited == [p |-> {1, 2}]

\* Pages that contain, cite and were derived from the others, two messages and a line of the Orientation.
RecordOf(kind, id, semantic, lexical, size, holds, cites, parents, whole, user) ==
    [kind |-> kind, id |-> id, semantic |-> semantic, lexical |-> lexical, size |-> size, holds |-> holds,
     cites |-> cites, parents |-> parents, whole |-> whole, user |-> user]
MCRemembered ==
    {RecordOf("pcp", "p", 90, 50, 2, {"m"}, {}, {"r"}, TRUE, FALSE),
     RecordOf("pcp", "r", 60, 50, 1, {}, {"m"}, {}, TRUE, FALSE),
     RecordOf("pcp", "q", 20, 60, 2, {"m"}, {"m"}, {"q"}, TRUE, FALSE),
     RecordOf("local", "m", 80, 40, 1, {}, {}, {}, TRUE, TRUE),
     RecordOf("local", "n", 70, 0, 1, {}, {}, {}, TRUE, FALSE),
     RecordOf("profile", "s", 60, 20, 1, {}, {}, {}, TRUE, FALSE)}

\* Two Topics, two exchanges; a picture here and one in the Store.
MCTopics == [t |-> [score |-> 2, weight |-> 4], u |-> [score |-> 2, weight |-> 1]]
MCSaid == <<[user |-> TRUE, chars |-> 2, turn |-> 1], [user |-> FALSE, chars |-> 3, turn |-> 1],
            [user |-> TRUE, chars |-> 1, turn |-> 2], [user |-> FALSE, chars |-> 3, turn |-> 2]>>
MCDocuments == {[score |-> 1, at |-> 1, live |-> TRUE], [score |-> 1, at |-> 2, live |-> TRUE],
                [score |-> 2, at |-> 1, live |-> FALSE]}
MCPictures == {[of |-> 1, local |-> TRUE], [of |-> 2, local |-> FALSE]}

VARIABLES
    part,
    queue, saved, suspended, outbox, delivered, pages, library, missing, token, review, retentionFaults,
    episodes, aliases, attached, recorded, retractedEvents, hypotheses, opens,
    documents, history, issued, writing, codexRun, shownIn, marks, feedback, hunchFaults,
    messages, projections, profileReview, assessed, checkpoint, due, maintenance, offered, asked, revisions,
    maintenanceFaults,
    entries, source, watermark, migration, judged, transcriptFaults,
    said, publishing, removing, live, browser, excused, restarts,
    rows, vectors, space, index, answer, searchFaults,
    repaired, spoken, repairLedger, repairRun, repairFaults,
    recall, asksWording, found, ranker, nodes, frontier, depth, todo, loaded, omitted,
    members, retracted, bridge, reading, chosen, hits, candidates, matched, selected, evidence, related,
    pictured, truncated,
    day, completed, ledger, details, work, shown, restoring, restores, usageFaults,
    policies, policyFile, policyTemp, saving, turnLane, demanded, escalated, policyFaults

retentionVars == <<queue, saved, suspended, outbox, delivered, pages, library, missing, token, review,
                   retentionFaults>>
episodeVars == <<episodes, aliases, attached, recorded, retractedEvents, hypotheses, opens>>
hunchVars == <<documents, history, issued, writing, codexRun, shownIn, marks, feedback, hunchFaults>>
maintenanceVars == <<messages, projections, profileReview, assessed, checkpoint, due, maintenance, offered,
                     asked, revisions, maintenanceFaults>>
transcriptVars == <<entries, source, watermark, migration, judged, transcriptFaults>>
liveVars == <<said, publishing, removing, live, browser, excused, restarts>>
searchVars == <<rows, vectors, space, index, answer, searchFaults>>
repairVars == <<repaired, spoken, repairLedger, repairRun, repairFaults>>
recallVars == <<recall, asksWording, found, ranker, nodes, frontier, depth, todo, loaded, omitted>>
bridgeVars == <<members, retracted, bridge, reading, chosen, hits, candidates, matched, selected, evidence,
                related, pictured, truncated>>
usageVars == <<day, completed, ledger, details, work, shown, restoring, restores, usageFaults>>
policyVars == <<policies, policyFile, policyTemp, saving, turnLane, demanded, escalated, policyFaults>>

Proposed == INSTANCE Retention

Ledger == INSTANCE Episodes

Curiosity == INSTANCE Hunches WITH
    Pages <- HunchPages, MaxRevisions <- MaxHunchRevisions, MaxMessages <- MaxHunchMessages

Maintained == INSTANCE ContextMaintenance

Migrated == INSTANCE Transcript

Projected == INSTANCE LiveConversation

Searched == INSTANCE TranscriptSearch

Repair == INSTANCE PcpRepair WITH
    Tasks <- {"content", "language"}, Oldest <- Inventory, Messages <- Quotable, BatchSize <- ReviewBatch,
    MaxRevisions <- MaxRepairRevisions, history <- repaired

Foreground == INSTANCE ForegroundRecall WITH Records <- Remembered

Bridged == INSTANCE BridgeRecall WITH
    Topics <- BridgeTopics, Said <- BridgeSaid, Documents <- BridgeDocuments, Pictures <- BridgePictures

Budget == INSTANCE Usage WITH delivered <- shown

Ruled == INSTANCE ComputePolicies

Parts == {"retention", "episodes", "hunches", "maintenance", "transcript", "projection", "search", "repair",
          "recall", "bridge", "usage", "policies"}

\* A part that does not run begins in one of its states only.
Init ==
    /\ part \in Parts
    /\ Proposed!Init /\ Ledger!Init /\ Maintained!Init /\ Migrated!Init /\ Projected!Init /\ Repair!Init
    /\ Curiosity!Init /\ (part # "hunches" => documents = [p \in HunchPages |-> Curiosity!Absent])
    /\ Searched!Init /\ (part # "search" => space = "v1")
    /\ Foreground!Init /\ (part # "recall" => asksWording)
    /\ Bridged!Init /\ (part # "bridge" => members = [t \in DOMAIN BridgeTopics |-> {}])
    /\ Budget!Init /\ Ruled!Init

Next ==
    /\ UNCHANGED part
    /\ IF part = "retention" THEN Proposed!Next ELSE UNCHANGED retentionVars
    /\ IF part = "episodes" THEN Ledger!Next ELSE UNCHANGED episodeVars
    /\ IF part = "hunches" THEN Curiosity!Next ELSE UNCHANGED hunchVars
    /\ IF part = "maintenance" THEN Maintained!Next ELSE UNCHANGED maintenanceVars
    /\ IF part = "transcript" THEN Migrated!Next ELSE UNCHANGED transcriptVars
    /\ IF part = "projection" THEN Projected!Next ELSE UNCHANGED liveVars
    /\ IF part = "search" THEN Searched!Next ELSE UNCHANGED searchVars
    /\ IF part = "repair" THEN Repair!Next ELSE UNCHANGED repairVars
    /\ IF part = "recall" THEN Foreground!Next ELSE UNCHANGED recallVars
    /\ IF part = "bridge" THEN Bridged!Next ELSE UNCHANGED bridgeVars
    /\ IF part = "usage" THEN Budget!Next ELSE UNCHANGED usageVars
    /\ IF part = "policies" THEN Ruled!Next ELSE UNCHANGED policyVars

memoryVars == <<part, retentionVars, episodeVars, hunchVars, maintenanceVars, transcriptVars, liveVars,
                searchVars, repairVars, recallVars, bridgeVars, usageVars, policyVars>>

Spec == Init /\ [][Next]_memoryVars

-----------------------------------------------------------------------------
\* What each part promises, stated where it is modelled.

\* A proposal is written once, from the evidence its reviewer saw, and the evidence of an experience is not
\* released before the experience is delivered (continuity/retention.rs).
RetentionIsExact == Proposed!WrittenOnceAsReviewed /\ Proposed!EvidenceIsNotLost

\* An episode id keeps its messages through merges, reopenings and aliases, and no two episodes have one title
\* (reflection/store.rs).
EpisodesStayApart == Ledger!IdsStayMeaningful /\ Ledger!TitlesAreDistinct

\* A hunch's revisions form one line, and what the user was shown can still be read (curiosity.rs).
HunchesStayWhole == Curiosity!TypeOK /\ Curiosity!NoRevisionIsForked /\ Curiosity!ShownStaysReadable

\* The maintained map is assessed through no message its run had room for and was not shown, and asks at most
\* one question per revision (context_maintenance.rs).
MapIsAssessed == Maintained!TypeOK /\ Maintained!AssessedWasShown /\ Maintained!OneQuestionPerMap

\* Every message arrives: at the model that migrates it unless it is retracted, in a polling browser, and among
\* what can be searched, in a window that is one stretch of the conversation (transcript.rs, continuity.rs,
\* transcript/search.rs).
MessagesArrive ==
    /\ [](Migrated!TypeOK /\ Migrated!MigratedOrRetracted)
    /\ [](Projected!TypeOK /\ Projected!PollingMissesNothing)
    /\ [](Searched!TypeOK /\ Searched!NewestIsSearchable /\ Searched!WindowsStay)

\* A Page is reviewed once per revision, a new revision cites all that the old one did, and a review of a Page
\* that has changed since is dropped (pcp_repair.rs).
RepairsAreSound == [](Repair!ReviewedOnce /\ Repair!LanguageKeepsSources) /\ Repair!StaleIsSkipped

\* What a recall leaves out as covered is covered by what it gives, the lineage it calls complete is, matches
\* come before their neighbours, and what is retracted is no evidence (context_assembly.rs, bridge/recall.rs).
RecallIsAccountable ==
    /\ [](Foreground!OmittedIsCovered /\ Foreground!LineageIsComplete /\ Bridged!MatchesComeFirst)
    /\ Bridged!RetractedIsNoEvidence

\* The daily token limit is overrun by no more than one run of each worker (usage.rs, autonomy.rs).
TokensStopAtTheLimit == Budget!TokensStopAtTheLimit

\* The rules are ones the program starts with, and a turn runs in no lower lane than they demand
\* (compute_policy.rs).
RulesAreKept == Ruled!RulesAreKept
=============================================================================
