------------------------------- MODULE Transcript -------------------------------
(***************************************************************************)
(* The local transcript (src/src/transcript.rs), the resolution of a       *)
(* source (continuity/transcript_source.rs) and the migration to PCP       *)
(* (pcp_migration.rs).  Appending and retracting are one transaction each; *)
(* a resolution and a migration are several, with requests to a model in   *)
(* between.                                                                *)
(***************************************************************************)
EXTENDS Naturals, Sequences, FiniteSets, FiniteSetsExt

CONSTANTS
    MigrationBatch,      \* MIGRATION_BATCH_MESSAGES
    MaxEntries, MaxTranscriptFaults     \* bounds

VARIABLES
    entries,     \* transcript_messages in sequence: whether each is retracted
    source,      \* the resolution of a source under way
    watermark,   \* transcript_pcp_migration_watermarks
    migration,
    judged,      \* the messages the model was shown by the migration
    transcriptFaults

transcriptVars == <<entries, source, watermark, migration, judged, transcriptFaults>>

Quiet == [at |-> "idle"]

Init ==
    /\ entries = <<>> /\ source = Quiet /\ watermark = 0 /\ migration = Quiet /\ judged = {} /\ transcriptFaults = 0

Visible == {m \in DOMAIN entries : ~entries[m].retracted}

\* next_sequence counts the retracted ones too.
AppendMessage ==
    /\ Len(entries) < MaxEntries /\ entries' = Append(entries, [retracted |-> FALSE])
    /\ UNCHANGED <<source, watermark, migration, judged, transcriptFaults>>

\* retract_from: the message and everything after it, for good
RetractFrom(m) ==
    /\ m \in Visible
    /\ entries' = [k \in DOMAIN entries |-> IF k >= m THEN [entries[k] EXCEPT !.retracted = TRUE] ELSE entries[k]]
    /\ UNCHANGED <<source, watermark, migration, judged, transcriptFaults>>

-----------------------------------------------------------------------------
\* transcript_source::resolve reads the packets of the message, then the message.

ReadPackets(m) ==
    /\ source.at \in {"idle", "resolved"} /\ m \in DOMAIN entries
    /\ source' = [at |-> "packets", of |-> m, packets |-> m \in Visible]
    /\ UNCHANGED <<entries, watermark, migration, judged, transcriptFaults>>

Resolve ==
    /\ source.at = "packets"
    /\ source' = [at |-> "resolved", of |-> source.of, packets |-> source.packets,
                  status |-> IF source.of \in Visible THEN "resolved" ELSE "retracted"]
    /\ UNCHANGED <<entries, watermark, migration, judged, transcriptFaults>>

-----------------------------------------------------------------------------
\* The migration, batch after batch.

BeginMigration ==
    /\ migration = Quiet /\ Visible # {} /\ watermark < Max(Visible)
    /\ migration' = [at |-> "reading", after |-> watermark, through |-> Max(Visible)]
    /\ UNCHANGED <<entries, source, watermark, judged, transcriptFaults>>

\* pcp_migration_batch: the first ones that are left
MigrationBatchOf ==
    LET left == {m \in Visible : migration.after < m /\ m <= migration.through}
    IN  {m \in left : Cardinality({k \in left : k < m}) < MigrationBatch}

\* Mutant of BatchEnd: one batch stands for all that was to be migrated.
BatchEndByCount(batch) == migration.through

\* The sequence of the last message of the batch; through, when nothing was left.
BatchEnd(batch) == IF batch = {} THEN migration.through ELSE Max(batch)

\* The model judges the batch; only then does the watermark move.
JudgeBatch ==
    /\ migration.at = "reading"
    /\ judged' = judged \cup MigrationBatchOf
    /\ migration' = [migration EXCEPT !.at = "judged", !.after = BatchEnd(MigrationBatchOf)]
    /\ UNCHANGED <<entries, source, watermark, transcriptFaults>>

\* advance_pcp_migration_watermark, and the next batch
Advance ==
    /\ migration.at = "judged"
    /\ watermark' = Max({watermark, migration.after})
    /\ migration' = IF migration.after < migration.through THEN [migration EXCEPT !.at = "reading"] ELSE Quiet
    /\ UNCHANGED <<entries, source, judged, transcriptFaults>>

\* The tables are what is left, and what the browser shows.
Restart ==
    /\ transcriptFaults < MaxTranscriptFaults /\ transcriptFaults' = transcriptFaults + 1
    /\ migration' = Quiet /\ source' = Quiet
    /\ UNCHANGED <<entries, watermark, judged>>

Next ==
    \/ AppendMessage \/ \E m \in DOMAIN entries : RetractFrom(m) \/ ReadPackets(m)
    \/ Resolve \/ BeginMigration \/ JudgeBatch \/ Advance \/ Restart

Spec == Init /\ [][Next]_transcriptVars
-----------------------------------------------------------------------------
TypeOK == judged \subseteq DOMAIN entries /\ watermark \in 0..Len(entries)

\* The watermark passes no message the model was not shown, whatever was retracted or restarted
\* in between (migrate_transcript).
MigratedOrRetracted == \A m \in 1..watermark : m \in judged \/ entries[m].retracted

\* A source that is gone shows nothing, its packets neither.
RetractedShowsNothing == source.at = "resolved" /\ source.status = "retracted" => ~source.packets
=============================================================================
