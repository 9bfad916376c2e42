--------------------------- MODULE ReflectionProofs ---------------------------
(***************************************************************************)
(* The reflection worker skips nothing, for every set of messages and      *)
(* publications and every limit: the types, and the cursor against the     *)
(* events that are recorded, retracted and pruned around it.               *)
(*                                                                         *)
(* And its ledger has one event per revision, for any window and any       *)
(* number of restarts: a message is told once, recorded once and reflected *)
(* on once, although handlers, restarts and retractions all write events   *)
(* for it and old events are deleted under them.                           *)
(***************************************************************************)
EXTENDS Reflection, SequenceTheorems, FiniteSetTheorems, TLAPS

-----------------------------------------------------------------------------
(* The ledger: what each way of writing it returns.                         *)

Kinds == {"user", "assistant", "settled", "retracted"}

LEMMA RoleIsKind == \A rev \in Revisions : rev.role \in {"user", "assistant"}
BY DEF Revisions

LEMMA RevisionType ==
    /\ \A m \in Messages : User(m) \in Revisions /\ Assistant(m) \in Revisions
    /\ \A n \in Notes : Assistant(n) \in Revisions
BY DEF Revisions, User, Assistant

LEMMA EventType ==
    ASSUME NEW kind \in Kinds, NEW rev \in Revisions, NEW asks \in BOOLEAN
    PROVE  Event(kind, rev, asks) \in Events
BY DEF Event, Events, Kinds

(* A ledger rewritten in place stays a ledger of the same length.            *)
LEMMA RewrittenType ==
    ASSUME ledger \in Seq(Events), NEW f \in [1..Len(ledger) -> Events]
    PROVE  f \in Seq(Events) /\ Len(f) = Len(ledger)
<1>1. Len(ledger) \in Nat
  BY LenProperties
<1>2. f \in Seq(Events)
  BY <1>1, SeqDef
<1> QED BY <1>1, <1>2, LenProperties

(* No event comes to life or is pruned, and the ledger only grows.           *)
Keeps ==
    /\ ledger' \in Seq(Events)
    /\ Len(ledger) <= Len(ledger')
    /\ \A i \in 1..Len(ledger) :
          /\ Live(i)' => Live(i)
          /\ ledger'[i].state = "pruned" => ledger[i].state = "pruned"

LEMMA SameKeeps ==
    ASSUME ledger \in Seq(Events), UNCHANGED ledger
    PROVE  Keeps
<1>1. Len(ledger) \in Nat
  BY LenProperties
<1> QED BY <1>1 DEF Keeps, Live

LEMMA AppendKeeps ==
    ASSUME ledger \in Seq(Events), NEW e \in Events, ledger' = Append(ledger, e)
    PROVE  Keeps
<1>1. /\ ledger' \in Seq(Events)
      /\ Len(ledger') = Len(ledger) + 1
      /\ \A i \in 1..Len(ledger) : ledger'[i] = ledger[i]
  BY AppendProperties
<1>2. Len(ledger) \in Nat
  BY LenProperties
<1> QED BY <1>1, <1>2 DEF Keeps, Live

(* record_message: a duplicate changes nothing, a new event is appended.     *)
LEMMA RecordedKeeps ==
    ASSUME ledger \in Seq(Events), NEW rev \in Revisions, NEW asks \in BOOLEAN,
           ledger' = Recorded(rev, asks)
    PROVE  Keeps
<1>1. Event(rev.role, rev, asks) \in Events
  BY RoleIsKind, EventType DEF Kinds
<1>2. CASE HasEvent(rev)
  BY <1>2, SameKeeps DEF Recorded
<1>3. CASE ~HasEvent(rev)
  BY <1>1, <1>3, AppendKeeps DEF Recorded
<1> QED BY <1>2, <1>3

(* record_retraction: what it hides was live, what it adds comes behind.     *)
LEMMA RetractionKeeps ==
    ASSUME ledger \in Seq(Events), NEW revs \in Seq(Revisions),
           ledger' = WithRetraction(revs)
    PROVE  Keeps
<1> DEFINE hidden == [i \in DOMAIN ledger |->
                         IF ledger[i].rev \in ToSet(revs) /\ Live(i)
                         THEN [ledger[i] EXCEPT !.state = "retracted"] ELSE ledger[i]]
           added == [k \in DOMAIN revs |-> Event("retracted", revs[k], FALSE)]
<1>1. /\ DOMAIN ledger = 1..Len(ledger)
      /\ \A i \in 1..Len(ledger) : ledger[i] \in Events
      /\ Len(ledger) \in Nat
  BY LenProperties
<1>2. /\ DOMAIN revs = 1..Len(revs)
      /\ \A k \in 1..Len(revs) : revs[k] \in Revisions
      /\ Len(revs) \in Nat
  BY LenProperties
<1>3. hidden \in [1..Len(ledger) -> Events]
  <2>1. \A i \in 1..Len(ledger) : [ledger[i] EXCEPT !.state = "retracted"] \in Events
    BY <1>1 DEF Events
  <2> QED BY <1>1, <2>1
<1>4. hidden \in Seq(Events) /\ Len(hidden) = Len(ledger)
  BY <1>3, RewrittenType
<1>5. added \in Seq(Events)
  <2>1. \A k \in 1..Len(revs) : Event("retracted", revs[k], FALSE) \in Events
    BY <1>2, EventType DEF Kinds
  <2>2. added \in [1..Len(revs) -> Events]
    BY <1>2, <2>1
  <2> QED BY <1>2, <2>2, SeqDef
<1>6. ledger' = hidden \o added
  BY DEF WithRetraction
<1>7. /\ ledger' \in Seq(Events)
      /\ Len(ledger') = Len(ledger) + Len(added)
      /\ \A i \in 1..Len(ledger) : ledger'[i] = hidden[i]
      /\ Len(added) \in Nat
  <2> HIDE DEF hidden, added
  <2>1. Len(added) \in Nat
    BY <1>5, LenProperties
  <2> QED BY <1>1, <1>4, <1>5, <1>6, <2>1, ConcatProperties
<1>8. \A i \in 1..Len(ledger) :
         /\ hidden[i].state = "live" => ledger[i].state = "live"
         /\ hidden[i].state = "pruned" => ledger[i].state = "pruned"
  <2> TAKE i \in 1..Len(ledger)
  <2>1. ledger[i] \in Events
    BY <1>1
  <2>2. [ledger[i] EXCEPT !.state = "retracted"].state = "retracted"
    BY <2>1 DEF Events
  <2> QED BY <1>1, <2>2 DEF Live
<1> HIDE DEF hidden, added
<1> QED BY <1>1, <1>7, <1>8 DEF Keeps, Live

-----------------------------------------------------------------------------
(* Steps of the handlers: the batch of the worker stays as it is.           *)

SameBatch ==
    /\ run'.phase = run.phase /\ run'.to = run.to /\ run'.batch = run.batch
    /\ run'.note = run.note
    /\ cursor' = cursor /\ read' = read

LEMMA LengthGrows ==
    ASSUME ledger \in Seq(Events), Keeps
    PROVE  Len(ledger) \in Nat /\ Len(ledger') \in Nat /\ Len(ledger) <= Len(ledger')
<1>1. Len(ledger) \in Nat
  BY LenProperties
<1>2. ledger' \in Seq(Events)
  BY DEF Keeps
<1>3. Len(ledger') \in Nat
  BY <1>2, LenProperties
<1> QED BY <1>1, <1>3 DEF Keeps

LEMMA SameBatchType ==
    ASSUME TypeOK, Keeps, SameBatch, run' \in RunType,
           transcript' \in Seq(Revisions), aged' \subseteq Revisions,
           turn' \in [Messages -> {"unsent", "stored", "marked", "heard", "answered", "over"}],
           note' \in [Notes -> {"unsent", "stored", "over"}],
           retracting' \in Seq(Revisions), feedback' \subseteq Doubtful,
           faults' \in 0..MaxFaults
    PROVE  TypeOK'
<1>1. Len(ledger) \in Nat /\ Len(ledger') \in Nat /\ Len(ledger) <= Len(ledger')
  BY LengthGrows DEF TypeOK
<1>2. cursor' \in 0..Len(ledger') /\ read' \subseteq 1..cursor'
  BY <1>1 DEF SameBatch, TypeOK
<1>3. ~Resting' => ~Resting
  BY DEF SameBatch, Resting
<1>4. ~Resting' => /\ run'.to \in cursor'..Len(ledger')
                   /\ run'.batch \subseteq (cursor' + 1)..run'.to
  <2> SUFFICES ASSUME ~Resting' PROVE /\ run'.to \in cursor'..Len(ledger')
                                      /\ run'.batch \subseteq (cursor' + 1)..run'.to
    OBVIOUS
  <2>1. run.to \in cursor..Len(ledger) /\ run.batch \subseteq (cursor + 1)..run.to
    BY <1>3 DEF TypeOK
  <2>2. run'.to = run.to /\ run'.batch = run.batch /\ cursor' = cursor
    BY DEF SameBatch
  <2>3. cursor \in Nat
    BY <1>1 DEF TypeOK
  <2> QED BY <1>1, <2>1, <2>2, <2>3
<1>5. At("noting")' => run'.note \in Notes
  BY DEF SameBatch, At, TypeOK
<1>6. ledger' \in Seq(Events)
  BY DEF Keeps
<1> QED BY <1>2, <1>4, <1>5, <1>6 DEF TypeOK

LEMMA AnnounceKeeps ==
    ASSUME TypeOK, Announce, cursor' = cursor, read' = read
    PROVE  SameBatch /\ run' \in RunType
BY DEF Announce, TypeOK, RunType, SameBatch

LEMMA TurnType ==
    ASSUME TypeOK, NEW m \in Messages, NEW from,
           NEW to \in {"unsent", "stored", "marked", "heard", "answered", "over"},
           Turn(m, from, to)
    PROVE  turn' \in [Messages -> {"unsent", "stored", "marked", "heard", "answered", "over"}]
BY DEF Turn, TypeOK

(* A message from its arrival to the end of its turn.                        *)
LEMMA TurnStepKeeps ==
    ASSUME TypeOK, NEW m \in Messages,
           Ask(m) \/ MarkFeedback(m) \/ RecordUser(m) \/ EndTurn(m) \/ RecordReply(m)
    PROVE  TypeOK' /\ Keeps /\ SameBatch
<1> SUFFICES Keeps /\ SameBatch /\ TypeOK'
  OBVIOUS
<1>0. ledger \in Seq(Events) /\ transcript \in Seq(Revisions)
  BY DEF TypeOK
<1>1. CASE Ask(m)
  <2>1. UNCHANGED ledger /\ cursor' = cursor /\ read' = read
    BY <1>1 DEF Ask
  <2>2. Keeps /\ SameBatch /\ run' \in RunType
    BY <1>0, <1>1, <2>1, SameKeeps, AnnounceKeeps DEF Ask
  <2>3. transcript' \in Seq(Revisions)
    BY <1>0, <1>1, RevisionType, AppendProperties DEF Ask
  <2>4. turn' \in [Messages -> {"unsent", "stored", "marked", "heard", "answered", "over"}]
    BY <1>1, TurnType DEF Ask
  <2> QED BY <1>1, <2>2, <2>3, <2>4, SameBatchType DEF Ask, TypeOK
<1>2. CASE MarkFeedback(m)
  <2>1. Keeps /\ SameBatch
    BY <1>0, <1>2, SameKeeps DEF MarkFeedback, SameBatch
  <2>2. turn' \in [Messages -> {"unsent", "stored", "marked", "heard", "answered", "over"}]
    BY <1>2, TurnType DEF MarkFeedback
  <2> QED BY <1>2, <2>1, <2>2, SameBatchType DEF MarkFeedback, said, TypeOK
<1>3. CASE RecordUser(m)
  <2>0. (m \in Doubtful) \in BOOLEAN
    OBVIOUS
  <2>1. Keeps
    BY <1>0, <1>3, <2>0, RecordedKeeps, RevisionType, Zenon DEF RecordUser
  <2>3. SameBatch
    BY <1>3 DEF RecordUser, SameBatch
  <2>2. turn' \in [Messages -> {"unsent", "stored", "marked", "heard", "answered", "over"}]
    BY <1>3, TurnType DEF RecordUser
  <2> QED BY <1>3, <2>1, <2>2, <2>3, SameBatchType DEF RecordUser, said, TypeOK
<1>4. CASE Reply(m)
  <2>1. Keeps /\ SameBatch
    BY <1>0, <1>4, SameKeeps DEF Reply, SameBatch
  <2>2. turn' \in [Messages -> {"unsent", "stored", "marked", "heard", "answered", "over"}]
    BY <1>4, TurnType DEF Reply
  <2>3. transcript' \in Seq(Revisions)
    BY <1>0, <1>4, RevisionType, AppendProperties DEF Reply
  <2> QED BY <1>4, <2>1, <2>2, <2>3, SameBatchType DEF Reply, TypeOK
<1>5. CASE SettleTurn(m)
  <2>1. Event("settled", User(m), FALSE) \in Events
    BY EventType, RevisionType DEF Kinds
  <2>2. Keeps /\ SameBatch
    BY <1>0, <1>5, <2>1, AppendKeeps DEF SettleTurn, SameBatch
  <2>3. turn' \in [Messages -> {"unsent", "stored", "marked", "heard", "answered", "over"}]
    BY <1>5, TurnType DEF SettleTurn
  <2> QED BY <1>5, <2>2, <2>3, SameBatchType DEF SettleTurn, said, TypeOK
<1>6. CASE Abandon(m)
  <2>1. Keeps /\ SameBatch
    BY <1>0, <1>6, SameKeeps DEF Abandon, SameBatch
  <2>2. turn' \in [Messages -> {"unsent", "stored", "marked", "heard", "answered", "over"}]
    BY <1>6, TurnType DEF Abandon
  <2> QED BY <1>6, <2>1, <2>2, SameBatchType DEF Abandon, said, TypeOK
<1>7. CASE RecordReply(m)
  <2>1. Keeps /\ SameBatch
    BY <1>0, <1>7, RecordedKeeps, RevisionType DEF RecordReply, SameBatch
  <2>2. turn' \in [Messages -> {"unsent", "stored", "marked", "heard", "answered", "over"}]
    BY <1>7, TurnType DEF RecordReply
  <2> QED BY <1>7, <2>1, <2>2, SameBatchType DEF RecordReply, said, TypeOK
<1> QED BY <1>1, <1>2, <1>3, <1>4, <1>5, <1>6, <1>7 DEF EndTurn

(* A publication of another worker, from the transcript to the ledger.       *)
LEMMA NoteStepKeeps ==
    ASSUME TypeOK, NEW n \in Notes, PublishNote(n) \/ RecordNote(n)
    PROVE  TypeOK' /\ Keeps /\ SameBatch
<1>0. ledger \in Seq(Events) /\ transcript \in Seq(Revisions)
  BY DEF TypeOK
<1>1. CASE PublishNote(n)
  <2>1. Keeps /\ SameBatch
    BY <1>0, <1>1, SameKeeps DEF PublishNote, SameBatch
  <2>2. transcript' \in Seq(Revisions)
    BY <1>0, <1>1, RevisionType, AppendProperties DEF PublishNote
  <2>3. note' \in [Notes -> {"unsent", "stored", "over"}]
    BY <1>1 DEF PublishNote, TypeOK
  <2>4. TypeOK'
    BY <1>1, <2>1, <2>2, <2>3, SameBatchType DEF PublishNote, TypeOK
  <2> QED BY <2>1, <2>4
<1>2. CASE RecordNote(n)
  <2>1. Keeps /\ SameBatch
    BY <1>0, <1>2, RecordedKeeps, RevisionType DEF RecordNote, SameBatch
  <2>2. note' \in [Notes -> {"unsent", "stored", "over"}]
    BY <1>2 DEF RecordNote, TypeOK
  <2>3. TypeOK'
    BY <1>2, <2>1, <2>2, SameBatchType DEF RecordNote, said, TypeOK
  <2> QED BY <2>1, <2>3
<1> QED BY <1>1, <1>2

(* A retraction, in the transcript and then in the ledger.                   *)
LEMMA RetractionStepKeeps ==
    ASSUME TypeOK, RecordRetraction \/ \E m \in Messages : Retract(m)
    PROVE  TypeOK' /\ Keeps /\ SameBatch
<1>0. ledger \in Seq(Events) /\ transcript \in Seq(Revisions) /\ retracting \in Seq(Revisions)
  BY DEF TypeOK
<1>1. ASSUME NEW m \in Messages, Retract(m)
      PROVE  TypeOK' /\ Keeps /\ SameBatch
  <2>1. UNCHANGED ledger /\ cursor' = cursor /\ read' = read
    BY <1>1 DEF Retract
  <2>2. Keeps /\ SameBatch /\ run' \in RunType
    BY <1>0, <1>1, <2>1, SameKeeps, AnnounceKeeps DEF Retract
  <2>3. PICK k \in DOMAIN transcript :
           /\ transcript' = SubSeq(transcript, 1, k - 1)
           /\ retracting' = SubSeq(transcript, k, Len(transcript))
    BY <1>1 DEF Retract
  <2>4. /\ k \in 1..Len(transcript) /\ Len(transcript) \in Nat
        /\ \A j \in 1..Len(transcript) : transcript[j] \in Revisions
    BY <1>0, LenProperties
  <2>5. transcript' \in Seq(Revisions)
    <3>1. \A j \in 1..(k - 1) : transcript[j] \in Revisions
      BY <2>4
    <3> QED BY <2>3, <2>4, <3>1, SubSeqProperties
  <2>6. retracting' \in Seq(Revisions)
    <3>1. \A j \in k..Len(transcript) : transcript[j] \in Revisions
      BY <2>4
    <3> QED BY <2>3, <2>4, <3>1, SubSeqProperties
  <2>7. TypeOK'
    BY <1>1, <2>2, <2>5, <2>6, SameBatchType DEF Retract, TypeOK
  <2> QED BY <2>2, <2>7
<1>2. CASE RecordRetraction
  <2>1. Keeps /\ SameBatch
    BY <1>0, <1>2, RetractionKeeps DEF RecordRetraction, SameBatch
  <2>2. retracting' \in Seq(Revisions)
    BY <1>2, EmptySeq DEF RecordRetraction
  <2>3. TypeOK'
    BY <1>2, <2>1, <2>2, SameBatchType DEF RecordRetraction, said, TypeOK
  <2> QED BY <2>1, <2>3
<1> QED BY <1>1, <1>2

-----------------------------------------------------------------------------
(* Steps of the worker that keep its batch or let go of it.                  *)

KeepsBatch ==
    /\ cursor' = cursor /\ read' = read
    /\ \/ Resting'
       \/ ~Resting /\ run'.to = run.to /\ run'.batch = run.batch

LEMMA KeepsBatchType ==
    ASSUME TypeOK, Keeps, KeepsBatch, run' \in RunType,
           At("noting")' => run'.note \in Notes,
           transcript' \in Seq(Revisions), aged' \subseteq Revisions,
           turn' \in [Messages -> {"unsent", "stored", "marked", "heard", "answered", "over"}],
           note' \in [Notes -> {"unsent", "stored", "over"}],
           retracting' \in Seq(Revisions), feedback' \subseteq Doubtful,
           faults' \in 0..MaxFaults
    PROVE  TypeOK'
<1>1. Len(ledger) \in Nat /\ Len(ledger') \in Nat /\ Len(ledger) <= Len(ledger')
  BY LengthGrows DEF TypeOK
<1>2. cursor' \in 0..Len(ledger') /\ read' \subseteq 1..cursor'
  BY <1>1 DEF KeepsBatch, TypeOK
<1>3. ~Resting' => /\ run'.to \in cursor'..Len(ledger')
                   /\ run'.batch \subseteq (cursor' + 1)..run'.to
  <2> SUFFICES ASSUME ~Resting' PROVE /\ run'.to \in cursor'..Len(ledger')
                                      /\ run'.batch \subseteq (cursor' + 1)..run'.to
    OBVIOUS
  <2>1. /\ run'.to = run.to /\ run'.batch = run.batch /\ cursor' = cursor
        /\ run.to \in cursor..Len(ledger) /\ run.batch \subseteq (cursor + 1)..run.to
    BY DEF KeepsBatch, TypeOK
  <2>2. cursor \in Nat
    BY <1>1 DEF TypeOK
  <2> QED BY <1>1, <2>1, <2>2
<1>4. ledger' \in Seq(Events)
  BY DEF Keeps
<1> QED BY <1>2, <1>3, <1>4 DEF TypeOK

(* Going on, failing and giving up change nothing but the run.               *)
LEMMA RunStepKeeps ==
    ASSUME TypeOK,
           \/ Postpone \/ Begin \/ Fail \/ Accept \/ CloseFails \/ Started
           \/ \E m \in Messages : Acknowledge(m)
    PROVE  TypeOK' /\ Keeps /\ KeepsBatch
<1>0. ledger \in Seq(Events) /\ run \in RunType /\ faults \in Nat
  BY ReflectionAssumption DEF TypeOK
<1>1. Idle \in RunType /\ Idle.phase = "idle"
  BY DEF Idle, RunType
<1>2. ASSUME NEW phase \in {"running", "publishing", "closing"}
      PROVE  /\ [run EXCEPT !.phase = phase] \in RunType
             /\ [run EXCEPT !.phase = phase].phase = phase
             /\ [run EXCEPT !.phase = phase].to = run.to
             /\ [run EXCEPT !.phase = phase].batch = run.batch
  BY <1>0 DEF RunType
<1>3. UNCHANGED <<ledger, cursor, read, transcript, aged, turn, note, retracting>>
  BY DEF Postpone, Begin, Fail, Accept, CloseFails, Started, Acknowledge, Rest, said, handlers
<1>4. Keeps
  BY <1>0, <1>3, SameKeeps
<1>5. feedback' \subseteq Doubtful
  BY DEF Postpone, Begin, Fail, Accept, CloseFails, Started, Acknowledge, TypeOK
<1>6. faults' \in 0..MaxFaults
  <2>1. CASE CloseFails
    BY <1>0, <2>1, ReflectionAssumption DEF CloseFails
  <2>2. CASE ~CloseFails
    BY <2>2 DEF Postpone, Begin, Fail, Accept, Started, Acknowledge, TypeOK
  <2> QED BY <2>1, <2>2
<1>7. \/ run' = Idle
      \/ ~Resting /\ \E phase \in {"running", "publishing", "closing"} :
            run' = [run EXCEPT !.phase = phase]
      \/ UNCHANGED run /\ ~Resting
  BY DEF Postpone, Begin, Fail, Accept, CloseFails, Started, Acknowledge, Go, At, Resting
<1>8. KeepsBatch /\ run' \in RunType /\ (At("noting")' => run'.note \in Notes)
  <2>1. CASE run' = Idle
    BY <1>1, <1>3, <2>1 DEF KeepsBatch, Resting, At
  <2>2. CASE ~Resting /\ \E phase \in {"running", "publishing", "closing"} :
                run' = [run EXCEPT !.phase = phase]
    BY <1>2, <1>3, <2>2 DEF KeepsBatch, At
  <2>3. CASE UNCHANGED run /\ ~Resting
    BY <1>0, <1>3, <2>3 DEF KeepsBatch, At, TypeOK
  <2> QED BY <1>7, <2>1, <2>2, <2>3
<1>9. TypeOK'
  BY <1>3, <1>4, <1>5, <1>6, <1>8, KeepsBatchType DEF TypeOK
<1> QED BY <1>4, <1>8, <1>9

(* The outreach of a run, in the transcript and then in the ledger.          *)
LEMMA OutreachKeeps ==
    ASSUME TypeOK, Publish \/ NoteOutreach
    PROVE  TypeOK' /\ Keeps /\ KeepsBatch
<1>0. /\ ledger \in Seq(Events) /\ run \in RunType /\ transcript \in Seq(Revisions)
      /\ note \in [Notes -> {"unsent", "stored", "over"}]
  BY DEF TypeOK
<1>1. CASE Publish
  <2>1. Keeps
    BY <1>0, <1>1, SameKeeps DEF Publish
  <2>2. \/ run' = [run EXCEPT !.phase = "closing"] /\ UNCHANGED <<transcript, note>>
        \/ \E n \in Notes :
              /\ note' = [note EXCEPT ![n] = "stored"]
              /\ transcript' = Append(transcript, Assistant(n))
              /\ run' = [run EXCEPT !.phase = "noting", !.note = n]
    BY <1>1 DEF Publish, Go
  <2>3. ~Resting /\ cursor' = cursor /\ read' = read
    BY <1>1 DEF Publish, Resting, At
  <2>4. KeepsBatch /\ run' \in RunType /\ (At("noting")' => run'.note \in Notes)
    BY <1>0, <2>2, <2>3 DEF KeepsBatch, At, RunType
  <2>5. transcript' \in Seq(Revisions)
    <3>1. CASE UNCHANGED transcript
      BY <1>0, <3>1
    <3>2. ASSUME NEW n \in Notes, transcript' = Append(transcript, Assistant(n))
          PROVE  transcript' \in Seq(Revisions)
      BY <1>0, <3>2, RevisionType, AppendProperties
    <3> QED BY <2>2, <3>1, <3>2
  <2>6. note' \in [Notes -> {"unsent", "stored", "over"}]
    BY <1>0, <2>2
  <2>7. TypeOK'
    BY <1>1, <2>1, <2>4, <2>5, <2>6, KeepsBatchType DEF Publish, TypeOK
  <2> QED BY <2>1, <2>4, <2>7
<1>2. CASE NoteOutreach
  <2>1. run.note \in Notes
    BY <1>2 DEF NoteOutreach, TypeOK
  <2>2. Keeps
    BY <1>0, <1>2, <2>1, RecordedKeeps, RevisionType DEF NoteOutreach
  <2>3. KeepsBatch /\ run' \in RunType /\ (At("noting")' => run'.note \in Notes)
    BY <1>0, <1>2 DEF NoteOutreach, KeepsBatch, At, RunType, Resting
  <2>4. note' \in [Notes -> {"unsent", "stored", "over"}]
    BY <1>0, <1>2 DEF NoteOutreach
  <2>5. TypeOK'
    BY <1>2, <2>2, <2>3, <2>4, KeepsBatchType DEF NoteOutreach, said, TypeOK
  <2> QED BY <2>2, <2>3, <2>5
<1> QED BY <1>1, <1>2

(* A restart lets go of everything, then records what the ledger lacks; the  *)
(* passing of time only marks events as old.                                 *)
LEMMA RestartKeeps ==
    ASSUME TypeOK, Restart \/ Backfill \/ Age
    PROVE  TypeOK' /\ Keeps /\ KeepsBatch
<1>0. /\ ledger \in Seq(Events) /\ run \in RunType /\ transcript \in Seq(Revisions)
      /\ DOMAIN transcript = 1..Len(transcript) /\ faults \in Nat
  BY ReflectionAssumption, LenProperties DEF TypeOK
<1>1. CASE Restart
  <2>1. Keeps
    BY <1>0, <1>1, SameKeeps DEF Restart
  <2>2. run' \in RunType /\ run'.phase = "starting"
    BY <1>1 DEF Restart, Idle, RunType
  <2>3. KeepsBatch /\ (At("noting")' => run'.note \in Notes)
    BY <1>1, <2>2 DEF Restart, KeepsBatch, At, Resting
  <2>4. /\ turn' \in [Messages -> {"unsent", "stored", "marked", "heard", "answered", "over"}]
        /\ note' \in [Notes -> {"unsent", "stored", "over"}]
    BY <1>1 DEF Restart
  <2>5. retracting' \in Seq(Revisions) /\ faults' \in 0..MaxFaults
    BY <1>0, <1>1, EmptySeq, ReflectionAssumption DEF Restart
  <2>6. TypeOK'
    BY <1>1, <2>1, <2>2, <2>3, <2>4, <2>5, KeepsBatchType DEF Restart, said, TypeOK
  <2> QED BY <2>1, <2>3, <2>6
<1>2. CASE Backfill
  <2>1. PICK k \in 1..Len(transcript) : ledger' = Recorded(transcript[k], FALSE)
    BY <1>0, <1>2 DEF Backfill
  <2>2. transcript[k] \in Revisions
    BY <1>0, ElementOfSeq
  <2>3. Keeps
    BY <1>0, <2>1, <2>2, RecordedKeeps
  <2>4. KeepsBatch /\ run' \in RunType /\ (At("noting")' => run'.note \in Notes)
    BY <1>0, <1>2 DEF Backfill, KeepsBatch, At, Resting
  <2>5. TypeOK'
    BY <1>2, <2>3, <2>4, KeepsBatchType DEF Backfill, said, handlers, TypeOK
  <2> QED BY <2>3, <2>4, <2>5
<1>3. CASE Age
  <2>1. /\ DOMAIN ledger = 1..Len(ledger) /\ Len(ledger) \in Nat
        /\ \A i \in 1..Len(ledger) : ledger[i] \in Events
    BY <1>0, LenProperties
  <2>2. ledger' \in [1..Len(ledger) -> Events]
    <3>1. \A i \in 1..Len(ledger) : [ledger[i] EXCEPT !.old = TRUE] \in Events
      BY <2>1 DEF Events
    <3> QED BY <1>3, <2>1, <3>1 DEF Age
  <2>3. ledger' \in Seq(Events) /\ Len(ledger') = Len(ledger)
    BY <1>0, <2>2, RewrittenType
  <2>4. \A i \in 1..Len(ledger) : ledger'[i].state = ledger[i].state
    <3>1. \A i \in 1..Len(ledger) : [ledger[i] EXCEPT !.old = TRUE].state = ledger[i].state
      BY <2>1 DEF Events
    <3> QED BY <1>3, <2>1, <3>1 DEF Age
  <2>5. Keeps
    BY <2>1, <2>3, <2>4 DEF Keeps, Live
  <2>6. KeepsBatch /\ run' \in RunType /\ (At("noting")' => run'.note \in Notes)
    BY <1>0, <1>3 DEF Age, KeepsBatch, At, Resting
  <2>7. aged' \subseteq Revisions
    BY <1>0, <1>3, ElementOfSeq DEF Age, ToSet, TypeOK
  <2>8. TypeOK'
    BY <1>3, <2>5, <2>6, <2>7, KeepsBatchType DEF Age, handlers, TypeOK
  <2> QED BY <2>5, <2>6, <2>8
<1> QED BY <1>1, <1>2, <1>3

-----------------------------------------------------------------------------
(* The invariant: what the cursor passed was read, and a batch is complete.  *)

PassedAreRead ==
    \A i \in 1..Len(ledger) : Live(i) /\ i <= cursor => i \in read

BatchIsComplete ==
    ~Resting => \A i \in 1..Len(ledger) :
                    Live(i) /\ cursor < i /\ i <= run.to => i \in run.batch

IInv == TypeOK /\ PassedAreRead /\ BatchIsComplete

(* What is recorded meanwhile comes behind the batch; what is retracted only *)
(* drops out.                                                                *)
LEMMA KeepsIInv ==
    ASSUME IInv, TypeOK', Keeps, KeepsBatch
    PROVE  IInv'
<1>1. /\ Len(ledger) \in Nat /\ Len(ledger') \in Nat /\ Len(ledger) <= Len(ledger')
      /\ cursor \in 0..Len(ledger)
  BY LengthGrows DEF IInv, TypeOK
<1>2. PassedAreRead'
  <2> SUFFICES ASSUME NEW i \in 1..Len(ledger'), Live(i)', i <= cursor'
               PROVE  i \in read'
    BY DEF PassedAreRead
  <2>1. cursor' = cursor /\ read' = read
    BY DEF KeepsBatch
  <2>2. i \in 1..Len(ledger)
    BY <1>1, <2>1
  <2>3. Live(i)
    BY <2>2 DEF Keeps
  <2> QED BY <2>1, <2>2, <2>3 DEF IInv, PassedAreRead
<1>3. BatchIsComplete'
  <2> SUFFICES ASSUME ~Resting',
                      NEW i \in 1..Len(ledger'), Live(i)', cursor' < i, i <= run'.to
               PROVE  i \in run'.batch
    BY DEF BatchIsComplete
  <2>1. /\ ~Resting /\ run'.to = run.to /\ run'.batch = run.batch /\ cursor' = cursor
        /\ run.to \in cursor..Len(ledger)
    BY DEF KeepsBatch, IInv, TypeOK
  <2>2. i \in 1..Len(ledger)
    BY <1>1, <2>1
  <2>3. Live(i)
    BY <2>2 DEF Keeps
  <2> QED BY <2>1, <2>2, <2>3 DEF IInv, BatchIsComplete
<1> QED BY <1>2, <1>3 DEF IInv

LEMMA SameBatchIsKept ==
    ASSUME TypeOK, SameBatch
    PROVE  KeepsBatch
BY DEF SameBatch, KeepsBatch, Resting

(* read_events_after and actionable_prefix: no live event before the end of  *)
(* the batch is left out of it.                                              *)
LEMMA PrefixIsComplete ==
    ASSUME TypeOK, NEW to \in Readable
    PROVE  /\ to \in 1..Len(ledger) /\ cursor < to
           /\ UpTo(Readable, to) \subseteq (cursor + 1)..to
           /\ \A i \in 1..Len(ledger) :
                 Live(i) /\ cursor < i /\ i <= to => i \in UpTo(Readable, to)
<1>1. /\ DOMAIN ledger = 1..Len(ledger) /\ Len(ledger) \in Nat
      /\ cursor \in Nat
  BY LenProperties DEF TypeOK
<1>2. Readable \subseteq Unread /\ Unread \subseteq 1..Len(ledger)
  BY <1>1 DEF Readable, Unread
<1>3. \A i \in Unread : cursor < i
  BY DEF Unread
<1>4. to \in 1..Len(ledger) /\ cursor < to
  BY <1>2, <1>3
<1>5. UpTo(Readable, to) \subseteq (cursor + 1)..to
  <2> SUFFICES ASSUME NEW j \in UpTo(Readable, to)
               PROVE  j \in (cursor + 1)..to
    OBVIOUS
  <2>1. j \in Readable /\ j <= to
    BY DEF UpTo
  <2>2. j \in 1..Len(ledger) /\ cursor < j
    BY <1>2, <1>3, <2>1
  <2> QED BY <1>1, <1>4, <2>1, <2>2
<1>6. ASSUME NEW i \in 1..Len(ledger), Live(i), cursor < i, i <= to
      PROVE  i \in UpTo(Readable, to)
  <2>1. i \in Unread
    BY <1>1, <1>6 DEF Unread
  <2>2. UpTo(Unread, i) \subseteq UpTo(Unread, to)
    <3> SUFFICES ASSUME NEW j \in UpTo(Unread, i)
                 PROVE  j \in UpTo(Unread, to)
      OBVIOUS
    <3>1. j \in Unread /\ j <= i
      BY DEF UpTo
    <3>2. j \in 1..Len(ledger)
      BY <1>2, <3>1
    <3>3. j <= to
      BY <1>1, <1>4, <1>6, <3>1, <3>2
    <3> QED BY <3>1, <3>3 DEF UpTo
  <2>3. IsFiniteSet(UpTo(Unread, to))
    <3>1. IsFiniteSet(1..Len(ledger))
      BY <1>1, FS_Interval
    <3>2. UpTo(Unread, to) \subseteq 1..Len(ledger)
      BY <1>2 DEF UpTo
    <3> QED BY <3>1, <3>2, FS_Subset
  <2>4. /\ Cardinality(UpTo(Unread, i)) <= Cardinality(UpTo(Unread, to))
        /\ Cardinality(UpTo(Unread, i)) \in Nat /\ Cardinality(UpTo(Unread, to)) \in Nat
    BY <2>2, <2>3, FS_Subset, FS_CardinalityType
  <2>5. Cardinality(UpTo(Unread, to)) <= Window
    BY DEF Readable
  <2>6. Cardinality(UpTo(Unread, i)) <= Window
    BY <2>4, <2>5, ReflectionAssumption
  <2>7. i \in Readable
    BY <2>1, <2>6 DEF Readable
  <2> QED BY <1>6, <2>7 DEF UpTo
<1> QED BY <1>4, <1>5, <1>6

LEMMA TakeIInv ==
    ASSUME IInv, ReadPending \/ ReadWithoutEvents
    PROVE  IInv'
<1>0. /\ ledger \in Seq(Events) /\ Len(ledger) \in Nat /\ cursor \in 0..Len(ledger)
  BY LenProperties DEF IInv, TypeOK
<1>1. ASSUME NEW to \in Nat, NEW batch \in SUBSET Nat, Take(to, batch),
             to \in cursor..Len(ledger), batch \subseteq (cursor + 1)..to,
             \A i \in 1..Len(ledger) : Live(i) /\ cursor < i /\ i <= to => i \in batch
      PROVE  IInv'
  <2>1. /\ run' \in RunType /\ run'.phase = "batched" /\ run'.to = to /\ run'.batch = batch
    BY <1>1 DEF Take, Idle, RunType
  <2>2. UNCHANGED <<transcript, aged, ledger, cursor, turn, note, retracting, feedback, read,
                    faults>>
    BY <1>1 DEF Take, Rest, said, handlers
  <2>3. TypeOK'
    BY <1>1, <2>1, <2>2 DEF IInv, TypeOK, At
  <2>4. PassedAreRead'
    BY <2>2 DEF IInv, PassedAreRead, Live
  <2>5. BatchIsComplete'
    BY <1>1, <2>1, <2>2 DEF BatchIsComplete, Live
  <2> QED BY <2>3, <2>4, <2>5 DEF IInv
<1>2. CASE ReadPending
  <2>1. PICK to \in Readable : Take(to, UpTo(Readable, to))
    BY <1>2 DEF ReadPending
  <2>2. /\ to \in 1..Len(ledger) /\ cursor < to
        /\ UpTo(Readable, to) \subseteq (cursor + 1)..to
        /\ \A i \in 1..Len(ledger) :
              Live(i) /\ cursor < i /\ i <= to => i \in UpTo(Readable, to)
    BY PrefixIsComplete DEF IInv
  <2>3. to \in Nat /\ to \in cursor..Len(ledger) /\ UpTo(Readable, to) \in SUBSET Nat
    BY <1>0, <2>2
  <2> QED BY <1>1, <2>1, <2>2, <2>3
<1>3. CASE ReadWithoutEvents
  <2>1. Take(cursor, {})
    BY <1>3 DEF ReadWithoutEvents
  <2>2. cursor \in Nat /\ cursor \in cursor..Len(ledger)
    BY <1>0
  <2>3. \A i \in 1..Len(ledger) : ~(cursor < i /\ i <= cursor)
    BY <1>0
  <2> QED BY <1>1, <2>1, <2>2, <2>3
<1> QED BY <1>2, <1>3

(* complete_run: the cursor moves over the batch and nothing else.           *)
LEMMA CloseIInv ==
    ASSUME IInv, Close
    PROVE  IInv'
<1>0. /\ ledger \in Seq(Events) /\ Len(ledger) \in Nat /\ cursor \in 0..Len(ledger)
      /\ DOMAIN ledger = 1..Len(ledger)
      /\ \A i \in 1..Len(ledger) : ledger[i] \in Events
  BY LenProperties DEF IInv, TypeOK
<1>1. ~Resting
  BY DEF Close, Resting, At
<1>2. run.to \in cursor..Len(ledger) /\ run.batch \subseteq (cursor + 1)..run.to
  BY <1>1 DEF IInv, TypeOK
<1>3. cursor' = run.to /\ read' = read \cup run.batch /\ ledger' = Pruned(run.to)
  BY DEF Close
<1>4. ledger' \in [1..Len(ledger) -> Events]
  <2>1. \A i \in 1..Len(ledger) : [ledger[i] EXCEPT !.state = "pruned"] \in Events
    BY <1>0 DEF Events
  <2> QED BY <1>0, <1>3, <2>1 DEF Pruned
<1>5. ledger' \in Seq(Events) /\ Len(ledger') = Len(ledger)
  BY <1>0, <1>4, RewrittenType
<1>6. \A i \in 1..Len(ledger) : Live(i)' => Live(i)
  <2>1. \A i \in 1..Len(ledger) : [ledger[i] EXCEPT !.state = "pruned"].state = "pruned"
    BY <1>0 DEF Events
  <2> QED BY <1>0, <1>3, <2>1 DEF Pruned, Live
<1>7. run' = Idle /\ run' \in RunType /\ Resting' /\ ~At("noting")'
  BY DEF Close, Idle, RunType, Resting, At
<1>8. UNCHANGED <<transcript, aged, turn, note, retracting, feedback, faults>>
  BY DEF Close, Rest, said, handlers
<1>9. TypeOK'
  <2>1. cursor' \in 0..Len(ledger')
    BY <1>0, <1>2, <1>3, <1>5
  <2>2. read' \subseteq 1..cursor'
    <3>1. read \subseteq 1..cursor
      BY DEF IInv, TypeOK
    <3> SUFFICES ASSUME NEW j \in read \cup run.batch
                 PROVE  j \in 1..run.to
      BY <1>3
    <3>2. CASE j \in read
      <4>1. j \in 1..cursor
        BY <3>1, <3>2
      <4> QED BY <1>0, <1>2, <4>1
    <3>3. CASE j \in run.batch
      <4>1. j \in (cursor + 1)..run.to
        BY <1>2, <3>3
      <4> QED BY <1>0, <1>2, <4>1
    <3> QED BY <3>2, <3>3
  <2> QED BY <1>5, <1>7, <1>8, <2>1, <2>2 DEF IInv, TypeOK
<1>10. PassedAreRead'
  <2> SUFFICES ASSUME NEW i \in 1..Len(ledger'), Live(i)', i <= cursor'
               PROVE  i \in read'
    BY DEF PassedAreRead
  <2>1. i \in 1..Len(ledger) /\ Live(i) /\ i <= run.to
    BY <1>3, <1>5, <1>6
  <2>2. CASE i <= cursor
    BY <1>3, <2>1, <2>2 DEF IInv, PassedAreRead
  <2>3. CASE cursor < i
    BY <1>1, <1>3, <2>1, <2>3 DEF IInv, BatchIsComplete
  <2> QED BY <1>0, <2>1, <2>2, <2>3
<1>11. BatchIsComplete'
  BY <1>7 DEF BatchIsComplete
<1> QED BY <1>9, <1>10, <1>11 DEF IInv

LEMMA InitIInv == Init => IInv
<1> SUFFICES ASSUME Init PROVE IInv
  OBVIOUS
<1>1. Idle \in RunType /\ Idle.phase = "idle"
  BY DEF Idle, RunType
<1>2. Len(ledger) = 0
  BY EmptySeq DEF Init
<1>3. TypeOK
  BY <1>1, <1>2, EmptySeq, ReflectionAssumption DEF Init, TypeOK, Resting, At
<1>4. PassedAreRead /\ BatchIsComplete
  BY <1>2 DEF PassedAreRead, BatchIsComplete
<1> QED BY <1>3, <1>4 DEF IInv

(* Every step but Close keeps events from being pruned and the cursor from   *)
(* moving.                                                                   *)
LEMMA StepIInv ==
    ASSUME IInv, [Next]_vars
    PROVE  IInv' /\ (Close \/ (Keeps /\ cursor' = cursor))
<1>0. TypeOK
  BY DEF IInv
<1>1. ASSUME TypeOK', Keeps, KeepsBatch
      PROVE  IInv' /\ (Close \/ (Keeps /\ cursor' = cursor))
  BY <1>1, KeepsIInv DEF KeepsBatch
<1>2. CASE UNCHANGED vars
  <2>1. UNCHANGED <<transcript, aged, ledger, cursor, turn, note, retracting, feedback, run,
                    read, faults>>
    BY <1>2 DEF vars, said, handlers
  <2>2. Keeps
    BY <1>0, <2>1, SameKeeps DEF TypeOK
  <2>3. KeepsBatch
    BY <2>1 DEF KeepsBatch, Resting
  <2>4. TypeOK'
    BY <1>0, <2>1 DEF TypeOK, Resting, At
  <2> QED BY <1>1, <2>2, <2>3, <2>4
<1>3. ASSUME NEW m \in Messages,
             Ask(m) \/ MarkFeedback(m) \/ RecordUser(m) \/ EndTurn(m) \/ RecordReply(m)
      PROVE  TypeOK' /\ Keeps /\ KeepsBatch
  BY <1>0, <1>3, TurnStepKeeps, SameBatchIsKept
<1>4. ASSUME RecordRetraction \/ \E m \in Messages : Retract(m)
      PROVE  TypeOK' /\ Keeps /\ KeepsBatch
  BY <1>0, <1>4, RetractionStepKeeps, SameBatchIsKept
<1>5. ASSUME NEW n \in Notes, PublishNote(n) \/ RecordNote(n)
      PROVE  TypeOK' /\ Keeps /\ KeepsBatch
  BY <1>0, <1>5, NoteStepKeeps, SameBatchIsKept
<1>6. CASE ReadPending \/ ReadWithoutEvents
  <2>1. UNCHANGED <<ledger, cursor>>
    BY <1>6 DEF ReadPending, ReadWithoutEvents, Take
  <2>2. Keeps
    BY <1>0, <2>1, SameKeeps DEF TypeOK
  <2> QED BY <1>6, <2>1, <2>2, TakeIInv
<1>7. CASE Close
  BY <1>7, CloseIInv
<1>8. CASE \/ Postpone \/ Begin \/ Fail \/ Accept \/ CloseFails \/ Started
           \/ \E m \in Messages : Acknowledge(m)
  BY <1>0, <1>1, <1>8, RunStepKeeps
<1>9. CASE Publish \/ NoteOutreach
  BY <1>0, <1>1, <1>9, OutreachKeeps
<1>10. CASE Restart \/ Backfill \/ Age
  BY <1>0, <1>1, <1>10, RestartKeeps
<1> QED
  BY <1>1, <1>2, <1>3, <1>4, <1>5, <1>6, <1>7, <1>8, <1>9, <1>10 DEF Next, Worker

-----------------------------------------------------------------------------

LEMMA Invariant == Spec => []IInv
<1>1. IInv /\ [Next]_vars => IInv'
  BY StepIInv
<1> QED BY InitIInv, <1>1, PTL DEF Spec

(* The types; the batch of a run lies between the cursor and the end of the  *)
(* ledger, and nothing behind the cursor counts as read.                     *)
THEOREM LedgerIsTyped == Spec => []TypeOK
<1>1. IInv => TypeOK
  BY DEF IInv
<1> QED BY Invariant, <1>1, PTL

(* The cursor passes no live event, and no event is deleted, that a          *)
(* completed run has not read.                                               *)
THEOREM WorkerSkipsNothing == Spec => NothingIsSkipped
<1>1. ASSUME IInv, IInv', [Next]_vars
      PROVE  \A i \in DOMAIN ledger :
                /\ Live(i)
                /\ (Live(i)' /\ i <= cursor') \/ ledger'[i].state = "pruned"
                => i \in read'
  <2>0. /\ DOMAIN ledger = 1..Len(ledger) /\ Len(ledger) \in Nat
        /\ \A i \in 1..Len(ledger) : ledger[i] \in Events
    BY <1>1, LenProperties DEF IInv, TypeOK
  <2> SUFFICES ASSUME NEW i \in 1..Len(ledger), Live(i),
                      (Live(i)' /\ i <= cursor') \/ ledger'[i].state = "pruned"
               PROVE  i \in read'
    BY <2>0
  <2>1. CASE Close
    <3>1. i <= cursor'
      <4>1. ledger' = Pruned(run.to) /\ cursor' = run.to
        BY <2>1 DEF Close
      <4>2. CASE i <= run.to
        BY <4>1, <4>2
      <4>3. CASE ~(i <= run.to)
        BY <2>0, <4>1, <4>3 DEF Pruned, Live
      <4> QED BY <4>2, <4>3
    <3>2. read' = read \cup run.batch /\ cursor' = run.to /\ ~Resting
      BY <2>1 DEF Close, Resting, At
    <3>3. cursor \in Nat
      BY <1>1 DEF IInv, TypeOK
    <3>4. CASE i <= cursor
      BY <1>1, <3>2, <3>4 DEF IInv, PassedAreRead
    <3>5. CASE cursor < i
      BY <1>1, <3>1, <3>2, <3>5 DEF IInv, BatchIsComplete
    <3> QED BY <2>0, <3>3, <3>4, <3>5
  <2>2. CASE Keeps /\ cursor' = cursor
    <3>1. ledger'[i].state # "pruned"
      BY <2>2 DEF Keeps, Live
    <3>2. Live(i)' /\ i <= cursor'
      BY <3>1
    <3>3. i \in 1..Len(ledger')
      BY <1>1, <2>0, <2>2, LengthGrows DEF IInv, TypeOK
    <3> QED BY <1>1, <3>2, <3>3 DEF IInv, PassedAreRead
  <2> QED BY <1>1, <2>1, <2>2, StepIInv
<1>2. IInv /\ IInv' /\ [Next]_vars
        => [\A i \in DOMAIN ledger :
               /\ Live(i)
               /\ (Live(i)' /\ i <= cursor') \/ ledger'[i].state = "pruned"
               => i \in read']_vars
  BY <1>1
<1> QED BY Invariant, <1>2, PTL DEF Spec, NothingIsSkipped

-----------------------------------------------------------------------------
(* What has been said, by the phases of the handlers.                        *)

Spoken(rev) ==
    \/ rev.role = "user" /\ rev.of \in Messages /\ turn[rev.of] # "unsent"
    \/ rev.role = "assistant" /\ rev.of \in Messages /\ turn[rev.of] \in {"answered", "over"}
    \/ rev.of \in Notes /\ note[rev.of] # "unsent"

(* Nobody is left who would write the revision's event, but for a restart.   *)
Ended(rev) ==
    \/ rev.of \in Messages /\ turn[rev.of] = "over"
    \/ rev.of \in Notes /\ note[rev.of] = "over"

InTranscript(rev) == \E k \in DOMAIN transcript : transcript[k] = rev
InRetraction(rev) == \E k \in DOMAIN retracting : retracting[k] = rev

SaidAreSpoken ==
    \A rev \in Revisions : InTranscript(rev) \/ InRetraction(rev) => Spoken(rev)

(* Every revision is told once and retracted once.                           *)
SaidOnce ==
    /\ \A j, k \in DOMAIN transcript : transcript[j] = transcript[k] => j = k
    /\ \A j, k \in DOMAIN retracting : retracting[j] = retracting[k] => j = k
    /\ \A rev \in Revisions : ~(InTranscript(rev) /\ InRetraction(rev))

OutreachIsStored == At("noting") => note[run.note] = "stored"

(* What an event of the ledger says of its revision.                         *)
Truthful(i) ==
    LET e == ledger[i] IN
    /\ Spoken(e.rev)
    /\ e.kind = "settled" => Ended(e.rev)
    /\ e.kind = "retracted" => ~InTranscript(e.rev) /\ ~InRetraction(e.rev)
    /\ e.old /\ e.kind = e.rev.role =>
          e.rev \in aged \/ (Ended(e.rev) /\ ~InTranscript(e.rev))
    /\ e.state = "pruned" => e.old

Unique(i, j) ==
    ledger[i].kind = ledger[j].kind /\ ledger[i].rev = ledger[j].rev /\ ledger[i].rev \notin aged
    => i = j

OnceInv ==
    /\ SaidAreSpoken
    /\ SaidOnce
    /\ OutreachIsStored
    /\ \A i \in DOMAIN ledger : Truthful(i)
    /\ \A i, j \in DOMAIN ledger : Unique(i, j)

-----------------------------------------------------------------------------
(* The steps, as far as these facts are concerned.                           *)

(* Handlers go forward only.                                                 *)
Progress ==
    /\ \A m \in Messages :
          /\ turn[m] # "unsent" => turn'[m] # "unsent"
          /\ turn[m] \in {"answered", "over"} => turn'[m] \in {"answered", "over"}
          /\ turn[m] = "over" => turn'[m] = "over"
    /\ \A n \in Notes :
          /\ note[n] # "unsent" => note'[n] # "unsent"
          /\ note[n] = "over" => note'[n] = "over"

Says ==
    /\ \E rev \in Revisions :
          /\ ~Spoken(rev) /\ Spoken(rev)'
          /\ transcript' = Append(transcript, rev)
    /\ UNCHANGED <<aged, ledger, retracting>>

Retracts ==
    /\ retracting = <<>>
    /\ \E k \in DOMAIN transcript :
          /\ transcript' = SubSeq(transcript, 1, k - 1)
          /\ retracting' = SubSeq(transcript, k, Len(transcript))
    /\ UNCHANGED <<aged, ledger>>

Records ==
    /\ \E rev \in Revisions, asks \in BOOLEAN :
          /\ ledger' = Recorded(rev, asks)
          /\ Spoken(rev) /\ (InTranscript(rev) \/ ~Ended(rev))
    /\ UNCHANGED <<transcript, aged, retracting>>

Settles ==
    /\ \E m \in Messages :
          /\ turn[m] = "heard" /\ turn'[m] = "over"
          /\ ledger' = Append(ledger, Event("settled", User(m), FALSE))
    /\ UNCHANGED <<transcript, aged, retracting>>

Hides ==
    /\ ledger' = WithRetraction(retracting)
    /\ retracting' = <<>>
    /\ UNCHANGED <<transcript, aged>>

Prunes ==
    /\ \E upto \in Nat : ledger' = Pruned(upto)
    /\ UNCHANGED <<transcript, aged, retracting>>

Rests ==
    /\ retracting' \in {retracting, <<>>}
    /\ UNCHANGED <<transcript, aged, ledger>>

StepShape == Says \/ Retracts \/ Records \/ Settles \/ Hides \/ Prunes \/ Age \/ Rests

LEMMA TurnProgress ==
    ASSUME TypeOK, NEW m \in Messages, NEW from, NEW to, Turn(m, from, to), UNCHANGED note,
           <<from, to>> \in {<<"unsent", "stored">>, <<"stored", "marked">>, <<"stored", "heard">>,
                             <<"marked", "heard">>, <<"heard", "answered">>, <<"heard", "over">>,
                             <<"answered", "over">>}
    PROVE  /\ Progress
           /\ turn[m] = from /\ turn'[m] = to
<1>1. turn[m] = from /\ turn' = [turn EXCEPT ![m] = to]
  BY DEF Turn
<1>2. turn \in [Messages -> {"unsent", "stored", "marked", "heard", "answered", "over"}]
  BY DEF TypeOK
<1>3. turn'[m] = to /\ \A k \in Messages \ {m} : turn'[k] = turn[k]
  BY <1>1, <1>2
<1>4. \A k \in Messages :
         /\ turn[k] # "unsent" => turn'[k] # "unsent"
         /\ turn[k] \in {"answered", "over"} => turn'[k] \in {"answered", "over"}
         /\ turn[k] = "over" => turn'[k] = "over"
  BY <1>1, <1>3
<1> QED BY <1>1, <1>3, <1>4 DEF Progress

LEMMA SamePhases ==
    ASSUME UNCHANGED <<turn, note>>
    PROVE  Progress
BY DEF Progress

LEMMA UserSpoken ==
    ASSUME NEW m \in Messages
    PROVE  /\ User(m) \in Revisions
           /\ Spoken(User(m)) <=> turn[m] # "unsent"
           /\ Spoken(User(m))' <=> turn'[m] # "unsent"
           /\ Ended(User(m)) <=> turn[m] = "over"
           /\ Ended(User(m))' <=> turn'[m] = "over"
<1>1. User(m) \in Revisions /\ User(m).role = "user" /\ User(m).of = m /\ m \notin Notes
  BY RevisionType, ReflectionAssumption DEF User
<1> QED BY <1>1 DEF Spoken, Ended

LEMMA AssistantSpoken ==
    ASSUME NEW m \in Messages
    PROVE  /\ Assistant(m) \in Revisions
           /\ Spoken(Assistant(m)) <=> turn[m] \in {"answered", "over"}
           /\ Spoken(Assistant(m))' <=> turn'[m] \in {"answered", "over"}
           /\ Ended(Assistant(m)) <=> turn[m] = "over"
<1>1. /\ Assistant(m) \in Revisions /\ Assistant(m).role = "assistant" /\ Assistant(m).of = m
      /\ m \notin Notes
  BY RevisionType, ReflectionAssumption DEF Assistant
<1> QED BY <1>1 DEF Spoken, Ended

LEMMA NoteSpoken ==
    ASSUME NEW n \in Notes
    PROVE  /\ Assistant(n) \in Revisions
           /\ Spoken(Assistant(n)) <=> note[n] # "unsent"
           /\ Spoken(Assistant(n))' <=> note'[n] # "unsent"
           /\ Ended(Assistant(n)) <=> note[n] = "over"
<1>1. /\ Assistant(n) \in Revisions /\ Assistant(n).role = "assistant" /\ Assistant(n).of = n
      /\ n \notin Messages
  BY RevisionType, ReflectionAssumption DEF Assistant
<1> QED BY <1>1 DEF Spoken, Ended

LEMMA TurnShape ==
    ASSUME TypeOK, NEW m \in Messages,
           Ask(m) \/ MarkFeedback(m) \/ RecordUser(m) \/ EndTurn(m) \/ RecordReply(m)
    PROVE  Progress /\ StepShape
<1>1. CASE Ask(m)
  <2>1. Progress /\ turn[m] = "unsent" /\ turn'[m] = "stored"
    BY <1>1, TurnProgress DEF Ask
  <2>2. Says
    BY <1>1, <2>1, UserSpoken DEF Ask, Says
  <2> QED BY <2>1, <2>2 DEF StepShape
<1>2. CASE MarkFeedback(m)
  <2>1. Progress
    BY <1>2, TurnProgress DEF MarkFeedback
  <2> QED BY <1>2, <2>1 DEF MarkFeedback, said, StepShape, Rests
<1>3. CASE RecordUser(m)
  <2>1. PICK from \in {"stored", "marked"} : Turn(m, from, "heard")
    BY <1>3 DEF RecordUser
  <2>2. Progress /\ turn[m] = from
    BY <1>3, <2>1, TurnProgress DEF RecordUser
  <2>3. Spoken(User(m)) /\ ~Ended(User(m)) /\ User(m) \in Revisions
    BY <2>2, UserSpoken
  <2>4. (m \in Doubtful) \in BOOLEAN
    OBVIOUS
  <2>5. ledger' = Recorded(User(m), m \in Doubtful) /\ UNCHANGED <<transcript, aged, retracting>>
    BY <1>3 DEF RecordUser, said
  <2>6. Records
    BY <2>3, <2>4, <2>5, Zenon DEF Records
  <2> QED BY <2>2, <2>6 DEF StepShape
<1>4. CASE Reply(m)
  <2>1. Progress /\ turn[m] = "heard" /\ turn'[m] = "answered"
    BY <1>4, TurnProgress DEF Reply
  <2>2. Says
    BY <1>4, <2>1, AssistantSpoken DEF Reply, Says
  <2> QED BY <2>1, <2>2 DEF StepShape
<1>5. CASE SettleTurn(m)
  <2>1. Progress /\ turn[m] = "heard" /\ turn'[m] = "over"
    BY <1>5, TurnProgress DEF SettleTurn
  <2>2. Settles
    BY <1>5, <2>1 DEF SettleTurn, Settles, said
  <2> QED BY <2>1, <2>2 DEF StepShape
<1>6. CASE Abandon(m)
  <2>1. Progress
    BY <1>6, TurnProgress DEF Abandon
  <2> QED BY <1>6, <2>1 DEF Abandon, said, StepShape, Rests
<1>7. CASE RecordReply(m)
  <2>1. Progress /\ turn[m] = "answered"
    BY <1>7, TurnProgress DEF RecordReply
  <2>2. Spoken(Assistant(m)) /\ ~Ended(Assistant(m)) /\ Assistant(m) \in Revisions
    BY <2>1, AssistantSpoken
  <2>3. ledger' = Recorded(Assistant(m), FALSE) /\ UNCHANGED <<transcript, aged, retracting>>
    BY <1>7 DEF RecordReply, said
  <2>4. Records
    BY <2>2, <2>3 DEF Records
  <2> QED BY <2>1, <2>4 DEF StepShape
<1> QED BY <1>1, <1>2, <1>3, <1>4, <1>5, <1>6, <1>7 DEF EndTurn

LEMMA NoteProgress ==
    ASSUME TypeOK, NEW n \in Notes, NEW to \in {"stored", "over"}, UNCHANGED turn,
           note' = [note EXCEPT ![n] = to], to = "over" \/ note[n] = "unsent"
    PROVE  Progress /\ note'[n] = to /\ \A k \in Notes \ {n} : note'[k] = note[k]
<1>1. note \in [Notes -> {"unsent", "stored", "over"}]
  BY DEF TypeOK
<1>2. note'[n] = to /\ \A k \in Notes \ {n} : note'[k] = note[k]
  BY <1>1
<1> QED BY <1>1, <1>2 DEF Progress

LEMMA NoteShape ==
    ASSUME TypeOK, OutreachIsStored,
           NoteOutreach \/ Publish \/ \E n \in Notes : PublishNote(n) \/ RecordNote(n)
    PROVE  Progress /\ StepShape
<1>1. ASSUME NEW n \in Notes, note[n] = "unsent", note' = [note EXCEPT ![n] = "stored"],
             transcript' = Append(transcript, Assistant(n)),
             UNCHANGED <<aged, ledger, retracting, turn>>
      PROVE  Progress /\ StepShape
  <2>1. Progress /\ note'[n] = "stored"
    BY <1>1, NoteProgress
  <2>2. Says
    BY <1>1, <2>1, NoteSpoken DEF Says
  <2> QED BY <2>1, <2>2 DEF StepShape
<1>2. ASSUME NEW n \in Notes, note[n] = "stored", note' = [note EXCEPT ![n] = "over"],
             ledger' = Recorded(Assistant(n), FALSE),
             UNCHANGED <<transcript, aged, retracting, turn>>
      PROVE  Progress /\ StepShape
  <2>1. Progress
    BY <1>2, NoteProgress
  <2>2. Spoken(Assistant(n)) /\ ~Ended(Assistant(n)) /\ Assistant(n) \in Revisions
    BY <1>2, NoteSpoken
  <2>3. Records
    BY <1>2, <2>2 DEF Records
  <2> QED BY <2>1, <2>3 DEF StepShape
<1>3. ASSUME NEW n \in Notes, PublishNote(n)
      PROVE  Progress /\ StepShape
  BY <1>1, <1>3 DEF PublishNote
<1>4. ASSUME NEW n \in Notes, RecordNote(n)
      PROVE  Progress /\ StepShape
  BY <1>2, <1>4 DEF RecordNote, said
<1>5. CASE Publish
  <2>1. CASE UNCHANGED <<transcript, note>>
    <3>1. UNCHANGED <<turn, note, transcript, aged, ledger, retracting>>
      BY <1>5, <2>1 DEF Publish
    <3> QED BY <3>1, SamePhases DEF StepShape, Rests
  <2>2. CASE ~UNCHANGED <<transcript, note>>
    <3>1. PICK n \in Notes : /\ note[n] = "unsent"
                             /\ note' = [note EXCEPT ![n] = "stored"]
                             /\ transcript' = Append(transcript, Assistant(n))
      BY <1>5, <2>2 DEF Publish
    <3>2. UNCHANGED <<aged, ledger, retracting, turn>>
      BY <1>5 DEF Publish
    <3> QED BY <1>1, <3>1, <3>2
  <2> QED BY <2>1, <2>2
<1>6. CASE NoteOutreach
  <2>1. run.note \in Notes /\ note[run.note] = "stored"
    BY <1>6 DEF NoteOutreach, TypeOK, OutreachIsStored
  <2> QED BY <1>2, <1>6, <2>1 DEF NoteOutreach, said
<1> QED BY <1>3, <1>4, <1>5, <1>6

LEMMA WorkerShape ==
    ASSUME IInv, SaidAreSpoken,
           \/ ReadPending \/ ReadWithoutEvents \/ Postpone \/ Begin \/ Fail \/ Accept
           \/ Close \/ CloseFails \/ Backfill \/ Started \/ Age \/ Restart
           \/ \E m \in Messages : Acknowledge(m)
           \/ UNCHANGED vars
    PROVE  Progress /\ StepShape
<1>0. TypeOK /\ transcript \in Seq(Revisions)
  BY DEF IInv, TypeOK
<1>1. CASE \/ ReadPending \/ ReadWithoutEvents \/ Postpone \/ Begin \/ Fail \/ Accept
           \/ CloseFails \/ Started
           \/ \E m \in Messages : Acknowledge(m)
           \/ UNCHANGED vars
  <2>1. UNCHANGED <<turn, note, transcript, aged, ledger, retracting>>
    BY <1>1 DEF ReadPending, ReadWithoutEvents, Take, Postpone, Begin, Fail, Accept, CloseFails,
                Started, Acknowledge, Rest, vars, said, handlers
  <2> QED BY <2>1, SamePhases DEF StepShape, Rests
<1>2. CASE Close
  <2>1. UNCHANGED <<turn, note, transcript, aged, retracting>> /\ ledger' = Pruned(run.to)
    BY <1>2 DEF Close, Rest, said, handlers
  <2>2. run.to \in Nat
    BY <1>0 DEF TypeOK, RunType
  <2> QED BY <2>1, <2>2, SamePhases DEF StepShape, Prunes
<1>3. CASE Backfill
  <2>1. UNCHANGED <<turn, note, transcript, aged, retracting>>
    BY <1>3 DEF Backfill, said, handlers
  <2>2. PICK k \in DOMAIN transcript : ledger' = Recorded(transcript[k], FALSE)
    BY <1>3 DEF Backfill
  <2>3. transcript[k] \in Revisions
    BY <1>0, <2>2, ElementOfSeq, LenProperties
  <2>4. InTranscript(transcript[k])
    BY <2>2 DEF InTranscript
  <2>5. Spoken(transcript[k])
    BY <2>3, <2>4 DEF SaidAreSpoken
  <2> QED BY <2>1, <2>2, <2>3, <2>4, <2>5, SamePhases DEF StepShape, Records
<1>4. CASE Age
  BY <1>4, SamePhases DEF Age, handlers, StepShape
<1>5. CASE Restart
  <2>1. Progress
    BY <1>0, <1>5 DEF Restart, Progress, TypeOK
  <2> QED BY <1>5, <2>1 DEF Restart, said, StepShape, Rests
<1> QED BY <1>1, <1>2, <1>3, <1>4, <1>5

LEMMA AnyStepShape ==
    ASSUME IInv, SaidAreSpoken, OutreachIsStored, [Next]_vars
    PROVE  Progress /\ StepShape
<1>0. TypeOK
  BY DEF IInv
<1>1. ASSUME NEW m \in Messages, Retract(m)
      PROVE  Progress /\ StepShape
  <2>1. UNCHANGED <<turn, note, aged, ledger>>
    BY <1>1 DEF Retract
  <2> QED BY <1>1, <2>1, SamePhases DEF Retract, StepShape, Retracts
<1>2. CASE RecordRetraction
  <2>1. UNCHANGED <<turn, note, transcript, aged>>
    BY <1>2 DEF RecordRetraction, said
  <2> QED BY <1>2, <2>1, SamePhases DEF RecordRetraction, StepShape, Hides
<1> QED
  BY <1>0, <1>1, <1>2, TurnShape, NoteShape, WorkerShape DEF Next, Worker

-----------------------------------------------------------------------------
(* The transcript and the retraction under way.                              *)

Moves ==
    /\ \A rev \in Revisions : /\ Spoken(rev) => Spoken(rev)'
                              /\ Ended(rev) => Ended(rev)'
    /\ \A rev \in Revisions :
          Spoken(rev) =>
             /\ InTranscript(rev)' => InTranscript(rev)
             /\ InRetraction(rev)' => InTranscript(rev) \/ InRetraction(rev)

LEMMA PhasesMove ==
    ASSUME Progress, NEW rev \in Revisions
    PROVE  /\ Spoken(rev) => Spoken(rev)'
           /\ Ended(rev) => Ended(rev)'
BY DEF Progress, Spoken, Ended

LEMMA SaysMoves ==
    ASSUME IInv, SaidAreSpoken, SaidOnce, Progress, Says
    PROVE  SaidAreSpoken' /\ SaidOnce' /\ Moves
<1>0. transcript \in Seq(Revisions)
  BY DEF IInv, TypeOK
<1>1. PICK new \in Revisions : /\ ~Spoken(new) /\ Spoken(new)'
                               /\ transcript' = Append(transcript, new)
  BY DEF Says
<1>2. /\ DOMAIN transcript = 1..Len(transcript) /\ Len(transcript) \in Nat
      /\ DOMAIN transcript' = 1..(Len(transcript) + 1)
      /\ \A k \in 1..Len(transcript) : transcript'[k] = transcript[k]
      /\ transcript'[Len(transcript) + 1] = new
  BY <1>0, <1>1, AppendProperties, LenProperties
<1>3. \A rev \in Revisions : InTranscript(rev)' <=> InTranscript(rev) \/ rev = new
  <2> TAKE rev \in Revisions
  <2>1. ASSUME NEW k \in DOMAIN transcript', transcript'[k] = rev
        PROVE  InTranscript(rev) \/ rev = new
    <3>1. CASE k = Len(transcript) + 1
      BY <1>2, <2>1, <3>1
    <3>2. CASE k \in 1..Len(transcript)
      BY <1>2, <2>1, <3>2 DEF InTranscript
    <3> QED BY <1>2, <3>1, <3>2
  <2>2. ASSUME NEW k \in DOMAIN transcript, transcript[k] = rev
        PROVE  InTranscript(rev)'
    <3>1. k \in DOMAIN transcript' /\ transcript'[k] = rev
      BY <1>2, <2>2
    <3> QED BY <3>1 DEF InTranscript
  <2>3. InTranscript(new)'
    <3>1. Len(transcript) + 1 \in DOMAIN transcript'
      BY <1>2
    <3> QED BY <1>2, <3>1 DEF InTranscript
  <2> QED BY <2>1, <2>2, <2>3 DEF InTranscript
<1>4. \A rev \in Revisions : InRetraction(rev)' <=> InRetraction(rev)
  BY DEF Says, InRetraction
<1>5. ~InTranscript(new) /\ ~InRetraction(new)
  BY <1>1 DEF SaidAreSpoken
<1>6. SaidAreSpoken'
  BY <1>1, <1>3, <1>4, PhasesMove DEF SaidAreSpoken
<1>7. \A j, k \in DOMAIN transcript' : transcript'[j] = transcript'[k] => j = k
  <2> SUFFICES ASSUME NEW j \in 1..(Len(transcript) + 1), NEW k \in 1..(Len(transcript) + 1),
                      transcript'[j] = transcript'[k]
               PROVE  j = k
    BY <1>2
  <2>0. \A i \in 1..Len(transcript) : transcript'[i] # new
    BY <1>2, <1>5 DEF InTranscript
  <2>1. CASE j = Len(transcript) + 1 \/ k = Len(transcript) + 1
    BY <1>2, <2>0, <2>1
  <2>2. CASE j \in 1..Len(transcript) /\ k \in 1..Len(transcript)
    BY <1>2, <2>2 DEF SaidOnce
  <2> QED BY <1>2, <2>1, <2>2
<1>8. UNCHANGED retracting
  BY DEF Says
<1>9. SaidOnce'
  BY <1>3, <1>4, <1>5, <1>7, <1>8 DEF SaidOnce
<1>10. Moves
  BY <1>1, <1>3, <1>4, PhasesMove DEF Moves
<1> QED BY <1>6, <1>9, <1>10

LEMMA RetractsMoves ==
    ASSUME IInv, SaidAreSpoken, SaidOnce, Progress, Retracts
    PROVE  SaidAreSpoken' /\ SaidOnce' /\ Moves
<1>0. transcript \in Seq(Revisions)
  BY DEF IInv, TypeOK
<1>1. PICK k \in DOMAIN transcript : /\ transcript' = SubSeq(transcript, 1, k - 1)
                                     /\ retracting' = SubSeq(transcript, k, Len(transcript))
  BY DEF Retracts
<1>2. DOMAIN transcript = 1..Len(transcript) /\ Len(transcript) \in Nat /\ k \in 1..Len(transcript)
  BY <1>0, LenProperties
<1>3. /\ DOMAIN transcript' = 1..(k - 1)
      /\ \A j \in 1..(k - 1) : transcript'[j] = transcript[j]
  <2>1. \A j \in 1..(k - 1) : transcript[j] \in Revisions
    BY <1>0, <1>2, ElementOfSeq
  <2> QED BY <1>1, <1>2, <2>1, SubSeqProperties
<1>4. /\ DOMAIN retracting' = 1..(Len(transcript) - k + 1)
      /\ \A j \in 1..(Len(transcript) - k + 1) : retracting'[j] = transcript[k + j - 1]
  <2>1. \A j \in k..Len(transcript) : transcript[j] \in Revisions
    BY <1>0, <1>2, ElementOfSeq
  <2> QED BY <1>1, <1>2, <2>1, SubSeqProperties
<1>5. \A rev \in Revisions : InTranscript(rev)' => InTranscript(rev)
  BY <1>2, <1>3 DEF InTranscript
<1>6. \A rev \in Revisions : InRetraction(rev)' => InTranscript(rev)
  <2> SUFFICES ASSUME NEW rev \in Revisions, NEW j \in DOMAIN retracting', retracting'[j] = rev
               PROVE  InTranscript(rev)
    BY DEF InRetraction
  <2>1. k + j - 1 \in DOMAIN transcript /\ transcript[k + j - 1] = rev
    BY <1>2, <1>4
  <2> QED BY <2>1 DEF InTranscript
<1>7. SaidAreSpoken'
  BY <1>5, <1>6, PhasesMove DEF SaidAreSpoken
<1>8. \A i, j \in DOMAIN transcript' : transcript'[i] = transcript'[j] => i = j
  BY <1>2, <1>3 DEF SaidOnce
<1>9. \A i, j \in DOMAIN retracting' : retracting'[i] = retracting'[j] => i = j
  <2> SUFFICES ASSUME NEW i \in DOMAIN retracting', NEW j \in DOMAIN retracting',
                      retracting'[i] = retracting'[j]
               PROVE  i = j
    OBVIOUS
  <2>1. /\ k + i - 1 \in DOMAIN transcript /\ k + j - 1 \in DOMAIN transcript
        /\ transcript[k + i - 1] = transcript[k + j - 1]
    BY <1>2, <1>4
  <2>2. k + i - 1 = k + j - 1
    BY <2>1 DEF SaidOnce
  <2> QED BY <1>2, <1>4, <2>2
<1>10. \A rev \in Revisions : ~(InTranscript(rev)' /\ InRetraction(rev)')
  <2> SUFFICES ASSUME NEW rev, NEW i \in DOMAIN transcript', transcript'[i] = rev,
                      NEW j \in DOMAIN retracting', retracting'[j] = rev
               PROVE  FALSE
    BY DEF InTranscript, InRetraction
  <2>1. /\ i \in DOMAIN transcript /\ k + j - 1 \in DOMAIN transcript
        /\ transcript[i] = transcript[k + j - 1] /\ i < k + j - 1
    BY <1>2, <1>3, <1>4
  <2> QED BY <1>2, <2>1 DEF SaidOnce
<1>11. SaidOnce'
  BY <1>8, <1>9, <1>10 DEF SaidOnce
<1>12. Moves
  BY <1>5, <1>6, PhasesMove DEF Moves
<1> QED BY <1>7, <1>11, <1>12

LEMMA OthersMove ==
    ASSUME IInv, SaidAreSpoken, SaidOnce, Progress,
           UNCHANGED transcript, retracting' \in {retracting, <<>>}
    PROVE  SaidAreSpoken' /\ SaidOnce' /\ Moves
<1>1. \A rev : InTranscript(rev)' <=> InTranscript(rev)
  BY DEF InTranscript
<1>2. DOMAIN <<>> = {}
  OBVIOUS
<1>3. \A rev : InRetraction(rev)' => InRetraction(rev)
  BY <1>2 DEF InRetraction
<1>4. \A j, k \in DOMAIN retracting' : retracting'[j] = retracting'[k] => j = k
  BY <1>2 DEF SaidOnce
<1>5. SaidAreSpoken'
  BY <1>1, <1>3, PhasesMove DEF SaidAreSpoken
<1>6. SaidOnce'
  BY <1>1, <1>3, <1>4 DEF SaidOnce
<1>7. Moves
  BY <1>1, <1>3, PhasesMove DEF Moves
<1> QED BY <1>5, <1>6, <1>7

LEMMA StepMoves ==
    ASSUME IInv, SaidAreSpoken, SaidOnce, Progress, StepShape
    PROVE  SaidAreSpoken' /\ SaidOnce' /\ Moves
<1>1. CASE Says
  BY <1>1, SaysMoves
<1>2. CASE Retracts
  BY <1>2, RetractsMoves
<1>3. CASE Records \/ Settles \/ Hides \/ Prunes \/ Age \/ Rests
  <2>1. UNCHANGED transcript /\ retracting' \in {retracting, <<>>}
    BY <1>3 DEF Records, Settles, Hides, Prunes, Age, Rests, handlers
  <2> QED BY <2>1, OthersMove
<1> QED BY <1>1, <1>2, <1>3 DEF StepShape

(* The outreach of a run stays as it is stored until the run records it.     *)
LEMMA OutreachStays ==
    ASSUME IInv, OutreachIsStored, [Next]_vars
    PROVE  OutreachIsStored'
<1>0. /\ note \in [Notes -> {"unsent", "stored", "over"}] /\ run \in RunType
      /\ At("noting") => run.note \in Notes
  BY DEF IInv, TypeOK
<1>1. ASSUME At("noting")', At("noting"), run'.note = run.note, note'[run.note] = note[run.note]
      PROVE  OutreachIsStored'
  BY <1>1 DEF OutreachIsStored
<1>2. ASSUME UNCHANGED <<run, note>>
      PROVE  OutreachIsStored'
  BY <1>2 DEF OutreachIsStored, At
<1>3. ASSUME ~At("noting")'
      PROVE  OutreachIsStored'
  BY <1>3 DEF OutreachIsStored
<1>4. ASSUME NEW m \in Messages, Ask(m) \/ Retract(m)
      PROVE  OutreachIsStored'
  <2>1. run'.phase = run.phase /\ run'.note = run.note /\ UNCHANGED note
    BY <1>0, <1>4 DEF Ask, Retract, Announce, RunType
  <2> QED BY <2>1 DEF OutreachIsStored, At
<1>5. ASSUME NEW m \in Messages,
             MarkFeedback(m) \/ RecordUser(m) \/ EndTurn(m) \/ RecordReply(m) \/ Acknowledge(m)
      PROVE  OutreachIsStored'
  <2>1. UNCHANGED <<run, note>>
    BY <1>5 DEF MarkFeedback, RecordUser, EndTurn, Reply, SettleTurn, Abandon, RecordReply,
                Acknowledge, Rest, handlers
  <2> QED BY <1>2, <2>1
<1>6. ASSUME NEW n \in Notes, PublishNote(n) \/ RecordNote(n)
      PROVE  OutreachIsStored'
  <2>0. UNCHANGED run
    BY <1>6 DEF PublishNote, RecordNote
  <2>1. CASE At("noting")
    <3>1. run.note \in Notes /\ note[run.note] = "stored"
      BY <1>0, <2>1 DEF OutreachIsStored
    <3>2. n # run.note
      BY <1>6, <2>1, <3>1 DEF PublishNote, RecordNote, At
    <3>3. note'[run.note] = note[run.note]
      BY <1>0, <1>6, <3>1, <3>2 DEF PublishNote, RecordNote
    <3> QED BY <2>0, <3>1, <3>3 DEF OutreachIsStored
  <2>2. CASE ~At("noting")
    BY <1>3, <2>0, <2>2 DEF At
  <2> QED BY <2>1, <2>2
<1>7. CASE Publish
  <2>1. CASE run'.phase = "noting"
    <3>1. [run EXCEPT !.phase = "closing"].phase = "closing"
      BY <1>0 DEF RunType
    <3>2. PICK n \in Notes : /\ note' = [note EXCEPT ![n] = "stored"]
                             /\ run' = [run EXCEPT !.phase = "noting", !.note = n]
      BY <1>7, <2>1, <3>1 DEF Publish, Go
    <3>3. run'.note = n /\ note'[n] = "stored"
      BY <1>0, <3>2 DEF RunType
    <3> QED BY <3>3 DEF OutreachIsStored
  <2>2. CASE run'.phase # "noting"
    BY <1>3, <2>2 DEF At
  <2> QED BY <2>1, <2>2
<1>8. CASE NoteOutreach
  <2>1. run'.phase = "closing"
    BY <1>0, <1>8 DEF NoteOutreach, RunType
  <2> QED BY <1>3, <2>1 DEF At
<1>9. CASE RecordRetraction \/ Backfill \/ Age \/ UNCHANGED vars
  <2>1. UNCHANGED <<run, note>>
    BY <1>9 DEF RecordRetraction, Backfill, Age, vars, handlers
  <2> QED BY <1>2, <2>1
<1>10. CASE \/ ReadPending \/ ReadWithoutEvents \/ Postpone \/ Begin \/ Fail \/ Accept
            \/ Close \/ CloseFails \/ Started \/ Restart
  <2>1. Idle.phase = "idle" /\ \A s : [Idle EXCEPT !.phase = s].phase = s
    BY DEF Idle
  <2>2. \A s : [run EXCEPT !.phase = s].phase = s
    BY <1>0 DEF RunType
  <2>3. \A to, batch : Take(to, batch) => run'.phase = "batched"
    BY DEF Take, Idle
  <2>4. run'.phase # "noting"
    BY <1>10, <2>1, <2>2, <2>3 DEF ReadPending, ReadWithoutEvents, Postpone, Begin, Fail, Accept,
                                   Close, CloseFails, Started, Restart, Go
  <2> QED BY <1>3, <2>4 DEF At
<1> QED
  BY <1>4, <1>5, <1>6, <1>7, <1>8, <1>9, <1>10 DEF Next, Worker

-----------------------------------------------------------------------------
(* The ledger.                                                               *)

LedgerInv ==
    /\ \A i \in DOMAIN ledger : Truthful(i)
    /\ \A i, j \in DOMAIN ledger : Unique(i, j)

LEMMA LedgerFacts ==
    ASSUME IInv
    PROVE  /\ DOMAIN ledger = 1..Len(ledger) /\ Len(ledger) \in Nat
           /\ \A i \in 1..Len(ledger) : ledger[i] \in Events /\ ledger[i].rev \in Revisions
<1>1. ledger \in Seq(Events)
  BY DEF IInv, TypeOK
<1>2. DOMAIN ledger = 1..Len(ledger) /\ Len(ledger) \in Nat
  BY <1>1, LenProperties
<1>3. \A i \in 1..Len(ledger) : ledger[i] \in Events
  BY <1>1, <1>2, ElementOfSeq
<1> QED BY <1>2, <1>3 DEF Events

(* An event that is rewritten keeps what it says, and stays old.             *)
Rewritten(i) ==
    /\ ledger'[i].kind = ledger[i].kind
    /\ ledger'[i].rev = ledger[i].rev
    /\ ledger'[i].old = ledger[i].old
    /\ ledger'[i].state = "pruned" => ledger[i].state = "pruned" \/ ledger[i].old

(* An event that is added is true and has no double.                         *)
Added(i) ==
    /\ Truthful(i)'
    /\ \A j \in 1..Len(ledger)' : Unique(i, j)' /\ Unique(j, i)'

LEMMA RewrittenTruthful ==
    ASSUME IInv, LedgerInv, Moves, UNCHANGED aged, NEW i \in 1..Len(ledger), Rewritten(i)
    PROVE  Truthful(i)'
<1>1. Truthful(i) /\ ledger[i].rev \in Revisions
  BY LedgerFacts DEF LedgerInv
<1> DEFINE rev == ledger[i].rev
<1>2. /\ Spoken(rev) /\ Spoken(rev)' /\ (Ended(rev) => Ended(rev)')
      /\ InTranscript(rev)' => InTranscript(rev)
      /\ InRetraction(rev)' => InTranscript(rev) \/ InRetraction(rev)
  BY <1>1 DEF Truthful, Moves, Rewritten
<1>3. ledger'[i].rev = rev /\ ledger'[i].kind = ledger[i].kind /\ ledger'[i].old = ledger[i].old
  BY DEF Rewritten
<1>4. Spoken(ledger[i].rev)'
  BY <1>2, <1>3 DEF Spoken
<1>5. ledger'[i].kind = "settled" => Ended(ledger[i].rev)'
  BY <1>1, <1>2, <1>3 DEF Truthful, Ended
<1>6. ledger'[i].kind = "retracted"
        => ~InTranscript(ledger[i].rev)' /\ ~InRetraction(ledger[i].rev)'
  BY <1>1, <1>2, <1>3 DEF Truthful, InTranscript, InRetraction
<1>7. ledger'[i].old /\ ledger'[i].kind = ledger'[i].rev.role =>
         ledger'[i].rev \in aged' \/ (Ended(ledger[i].rev)' /\ ~InTranscript(ledger[i].rev)')
  BY <1>1, <1>2, <1>3 DEF Truthful, InTranscript, Ended
<1>8. ledger'[i].state = "pruned" => ledger'[i].old
  BY <1>1, <1>3 DEF Truthful, Rewritten
<1> QED BY <1>4, <1>5, <1>6, <1>7, <1>8 DEF Truthful

LEMMA Written ==
    ASSUME IInv, IInv', LedgerInv, Moves, UNCHANGED aged,
           \A i \in 1..Len(ledger) : Rewritten(i),
           Len(ledger) <= Len(ledger'),
           \A i \in 1..Len(ledger') : i > Len(ledger) => Added(i)
    PROVE  LedgerInv'
<1>1. /\ DOMAIN ledger = 1..Len(ledger) /\ Len(ledger) \in Nat
      /\ DOMAIN ledger' = 1..Len(ledger') /\ Len(ledger') \in Nat
  BY LenProperties DEF IInv, TypeOK
<1>2. ASSUME NEW i \in 1..Len(ledger')
      PROVE  Truthful(i)'
  <2>1. CASE i \in 1..Len(ledger)
    BY <2>1, RewrittenTruthful
  <2>2. CASE i > Len(ledger)
    BY <2>2 DEF Added
  <2> QED BY <1>1, <2>1, <2>2
<1>3. ASSUME NEW i \in 1..Len(ledger'), NEW j \in 1..Len(ledger')
      PROVE  Unique(i, j)'
  <2>1. CASE i \in 1..Len(ledger) /\ j \in 1..Len(ledger)
    <3>1. Unique(i, j)
      BY <1>1, <2>1 DEF LedgerInv
    <3>2. Rewritten(i) /\ Rewritten(j)
      BY <2>1
    <3> QED BY <3>1, <3>2 DEF Unique, Rewritten
  <2>2. CASE i > Len(ledger)
    BY <1>1, <2>2 DEF Added
  <2>3. CASE j > Len(ledger)
    BY <1>1, <2>3 DEF Added
  <2> QED BY <1>1, <2>1, <2>2, <2>3
<1> QED BY <1>1, <1>2, <1>3 DEF LedgerInv

LEMMA SameRewritten ==
    ASSUME NEW i, ledger'[i] = ledger[i]
    PROVE  Rewritten(i)
BY DEF Rewritten

LEMMA UnchangedLedger ==
    ASSUME IInv, IInv', LedgerInv, Moves, UNCHANGED <<aged, ledger>>
    PROVE  LedgerInv'
<1>1. Len(ledger) \in Nat
  BY LedgerFacts
<1>2. /\ \A i \in 1..Len(ledger) : Rewritten(i)
      /\ Len(ledger) <= Len(ledger')
      /\ \A i \in 1..Len(ledger') : ~(i > Len(ledger))
  BY <1>1, SameRewritten
<1> QED BY <1>2, Written

LEMMA EventFields ==
    ASSUME NEW kind, NEW rev, NEW asks
    PROVE  /\ Event(kind, rev, asks).kind = kind
           /\ Event(kind, rev, asks).rev = rev
           /\ Event(kind, rev, asks).state = "live"
           /\ Event(kind, rev, asks).old <=> kind = rev.role /\ rev \in aged
BY DEF Event

LEMMA AppendedLedger ==
    ASSUME IInv, IInv', LedgerInv, Moves, UNCHANGED aged,
           NEW kind \in Kinds, NEW rev \in Revisions, NEW asks \in BOOLEAN,
           ledger' = Append(ledger, Event(kind, rev, asks)),
           Spoken(rev)', kind # "retracted", kind = "settled" => Ended(rev)',
           \A i \in 1..Len(ledger) :
              ledger[i].kind = kind /\ ledger[i].rev = rev => rev \in aged
    PROVE  LedgerInv'
<1>0. ledger \in Seq(Events) /\ Event(kind, rev, asks) \in Events /\ Len(ledger) \in Nat
  BY EventType, LedgerFacts DEF IInv, TypeOK
<1>1. PICK last \in Nat : last = Len(ledger) + 1
  BY <1>0
<1>2. /\ Len(ledger') = last
      /\ \A i \in 1..Len(ledger) : ledger'[i] = ledger[i]
      /\ ledger'[last] = Event(kind, rev, asks)
  BY <1>0, <1>1, AppendProperties
<1>3. /\ ledger'[last].kind = kind /\ ledger'[last].rev = rev /\ ledger'[last].state = "live"
      /\ ledger'[last].old => rev \in aged
  BY <1>2, EventFields
<1>4. Truthful(last)'
  <2>1. Spoken(ledger[last].rev)'
    BY <1>3 DEF Spoken
  <2>2. ledger'[last].kind = "settled" => Ended(ledger[last].rev)'
    BY <1>3 DEF Ended
  <2> QED BY <1>3, <2>1, <2>2 DEF Truthful
<1>5. ASSUME NEW j \in 1..last
      PROVE  Unique(last, j)' /\ Unique(j, last)'
  <2>1. CASE j = last
    BY <2>1 DEF Unique
  <2>2. CASE j \in 1..Len(ledger)
    <3>1. ledger'[j] = ledger[j]
      BY <1>2, <2>2
    <3>2. ~(ledger'[j].kind = kind /\ ledger'[j].rev = rev /\ rev \notin aged')
      BY <2>2, <3>1
    <3> QED BY <1>3, <3>2 DEF Unique
  <2> QED BY <1>0, <1>1, <2>1, <2>2
<1>6. Added(last)
  BY <1>2, <1>4, <1>5 DEF Added
<1>7. \A i \in 1..Len(ledger') : i > Len(ledger) => i = last
  BY <1>0, <1>2, <1>1
<1>8. Len(ledger) <= Len(ledger')
  BY <1>0, <1>2, <1>1
<1> QED BY <1>2, <1>6, <1>7, <1>8, SameRewritten, Written

LEMMA RecordsOnce ==
    ASSUME IInv, IInv', LedgerInv, Moves, Records
    PROVE  LedgerInv'
<1>1. PICK rev \in Revisions, asks \in BOOLEAN :
         /\ ledger' = Recorded(rev, asks)
         /\ Spoken(rev) /\ (InTranscript(rev) \/ ~Ended(rev))
  BY DEF Records
<1>2. UNCHANGED <<aged, transcript>>
  BY DEF Records
<1>3. CASE HasEvent(rev)
  BY <1>1, <1>2, <1>3, UnchangedLedger DEF Recorded
<1>4. CASE ~HasEvent(rev)
  <2>1. ledger' = Append(ledger, Event(rev.role, rev, asks))
    BY <1>1, <1>4 DEF Recorded
  <2>2. rev.role \in Kinds /\ rev.role # "retracted" /\ rev.role # "settled"
    BY RoleIsKind DEF Kinds
  <2>3. Spoken(rev)'
    BY <1>1 DEF Moves
  <2>4. ASSUME NEW i \in 1..Len(ledger), ledger[i].kind = rev.role, ledger[i].rev = rev
        PROVE  rev \in aged
    <3>1. ledger[i].state = "pruned"
      BY <1>4, <2>4, LedgerFacts DEF HasEvent
    <3>2. Truthful(i)
      BY LedgerFacts DEF LedgerInv
    <3> QED BY <1>1, <2>4, <3>1, <3>2 DEF Truthful
  <2> HIDE DEF Kinds
  <2> QED BY <1>2, <2>1, <2>2, <2>3, <2>4, AppendedLedger
<1> QED BY <1>3, <1>4

LEMMA SettlesOnce ==
    ASSUME IInv, IInv', LedgerInv, Moves, Settles
    PROVE  LedgerInv'
<1>1. PICK m \in Messages :
         /\ turn[m] = "heard" /\ turn'[m] = "over"
         /\ ledger' = Append(ledger, Event("settled", User(m), FALSE))
  BY DEF Settles
<1>2. Spoken(User(m))' /\ Ended(User(m))' /\ ~Ended(User(m)) /\ User(m) \in Revisions
  BY <1>1, UserSpoken
<1>3. ASSUME NEW i \in 1..Len(ledger), ledger[i].kind = "settled", ledger[i].rev = User(m)
      PROVE  FALSE
  <2>1. Truthful(i)
    BY LedgerFacts DEF LedgerInv
  <2> QED BY <1>2, <1>3, <2>1 DEF Truthful
<1>4. "settled" \in Kinds /\ UNCHANGED aged
  BY DEF Kinds, Settles
<1> QED BY <1>1, <1>2, <1>3, <1>4, AppendedLedger

LEMMA PrunesOnce ==
    ASSUME IInv, IInv', LedgerInv, Moves, Prunes
    PROVE  LedgerInv'
<1>1. PICK upto \in Nat : ledger' = Pruned(upto)
  BY DEF Prunes
<1>2. ledger' \in [1..Len(ledger) -> Events] /\ Len(ledger') = Len(ledger)
  <2>1. \A i \in 1..Len(ledger) : [ledger[i] EXCEPT !.state = "pruned"] \in Events
    BY LedgerFacts DEF Events
  <2>2. ledger' \in [1..Len(ledger) -> Events]
    BY <1>1, <2>1, LedgerFacts DEF Pruned
  <2> QED BY <2>2, RewrittenType DEF IInv, TypeOK
<1>3. ASSUME NEW i \in 1..Len(ledger)
      PROVE  Rewritten(i)
  <2>1. ledger[i] \in Events
    BY LedgerFacts
  <2>2. CASE i <= upto /\ ledger[i].old
    <3> DEFINE e == [ledger[i] EXCEPT !.state = "pruned"]
    <3>1. e.kind = ledger[i].kind /\ e.rev = ledger[i].rev /\ e.old = ledger[i].old
      BY <2>1 DEF Events
    <3>2. ledger'[i] = e
      BY <1>1, <2>2, LedgerFacts DEF Pruned
    <3> HIDE DEF e
    <3> QED BY <2>2, <3>1, <3>2 DEF Rewritten
  <2>3. CASE ~(i <= upto /\ ledger[i].old)
    <3>1. ledger'[i] = ledger[i]
      BY <1>1, <2>3, LedgerFacts DEF Pruned
    <3> QED BY <3>1, SameRewritten
  <2> QED BY <2>2, <2>3
<1>4. /\ Len(ledger) <= Len(ledger')
      /\ \A i \in 1..Len(ledger') : ~(i > Len(ledger))
  BY <1>2, LedgerFacts
<1> QED BY <1>3, <1>4, Written DEF Prunes

(* record_retraction: what is hidden keeps its event, and each revision of   *)
(* the retraction gets one event that says so.                               *)
LEMMA HiddenLedger ==
    ASSUME IInv, ledger' = WithRetraction(retracting)
    PROVE  /\ Len(ledger') = Len(ledger) + Len(retracting)
           /\ \A i \in 1..Len(ledger) : Rewritten(i)
           /\ \A k \in 1..Len(retracting) :
                 ledger'[Len(ledger) + k] = Event("retracted", retracting[k], FALSE)
<1> DEFINE hidden == [i \in DOMAIN ledger |->
                         IF ledger[i].rev \in ToSet(retracting) /\ Live(i)
                         THEN [ledger[i] EXCEPT !.state = "retracted"] ELSE ledger[i]]
           added == [k \in DOMAIN retracting |-> Event("retracted", retracting[k], FALSE)]
<1>1. /\ retracting \in Seq(Revisions) /\ DOMAIN retracting = 1..Len(retracting)
      /\ Len(retracting) \in Nat /\ Len(ledger) \in Nat
      /\ \A k \in 1..Len(retracting) : retracting[k] \in Revisions
  BY LedgerFacts, LenProperties, ElementOfSeq DEF IInv, TypeOK
<1>2. hidden \in Seq(Events) /\ Len(hidden) = Len(ledger)
  <2>1. \A i \in 1..Len(ledger) : [ledger[i] EXCEPT !.state = "retracted"] \in Events
    BY LedgerFacts DEF Events
  <2>2. hidden \in [1..Len(ledger) -> Events]
    BY <2>1, LedgerFacts
  <2> QED BY <2>2, RewrittenType DEF IInv, TypeOK
<1>3. added \in Seq(Events) /\ Len(added) = Len(retracting)
  <2>1. \A k \in 1..Len(retracting) : Event("retracted", retracting[k], FALSE) \in Events
    BY <1>1, EventType DEF Kinds
  <2>2. added \in [1..Len(retracting) -> Events]
    BY <1>1, <2>1
  <2> HIDE DEF added
  <2>3. added \in Seq(Events)
    BY <1>1, <2>2, SeqDef
  <2> QED BY <1>1, <2>2, <2>3, LenProperties
<1>4. /\ Len(ledger') = Len(ledger) + Len(retracting)
      /\ \A i \in 1..Len(ledger) : ledger'[i] = hidden[i]
      /\ \A k \in 1..Len(retracting) : ledger'[Len(ledger) + k] = added[k]
  <2>1. ledger' = hidden \o added
    BY DEF WithRetraction
  <2> HIDE DEF hidden, added
  <2>2. /\ Len(hidden \o added) = Len(hidden) + Len(added)
        /\ \A i \in 1..(Len(hidden) + Len(added)) :
              (hidden \o added)[i] = IF i <= Len(hidden) THEN hidden[i]
                                     ELSE added[i - Len(hidden)]
    BY <1>2, <1>3, ConcatProperties
  <2>3. \A i \in 1..Len(ledger) : ledger'[i] = hidden[i]
    BY <1>1, <1>2, <1>3, <2>1, <2>2
  <2>4. ASSUME NEW k \in 1..Len(retracting)
        PROVE  ledger'[Len(ledger) + k] = added[k]
    <3>1. Len(ledger) + k \in 1..(Len(hidden) + Len(added)) /\ ~(Len(ledger) + k <= Len(hidden))
      BY <1>1, <1>2, <1>3
    <3>2. (Len(ledger) + k) - Len(hidden) = k
      BY <1>1, <1>2
    <3> QED BY <2>1, <2>2, <3>1, <3>2
  <2> QED BY <1>2, <1>3, <2>1, <2>2, <2>3, <2>4
<1>5. ASSUME NEW i \in 1..Len(ledger)
      PROVE  Rewritten(i)
  <2>1. ledger[i] \in Events
    BY LedgerFacts
  <2> DEFINE e == [ledger[i] EXCEPT !.state = "retracted"]
  <2>2. /\ e.kind = ledger[i].kind /\ e.rev = ledger[i].rev /\ e.old = ledger[i].old
        /\ e.state = "retracted"
    BY <2>1 DEF Events
  <2>3. ledger'[i] = e \/ ledger'[i] = ledger[i]
    BY <1>4, LedgerFacts
  <2> HIDE DEF e
  <2> QED BY <2>2, <2>3, SameRewritten DEF Rewritten
<1>6. \A k \in 1..Len(retracting) :
         ledger'[Len(ledger) + k] = Event("retracted", retracting[k], FALSE)
  BY <1>1, <1>4
<1> QED BY <1>4, <1>5, <1>6

LEMMA HidesOnce ==
    ASSUME IInv, IInv', SaidAreSpoken, SaidOnce, LedgerInv, Moves, Hides
    PROVE  LedgerInv'
<1>1. /\ retracting \in Seq(Revisions) /\ DOMAIN retracting = 1..Len(retracting)
      /\ Len(retracting) \in Nat /\ Len(ledger) \in Nat
      /\ \A k \in 1..Len(retracting) : retracting[k] \in Revisions
  BY LedgerFacts, LenProperties, ElementOfSeq DEF IInv, TypeOK
<1>2. /\ Len(ledger') = Len(ledger) + Len(retracting)
      /\ \A i \in 1..Len(ledger) : Rewritten(i)
      /\ \A k \in 1..Len(retracting) :
            ledger'[Len(ledger) + k] = Event("retracted", retracting[k], FALSE)
  BY HiddenLedger DEF Hides
<1>3. UNCHANGED <<transcript, aged>> /\ retracting' = <<>>
  BY DEF Hides
<1>4. ASSUME NEW k \in 1..Len(retracting), NEW i \in Nat, i = Len(ledger) + k
      PROVE  /\ Truthful(i)'
             /\ ledger'[i].kind = "retracted" /\ ledger'[i].rev = retracting[k]
  <2>1. PICK rev \in Revisions : rev = retracting[k]
    BY <1>1
  <2>2. /\ ledger'[i].kind = "retracted" /\ ledger'[i].rev = rev
        /\ ledger'[i].state = "live"
        /\ ledger'[i].old => rev.role = "retracted"
    <3>1. PICK asks \in BOOLEAN : ledger'[i] = Event("retracted", rev, asks)
      BY <1>2, <1>4, <2>1
    <3> QED BY <3>1, EventFields
  <2>3. InRetraction(rev)
    BY <1>1, <2>1 DEF InRetraction
  <2>4. Spoken(rev)' /\ ~InTranscript(rev)
    BY <2>3 DEF SaidAreSpoken, SaidOnce, Moves
  <2>5. ~ledger'[i].old
    BY <2>2, RoleIsKind
  <2>6. Spoken(ledger[i].rev)'
    BY <2>2, <2>4 DEF Spoken
  <2>7. ~InTranscript(ledger[i].rev)'
    BY <1>3, <2>2, <2>4 DEF InTranscript
  <2>8. ~InRetraction(ledger[i].rev)'
    BY <1>3 DEF InRetraction
  <2> QED BY <2>1, <2>2, <2>5, <2>6, <2>7, <2>8 DEF Truthful
<1>5. ASSUME NEW i \in 1..Len(ledger'), i > Len(ledger)
      PROVE  Added(i)
  <2>1. PICK k \in 1..Len(retracting) : i = Len(ledger) + k
    <3>1. i - Len(ledger) \in 1..Len(retracting) /\ i = Len(ledger) + (i - Len(ledger))
      BY <1>1, <1>2, <1>5
    <3> QED BY <3>1
  <2>2. /\ Truthful(i)'
        /\ ledger'[i].kind = "retracted" /\ ledger'[i].rev = retracting[k]
    BY <1>4, <2>1
  <2>3. ASSUME NEW j \in 1..Len(ledger'), ledger'[j].kind = "retracted",
               ledger'[j].rev = retracting[k]
        PROVE  i = j
    <3>1. CASE j \in 1..Len(ledger)
      <4>1. ledger[j].kind = "retracted" /\ ledger[j].rev = retracting[k]
        BY <1>2, <2>3, <3>1 DEF Rewritten
      <4>2. Truthful(j)
        BY <3>1, LedgerFacts DEF LedgerInv
      <4> QED BY <1>1, <4>1, <4>2 DEF Truthful, InRetraction
    <3>2. CASE j > Len(ledger)
      <4>1. j - Len(ledger) \in 1..Len(retracting) /\ j = Len(ledger) + (j - Len(ledger))
        BY <1>1, <1>2, <3>2
      <4>2. ledger'[j].rev = retracting[j - Len(ledger)]
        BY <1>4, <4>1
      <4>3. j - Len(ledger) = k
        BY <1>1, <2>3, <4>1, <4>2 DEF SaidOnce
      <4> QED BY <2>1, <4>1, <4>3
    <3> QED BY <1>1, <3>1, <3>2
  <2>4. ASSUME NEW j \in 1..Len(ledger)'
        PROVE  Unique(i, j)' /\ Unique(j, i)'
    BY <2>2, <2>3 DEF Unique
  <2> QED BY <2>2, <2>4 DEF Added
<1>6. Len(ledger) <= Len(ledger')
  BY <1>1, <1>2
<1> QED BY <1>2, <1>3, <1>5, <1>6, Written

(* Retention: whatever is written was spoken, nothing is under way, and what *)
(* is still in the transcript is now old itself.                             *)
LEMMA AgesOnce ==
    ASSUME IInv, IInv', LedgerInv, Moves, Age
    PROVE  LedgerInv'
<1>1. /\ ledger' = [i \in DOMAIN ledger |-> [ledger[i] EXCEPT !.old = TRUE]]
      /\ aged' = aged \cup ToSet(transcript)
      /\ UNCHANGED <<transcript, retracting, turn, note>>
      /\ \A m \in Messages : turn[m] \in {"unsent", "over"}
      /\ \A n \in Notes : note[n] # "stored"
  BY DEF Age, handlers
<1>2. DOMAIN ledger' = 1..Len(ledger)
  BY <1>1, LedgerFacts
<1>3. ASSUME NEW i \in 1..Len(ledger)
      PROVE  /\ ledger'[i].kind = ledger[i].kind /\ ledger'[i].rev = ledger[i].rev
             /\ ledger'[i].old = TRUE
  <2>1. ledger[i] \in Events
    BY LedgerFacts
  <2> DEFINE e == [ledger[i] EXCEPT !.old = TRUE]
  <2>2. e.kind = ledger[i].kind /\ e.rev = ledger[i].rev /\ e.old = TRUE
    BY <2>1 DEF Events
  <2>3. ledger'[i] = e
    BY <1>1, LedgerFacts
  <2> HIDE DEF e
  <2> QED BY <2>2, <2>3
<1>4. \A rev : InTranscript(rev) => rev \in aged'
  BY <1>1 DEF InTranscript, ToSet
<1>5. \A rev \in Revisions : Spoken(rev) => Ended(rev)
  <2>1. note \in [Notes -> {"unsent", "stored", "over"}]
    BY DEF IInv, TypeOK
  <2> QED BY <1>1, <2>1 DEF Spoken, Ended
<1>6. ASSUME NEW i \in 1..Len(ledger)
      PROVE  Truthful(i)'
  <2>1. Truthful(i) /\ ledger[i].rev \in Revisions
    BY LedgerFacts DEF LedgerInv
  <2>2. Spoken(ledger[i].rev)' /\ Ended(ledger[i].rev)'
    BY <1>1, <1>3, <1>5, <2>1 DEF Truthful, Spoken, Ended
  <2>3. ledger'[i].kind = "retracted"
          => ~InTranscript(ledger[i].rev)' /\ ~InRetraction(ledger[i].rev)'
    BY <1>1, <1>3, <2>1 DEF Truthful, InTranscript, InRetraction
  <2>4. InTranscript(ledger[i].rev)' => ledger'[i].rev \in aged'
    BY <1>1, <1>3, <1>4 DEF InTranscript
  <2> QED BY <1>3, <2>2, <2>3, <2>4 DEF Truthful
<1>7. ASSUME NEW i \in 1..Len(ledger), NEW j \in 1..Len(ledger)
      PROVE  Unique(i, j)'
  <2>1. Unique(i, j)
    BY LedgerFacts DEF LedgerInv
  <2> QED BY <1>1, <1>3, <2>1 DEF Unique
<1> QED BY <1>2, <1>6, <1>7 DEF LedgerInv

LEMMA LedgerStaysExact ==
    ASSUME IInv, IInv', SaidAreSpoken, SaidOnce, LedgerInv, Moves, StepShape
    PROVE  LedgerInv'
<1>1. CASE Says \/ Retracts \/ Rests
  <2>1. UNCHANGED <<aged, ledger>>
    BY <1>1 DEF Says, Retracts, Rests
  <2> QED BY <2>1, UnchangedLedger
<1> QED BY <1>1, RecordsOnce, SettlesOnce, HidesOnce, PrunesOnce, AgesOnce DEF StepShape

-----------------------------------------------------------------------------

LEMMA InitOnceInv == Init => OnceInv
<1> SUFFICES ASSUME Init PROVE OnceInv
  OBVIOUS
<1>1. transcript = <<>> /\ retracting = <<>> /\ ledger = <<>> /\ run = Idle
  BY DEF Init
<1>2. DOMAIN <<>> = {}
  OBVIOUS
<1>3. ~At("noting")
  BY <1>1 DEF At, Idle
<1>4. SaidAreSpoken /\ SaidOnce
  BY <1>1, <1>2 DEF SaidAreSpoken, SaidOnce, InTranscript, InRetraction
<1> QED BY <1>1, <1>2, <1>3, <1>4 DEF OnceInv, OutreachIsStored

LEMMA StepOnceInv ==
    ASSUME IInv, IInv', OnceInv, [Next]_vars
    PROVE  OnceInv'
<1>1. SaidAreSpoken /\ SaidOnce /\ OutreachIsStored /\ LedgerInv
  BY DEF OnceInv, LedgerInv
<1>2. Progress /\ StepShape
  BY <1>1, AnyStepShape
<1>3. SaidAreSpoken' /\ SaidOnce' /\ Moves
  BY <1>1, <1>2, StepMoves
<1>4. OutreachIsStored'
  BY <1>1, OutreachStays
<1>5. LedgerInv'
  BY <1>1, <1>2, <1>3, LedgerStaysExact
<1> QED BY <1>3, <1>4, <1>5 DEF OnceInv, LedgerInv

(* While its event is kept, a message is the subject of one completed run:   *)
(* the handlers, backfill_messages and record_retraction never write a       *)
(* second event for it (store.rs, INSERT OR IGNORE and prune).               *)
THEOREM ReflectsOnce == Spec => []LedgerIsExact
<1>1. IInv /\ OnceInv /\ [Next]_vars /\ IInv' => OnceInv'
  BY StepOnceInv
<1>2. Spec => []OnceInv
  BY Invariant, InitOnceInv, <1>1, PTL DEF Spec
<1>3. IInv /\ OnceInv => LedgerIsExact
  <2> SUFFICES ASSUME IInv, OnceInv PROVE ReflectedOnce
    BY DEF IInv, LedgerIsExact
  <2>1. read \subseteq DOMAIN ledger
    <3>1. read \subseteq 1..cursor /\ cursor \in 0..Len(ledger)
      BY DEF IInv, TypeOK
    <3> QED BY <3>1, LedgerFacts
  <2> QED BY <2>1 DEF OnceInv, Unique, ReflectedOnce
<1> QED BY Invariant, <1>2, <1>3, PTL
===============================================================================
