--------------------------- MODULE ContextMaintenance ---------------------------
(***************************************************************************)
(* The background runs that keep the current map, the open loops and the   *)
(* profile review in step with the conversation                            *)
(* (src/src/context_maintenance.rs, symbiont_context.rs, the tools of      *)
(* codex/tools.rs, the user's edits in web.rs).  A run is shown a bounded  *)
(* bundle of the latest messages; when it ends uninterrupted, the latest   *)
(* message of the time it began counts as assessed.                        *)
(***************************************************************************)
EXTENDS Naturals, Sequences

CONSTANTS
    SourceEvents,     \* MAX_SOURCE_EVENTS
    BundleSize,       \* MAX_SOURCE_BUNDLE_CHARS, in units of a short message
    Sizes,            \* how long a message may be, in the same units
    MaxMessages, MaxEdits, MaxMaintenanceFaults   \* bounds

Documents == {"map", "loops"}

VARIABLES
    messages,       \* how far the conversation reaches with each message, in those units
    projections,    \* the map and the loops: revision, sources, author
    profileReview,  \* the map revision the review was made of
    assessed,       \* the checkpoint in memory: the message assessed through
    checkpoint,     \* the checkpoint file
    due,            \* the reviews whose 24 hours are over
    maintenance,    \* the run
    offered,        \* the messages a run was shown to its end
    asked,          \* the map revisions a clarification question was asked about
    revisions, maintenanceFaults

maintenanceVars ==
    <<messages, projections, profileReview, assessed, checkpoint, due, maintenance, offered, asked,
      revisions, maintenanceFaults>>

NoRun == [kind |-> "none"]
NoDocument == [id |-> 0, sources |-> {}, by |-> "nobody"]
Latest == Len(messages)
RecentFrom(n) == {m \in DOMAIN messages : m + n > Latest}
End(m) == IF m \in DOMAIN messages THEN messages[m] ELSE 0

Init ==
    /\ messages = <<>>
    /\ projections = [k \in Documents |-> NoDocument] /\ profileReview = 0
    /\ assessed = 0 /\ checkpoint = 0 /\ due = {"operational", "profile"}
    /\ maintenance = NoRun /\ offered = {} /\ asked = {}
    /\ revisions = 0 /\ maintenanceFaults = 0

\* A message of the user, the assistant or a background run.
Message(size) ==
    /\ Latest < MaxMessages
    /\ messages' = Append(messages, End(Latest) + size)
    /\ UNCHANGED <<projections, profileReview, assessed, checkpoint, due, maintenance, offered, asked,
                   revisions, maintenanceFaults>>

\* What the recent messages come to with m, when n is the latest, is within the limit.
Fits(m, n) == End(m) <= End(IF n > SourceEvents THEN n - SourceEvents ELSE 0) + BundleSize

\* conversation_source_bundle, truncate_bundle: the oldest first, and what fits of that
Bundle == {m \in RecentFrom(SourceEvents) : Fits(m, Latest)}

IsCurrent(k) == Latest \in projections[k].sources \/ assessed = Latest

\* maintain_one: which run is called for
BeginOperational ==
    /\ maintenance = NoRun /\ Latest > 0
    /\ (\E k \in Documents : ~IsCurrent(k)) \/ "operational" \in due
    /\ maintenance' = [kind |-> "operational", latest |-> Latest, shown |-> Bundle]
    /\ UNCHANGED <<messages, projections, profileReview, assessed, checkpoint, due, offered, asked,
                   revisions, maintenanceFaults>>

\* Mutant of ReviewIsCurrent: only the day decides.
ReviewIsNeverCurrent == FALSE

\* has_source of the map, document_at_least_as_new_as
ReviewIsCurrent == profileReview >= projections["map"].id

BeginProfileReview ==
    /\ maintenance = NoRun /\ Latest > 0
    /\ \A k \in Documents : IsCurrent(k)
    /\ "operational" \notin due
    /\ projections["map"] # NoDocument /\ ~ReviewIsCurrent /\ "profile" \in due
    /\ maintenance' = [kind |-> "profile", of |-> 0]
    /\ UNCHANGED <<messages, projections, profileReview, assessed, checkpoint, due, offered, asked,
                   revisions, maintenanceFaults>>

\* upsert: no revision is expected, the last writer stays
Upsert(k, sources, author) ==
    /\ revisions' = revisions + 1
    /\ projections' = [projections EXCEPT ![k] = [id |-> revisions', sources |-> sources, by |-> author]]

\* update_current_map, update_open_loops: with the message that is the latest by then
UpdateProjection(k) ==
    /\ maintenance.kind = "operational" /\ revisions < MaxEdits
    /\ Upsert(k, RecentFrom(1), "model")
    /\ UNCHANGED <<messages, profileReview, assessed, checkpoint, due, maintenance, offered, asked,
                   maintenanceFaults>>

\* The user's edit of a document, with twenty messages as its sources.
UserEdits(k) ==
    /\ revisions < MaxEdits /\ Upsert(k, DOMAIN messages, "user")
    /\ UNCHANGED <<messages, profileReview, assessed, checkpoint, due, maintenance, offered, asked,
                   maintenanceFaults>>

\* record_profile_review
RecordProfileReview ==
    /\ maintenance.kind = "profile"
    /\ profileReview' = projections["map"].id /\ due' = due \ {"profile"}
    /\ maintenance' = [maintenance EXCEPT !.of = projections["map"].id]
    /\ UNCHANGED <<messages, projections, assessed, checkpoint, offered, asked, revisions, maintenanceFaults>>

-----------------------------------------------------------------------------
\* Mutant of AssessedThrough: the latest message when the run ends.
AssessedAtTheEnd == Latest

\* The message maintain_one read before the run.
AssessedThrough == maintenance.latest

\* mark_assessed, in memory and then, unless that fails, in the file
MaintenanceEnds(saved) ==
    /\ maintenance.kind = "operational"
    /\ saved \/ maintenanceFaults < MaxMaintenanceFaults
    /\ maintenance' = NoRun /\ offered' = offered \cup maintenance.shown
    /\ IF \A k \in Documents : projections[k] # NoDocument
       THEN /\ assessed' = AssessedThrough /\ due' = due \ {"operational"}
            /\ checkpoint' = IF saved THEN AssessedThrough ELSE checkpoint
       ELSE UNCHANGED <<assessed, due, checkpoint>>
    /\ maintenanceFaults' = IF saved THEN maintenanceFaults ELSE maintenanceFaults + 1
    /\ UNCHANGED <<messages, projections, profileReview, asked, revisions>>

\* A clarification becomes a message of the conversation.
ReviewEnds(asks) ==
    /\ maintenance.kind = "profile"
    /\ asks => maintenance.of # 0 /\ Latest < MaxMessages
    /\ messages' = IF asks THEN Append(messages, End(Latest) + 1) ELSE messages
    /\ asked' = IF asks THEN asked \cup {[of |-> maintenance.of, message |-> Latest + 1]} ELSE asked
    /\ maintenance' = NoRun
    /\ UNCHANGED <<projections, profileReview, assessed, checkpoint, due, offered, revisions, maintenanceFaults>>

\* New input of the user, or an error; what the tools wrote stays.
Interrupted ==
    /\ maintenance # NoRun /\ maintenance' = NoRun
    /\ UNCHANGED <<messages, projections, profileReview, assessed, checkpoint, due, offered, asked,
                   revisions, maintenanceFaults>>

\* OPERATIONAL_REVIEW_INTERVAL_HOURS, PROFILE_REVIEW_INTERVAL_HOURS
DayPasses(kind) ==
    /\ due' = due \cup {kind}
    /\ UNCHANGED <<messages, projections, profileReview, assessed, checkpoint, maintenance, offered, asked,
                   revisions, maintenanceFaults>>

Restart ==
    /\ maintenanceFaults < MaxMaintenanceFaults /\ maintenanceFaults' = maintenanceFaults + 1
    /\ assessed' = checkpoint /\ maintenance' = NoRun
    /\ UNCHANGED <<messages, projections, profileReview, checkpoint, due, offered, asked, revisions>>

Next ==
    \/ \E size \in Sizes : Message(size)
    \/ BeginOperational \/ BeginProfileReview
    \/ \E k \in Documents : UpdateProjection(k) \/ UserEdits(k)
    \/ RecordProfileReview \/ Interrupted \/ Restart
    \/ \E saved \in BOOLEAN : MaintenanceEnds(saved)
    \/ \E asks \in BOOLEAN : ReviewEnds(asks)
    \/ \E kind \in {"operational", "profile"} : DayPasses(kind)

Spec == Init /\ [][Next]_maintenanceVars
-----------------------------------------------------------------------------
TypeOK ==
    /\ assessed \in 0..Latest /\ checkpoint \in 0..Latest
    /\ \A k \in Documents : projections[k].id \in 0..revisions
    /\ offered \subseteq 1..Latest

\* A message counts as assessed only when a run was shown it and came to its end, or when the messages
\* before it left it no room (maintain_operational_context, truncate_bundle, mark_assessed).
AssessedWasShown == assessed # 0 /\ Fits(assessed, assessed) => assessed \in offered

\* One version of the map leads to one question at most
\* (maintain_one, record_profile_review, review_profile).
OneQuestionPerMap == \A q, r \in asked : q.of = r.of => q = r
=============================================================================
