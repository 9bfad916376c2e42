------------------------------- MODULE Briefing -------------------------------
(***************************************************************************)
(* The topics of a day's inputs (src/src/signals.rs, the briefing topics;  *)
(* inference/mod.rs, classify_briefing_topics; inference/                  *)
(* briefing_topics.rs; web.rs, run_briefing_topics; exploration.rs, the    *)
(* end of a pass).  The pass and the user's runs read the day's inputs,    *)
(* ask the local model about one after another, and settle whatever is     *)
(* pending when they are done; nothing keeps two of them apart.            *)
(***************************************************************************)
EXTENDS Naturals, FiniteSets

CONSTANTS
    Labels,                 \* what the model may answer
    MaxTopics,              \* MAX_TOPICS of a day
    MaxInputs, MaxReruns    \* bounds: inputs of the day, runs the user asks for

Runs == {"pass", "manual", "again"}

VARIABLES
    inputs,   \* the external inputs of the day, in the order of publication
    shown,    \* those the model was asked about since they were last queued
    run,      \* the classifications in flight
    reruns

briefingVars == <<inputs, shown, run, reruns>>

NoTopic == ""
Quiet == [at |-> "idle"]
NoneFound == [i \in 1..MaxInputs |-> NoTopic]
Unpublished == [status |-> "unpublished", topic |-> NoTopic, reviewed |-> FALSE, hidden |-> FALSE]

Init ==
    /\ inputs = [i \in 1..MaxInputs |-> Unpublished] /\ shown = {}
    /\ run = [r \in Runs |-> Quiet] /\ reruns = 0

\* is_visible_briefing_input_on_day, is_pending_briefing_input_on_day, is_pending_external
DisplayedOf(day) == {i \in DOMAIN day : day[i].status # "unpublished" /\ ~day[i].hidden}
Displayed == DisplayedOf(inputs)
PendingInputs == {i \in Displayed : inputs[i].status = "pending"}
Unlabelled(day) == {i \in DisplayedOf(day) : day[i].status = "pending" /\ day[i].topic = NoTopic}
TopicsOf(day) == {day[i].topic : i \in DisplayedOf(day)} \ {NoTopic}

\* What publish_with_presentation leaves for the classifier; inputs come in order.
Publish(i) ==
    /\ inputs[i] = Unpublished /\ \A j \in 1..(i - 1) : inputs[j] # Unpublished
    /\ inputs' = [inputs EXCEPT ![i].status = "pending"]
    /\ UNCHANGED <<shown, run, reruns>>

Dismiss(i) ==
    /\ i \in Displayed /\ inputs' = [inputs EXCEPT ![i].hidden = TRUE]
    /\ UNCHANGED <<shown, run, reruns>>

\* queue_unreviewed_briefing_topics_for_local_day: those no run is done with
Queued == {i \in Displayed : inputs[i].topic = NoTopic /\ ~inputs[i].reviewed /\ inputs[i].status # "pending"}

\* classify_briefing_topics works on a copy of the day.
Begin(r, day) ==
    /\ inputs' = day
    /\ run' = [run EXCEPT ![r] =
           [at |-> "asking", left |-> Unlabelled(day), topics |-> TopicsOf(day), found |-> NoneFound]]

\* The end of a pass that published something: classify what the day has.
PassBegins ==
    /\ run["pass"] = Quiet /\ Displayed # {}
    /\ Begin("pass", inputs) /\ UNCHANGED <<shown, reruns>>

MayRerun(r) == r # "pass" /\ run[r] = Quiet /\ reruns < MaxReruns /\ reruns' = reruns + 1

OrganizeRest(r) ==
    /\ MayRerun(r) /\ Queued # {}
    /\ Begin(r, [i \in DOMAIN inputs |->
           IF i \in Queued THEN [inputs[i] EXCEPT !.status = "pending"] ELSE inputs[i]])
    /\ UNCHANGED shown

\* requeue_all_briefing_topics_for_local_day
Reorganize(r) ==
    /\ MayRerun(r) /\ Displayed # {}
    /\ Begin(r, [i \in DOMAIN inputs |->
           IF i \in Displayed THEN [inputs[i] EXCEPT !.status = "pending", !.topic = NoTopic, !.reviewed = FALSE]
           ELSE inputs[i]])
    /\ shown' = shown \ Displayed

\* validated_assignment: a known topic, or a new one while there is room
Fits(label, topics) == label # NoTopic /\ (label \in topics \/ Cardinality(topics) < MaxTopics)

\* One request for each input of the copy.
Ask(r, i, label) ==
    /\ run[r].at = "asking" /\ i \in run[r].left
    /\ shown' = shown \cup {i}
    /\ LET rest == [run[r] EXCEPT !.left = @ \ {i}]
       IN  run' = [run EXCEPT ![r] =
               IF Fits(label, rest.topics)
               THEN [rest EXCEPT !.topics = @ \cup {label}, !.found[i] = label] ELSE rest]
    /\ UNCHANGED <<inputs, reruns>>

\* Mutant of Settles: an answer replaces the label the input has meanwhile.
SettlesAnew(i, found) == i \in Displayed /\ (i \in PendingInputs \/ found[i] # NoTopic)

\* settle_briefing_topics_for_local_day: whatever is pending now, asked about or not
Settles(i, found) == i \in PendingInputs /\ inputs[i].topic = NoTopic

Settled(found) ==
    [i \in DOMAIN inputs |->
        IF ~Settles(i, found) THEN inputs[i]
        ELSE IF found[i] # NoTopic
        THEN [inputs[i] EXCEPT !.topic = found[i], !.status = "classified", !.reviewed = TRUE]
        ELSE [inputs[i] EXCEPT !.status = "unclassified", !.reviewed = TRUE]]

Finish(r) ==
    /\ run[r].at = "asking" /\ run[r].left = {}
    /\ inputs' = Settled(run[r].found) /\ run' = [run EXCEPT ![r] = Quiet]
    /\ UNCHANGED <<shown, reruns>>

\* mark_briefing_topics_unavailable_for_local_day
Unavailable ==
    [i \in DOMAIN inputs |-> IF i \in PendingInputs THEN [inputs[i] EXCEPT !.status = "unavailable"] ELSE inputs[i]]

\* New conversation input: a pass settles with nothing, a manual run marks what is pending.
Interrupt(r) ==
    /\ run[r].at = "asking"
    /\ inputs' = IF r = "pass" THEN Settled(NoneFound) ELSE Unavailable
    /\ run' = [run EXCEPT ![r] = Quiet] /\ UNCHANGED <<shown, reruns>>

\* The model gives no usable answer.
Defer(r) ==
    /\ run[r].at = "asking" /\ inputs' = Unavailable
    /\ run' = [run EXCEPT ![r] = Quiet] /\ UNCHANGED <<shown, reruns>>

\* The request is dropped with its connection, or the process ends.
Abandon(r) ==
    /\ run[r].at = "asking" /\ run' = [run EXCEPT ![r] = Quiet]
    /\ UNCHANGED <<inputs, shown, reruns>>

Next ==
    \/ \E i \in 1..MaxInputs : Publish(i) \/ Dismiss(i)
    \/ PassBegins
    \/ \E r \in Runs : OrganizeRest(r) \/ Reorganize(r) \/ Finish(r) \/ Interrupt(r) \/ Defer(r) \/ Abandon(r)
    \/ \E r \in Runs, i \in 1..MaxInputs, label \in Labels \cup {NoTopic} : Ask(r, i, label)

Spec == Init /\ [][Next]_briefingVars
-----------------------------------------------------------------------------
TypeOK ==
    /\ \A i \in DOMAIN inputs : inputs[i].topic \in Labels \cup {NoTopic}
    /\ shown \subseteq 1..MaxInputs /\ reruns \in 0..MaxReruns

\* A label stays until the user reorganizes the day, whichever runs end in between
\* (settle_briefing_topics_for_local_day, requeue_all_briefing_topics_for_local_day).
LabelsStay ==
    [][(\E r \in Runs : Reorganize(r))
       \/ \A i \in DOMAIN inputs : inputs[i].topic # NoTopic => inputs'[i].topic = inputs[i].topic]_briefingVars

\* An input that is done with was put to the model: what is never considered again is what
\* was left unclassified deliberately (signals.rs:435).
ReviewedMeansShown ==
    \A i \in DOMAIN inputs : inputs[i].reviewed => i \in shown

\* A day has at most MAX_TOPICS topics.
TopicsStayFew == Cardinality(TopicsOf(inputs)) <= MaxTopics
=============================================================================
