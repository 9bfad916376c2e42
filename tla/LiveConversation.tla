---------------------------- MODULE LiveConversation ----------------------------
(***************************************************************************)
(* What a browser shows of the conversation: the latest page at its        *)
(* bootstrap, older pages by their instant, and polls of the window of     *)
(* live messages (conversation_projection.rs) from its cursor on.  A       *)
(* message is appended first and published afterwards, a retracted one is  *)
(* removed from the window afterwards (continuity.rs), and several can be  *)
(* on their way at once: the user's, a reply, what reflection publishes.   *)
(***************************************************************************)
EXTENDS Naturals, Sequences, FiniteSets, FiniteSetsExt, SequencesExt

CONSTANTS
    HistoryPage,         \* HISTORY_PAGE_MESSAGE_LIMIT, INITIAL_CHAT_MESSAGE_LIMIT
    LiveLimit,           \* LIVE_MESSAGE_LIMIT
    MaxSaid, MaxRestarts     \* bounds

VARIABLES
    said,        \* the transcript in sequence: the instant of each message, and whether it is retracted
    publishing, removing,     \* what ingest_message has to publish still, retract_* to remove
    live,        \* ConversationProjection.messages
    browser,     \* the messages it shows, where it began, its cursor, whether there are older ones
    excused,     \* history: published ahead of an earlier one, fallen out of the window,
                 \* or said before the last restart
    restarts

liveVars == <<said, publishing, removing, live, browser, excused, restarts>>

NoBrowser == [shown |-> {}, began |-> 0, cursor |-> 0, more |-> FALSE]

Init ==
    /\ said = <<>> /\ publishing = {} /\ removing = {} /\ live = <<>> /\ browser = NoBrowser
    /\ excused = {} /\ restarts = 0

Visible == {m \in DOMAIN said : ~said[m].retracted}

\* TranscriptStore::append: two messages may be of one millisecond.
AppendMessage(later) ==
    /\ Len(said) < MaxSaid
    /\ LET last == IF said = <<>> THEN 0 ELSE Last(said).at
       IN  said' = Append(said, [at |-> IF later THEN last + 1 ELSE last, retracted |-> FALSE])
    /\ publishing' = publishing \cup {Len(said) + 1}
    /\ UNCHANGED <<removing, live, browser, excused, restarts>>

\* ingest_message goes on: publish drops the oldest over the limit.
Publish(m) ==
    /\ m \in publishing /\ publishing' = publishing \ {m}
    /\ live' = LET all == Append(live, m) IN IF Len(all) > LiveLimit THEN Tail(all) ELSE all
    /\ excused' = excused \cup (IF \E k \in publishing : k < m THEN {m} ELSE {})
                          \cup (IF Len(live) = LiveLimit THEN {Head(live)} ELSE {})
    /\ UNCHANGED <<said, removing, browser, restarts>>

\* retract_user_message_and_after: the message and everything after it
RetractFrom(m) ==
    /\ m \in Visible
    /\ said' = [k \in DOMAIN said |-> IF k >= m THEN [said[k] EXCEPT !.retracted = TRUE] ELSE said[k]]
    /\ removing' = removing \cup {k \in Visible : k >= m}
    /\ UNCHANGED <<publishing, live, browser, excused, restarts>>

\* ConversationProjection::remove, Vec::retain: the places that stay, in their order
RemoveRetracted ==
    /\ removing # {} /\ removing' = {}
    /\ LET places == {i \in DOMAIN live : live[i] \notin removing}
       IN  \E stays \in [1..Cardinality(places) -> places] :
              /\ \A i, j \in DOMAIN stays : i < j => stays[i] < stays[j]
              /\ live' = [i \in DOMAIN stays |-> live[stays[i]]]
    /\ UNCHANGED <<said, publishing, browser, excused, restarts>>

-----------------------------------------------------------------------------
\* The newest of what may be read; one more tells that there is more.
PageOf(readable) == {m \in readable : Cardinality({k \in readable : k > m}) < HistoryPage}

\* bootstrap: the cursor is the newest message of the latest page.
Bootstrap ==
    /\ LET newest == Max(Visible \cup {0})
       IN  browser' = [shown |-> PageOf(Visible), began |-> newest, cursor |-> newest,
                       more |-> Visible # PageOf(Visible)]
    /\ UNCHANGED <<said, publishing, removing, live, excused, restarts>>

\* message_history: what is earlier than the earliest one shown
LoadOlder ==
    /\ browser.more
    /\ LET oldest == Min({said[m].at : m \in browser.shown})
           readable == {m \in Visible : said[m].at < oldest}
       IN  browser' = [browser EXCEPT !.shown = @ \cup PageOf(readable), !.more = readable # PageOf(readable)]
    /\ UNCHANGED <<said, publishing, removing, live, excused, restarts>>

\* Mutant of LiveAfter: a cursor the window does not hold has nothing behind it.
KnownAfter(cursor) ==
    IF cursor \in Range(live) THEN SubSeq(live, SelectInSeq(live, LAMBDA m : m = cursor) + 1, Len(live)) ELSE <<>>

\* ConversationProjection::after: from behind the cursor; all of it, when the cursor is not there.
LiveAfter(cursor) == SubSeq(live, SelectInSeq(live, LAMBDA m : m = cursor) + 1, Len(live))

\* runtime
Poll ==
    /\ LiveAfter(browser.cursor) # <<>>
    /\ LET new == LiveAfter(browser.cursor)
       IN  browser' = [browser EXCEPT !.shown = @ \cup Range(new), !.cursor = Last(new)]
    /\ UNCHANGED <<said, publishing, removing, live, excused, restarts>>

\* The process is started again; the browser is not.
Restart ==
    /\ restarts < MaxRestarts /\ restarts' = restarts + 1
    /\ excused' = DOMAIN said
    /\ publishing' = {} /\ removing' = {} /\ live' = <<>>
    /\ UNCHANGED <<said, browser>>

Next ==
    \/ \E later \in BOOLEAN : AppendMessage(later)
    \/ \E m \in DOMAIN said : Publish(m) \/ RetractFrom(m)
    \/ RemoveRetracted \/ Bootstrap \/ LoadOlder \/ Poll \/ Restart

Spec == Init /\ [][Next]_liveVars
-----------------------------------------------------------------------------
TypeOK ==
    /\ publishing \cup removing \cup Range(live) \cup browser.shown \cup excused \subseteq DOMAIN said
    /\ browser.cursor \in 0..Len(said) /\ Len(live) <= LiveLimit

Missed == {m \in Visible \ publishing : browser.began < m} \ browser.shown

\* A browser that polled to the end shows every message after those it began with, but for one that
\* was published ahead of an earlier one, and those it had not polled when they fell out of the
\* window or the process was restarted (ConversationProjection::after, "cursor-based recovery" of web/message-sync.js).
PollingMissesNothing == LiveAfter(browser.cursor) = <<>> => Missed \subseteq excused

\* A browser with nothing older to load shows everything before its newest message.
PagingMissesNothing == browser.shown # {} /\ ~browser.more =>
    \A m \in Visible : m < Max(browser.shown) => m \in browser.shown

\* With nothing on its way, the live window shows no retracted message.
LiveIsVisible == publishing = {} /\ removing = {} => Range(live) \subseteq Visible
=============================================================================
