------------------------------ MODULE CodexTurn ------------------------------
(***************************************************************************)
(* One native turn of the Codex client (run_turn in                        *)
(* src/src/codex/client.rs) and the app-server at the other end of the     *)
(* pipe.  The client reads one message at a time: it answers the server's  *)
(* requests, keeps the events of its own turn and leaves with the first    *)
(* completion or error that matches.  Newer user input and the deadline of *)
(* a sensing run ask for an interrupt, which can only be sent once the     *)
(* turn's id is known.  An approved escalation has a second turn follow on *)
(* the same thread.                                                        *)
(*                                                                         *)
(* The server is modelled from what the client expects of it; `Resumes`:   *)
(* whether a turn may go on after its error event.  All turns use one      *)
(* thread, the worst case of matching by thread and turn id.               *)
(***************************************************************************)
EXTENDS Integers, Sequences

CONSTANTS
    MaxTurns,   \* turns asked for
    MaxEvents,  \* messages of the server, answers to turn/start and endings aside
    Resumes

VARIABLES
    server,   \* [turn, waits, up]: the running turn and the request it waits for
    inbox,    \* what the client has written and the server has not read
    wire,     \* what the server has written and the client has not read
    reader,   \* run_turn: turn asked for, its id once known, interrupt, deadline, escalation
    asked,    \* turns asked for so far
    typed,    \* whether the user has typed since the last turn was asked for
    cache,    \* TurnToolDeduplicator: the own writes before the cached read, or none
    writes,   \* history: the turn's own writes
    verdict,  \* history: the turn asked for and the turn whose end was taken
    emitted

transport == <<server, inbox, wire>>
turnVars == <<transport, reader, asked, typed, cache, writes, verdict, emitted>>

Away == [at |-> "away"]
NoVerdict == [asked |-> 0, got |-> 0]
NotCached == -1
InTurn == reader.at = "turn"
Message(kind, of) == [kind |-> kind, turn |-> of, asks |-> ""]

Init ==
    /\ server = [turn |-> 0, waits |-> "", up |-> TRUE]
    /\ inbox = <<>> /\ wire = <<>> /\ reader = Away /\ asked = 0 /\ typed = FALSE
    /\ cache = NotCached /\ writes = 0 /\ verdict = NoVerdict /\ emitted = 0

-----------------------------------------------------------------------------
(* The app-server.                                                          *)

Emit(m) == wire' = Append(wire, m)
Chatter == server.turn # 0 /\ server.waits = "" /\ emitted < MaxEvents /\ emitted' = emitted + 1
Unread == <<reader, asked, typed, cache, writes, verdict>>

ServerStarts ==
    /\ server.up /\ inbox # <<>> /\ Head(inbox).kind = "turn/start" /\ server.turn = 0
    /\ server' = [server EXCEPT !.turn = Head(inbox).turn, !.waits = ""]
    /\ Emit(Message("started", Head(inbox).turn))
    /\ inbox' = Tail(inbox) /\ UNCHANGED <<Unread, emitted>>

\* An interrupt for a turn that has ended is refused, which nobody reads.
ServerInterrupts ==
    /\ server.up /\ inbox # <<>> /\ Head(inbox).kind = "turn/interrupt"
    /\ inbox' = Tail(inbox)
    /\ IF Head(inbox).turn = server.turn
       THEN /\ server' = [server EXCEPT !.turn = 0, !.waits = ""]
            /\ Emit(Message("interrupted", server.turn))
       ELSE UNCHANGED <<server, wire>>
    /\ UNCHANGED <<Unread, emitted>>

ServerSpeaks ==
    /\ Chatter /\ Emit(Message("delta", server.turn))
    /\ UNCHANGED <<server, inbox, Unread>>

\* A tool call, a permission request, or a question to the user
ServerAsks(what) ==
    /\ Chatter
    /\ Emit([Message("request", server.turn) EXCEPT !.asks = what])
    /\ server' = [server EXCEPT !.waits = what]
    /\ UNCHANGED <<inbox, Unread>>

ServerEnds(status) ==
    /\ server.up /\ server.turn # 0 /\ server.waits = ""
    /\ Emit(Message(status, server.turn))
    /\ server' = [server EXCEPT !.turn = 0]
    /\ UNCHANGED <<inbox, Unread, emitted>>

\* An error event ends the turn, or it announces a retry.
ServerErrs ==
    /\ Chatter /\ Emit(Message("error", server.turn))
    /\ server' \in {[server EXCEPT !.turn = 0]} \cup (IF Resumes THEN {server} ELSE {})
    /\ UNCHANGED <<inbox, Unread>>

ServerDies ==
    /\ server.up /\ emitted < MaxEvents /\ emitted' = emitted + 1
    /\ server' = [server EXCEPT !.up = FALSE, !.turn = 0, !.waits = ""]
    /\ UNCHANGED <<inbox, wire, Unread>>

-----------------------------------------------------------------------------
(* The client.                                                              *)

Send(kind, of) == inbox' = Append(inbox, [kind |-> kind, turn |-> of])

\* run_request_inner asks for the first turn, or the deeper one behind an escalation.
Begin(lead, sensing) ==
    /\ asked' = asked + 1
    /\ Send("turn/start", asked + 1)
    /\ reader' = [at |-> "turn", turn |-> asked + 1, id |-> 0, wanted |-> FALSE, sent |-> FALSE,
                  deadline |-> IF sensing THEN "set" ELSE "none",
                  mayEscalate |-> lead, deeper |-> FALSE, text |-> {}]
    /\ cache' = NotCached /\ writes' = 0

Call(sensing, mayEscalate) ==
    /\ reader = Away /\ asked < MaxTurns
    /\ Begin(mayEscalate, sensing)
    /\ typed' = FALSE
    /\ UNCHANGED <<server, wire, verdict, emitted>>

GoDeeper ==
    /\ reader.at = "deeper" /\ asked < MaxTurns
    /\ Begin(FALSE, FALSE)
    /\ UNCHANGED <<server, wire, typed, verdict, emitted>>

\* announce_input of the conversation, or POST /api/chat/stop
Type ==
    /\ InTurn /\ ~typed /\ typed' = TRUE
    /\ UNCHANGED <<transport, reader, asked, cache, writes, verdict, emitted>>

\* Mutant of Interrupted: the client does not wait for the turn to end.
InterruptedAndGone(r) ==
    IF r.id # 0 /\ ~r.sent
    THEN /\ reader' = Away /\ Send("turn/interrupt", r.id)
    ELSE reader' = r /\ UNCHANGED inbox

\* The turn's id is known and the interrupt goes out, once.
Interrupted(r) ==
    IF r.id # 0 /\ ~r.sent
    THEN /\ reader' = [r EXCEPT !.sent = TRUE] /\ Send("turn/interrupt", r.id)
    ELSE reader' = r /\ UNCHANGED inbox

\* select!: the input channel has changed.  After the interrupt only the pipe is read.
SeeInput ==
    /\ InTurn /\ typed /\ ~reader.sent /\ ~reader.wanted
    /\ Interrupted([reader EXCEPT !.wanted = TRUE])
    /\ UNCHANGED <<server, wire, asked, typed, cache, writes, verdict, emitted>>

SensingDeadline ==
    /\ InTurn /\ reader.deadline = "set"
    /\ LET late == [reader EXCEPT !.deadline = "passed", !.wanted = TRUE]
       IN  IF reader.id # 0   \* sent again even behind an interrupt for newer input
           THEN reader' = [late EXCEPT !.sent = TRUE] /\ Send("turn/interrupt", reader.id)
           ELSE reader' = late /\ UNCHANGED inbox
    /\ UNCHANGED <<server, wire, asked, typed, cache, writes, verdict, emitted>>

Next1 == Head(wire)
Take == InTurn /\ wire # <<>> /\ wire' = Tail(wire)

\* event_matches and completed_turn_matches: any turn of the thread while the id is unknown
Mine == reader.id \in {0, Next1.turn}

\* The answer to the request reaches the server at once.
Answer == server' = IF server.turn = Next1.turn THEN [server EXCEPT !.waits = ""] ELSE server

\* Mutant of Deduplicated: what the turn wrote leaves the cache alone.
DeduplicatedForGood(what) ==
    CASE what = "write" -> writes' = writes + 1 /\ UNCHANGED cache
      [] what = "read" /\ cache = NotCached -> cache' = writes /\ UNCHANGED writes
      [] OTHER -> UNCHANGED <<cache, writes>>

\* plan and remember_success; a call that reuses the read is not executed.
Deduplicated(what) ==
    CASE what = "write" -> cache' = NotCached /\ writes' = writes + 1
      [] what = "read" /\ cache = NotCached -> cache' = writes /\ UNCHANGED writes
      [] OTHER -> UNCHANGED <<cache, writes>>

\* handle_server_request
HandleRequest ==
    /\ Take /\ Next1.kind = "request" /\ Next1.asks # "input"
    /\ Answer
    /\ Deduplicated(Next1.asks)
    /\ reader' = [reader EXCEPT !.deeper = @ \/ (Next1.asks = "escalate" /\ reader.mayEscalate)]
    /\ UNCHANGED <<inbox, asked, typed, verdict, emitted>>

\* A question to the user is no request the turn knows: it stays without an answer.
OverlookQuestion ==
    /\ Take /\ Next1.kind = "request" /\ Next1.asks = "input"
    /\ UNCHANGED <<server, inbox, reader, asked, typed, cache, writes, verdict, emitted>>

\* Mutant of Learn: an interrupt that was asked for earlier is not sent.
LearnOnly(r) == reader' = r /\ UNCHANGED inbox

Learn(r) == IF r.wanted THEN Interrupted(r) ELSE reader' = r /\ UNCHANGED inbox

\* The answer to turn/start
HandleStarted ==
    /\ Take /\ Next1.kind = "started" /\ Next1.turn = reader.turn
    /\ Learn([reader EXCEPT !.id = Next1.turn])
    /\ UNCHANGED <<server, asked, typed, cache, writes, verdict, emitted>>

HandleDelta ==
    /\ Take /\ Next1.kind = "delta" /\ Mine
    /\ reader' = [reader EXCEPT !.text = @ \cup {Next1.turn}]
    /\ UNCHANGED <<server, inbox, asked, typed, cache, writes, verdict, emitted>>

Ignore ==
    /\ Take /\ Next1.kind # "request"
    /\ IF Next1.kind = "started" THEN Next1.turn # reader.turn ELSE ~Mine
    /\ UNCHANGED <<server, inbox, reader, asked, typed, cache, writes, verdict, emitted>>

\* turn/completed: an interrupted turn does not escalate; a deadline that passed is an error
\* unless the turn completed all the same.
HandleEnd ==
    /\ Take /\ Next1.kind \in {"completed", "interrupted", "failed", "error"} /\ Mine
    /\ verdict' = [asked |-> reader.turn, got |-> Next1.turn]
    /\ reader' = IF Next1.kind = "completed" /\ reader.deeper /\ asked < MaxTurns
                 THEN [at |-> "deeper"] ELSE Away
    /\ UNCHANGED <<server, inbox, asked, typed, cache, writes, emitted>>

\* The pipe is closed, or silent for 75 seconds: restart_app_server
Restart ==
    /\ reader # Away /\ wire = <<>>
    /\ server' = [turn |-> 0, waits |-> "", up |-> TRUE]
    /\ inbox' = <<>> /\ wire' = <<>> /\ reader' = Away
    /\ UNCHANGED <<asked, typed, cache, writes, verdict, emitted>>

Silent == ~server.up \/ server.waits = "input"

ClientStep == \/ SeeInput \/ HandleRequest \/ OverlookQuestion \/ HandleStarted
              \/ HandleDelta \/ Ignore \/ HandleEnd

Kinds == {"read", "write", "escalate", "permission", "input"}

Next ==
    \/ ServerStarts \/ ServerInterrupts \/ ServerSpeaks \/ ServerErrs \/ ServerDies
    \/ \E what \in Kinds : ServerAsks(what)
    \/ \E status \in {"completed", "failed"} : ServerEnds(status)
    \/ \E s, e \in BOOLEAN : Call(s, e)
    \/ GoDeeper \/ Type \/ SensingDeadline \/ Restart
    \/ SeeInput \/ HandleRequest \/ OverlookQuestion \/ HandleStarted \/ HandleDelta \/ Ignore \/ HandleEnd

\* The pipe is read, the server honours what it reads, silence is noticed;
\* nothing says that a turn ends by itself.
Fairness ==
    /\ WF_turnVars(ClientStep) /\ WF_turnVars(ServerStarts \/ ServerInterrupts)
    /\ WF_turnVars(Silent /\ Restart)

Spec == Init /\ [][Next]_turnVars /\ Fairness

-----------------------------------------------------------------------------
(* The end that a call takes is the end of the turn it asked for, and so   *)
(* is every piece of its text, although until the server has named the     *)
(* turn the client matches by thread alone.                                *)
TurnsEndThemselves ==
    /\ verdict.got = verdict.asked
    /\ InTurn => reader.text \subseteq {reader.turn}

(* A read that is answered from the turn's cache would see nothing of the  *)
(* turn's own writes if it were executed again.                            *)
ReuseIsCurrent == cache # NotCached => cache = writes

(* What the user types while a turn runs ends it: at once when its id is   *)
(* known, behind the answer to turn/start when it is not, by a restart     *)
(* when the pipe is dead.                                                  *)
InputEndsTurn == (InTurn /\ typed) ~> ~InTurn
=============================================================================
