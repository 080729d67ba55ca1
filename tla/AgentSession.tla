----------------------------- MODULE AgentSession -----------------------------
(***************************************************************************)
(* One interactive agent session (server/session_hub, agent_controller,    *)
(* approval, questionnaire).                                               *)
(*                                                                         *)
(* HTTP handlers start and cancel turns and answer what the agent asks.    *)
(* The turn worker runs the turn and, in a round, several tools at once;   *)
(* they block in one of two gates while a Guard approval or a questionnaire*)
(* is open.  What the turn has to say goes through a queue to the event    *)
(* pump, which keeps the session's status and the identities that clients  *)
(* use.  A preparation thread makes the session ready, and closing it      *)
(* stops all of them.  Each critical section of the session's mutex or of  *)
(* a gate's is one action; handlers hold neither between their actions.    *)
(***************************************************************************)
EXTENDS Naturals, SequencesExt

CONSTANTS
    Clients,    \* connections whose handlers work on this session
    Tools,      \* the tools a round runs in parallel
    MaxTurns,   \* bound: turn ids handed out
    MaxAsks,    \* bound: approvals the agent asks for
    MaxQuizzes, \* bound: questionnaires it puts
    Closing     \* the session may be closed

ASSUME SessionAssumption ==
    /\ MaxTurns \in Nat
    /\ MaxAsks \in Nat
    /\ MaxQuizzes \in Nat
    /\ Closing \in BOOLEAN

Turns == 1..MaxTurns
None  == 0
Canceller == MaxAsks + MaxQuizzes + 1   \* in the place of an id: a cancellation

VARIABLES
    \* InteractiveSession, guarded by mutex_
    status,
    active_turn,         \* active_turn_id_, or None
    next_turn,
    pending_approval,    \* pending_approval_id_, or None
    next_approval,
    pending_quiz,        \* pending_questionnaire_.id, or None
    pending_quiz_turn,
    closed,
    \* AgentController
    events,              \* the queue events_: what the worker has to say, and of which turn
    turn_running,
    source,              \* the turn whose token turn_job_ holds, None before the first
    cancelled,           \* turns whose token is set
    \* ApprovalGate and QuestionnaireGate
    gate,
    quiz_gate,
    \* the turn worker and its tools
    worker,              \* its label
    tool,                \* tool -> "idle", or how far its request for approval is
    worker_turn,
    project_open,        \* the project session is begun and not finished
    seeded,              \* conversation_seeded_: a turn has begun it once
    \* the event pump
    pump,                \* "idle", "busy" with an event, or "done"
    event,               \* the event it holds
    event_turn,          \* the turn it takes the event for
    pump_cancelled,
    \* the preparation thread
    prep,
    prep_cancelled,
    prepared,
    \* the handlers
    creator,             \* the handler of POST /sessions
    at,                  \* client -> its label; "idle" holds no reference
    turn,                \* client -> the turn its request names
    id,                  \* client -> the approval or questionnaire it answers
    closer,              \* the handler of DELETE (or the server's shutdown)
    life                 \* "alive", then what the destructor waits for, then "dead"

sessionVars    == <<status, active_turn, next_turn, pending_approval, next_approval,
                    pending_quiz, pending_quiz_turn, closed>>
controllerVars == <<events, turn_running, source, cancelled>>
gateVars       == <<gate, quiz_gate>>
turnVars       == <<worker, worker_turn, project_open, seeded>>
workerVars     == <<turnVars, tool>>
pumpVars       == <<pump, event, event_turn, pump_cancelled>>
prepVars       == <<prep, prep_cancelled, prepared>>
handlerVars    == <<creator, at, turn, id, closer, life>>
vars == <<sessionVars, controllerVars, gateVars, workerVars, pumpVars, prepVars, handlerVars>>

\* A gate: serial counts its requests and stands for the request at hand; by
\* records who answered it (an approval or questionnaire id, or Canceller).
IdleGate == [pending |-> FALSE, answered |-> FALSE, serial |-> 0, by |-> None]
NoEvent  == [type |-> "none", serial |-> 0, turn |-> None]

\* Mutant of FirstIds: counting starts with what stands for no turn.
FirstIdsZero == next_turn = 0 /\ next_approval = 0

FirstIds == next_turn = 1 /\ next_approval = 1

Init ==
    /\ status = "preparing"
    /\ FirstIds
    /\ active_turn = None
    /\ pending_approval = None
    /\ pending_quiz = None /\ pending_quiz_turn = None
    /\ closed = FALSE
    /\ events = <<>>
    /\ turn_running = FALSE /\ source = None /\ cancelled = {}
    /\ gate = IdleGate /\ quiz_gate = IdleGate
    /\ worker = "none" /\ worker_turn = None /\ tool = [t \in Tools |-> "idle"]
    /\ project_open = FALSE /\ seeded = FALSE
    /\ pump = "idle" /\ event = NoEvent /\ event_turn = None /\ pump_cancelled = FALSE
    /\ prep = "none" /\ prep_cancelled = FALSE /\ prepared = FALSE
    /\ creator = "starting"
    /\ at = [c \in Clients |-> "idle"]
    /\ turn = [c \in Clients |-> None]
    /\ id = [c \in Clients |-> None]
    /\ closer = "none"
    /\ life = "alive"

Goto(c, label) == at' = [at EXCEPT ![c] = label]

-----------------------------------------------------------------------------
(* The gates *)

\* Mutant of Asked: the flag of the last answer is left standing.
AskedUnreset(g) ==
    [pending |-> TRUE, answered |-> g.answered, serial |-> g.serial + 1, by |-> None]

\* request() makes its request the pending one.
Asked(g) == [pending |-> TRUE, answered |-> FALSE, serial |-> g.serial + 1, by |-> None]

\* resolve() and cancel_pending(); an answer to nothing, or to what is answered
\* already, is ignored.
Resolved(g, by) ==
    IF g.pending /\ ~g.answered
    THEN [pending |-> TRUE, answered |-> TRUE, serial |-> g.serial, by |-> by] ELSE g

\* request() comes back: with the answer, or without one when its token is set.
Taken(g) == [pending |-> FALSE, answered |-> FALSE, serial |-> g.serial, by |-> g.by]
Abandoned(g) == [pending |-> FALSE, answered |-> TRUE, serial |-> g.serial, by |-> g.by]

\* Mutant of Woken: nobody is notified.
WokenNone == tool

\* notify_all: a tool that waits for its turn to ask has no time limit and looks
\* at its condition again only when it is notified.
Woken == [t \in Tools |-> IF tool[t] = "parked" THEN "queued" ELSE tool[t]]

ResolveGate(by) ==
    /\ gate' = Resolved(gate, by)
    /\ tool' = IF gate' = gate THEN tool ELSE Woken

\* Mutant of Accepts: any answer will do.
AcceptsAny(q) == quiz_gate.pending /\ ~quiz_gate.answered

\* answer() and decline() insist on the id of the open questionnaire.
Accepts(q) == quiz_gate.pending /\ ~quiz_gate.answered /\ quiz_gate.serial = q

-----------------------------------------------------------------------------
(* Preparation *)

\* create() has put the session into the hub and now starts its preparation.
StartPreparation ==
    /\ creator = "starting"
    /\ creator' = "done"
    /\ prep' = "working"
    /\ prep_cancelled' = FALSE
    /\ UNCHANGED <<sessionVars, controllerVars, gateVars, workerVars, pumpVars, prepared,
                   at, turn, id, closer, life>>

\* It succeeds, or it fails or notices its cancellation.
Prepare ==
    /\ prep = "working"
    /\ \E ok \in BOOLEAN : prepared' = ok /\ prep' = IF ok THEN "ready" ELSE "error"
    /\ UNCHANGED <<sessionVars, controllerVars, gateVars, workerVars, pumpVars,
                   prep_cancelled, handlerVars>>

PreparationDone ==
    /\ prep \in {"ready", "error"}
    /\ status' = IF closed THEN status ELSE prep
    /\ prep' = "done"
    /\ UNCHANGED <<active_turn, next_turn, pending_approval, next_approval, pending_quiz,
                   pending_quiz_turn, closed, controllerVars, gateVars, workerVars, pumpVars,
                   prep_cancelled, prepared, handlerVars>>

-----------------------------------------------------------------------------
(* The turn worker *)

Say(type, serial) ==
    events' = Append(events, [type |-> type, serial |-> serial, turn |-> worker_turn])

\* run_user_turn begins the project session the first time, or fails.
TurnBegins ==
    /\ worker = "begin"
    /\ IF seeded THEN worker' = "working" /\ UNCHANGED <<project_open, seeded>>
       ELSE \E ok, opened \in BOOLEAN :
                /\ ok => opened
                /\ worker' = IF ok THEN "working" ELSE "returned"
                /\ project_open' = (project_open \/ opened) /\ seeded' = ok
    /\ UNCHANGED <<sessionVars, controllerVars, gateVars, tool, worker_turn, pumpVars, prepVars,
                   handlerVars>>

ToolVars == <<sessionVars, turn_running, source, cancelled, worker_turn, project_open, seeded,
              pumpVars, prepVars, handlerVars>>

ToolGoto(t, label) == tool' = [tool EXCEPT ![t] = label]

\* A tool of the round needs an approval.  A cancelled turn gets no further.
NeedApproval(t) ==
    /\ worker = "working" /\ tool[t] = "idle"
    /\ worker_turn \notin cancelled /\ gate.serial < MaxAsks
    /\ ToolGoto(t, "queued")
    /\ UNCHANGED <<ToolVars, events, gateVars, worker>>

\* One request at a time: the others wait.
AskApproval(t) ==
    /\ tool[t] = "queued"
    /\ IF worker_turn \in cancelled THEN ToolGoto(t, "idle") /\ gate' = gate
       ELSE IF gate.pending THEN ToolGoto(t, "parked") /\ gate' = gate
       ELSE gate.serial < MaxAsks /\ ToolGoto(t, "asked") /\ gate' = Asked(gate)
    /\ UNCHANGED <<ToolVars, events, quiz_gate, worker>>

\* The gate's notify: the request goes into the queue.
NotifyApproval(t) ==
    /\ tool[t] = "asked"
    /\ Say("approval", gate.serial)
    /\ ToolGoto(t, "waiting")
    /\ UNCHANGED <<ToolVars, gateVars, worker>>

\* The wait ends with the answer, which counts even after a cancellation, or
\* with the cancellation.
TakeApproval(t) ==
    /\ tool[t] = "waiting"
    /\ \/ gate.answered /\ gate' = Taken(gate)
       \/ ~gate.answered /\ worker_turn \in cancelled /\ gate' = Abandoned(gate)
    /\ tool' = [Woken EXCEPT ![t] = "idle"]
    /\ UNCHANGED <<ToolVars, events, quiz_gate, worker>>

\* The questionnaire tool runs alone.
ToolsIdle == \A t \in Tools : tool[t] = "idle"

AskQuestionnaire ==
    /\ worker = "working" /\ ToolsIdle
    /\ ~quiz_gate.pending /\ worker_turn \notin cancelled /\ quiz_gate.serial < MaxQuizzes
    /\ quiz_gate' = Asked(quiz_gate)
    /\ worker' = "quiz_asked"
    /\ UNCHANGED <<ToolVars, events, gate, tool>>

NotifyQuestionnaire ==
    /\ worker = "quiz_asked"
    /\ Say("quiz", quiz_gate.serial)
    /\ worker' = "quiz"
    /\ UNCHANGED <<ToolVars, gateVars, tool>>

TakeQuestionnaire ==
    /\ worker = "quiz"
    /\ \/ quiz_gate.answered /\ quiz_gate' = Taken(quiz_gate)
       \/ ~quiz_gate.answered /\ worker_turn \in cancelled /\ quiz_gate' = Abandoned(quiz_gate)
    /\ worker' = "working"
    /\ UNCHANGED <<ToolVars, events, gate, tool>>

TurnReturns ==
    /\ worker = "working" /\ ToolsIdle
    /\ worker' = "returned"
    /\ UNCHANGED <<sessionVars, controllerVars, gateVars, tool, worker_turn, project_open, seeded,
                   pumpVars, prepVars, handlerVars>>

ClearRunning ==
    /\ worker = "returned"
    /\ turn_running' = FALSE
    /\ worker' = "ending"
    /\ UNCHANGED <<sessionVars, events, source, cancelled, gateVars, tool, worker_turn, project_open,
                   seeded, pumpVars, prepVars, handlerVars>>

\* TurnDone or TurnError is the last thing the thread does.
SayEnd ==
    /\ worker = "ending"
    /\ Say("end", 0)
    /\ worker' = "none"
    /\ UNCHANGED <<sessionVars, turn_running, source, cancelled, gateVars, tool, worker_turn,
                   project_open, seeded, pumpVars, prepVars, handlerVars>>

-----------------------------------------------------------------------------
(* The event pump *)

\* The pump takes the next event, and notes which turn is active.  Those of a
\* closed session are dropped.
TakeEvent ==
    /\ pump = "idle" /\ ~pump_cancelled /\ events # <<>>
    /\ events' = Tail(events)
    /\ IF closed THEN UNCHANGED <<pump, event, event_turn>>
       ELSE pump' = "busy" /\ event' = Head(events) /\ event_turn' = active_turn
    /\ UNCHANGED <<sessionVars, turn_running, source, cancelled, gateVars, workerVars,
                   pump_cancelled, prepVars, handlerVars>>

PumpRests ==
    /\ pump' = "idle" /\ event' = NoEvent /\ event_turn' = None
    /\ UNCHANGED <<next_turn, closed, controllerVars, gateVars, workerVars, pump_cancelled,
                   prepVars, handlerVars>>

ConsumeApproval ==
    /\ pump = "busy" /\ event.type = "approval"
    /\ pending_approval' = next_approval
    /\ next_approval' = next_approval + 1
    /\ status' = "waiting_guard"
    /\ PumpRests
    /\ UNCHANGED <<active_turn, pending_quiz, pending_quiz_turn>>

ConsumeQuestionnaire ==
    /\ pump = "busy" /\ event.type = "quiz"
    /\ pending_quiz' = event.serial
    /\ pending_quiz_turn' = event_turn
    /\ status' = "waiting_user"
    /\ PumpRests
    /\ UNCHANGED <<active_turn, pending_approval, next_approval>>

\* Mutant of Cleared: the approval of the turn that ended is still offered.
ClearedButApproval == pending_approval' = pending_approval

Cleared == pending_approval' = None

ConsumeEnd ==
    /\ pump = "busy" /\ event.type = "end"
    /\ active_turn' = None
    /\ Cleared
    /\ pending_quiz' = None /\ pending_quiz_turn' = None
    /\ status' = IF closed THEN "closed" ELSE "ready"
    /\ PumpRests
    /\ UNCHANGED next_approval

PumpStops ==
    /\ pump = "idle" /\ pump_cancelled
    /\ pump' = "done"
    /\ UNCHANGED <<sessionVars, controllerVars, gateVars, workerVars, event, event_turn,
                   pump_cancelled, prepVars, handlerVars>>

-----------------------------------------------------------------------------
(* Handlers.  A handler finds the session in the hub and keeps a reference; *)
(* what it was asked to do it does later, whatever happened meanwhile.      *)

Unchanged(c) == UNCHANGED <<creator, closer, life, turn, id>> /\ c \in Clients

Find(c) ==
    /\ at[c] = "idle" /\ closer = "none"
    /\ Goto(c, "found")
    /\ Unchanged(c)
    /\ UNCHANGED <<sessionVars, controllerVars, gateVars, workerVars, pumpVars, prepVars>>

\* A request that is refused, or only reads.
Refuse(c) ==
    /\ at[c] = "found"
    /\ Goto(c, "idle")
    /\ Unchanged(c)
    /\ UNCHANGED <<sessionVars, controllerVars, gateVars, workerVars, pumpVars, prepVars>>

(* start_turn *)

\* Mutant of Idle: only the worker is asked whether a turn is on.
IdleWorker == ~turn_running

Idle == active_turn = None /\ ~turn_running

ClaimTurn(c) ==
    /\ at[c] = "found"
    /\ ~closed /\ status \notin {"preparing", "error"}
    /\ Idle /\ prepared
    /\ next_turn \in Turns
    /\ active_turn' = next_turn
    /\ next_turn' = next_turn + 1
    /\ status' = "running"
    /\ turn' = [turn EXCEPT ![c] = next_turn]
    /\ Goto(c, "launch")
    /\ UNCHANGED <<pending_approval, next_approval, pending_quiz, pending_quiz_turn, closed,
                   controllerVars, gateVars, workerVars, pumpVars, prepVars,
                   creator, id, closer, life>>

\* AgentController::start_turn.  Were a turn running, the claim would be taken
\* back; JobHandle::start first cancels what it ran before.
Launch(c) ==
    /\ at[c] = "launch"
    /\ IF turn_running
       THEN /\ active_turn' = None /\ status' = "ready" /\ Goto(c, "idle")
            /\ UNCHANGED <<turn_running, cancelled>>
       ELSE /\ turn_running' = TRUE
            /\ cancelled' = cancelled \cup ({source} \ {None})
            /\ Goto(c, "spawn")
            /\ UNCHANGED <<active_turn, status>>
    /\ Unchanged(c)
    /\ UNCHANGED <<next_turn, pending_approval, next_approval, pending_quiz,
                   pending_quiz_turn, closed, events, source, gateVars, workerVars, pumpVars,
                   prepVars>>

\* It joins that thread, takes a new token and starts the next one.
Spawn(c) ==
    /\ at[c] = "spawn" /\ worker = "none"
    /\ source' = turn[c]
    /\ worker' = "begin" /\ worker_turn' = turn[c]
    /\ Goto(c, "idle")
    /\ Unchanged(c)
    /\ UNCHANGED <<sessionVars, events, turn_running, cancelled, gateVars, tool,
                   project_open, seeded, pumpVars, prepVars>>

(* cancel_turn *)

CancelTurn(c) ==
    /\ at[c] = "found" /\ active_turn # None
    /\ turn' = [turn EXCEPT ![c] = active_turn]
    /\ Goto(c, "cancel_approval")
    /\ UNCHANGED <<sessionVars, controllerVars, gateVars, workerVars, pumpVars, prepVars,
                   creator, id, closer, life>>

CancelApproval(c) ==
    /\ at[c] = "cancel_approval"
    /\ ResolveGate(Canceller)
    /\ Goto(c, "cancel_quiz")
    /\ Unchanged(c)
    /\ UNCHANGED <<sessionVars, controllerVars, quiz_gate, turnVars, pumpVars, prepVars>>

CancelQuestionnaire(c) ==
    /\ at[c] = "cancel_quiz"
    /\ quiz_gate' = Resolved(quiz_gate, Canceller)
    /\ Goto(c, "cancel_token")
    /\ Unchanged(c)
    /\ UNCHANGED <<sessionVars, controllerVars, gate, workerVars, pumpVars, prepVars>>

\* Mutant of SourceTurn: the token is left alone.
SourceTurnNone == {}

\* The turn that turn_job_.cancel() reaches: whichever started last.
SourceTurn == {source} \ {None}

CancelToken(c) ==
    /\ at[c] = "cancel_token"
    /\ cancelled' = cancelled \cup SourceTurn
    /\ Goto(c, "idle")
    /\ Unchanged(c)
    /\ UNCHANGED <<sessionVars, events, turn_running, source, gateVars, workerVars, pumpVars,
                   prepVars>>

(* resolve_approval *)

\* Mutant of Consumed: the id stays valid after its use.
ConsumedNot == pending_approval' = pending_approval

\* The id is checked and used up; the request it stood for is not remembered.
Consumed == pending_approval' = None

ClaimApproval(c) ==
    /\ at[c] = "found" /\ pending_approval # None
    /\ id' = [id EXCEPT ![c] = pending_approval]
    /\ turn' = [turn EXCEPT ![c] = active_turn]
    /\ Consumed
    /\ status' = "running"
    /\ Goto(c, "approve")
    /\ UNCHANGED <<active_turn, next_turn, next_approval, pending_quiz, pending_quiz_turn,
                   closed, controllerVars, gateVars, workerVars, pumpVars, prepVars,
                   creator, closer, life>>

ResolveApproval(c) ==
    /\ at[c] = "approve"
    /\ ResolveGate(id[c])
    /\ Goto(c, "idle")
    /\ Unchanged(c)
    /\ UNCHANGED <<sessionVars, controllerVars, quiz_gate, turnVars, pumpVars, prepVars>>

(* resolve_questionnaire *)

CheckQuestionnaire(c) ==
    /\ at[c] = "found"
    /\ pending_quiz # None /\ pending_quiz_turn # None /\ pending_quiz_turn = active_turn
    /\ id' = [id EXCEPT ![c] = pending_quiz]
    /\ turn' = [turn EXCEPT ![c] = active_turn]
    /\ Goto(c, "answer")
    /\ UNCHANGED <<sessionVars, controllerVars, gateVars, workerVars, pumpVars, prepVars,
                   creator, closer, life>>

\* The gate takes the answer, or turns it down (another one came first, or it
\* is no answer to these questions) and leaves everything as it was.
AnswerQuestionnaire(c) ==
    /\ at[c] = "answer" /\ Accepts(id[c])
    /\ quiz_gate' = Resolved(quiz_gate, id[c])
    /\ Goto(c, "clear_quiz")
    /\ Unchanged(c)
    /\ UNCHANGED <<sessionVars, controllerVars, gate, workerVars, pumpVars, prepVars>>

\* Mutant of TurnedDown: the gate's error is not looked at.
TurnedDownUnseen == "clear_quiz"

\* Where an answer that the gate did not take leads: back to the client.
TurnedDown == "idle"

RejectAnswer(c) ==
    /\ at[c] = "answer"
    /\ Goto(c, TurnedDown)
    /\ Unchanged(c)
    /\ UNCHANGED <<sessionVars, controllerVars, gateVars, workerVars, pumpVars, prepVars>>

\* Mutant of StillPending: whatever is pending by now is cleared.
StillPendingAny(c) == TRUE

StillPending(c) == pending_quiz = id[c]

ClearQuestionnaire(c) ==
    /\ at[c] = "clear_quiz"
    /\ IF StillPending(c)
       THEN /\ pending_quiz' = None /\ pending_quiz_turn' = None
            /\ status' = IF ~closed /\ active_turn # None /\ active_turn = turn[c]
                         THEN "running" ELSE status
       ELSE UNCHANGED <<pending_quiz, pending_quiz_turn, status>>
    /\ Goto(c, "idle")
    /\ Unchanged(c)
    /\ UNCHANGED <<active_turn, next_turn, pending_approval, next_approval, closed,
                   controllerVars, gateVars, workerVars, pumpVars, prepVars>>

Handler(c) ==
    \/ Refuse(c) \/ Launch(c) \/ Spawn(c)
    \/ CancelApproval(c) \/ CancelQuestionnaire(c) \/ CancelToken(c)
    \/ ResolveApproval(c) \/ AnswerQuestionnaire(c) \/ RejectAnswer(c) \/ ClearQuestionnaire(c)

Request(c) ==
    Find(c) \/ ClaimTurn(c) \/ CancelTurn(c) \/ ClaimApproval(c) \/ CheckQuestionnaire(c)

-----------------------------------------------------------------------------
(* close *)

CloserGoto(label) ==
    closer' = label /\ UNCHANGED <<creator, at, turn, id, life>>

\* SessionHub::erase takes the session out of the hub ...
Erase ==
    /\ Closing /\ closer = "none"
    /\ CloserGoto("close")
    /\ UNCHANGED <<sessionVars, controllerVars, gateVars, workerVars, pumpVars, prepVars>>

\* ... and closes it.
Close ==
    /\ closer = "close"
    /\ closed' = TRUE
    /\ status' = "closed"
    /\ CloserGoto("cancel_approval")
    /\ UNCHANGED <<active_turn, next_turn, pending_approval, next_approval, pending_quiz,
                   pending_quiz_turn, controllerVars, gateVars, workerVars, pumpVars, prepVars>>

\* AgentController::shutdown: cancel_turn ...
CloseApproval ==
    /\ closer = "cancel_approval"
    /\ ResolveGate(Canceller)
    /\ CloserGoto("cancel_quiz")
    /\ UNCHANGED <<sessionVars, controllerVars, quiz_gate, turnVars, pumpVars, prepVars>>

CloseQuestionnaire ==
    /\ closer = "cancel_quiz"
    /\ quiz_gate' = Resolved(quiz_gate, Canceller)
    /\ CloserGoto("cancel_token")
    /\ UNCHANGED <<sessionVars, controllerVars, gate, workerVars, pumpVars, prepVars>>

CloseToken ==
    /\ closer = "cancel_token"
    /\ cancelled' = cancelled \cup SourceTurn
    /\ CloserGoto("join")
    /\ UNCHANGED <<sessionVars, events, turn_running, source, gateVars, workerVars, pumpVars,
                   prepVars>>

\* ... join_turn and finish_session; then the preparation is cancelled.
CloseJoin ==
    /\ closer = "join" /\ worker = "none"
    /\ turn_running' = FALSE
    /\ CloserGoto("finish")
    /\ UNCHANGED <<sessionVars, events, source, cancelled, gateVars, workerVars, pumpVars,
                   prepVars>>

CloseFinish ==
    /\ closer = "finish"
    /\ project_open' = (project_open /\ ~prepared)
    /\ prep_cancelled' = TRUE
    /\ CloserGoto("join_preparation")
    /\ UNCHANGED <<sessionVars, controllerVars, gateVars, worker, tool, worker_turn, seeded,
                   pumpVars, prep, prepared>>

CloseJoinPreparation ==
    /\ closer = "join_preparation" /\ prep \in {"none", "done"}
    /\ pump_cancelled' = TRUE
    /\ CloserGoto("join_pump")
    /\ UNCHANGED <<sessionVars, controllerVars, gateVars, workerVars, pump, event, event_turn,
                   prepVars>>

\* The last event is published, the stream closed and the reference dropped.
CloseDone ==
    /\ closer = "join_pump" /\ pump = "done"
    /\ CloserGoto("done")
    /\ UNCHANGED <<sessionVars, controllerVars, gateVars, workerVars, pumpVars, prepVars>>

Closer ==
    \/ Close \/ CloseApproval \/ CloseQuestionnaire \/ CloseToken \/ CloseJoin \/ CloseFinish
    \/ CloseJoinPreparation \/ CloseDone

\* Mutant of Unreferenced: the handlers are not counted.
UnreferencedByHub == closer = "done"

\* The last reference is gone: the destructor runs.
Unreferenced == closer = "done" /\ creator = "done" /\ \A c \in Clients : at[c] = "idle"

\* It finds the session closed; the members are left to stop what still runs:
\* preparation_job_, then the controller and its turn.
Destroy ==
    /\ life = "alive" /\ Unreferenced
    /\ prep_cancelled' = TRUE
    /\ life' = "join_preparation"
    /\ UNCHANGED <<sessionVars, controllerVars, gateVars, workerVars, pumpVars, prep, prepared,
                   creator, at, turn, id, closer>>

DestroyController ==
    /\ life = "join_preparation" /\ prep \in {"none", "done"}
    /\ ResolveGate(Canceller)
    /\ quiz_gate' = Resolved(quiz_gate, Canceller)
    /\ cancelled' = cancelled \cup SourceTurn
    /\ life' = "join_turn"
    /\ UNCHANGED <<sessionVars, events, turn_running, source, turnVars, pumpVars, prepVars,
                   creator, at, turn, id, closer>>

Destroyed ==
    /\ life = "join_turn" /\ worker = "none"
    /\ turn_running' = FALSE
    /\ project_open' = (project_open /\ ~prepared)
    /\ life' = "dead"
    /\ UNCHANGED <<sessionVars, events, source, cancelled, gateVars, worker, tool,
                   worker_turn, seeded, pumpVars, prepVars, creator, at, turn, id, closer>>

Destructor == Destroy \/ DestroyController \/ Destroyed

-----------------------------------------------------------------------------

Tool(t) == AskApproval(t) \/ NotifyApproval(t) \/ TakeApproval(t)
TurnWorker == TurnBegins \/ NotifyQuestionnaire \/ TakeQuestionnaire \/ ClearRunning \/ SayEnd
Pump == TakeEvent \/ ConsumeApproval \/ ConsumeQuestionnaire \/ ConsumeEnd \/ PumpStops

Next ==
    \/ StartPreparation \/ Prepare \/ PreparationDone
    \/ AskQuestionnaire \/ TurnReturns \/ TurnWorker
    \/ \E t \in Tools : NeedApproval(t) \/ Tool(t)
    \/ Pump
    \/ \E c \in Clients : Request(c) \/ Handler(c)
    \/ Erase \/ Closer \/ Destructor

\* Threads that are not waiting run.  A preparation ends by itself: what it asks
\* of the provider answers or fails, cancelled or not.  A turn ends once it is
\* cancelled; else it may go on for ever, or wait for ever for its user.
\* Nobody has to ask for anything or to answer.
Fairness ==
    /\ WF_vars(StartPreparation)
    /\ WF_vars(Prepare) /\ WF_vars(PreparationDone)
    /\ WF_vars(TurnWorker) /\ \A t \in Tools : WF_vars(Tool(t))
    /\ WF_vars(worker_turn \in cancelled /\ TurnReturns)
    /\ WF_vars(Pump)
    /\ \A c \in Clients : WF_vars(Handler(c))
    /\ WF_vars(Closer) /\ WF_vars(Destructor)

Spec == Init /\ [][Next]_vars /\ Fairness

-----------------------------------------------------------------------------
(* Properties *)

Gates(max) == [pending : BOOLEAN, answered : BOOLEAN, serial : 0..max, by : Nat]
EventSet == [type : {"approval", "quiz", "end"}, serial : Nat, turn : Turns]

\* The type of every variable.
TypeOK ==
    /\ status \in {"preparing", "ready", "error", "running", "waiting_guard", "waiting_user",
                   "closed"}
    /\ active_turn \in Turns \cup {None} /\ next_turn \in 1..(MaxTurns + 1)
    /\ pending_approval \in Nat /\ next_approval \in Nat \ {0}
    /\ pending_quiz \in Nat /\ pending_quiz_turn \in Turns \cup {None}
    /\ closed \in BOOLEAN
    /\ events \in Seq(EventSet)
    /\ turn_running \in BOOLEAN /\ source \in Turns \cup {None} /\ cancelled \subseteq Turns
    /\ gate \in Gates(MaxAsks) /\ quiz_gate \in Gates(MaxQuizzes)
    /\ worker \in {"none", "begin", "working", "quiz_asked", "quiz", "returned", "ending"}
    /\ tool \in [Tools -> {"idle", "queued", "parked", "asked", "waiting"}]
    /\ worker_turn \in Turns \cup {None}
    /\ project_open \in BOOLEAN /\ seeded \in BOOLEAN
    /\ pump \in {"idle", "busy", "done"} /\ event \in EventSet \cup {NoEvent}
    /\ event_turn \in Turns \cup {None} /\ pump_cancelled \in BOOLEAN
    /\ prep \in {"none", "working", "ready", "error", "done"}
    /\ prep_cancelled \in BOOLEAN /\ prepared \in BOOLEAN
    /\ creator \in {"starting", "done"}
    /\ at \in [Clients -> {"idle", "found", "launch", "spawn", "cancel_approval",
                           "cancel_quiz", "cancel_token", "approve", "answer", "clear_quiz"}]
    /\ turn \in [Clients -> Turns \cup {None}]
    /\ id \in [Clients -> Nat]
    /\ closer \in {"none", "close", "cancel_approval", "cancel_quiz", "cancel_token", "join",
                   "finish", "join_preparation", "join_pump", "done"}
    /\ life \in {"alive", "join_preparation", "join_turn", "dead"}

Launching == {c \in Clients : at[c] \in {"launch", "spawn"}}

\* Only one turn at a time: a handler that has claimed a turn is the only one,
\* its claim stands, and it finds no turn running and no worker left, so the
\* turn it has announced is never taken back.
OneTurnAtATime ==
    \A c \in Launching :
        /\ Launching = {c}
        /\ active_turn = turn[c]
        /\ at[c] = "launch" => ~turn_running
        /\ worker = "none"

\* The worker's events do not name their turn; the pump publishes each under
\* the turn that is active when it takes it, and that is the right one.
EventsOfTheirTurn == pump = "busy" => event.turn = event_turn

\* Turns do not run into each other, neither in the handlers that start them nor
\* in what the pump publishes of them.
TurnsApart == OneTurnAtATime /\ EventsOfTheirTurn

\* What is shown as idle is idle: no turn, and nothing of the last one that a
\* client could still answer.
IdleIsClean ==
    status \in {"preparing", "ready", "error"} =>
        active_turn = None /\ pending_approval = None /\ pending_quiz = None

\* A pending identity belongs to the turn under way: it is shown with it.
PendingHasTurn ==
    /\ pending_approval # None => active_turn # None
    /\ pending_quiz # None => pending_quiz_turn # None /\ pending_quiz_turn = active_turn

\* Nothing of a turn is offered to clients outside it: not after its end, however
\* it ended, and not beside another turn.
NothingStale == IdleIsClean /\ PendingHasTurn

\* An open session that waits for an answer offers what has to be answered.
WaitingIsAnswerable ==
    ~closed => /\ status = "waiting_guard" => pending_approval # None
               /\ status = "waiting_user" => pending_quiz # None

Askers == {t \in Tools : tool[t] \in {"asked", "waiting"}}

\* One tool at a time has the gate; a tool that waits to ask waits for one that
\* has it, so somebody is there to wake it.
OneAsker ==
    /\ \A t, u \in Askers : t = u
    /\ gate.pending <=> Askers # {}
    /\ (\E t \in Tools : tool[t] = "parked") => gate.pending

\* Who waits is served: a session that shows it waits offers what to answer, and
\* a tool that waits for the gate waits for one that will wake it.
AskersAreServed == WaitingIsAnswerable /\ OneAsker

\* A gate hands its worker only an answer given to the request at hand: that
\* of an earlier one, or of an abandoned wait, is never taken for it.
AnswersAreFresh ==
    /\ gate.pending /\ gate.answered => gate.by # None
    /\ quiz_gate.pending /\ quiz_gate.answered => quiz_gate.by \in {quiz_gate.serial, Canceller}

\* Two handlers never hold the same approval id.
ApprovalIdSingleUse ==
    \A c, d \in Clients : at[c] = "approve" /\ at[d] = "approve" /\ id[c] = id[d] => c = d

\* The worker's notice of request n of a gate has not reached the session yet.
Noticed(type, n) ==
    \/ \E i \in 1..Len(events) : events[i].type = type /\ events[i].serial = n
    \/ pump = "busy" /\ event.type = type /\ event.serial = n

ApprovalIsShown ==
    gate.pending /\ ~gate.answered =>
        \/ \E t \in Tools : tool[t] = "asked"
        \/ Noticed("approval", gate.serial)
        \/ pending_approval # None
        \/ \E c \in Clients : at[c] = "approve"

QuizIsShown ==
    quiz_gate.pending /\ ~quiz_gate.answered =>
        \/ worker = "quiz_asked"
        \/ Noticed("quiz", quiz_gate.serial)
        \/ pending_quiz = quiz_gate.serial

\* No tool of an open session waits for an answer that nobody can give: its
\* request is shown to clients, or on its way to them, or a decision is on its
\* way back.  A late, repeated or invalid answer never takes an open request
\* from view.
NobodyWaitsUnseen == ~closed => ApprovalIsShown /\ QuizIsShown

\* The inductive strengthening.  A turn is claimed, runs in the worker, and is
\* over when the pump has consumed its end, which is the last it says; between
\* two turns nothing is left on the way.
Quiet == events = <<>> /\ pump # "busy"

TurnPhases ==
    /\ active_turn = None => worker = "none" /\ Launching = {} /\ Quiet
    /\ \A c \in Launching : /\ \A d \in Launching : d = c
                            /\ turn[c] = active_turn /\ worker = "none" /\ Quiet
    /\ worker # "none" => worker_turn = active_turn
    /\ (\E t \in Tools : tool[t] # "idle") => worker = "working"

Running ==
    /\ \A c \in Launching : at[c] = "launch" => ~turn_running
    /\ worker = "ending" => ~turn_running
    /\ worker = "none" /\ Launching = {} => ~turn_running

OnTheWay ==
    /\ \A i \in 1..Len(events) :
           events[i].turn = active_turn /\ (events[i].type = "end" => i = Len(events))
    /\ pump = "busy" => /\ event.turn = active_turn /\ event_turn = active_turn
                        /\ event.type = "end" => events = <<>>
    /\ worker # "none" => /\ \A i \in 1..Len(events) : events[i].type # "end"
                          /\ pump = "busy" => event.type # "end"

Preparing ==
    /\ creator = "starting" => prep = "none"
    /\ prep # "done" => active_turn = None /\ status \in {"preparing", "closed"}
    /\ status = "closed" => closed

ApprovalIds ==
    /\ pending_approval < next_approval
    /\ \A c \in Clients : at[c] = "approve" =>
           id[c] # None /\ id[c] < next_approval /\ id[c] # pending_approval

\* Questionnaires are consumed in the order they were put, so each is newer than
\* what is shown and what handlers are answering, and a handler whose
\* questionnaire is still shown answers for its turn.
Answering == {c \in Clients : at[c] \in {"answer", "clear_quiz"}}

NewerQuiz(n) ==
    /\ pending_quiz < n /\ \A c \in Answering : id[c] < n
    /\ n <= quiz_gate.serial /\ (worker = "quiz_asked" => n < quiz_gate.serial)

QuizIds ==
    /\ \A i \in 1..Len(events) : events[i].type = "quiz" =>
           /\ NewerQuiz(events[i].serial)
           /\ \A j \in 1..(i - 1) : events[j].type = "quiz" => events[j].serial < events[i].serial
           /\ pump = "busy" /\ event.type = "quiz" => event.serial < events[i].serial
    /\ pump = "busy" /\ event.type = "quiz" => NewerQuiz(event.serial)
    /\ \A c \in Answering : /\ id[c] # None /\ id[c] <= quiz_gate.serial
                            /\ id[c] = pending_quiz => turn[c] = pending_quiz_turn
                            /\ worker = "quiz_asked" => id[c] < quiz_gate.serial
    /\ pending_quiz <= quiz_gate.serial
    /\ worker = "quiz_asked" => pending_quiz < quiz_gate.serial

\* What the destructor has waited for stays over.
Ending ==
    /\ active_turn # None \/ project_open => prepared /\ prep = "done"
    /\ life # "alive" => /\ closer = "done" /\ creator = "done"
                         /\ \A c \in Clients : at[c] = "idle"
    /\ life \in {"join_turn", "dead"} => prep \in {"none", "done"}
    /\ life = "dead" => worker = "none" /\ ~project_open

IInv ==
    /\ TypeOK
    /\ TurnPhases /\ Running /\ OnTheWay
    /\ Preparing /\ IdleIsClean /\ PendingHasTurn
    /\ OneAsker /\ AnswersAreFresh
    /\ ApprovalIds /\ ApprovalIdSingleUse
    /\ QuizIds /\ WaitingIsAnswerable /\ Ending

\* The destructor never pulls the session away under a handler, and when it is
\* through nothing runs and the project session is finished.
DestroyedLast ==
    /\ life # "alive" => \A c \in Clients : at[c] = "idle"
    /\ life = "dead" => worker = "none" /\ prep \in {"none", "done"} /\ ~project_open

\* A turn whose token is set ends, and its end reaches the session unless the
\* session is closed: the worker is woken from whichever gate it waits in.
CancelledTurnEnds ==
    \A t \in Turns : t \in cancelled /\ active_turn = t ~> active_turn # t \/ closed

\* A session that is closed while no handler is starting a turn comes to rest,
\* whatever its threads and the other handlers are doing.
QuietCloseComesToRest == closer = "cancel_approval" /\ Launching = {} ~> life = "dead"

-----------------------------------------------------------------------------
(* Claims that the code does not keep *)

\* docs/api.md "Approval IDs are single-use and tied to the active turn": a
\* decision made under an id decides the request that the id was issued for.
ApprovalDecidesItsRequest ==
    gate.pending /\ gate.answered => gate.by \in {gate.serial, Canceller}

\* docs/api.md "Closing a session cancels active work, finishes its project
\* session, closes its event stream, and releases retained state": a closed
\* session comes to rest.
ClosedComesToRest == closed ~> life = "dead"

=============================================================================
