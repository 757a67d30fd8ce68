----------------------------- MODULE AgentTurn ------------------------------
(***************************************************************************)
(* One turn of an A2A agent: the dispatch of its handoff to OpenClaw, in    *)
(* the background or while the caller waits (HandleA2AAgentTurnStart and    *)
(* HandleA2AAgentTurn in toolserver/handlers.go, DispatchHandoff in         *)
(* orchestrator/service.go, openclawdispatch), the queries for its result,  *)
(* which end a turn that has been under way for too long, tasks/cancel and  *)
(* the event stream of the A2A server (a2aserver/handler.go).               *)
(*                                                                         *)
(* A statement or transaction on the store is one action. "working" stands  *)
(* for the states from received to checkpointed. Time is what has passed    *)
(* of the dispatch timeout: 0 not all of it, 1 the dispatcher's context has *)
(* ended, 2 as much since requested_at, which is later.                     *)
(***************************************************************************)
EXTENDS Naturals, Sequences, FiniteSets

CONSTANTS
  Pollers,      \* those who ask for the result, in any process
  MaxTroubles   \* bound: crashes and failed statements

ASSUME AgentTurnAssumption == MaxTroubles \in Nat

VARIABLES
  state,      \* of the handoff
  version,    \* how many events it has accepted, which is the length of its timeline
  reply,      \* whether its completed event has a reply_text
  attempt,    \* result_status of the dispatch attempt; "none" before there is one
  dispatch,   \* the dispatcher
  poll,       \* [Pollers -> ...]
  cancel,     \* tasks/cancel
  stream,     \* the event stream
  told,       \* all answers about the turn so far but "pending" (history)
  time,
  troubles

vars == <<state, version, reply, attempt, dispatch, poll, cancel, stream, told, time, troubles>>
turn == <<state, version, reply>>

----------------------------------------------------------------------------
\* The handoff

Final == {"completed", "failed"}

After == [created |-> "dispatched", dispatched |-> "working", working |-> "completed"]

Accepts(e) == state \notin Final /\ (e = "failed" \/ After[state] = e)

\* A protocol action, or the event of a dispatch: checked where it is recorded.
Record(e, withReply) ==
  /\ state'   = e
  /\ version' = version + 1
  /\ reply'   = (e = "completed" /\ withReply)

\* toA2ATaskState
TaskState(s) == IF s \in {"created", "dispatched"} THEN "submitted" ELSE s

Trouble == troubles < MaxTroubles /\ troubles' = troubles + 1

----------------------------------------------------------------------------
\* The dispatcher: DispatchHandoff, and what its callers make of the outcome

\* acceptedLifecycleEvents and failedLifecycleEvents, by the mode of the dispatch
Lifecycles == {<<"working">>, <<"working", "completed">>, <<"working", "failed">>}

Goto(at) ==
  dispatch' = [dispatch EXCEPT !.at = at, !.outcome = "none",
                 !.events = IF at \in {"fail", "done"} THEN <<>> ELSE @]

\* An error: in the background it fails the handoff, else the caller gets it.
Broken == Goto(IF dispatch.background THEN "fail" ELSE "done")

\* The context of a background dispatch has ended: its statements fail.
Late == dispatch.background /\ time > 0

\* The handoff was created just before.
Start ==
  /\ dispatch.at = "none"
  /\ \E b \in BOOLEAN : dispatch' = [dispatch EXCEPT !.at = "load", !.background = b]
  /\ UNCHANGED <<turn, attempt, poll, cancel, stream, told, time, troubles>>

LoadHandoff ==
  /\ dispatch.at = "load"
  /\ \/ ~ Late /\ state = "created" /\ Goto("save")
     \/ (Late \/ state # "created") /\ Broken
  /\ UNCHANGED <<turn, attempt, poll, cancel, stream, told, time, troubles>>

SaveDispatchAttempt ==
  /\ dispatch.at = "save"
  /\ \/ ~ Late /\ attempt' = "requested" /\ Goto("request")
     \/ Late /\ Broken /\ UNCHANGED attempt
  /\ UNCHANGED <<turn, poll, cancel, stream, told, time, troubles>>

RecordRequested ==
  /\ dispatch.at = "request"
  /\ \/ ~ Late /\ Accepts("dispatched") /\ Record("dispatched", FALSE) /\ Goto("run")
     \/ (Late \/ ~ Accepts("dispatched")) /\ Broken /\ UNCHANGED turn
  /\ UNCHANGED <<attempt, poll, cancel, stream, told, time, troubles>>

\* OpenClaw's answer; it is killed when the context ends. Only an agent turn has a reply.
RunOpenClaw ==
  /\ dispatch.at = "run"
  /\ \E outcome \in {"accepted", "rejected", "timeout"}, l \in Lifecycles \cup {<<>>} :
       /\ Late => outcome # "accepted"
       /\ (outcome = "accepted") <=> (l # <<>>)
       /\ dispatch' = [dispatch EXCEPT !.at = "result", !.outcome = outcome, !.events = l]
  /\ UNCHANGED <<turn, attempt, poll, cancel, stream, told, time, troubles>>

\* Slip: only a timeout fails the handoff.
Slip_SaveResult ==
  /\ dispatch.at = "result"
  /\ attempt' = dispatch.outcome
  /\ CASE dispatch.outcome = "accepted" -> Goto("events")
       [] dispatch.outcome = "timeout"  -> Broken
       [] OTHER                         -> Goto("done")
  /\ UNCHANGED <<turn, poll, cancel, stream, told, time, troubles>>

\* SaveDispatchAttemptStatus, whatever the attempt has become; without the context.
SaveResult ==
  /\ dispatch.at = "result"
  /\ attempt' = dispatch.outcome
  /\ IF dispatch.outcome = "accepted" THEN Goto("events") ELSE Broken
  /\ UNCHANGED <<turn, poll, cancel, stream, told, time, troubles>>

\* The lifecycle events, one protocol action each, up to the first that is refused.
ApplyLifecycleEvent ==
  LET e == Head(dispatch.events) IN
  /\ dispatch.at = "events"
  /\ \/ /\ dispatch.events # <<>> /\ ~ Late /\ Accepts(e)
        /\ \E r \in BOOLEAN : Record(e, r)
        /\ dispatch' = [dispatch EXCEPT !.events = Tail(@)]
     \/ dispatch.events # <<>> /\ (Late \/ ~ Accepts(e)) /\ Broken /\ UNCHANGED turn
     \/ dispatch.events = <<>> /\ Goto("done") /\ UNCHANGED turn
  /\ UNCHANGED <<attempt, poll, cancel, stream, told, time, troubles>>

\* failA2AAgentTurnHandoff, whose error is dropped.
FailTurn ==
  /\ dispatch.at = "fail"
  /\ Goto("done")
  /\ IF Accepts("failed") THEN Record("failed", FALSE) ELSE UNCHANGED turn
  /\ UNCHANGED <<attempt, poll, cancel, stream, told, time, troubles>>

\* A statement fails, or the signal between two of them.
StatementFails ==
  /\ dispatch.at \in {"load", "save", "request", "events", "fail"}
  /\ Trouble
  /\ IF dispatch.at = "fail" THEN Goto("done") ELSE Broken
  /\ UNCHANGED <<turn, attempt, poll, cancel, stream, told, time>>

DispatcherCrash ==
  /\ dispatch.at \notin {"none", "done"}
  /\ Trouble
  /\ Goto("done")
  /\ UNCHANGED <<turn, attempt, poll, cancel, stream, told, time>>

----------------------------------------------------------------------------
\* The agent may act on the handoff by itself: handoff_progress carries no reply.

AgentActs ==
  /\ state \in {"dispatched", "working"}
  /\ \E e \in {After[state], "failed"} : Record(e, FALSE)
  /\ UNCHANGED <<attempt, dispatch, poll, cancel, stream, told, time, troubles>>

----------------------------------------------------------------------------
\* HandleA2AAgentTurnResult, by p

NoPoll == [at |-> "idle", state |-> "none", attempt |-> "none"]

\* Slip: a failed attempt is a failed turn.
Slip_ResultStatus(s, a) ==
  IF s = "failed" \/ (s # "completed" /\ a \in {"rejected", "timeout"}) THEN "failed"
  ELSE IF s # "completed" THEN "pending" ELSE IF reply THEN "completed" ELSE "error"

\* a2aAgentTurnResultStatus, of what was read; a completed turn without a reply
\* is an error.
ResultStatus(s, a) ==
  IF s = "completed" THEN IF reply THEN "completed" ELSE "error"
  ELSE IF s = "failed" THEN "failed"
  ELSE IF a \in {"rejected", "timeout"} THEN a
  ELSE "pending"

Answer(p, answer) ==
  /\ poll' = [poll EXCEPT ![p] = NoPoll]
  /\ told' = told \cup ({answer} \ {"pending"})

LoadTurn(p) ==
  /\ poll[p].at = "idle" /\ dispatch.at # "none"
  /\ poll' = [poll EXCEPT ![p] = [@ EXCEPT !.at = "attempts", !.state = state]]
  /\ UNCHANGED <<turn, attempt, dispatch, cancel, stream, told, time, troubles>>

ListDispatchAttempts(p) ==
  /\ poll[p].at = "attempts"
  /\ poll' = [poll EXCEPT ![p] = [@ EXCEPT !.at = "judge", !.attempt = attempt]]
  /\ UNCHANGED <<turn, attempt, dispatch, cancel, stream, told, time, troubles>>

\* Slip: a turn that was dispatched is left to its dispatcher.
Slip_Stale(p) == poll[p].state = "created" /\ poll[p].attempt = "requested" /\ time = 2

\* terminalizeStaleA2AAgentTurn looks at the clock after the reads.
Stale(p) == poll[p].state \notin Final /\ poll[p].attempt = "requested" /\ time = 2

Judge(p) ==
  /\ poll[p].at = "judge"
  /\ IF Stale(p) THEN poll' = [poll EXCEPT ![p].at = "time out"] /\ UNCHANGED told
     ELSE Answer(p, ResultStatus(poll[p].state, poll[p].attempt))
  /\ UNCHANGED <<turn, attempt, dispatch, cancel, stream, time, troubles>>

\* SaveDispatchAttemptStatus, whatever the attempt has become meanwhile.
TimeOut(p) ==
  /\ poll[p].at = "time out"
  /\ attempt' = "timeout"
  /\ poll' = [poll EXCEPT ![p].at = "fail"]
  /\ UNCHANGED <<turn, dispatch, cancel, stream, told, time, troubles>>

\* Then the handoff is failed and read again; if it has ended, that is an error.
FailStale(p) ==
  /\ poll[p].at = "fail"
  /\ \/ Accepts("failed") /\ Record("failed", FALSE) /\ Answer(p, "failed")
     \/ /\ ~ Accepts("failed") /\ UNCHANGED <<turn, told>>
        /\ poll' = [poll EXCEPT ![p] = NoPoll]
  /\ UNCHANGED <<attempt, dispatch, cancel, stream, time, troubles>>

PollerCrash(p) ==
  /\ poll[p].at # "idle"
  /\ Trouble
  /\ poll' = [poll EXCEPT ![p] = NoPoll]
  /\ UNCHANGED <<turn, attempt, dispatch, cancel, stream, told, time>>

----------------------------------------------------------------------------
\* handleTasksCancel: read, fail as the workflow controller, read again

GetForCancel ==
  /\ cancel = "idle"
  /\ cancel' = IF state \in Final THEN "done" ELSE "fail"
  /\ told' = IF state = "failed" THEN told \cup {"failed"} ELSE told
  /\ UNCHANGED <<turn, attempt, dispatch, poll, stream, time, troubles>>

FailForCancel ==
  /\ cancel = "fail"
  /\ \/ /\ Accepts("failed") /\ Record("failed", FALSE)
        /\ cancel' = "done" /\ told' = told \cup {"failed"}
     \/ ~ Accepts("failed") /\ cancel' = "done" /\ UNCHANGED <<turn, told>>
  /\ UNCHANGED <<attempt, dispatch, poll, stream, time, troubles>>

----------------------------------------------------------------------------
\* handleTaskEvents: the row, then the timeline, at every tick of the stream.
\* updated_at, which goes with the row, tells apart no more than they do.

ReadRow ==
  /\ ~ stream.reading
  /\ stream' = [stream EXCEPT !.reading = TRUE, !.row = TaskState(state)]
  /\ UNCHANGED <<turn, attempt, dispatch, poll, cancel, told, time, troubles>>

Snapshot == [row |-> stream.row, event |-> version]

\* Slip: a snapshot is known by its last event alone.
Slip_Fingerprint(s) == s.event

\* taskStreamFingerprint: the last event's id and the task's state
Fingerprint(s) == s

\* What has changed is sent.
ReadTimeline ==
  /\ stream.reading
  /\ stream' = [stream EXCEPT !.reading = FALSE, !.row = "submitted",
                  !.sent = IF Fingerprint(Snapshot) # Fingerprint(@) THEN Snapshot ELSE @]
  /\ UNCHANGED <<turn, attempt, dispatch, poll, cancel, told, time, troubles>>

----------------------------------------------------------------------------

Tick ==
  /\ dispatch.at # "none" /\ time < 2
  /\ time' = time + 1
  /\ UNCHANGED <<turn, attempt, dispatch, poll, cancel, stream, told, troubles>>

Init ==
  /\ state = "created" /\ version = 0 /\ reply = FALSE /\ attempt = "none"
  /\ dispatch = [at |-> "none", background |-> FALSE, outcome |-> "none", events |-> <<>>]
  /\ poll = [p \in Pollers |-> NoPoll]
  /\ cancel = "idle"
  /\ stream = [reading |-> FALSE, row |-> "submitted", sent |-> [row |-> "submitted", event |-> 0]]
  /\ told = {} /\ time = 0 /\ troubles = 0

DispatchStep == \/ Start \/ LoadHandoff \/ SaveDispatchAttempt \/ RecordRequested
                \/ RunOpenClaw \/ SaveResult \/ ApplyLifecycleEvent \/ FailTurn

PollStep(p) == \/ LoadTurn(p) \/ ListDispatchAttempts(p) \/ Judge(p)
               \/ TimeOut(p) \/ FailStale(p)

StreamStep == ReadRow \/ ReadTimeline

Next == \/ DispatchStep \/ StatementFails \/ DispatcherCrash
        \/ AgentActs
        \/ \E p \in Pollers : PollStep(p) \/ PollerCrash(p)
        \/ GetForCancel \/ FailForCancel
        \/ StreamStep
        \/ Tick

\* The dispatcher, time, the stream's ticker and clients that keep asking go on;
\* the agent and tasks/cancel may never act.
Fairness == /\ WF_vars(DispatchStep) /\ WF_vars(Tick) /\ WF_vars(StreamStep)
            /\ \A p \in Pollers : WF_vars(PollStep(p))

Spec == Init /\ [][Next]_vars /\ Fairness

----------------------------------------------------------------------------
\* Properties

\* Nobody is told that a turn failed and another that it completed, although queries,
\* tasks/cancel, the dispatcher and the agent all may end it; "rejected" and
\* "timeout" are of the attempt, and leave open what becomes of the turn.
AnswersAgree == ~ ("failed" \in told /\ ("completed" \in told \/ "error" \in told))

\* A turn that was started is not "pending" for ever: those who ask are told its
\* end, unless OpenClaw has accepted it and the agent goes on, or the dispatcher
\* was lost before there was an attempt.
TurnSettles ==
  (dispatch.at # "none") ~>
     \/ told \cap {"completed", "failed", "error", "rejected", "timeout"} # {}
     \/ attempt = "accepted"
     \/ attempt = "none" /\ troubles > 0

\* The handoff of a background dispatch that was rejected or timed out ends too,
\* unless a crash or a failed statement comes between.
NoneLeftBehind ==
  (dispatch.background /\ attempt \in {"rejected", "timeout"}) ~>
     (state \in Final \/ attempt = "accepted" \/ troubles > 0)

\* The stream ends up showing the turn as it is, although it reads the row and the
\* timeline one after the other and skips what looks the same.
StreamCatchesUp ==
  <>[](stream.sent = [row |-> TaskState(state), event |-> version])
=============================================================================
