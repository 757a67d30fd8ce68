-------------------------- MODULE AgentTurnProofs ---------------------------
(***************************************************************************)
(* Whatever queries, tasks/cancel, the dispatcher and the agent do, for any *)
(* number of clients and of crashes, those who are told how a turn ended    *)
(* agree. An answer is of a state that was read earlier, so it has to be    *)
(* known that an ended handoff stays as it is, and that what a client holds *)
(* of an ended handoff is still what the handoff is.                        *)
(***************************************************************************)
EXTENDS AgentTurn, TLAPS

States   == {"created", "dispatched", "working", "completed", "failed"}
Outcomes == {"none", "accepted", "rejected", "timeout"}
Attempts == {"none", "requested", "accepted", "rejected", "timeout"}
PollAt   == {"idle", "attempts", "judge", "time out", "fail"}
Polls    == [at : PollAt, state : States \cup {"none"}, attempt : Attempts]

\* What the proof needs to know of the variables' values.
TypeInv ==
  /\ state \in States
  /\ attempt \in Attempts
  /\ DOMAIN dispatch = {"at", "background", "outcome", "events"}
  /\ dispatch.outcome \in Outcomes
  /\ poll \in [Pollers -> Polls]

\* What somebody was told of the end of the turn, or is about to judge by, is how
\* it ended.
TurnInv ==
  /\ "failed" \in told => state = "failed"
  /\ told \cap {"completed", "error"} # {} => state = "completed"
  /\ \A p \in Pollers : poll[p].state \in Final => state = poll[p].state

IInv == TypeInv /\ TurnInv

----------------------------------------------------------------------------

\* An accepted event leads from a state that is not final to another state.
LEMMA AcceptedStates ==
  ASSUME state \in States, NEW e, Accepts(e)
  PROVE  state \notin Final /\ e \in States
BY DEF States, Accepts, After, Final

\* The steps of the dispatcher to come change nothing the answers depend on.
LEMMA GotoType ==
  ASSUME TypeInv, NEW at, Goto(at)
  PROVE  /\ DOMAIN dispatch' = {"at", "background", "outcome", "events"}
         /\ dispatch'.outcome \in Outcomes
<1>1. \E ev : dispatch' = [dispatch EXCEPT !.at = at, !.outcome = "none", !.events = ev]
  BY DEF Goto
<1> QED BY <1>1 DEF TypeInv, Outcomes

\* An error leaves the dispatcher at one step or the other.
LEMMA BrokenType ==
  ASSUME TypeInv, Broken
  PROVE  /\ DOMAIN dispatch' = {"at", "background", "outcome", "events"}
         /\ dispatch'.outcome \in Outcomes
BY GotoType DEF Broken

\* As long as nobody is answered, a handoff that has ended is left as it is, and
\* what the clients read is kept, the answers stay true.
LEMMA Undisturbed ==
  ASSUME TurnInv, TypeInv, state \in Final => state' = state, told' = told, poll' = poll
  PROVE  TurnInv'
BY DEF TurnInv, Final

----------------------------------------------------------------------------

\* The dispatcher records only what the handoff accepts, and answers nobody.
LEMMA DispatchStepInv ==
  ASSUME IInv, DispatchStep \/ StatementFails \/ DispatcherCrash
  PROVE  IInv'
<1> USE DEF IInv
<1>r. ASSUME NEW e, NEW r, Accepts(e), Record(e, r)
      PROVE  state' \in States /\ (state \in Final => state' = state)
  BY <1>r, AcceptedStates DEF Record, TypeInv
<1>1. CASE Start
  <2>1. PICK b \in BOOLEAN : dispatch' = [dispatch EXCEPT !.at = "load", !.background = b]
    BY <1>1 DEF Start
  <2>2. TypeInv' BY <1>1, <2>1 DEF Start, TypeInv, turn
  <2> QED BY <1>1, <2>2, Undisturbed DEF Start, turn
<1>2. CASE LoadHandoff
  BY <1>2, GotoType, BrokenType, Undisturbed DEF LoadHandoff, TypeInv, turn
<1>3. CASE SaveDispatchAttempt
  BY <1>3, GotoType, BrokenType, Undisturbed DEF SaveDispatchAttempt, TypeInv, turn, Attempts
<1>4. CASE RecordRequested
  BY <1>4, <1>r, GotoType, BrokenType, Undisturbed DEF RecordRequested, TypeInv, turn
<1>5. CASE RunOpenClaw
  <2>1. PICK outcome \in {"accepted", "rejected", "timeout"}, l \in Lifecycles \cup {<<>>} :
          dispatch' = [dispatch EXCEPT !.at = "result", !.outcome = outcome, !.events = l]
    BY <1>5 DEF RunOpenClaw
  <2>2. TypeInv' BY <1>5, <2>1 DEF RunOpenClaw, TypeInv, turn, Outcomes
  <2> QED BY <1>5, <2>2, Undisturbed DEF RunOpenClaw, turn
<1>6. CASE SaveResult
  BY <1>6, GotoType, BrokenType, Undisturbed DEF SaveResult, TypeInv, turn, Attempts, Outcomes
<1>7. CASE ApplyLifecycleEvent
  <2>1. CASE /\ Accepts(Head(dispatch.events))
             /\ \E r \in BOOLEAN : Record(Head(dispatch.events), r)
             /\ dispatch' = [dispatch EXCEPT !.events = Tail(@)]
    <3>1. TypeInv' BY <1>7, <2>1, <1>r DEF ApplyLifecycleEvent, TypeInv
    <3> QED BY <1>7, <2>1, <3>1, <1>r, Undisturbed DEF ApplyLifecycleEvent
  <2>2. CASE (Broken \/ Goto("done")) /\ UNCHANGED turn
    BY <1>7, <2>2, GotoType, BrokenType, Undisturbed DEF ApplyLifecycleEvent, TypeInv, turn
  <2> QED BY <1>7, <2>1, <2>2 DEF ApplyLifecycleEvent
<1>8. CASE FailTurn
  BY <1>8, <1>r, GotoType, Undisturbed DEF FailTurn, TypeInv, turn
<1>9. CASE StatementFails
  BY <1>9, GotoType, BrokenType, Undisturbed DEF StatementFails, TypeInv, turn
<1>10. CASE DispatcherCrash
  BY <1>10, GotoType, Undisturbed DEF DispatcherCrash, TypeInv, turn
<1> QED BY <1>1, <1>2, <1>3, <1>4, <1>5, <1>6, <1>7, <1>8, <1>9, <1>10 DEF DispatchStep

\* A client answers by what it read, which is how the turn ended if it had ended,
\* or by the failure it records itself, in a handoff that had not ended.
LEMMA PollStepInv ==
  ASSUME IInv, NEW p \in Pollers, PollStep(p) \/ PollerCrash(p)
  PROVE  IInv'
<1> USE DEF IInv
<1>n. NoPoll \in Polls /\ NoPoll.state \notin Final
  BY DEF NoPoll, Polls, PollAt, Attempts, Final
<1>p. poll[p] \in Polls BY DEF TypeInv
<1>k. ASSUME NEW q \in Polls, poll' = [poll EXCEPT ![p] = q]
      PROVE  /\ poll' \in [Pollers -> Polls]
             /\ \A x \in Pollers : poll'[x] = IF x = p THEN q ELSE poll[x]
  BY <1>k DEF TypeInv
<1>1. CASE LoadTurn(p)
  <2> DEFINE q == [poll[p] EXCEPT !.at = "attempts", !.state = state]
  <2>1. q \in Polls /\ q.state = state BY <1>p DEF Polls, PollAt, TypeInv
  <2>2. poll' = [poll EXCEPT ![p] = q] BY <1>1 DEF LoadTurn
  <2> HIDE DEF q
  <2>3. TypeInv' BY <1>1, <1>k, <2>1, <2>2 DEF LoadTurn, TypeInv, turn
  <2> QED BY <1>1, <1>k, <2>1, <2>2, <2>3 DEF LoadTurn, TurnInv, turn
<1>2. CASE ListDispatchAttempts(p)
  <2> DEFINE q == [poll[p] EXCEPT !.at = "judge", !.attempt = attempt]
  <2>1. q \in Polls /\ q.state = poll[p].state BY <1>p DEF Polls, PollAt, TypeInv
  <2>2. poll' = [poll EXCEPT ![p] = q] BY <1>2 DEF ListDispatchAttempts
  <2> HIDE DEF q
  <2>3. TypeInv' BY <1>2, <1>k, <2>1, <2>2 DEF ListDispatchAttempts, TypeInv, turn
  <2> QED BY <1>2, <1>k, <2>1, <2>2, <2>3 DEF ListDispatchAttempts, TurnInv, turn
<1>3. CASE Judge(p)
  <2>1. CASE Stale(p)
    <3> DEFINE q == [poll[p] EXCEPT !.at = "time out"]
    <3>1. q \in Polls /\ q.state = poll[p].state BY <1>p DEF Polls, PollAt
    <3>2. poll' = [poll EXCEPT ![p] = q] BY <1>3, <2>1 DEF Judge
    <3> HIDE DEF q
    <3>3. TypeInv' BY <1>3, <1>k, <3>1, <3>2 DEF Judge, TypeInv, turn
    <3> QED BY <1>3, <2>1, <1>k, <3>1, <3>2, <3>3 DEF Judge, TurnInv, turn
  <2>2. CASE ~ Stale(p)
    <3> DEFINE answer == ResultStatus(poll[p].state, poll[p].attempt)
    <3>1. /\ poll' = [poll EXCEPT ![p] = NoPoll]
          /\ told' = told \cup ({answer} \ {"pending"})
          /\ UNCHANGED <<state, attempt, dispatch>>
      BY <1>3, <2>2 DEF Judge, Answer, turn
    <3>2. TypeInv' BY <3>1, <1>k, <1>n DEF TypeInv
    <3>3. /\ answer = "failed" => state = "failed"
          /\ answer \in {"completed", "error"} => state = "completed"
      BY DEF ResultStatus, TurnInv, Final
    <3> HIDE DEF answer
    <3> QED BY <3>1, <3>2, <3>3, <1>k, <1>n DEF TurnInv
  <2> QED BY <2>1, <2>2
<1>4. CASE TimeOut(p)
  <2> DEFINE q == [poll[p] EXCEPT !.at = "fail"]
  <2>1. q \in Polls /\ q.state = poll[p].state BY <1>p DEF Polls, PollAt
  <2>2. poll' = [poll EXCEPT ![p] = q] BY <1>4 DEF TimeOut
  <2> HIDE DEF q
  <2>3. TypeInv' BY <1>4, <1>k, <2>1, <2>2 DEF TimeOut, TypeInv, turn, Attempts
  <2> QED BY <1>4, <1>k, <2>1, <2>2, <2>3 DEF TimeOut, TurnInv, turn
<1>5. CASE FailStale(p)
  <2>0. poll' = [poll EXCEPT ![p] = NoPoll] /\ UNCHANGED <<attempt, dispatch>>
    BY <1>5 DEF FailStale, Answer
  <2>1. CASE Accepts("failed") /\ Record("failed", FALSE) /\ Answer(p, "failed")
    <3>1. /\ state \notin Final /\ state' = "failed"
          /\ told' = told \cup {"failed"}
      BY <2>1, AcceptedStates DEF Record, Answer, TypeInv
    <3>2. TypeInv' BY <2>0, <3>1, <1>k, <1>n DEF TypeInv, States
    <3> QED BY <2>0, <3>1, <3>2, <1>k, <1>n DEF TurnInv, Final
  <2>2. CASE UNCHANGED <<turn, told>>
    BY <2>0, <2>2, <1>k, <1>n DEF TurnInv, TypeInv, turn
  <2> QED BY <1>5, <2>1, <2>2 DEF FailStale
<1>6. CASE PollerCrash(p)
  BY <1>6, <1>k, <1>n DEF PollerCrash, TurnInv, TypeInv, turn
<1> QED BY <1>1, <1>2, <1>3, <1>4, <1>5, <1>6 DEF PollStep

\* tasks/cancel answers by a state it has just read or brought about.
LEMMA CancelStepInv ==
  ASSUME IInv, GetForCancel \/ FailForCancel
  PROVE  IInv'
<1> USE DEF IInv
<1>1. CASE GetForCancel
  BY <1>1 DEF GetForCancel, TurnInv, TypeInv, turn
<1>2. CASE FailForCancel
  <2>1. CASE Accepts("failed") /\ Record("failed", FALSE) /\ told' = told \cup {"failed"}
    <3>1. state \notin Final /\ state' = "failed"
      BY <2>1, AcceptedStates DEF Record, TypeInv
    <3> QED BY <1>2, <2>1, <3>1 DEF FailForCancel, TurnInv, TypeInv, States, Final
  <2>2. CASE UNCHANGED <<turn, told>>
    BY <1>2, <2>2 DEF FailForCancel, TurnInv, TypeInv, turn
  <2> QED BY <1>2, <2>1, <2>2 DEF FailForCancel
<1> QED BY <1>1, <1>2

\* Nothing is told, read or ended at the start.
LEMMA InitInv == Init => IInv
BY DEF Init, IInv, TypeInv, TurnInv, States, Attempts, Outcomes, Polls, PollAt, NoPoll, Final

\* Every step, and stuttering, keeps the invariant.
LEMMA NextInv == IInv /\ [Next]_vars => IInv'
<1> SUFFICES ASSUME IInv, [Next]_vars PROVE IInv'
  OBVIOUS
<1>1. CASE DispatchStep \/ StatementFails \/ DispatcherCrash BY <1>1, DispatchStepInv
<1>2. CASE \E p \in Pollers : PollStep(p) \/ PollerCrash(p) BY <1>2, PollStepInv
<1>3. CASE GetForCancel \/ FailForCancel BY <1>3, CancelStepInv
<1>4. CASE AgentActs
  <2>1. PICK e \in {After[state], "failed"} : Record(e, FALSE) BY <1>4 DEF AgentActs
  <2>2. state \notin Final /\ state' \in States
    BY <1>4, <2>1 DEF AgentActs, Record, After, States, Final
  <2>3. TypeInv' BY <1>4, <2>2 DEF AgentActs, IInv, TypeInv
  <2> QED BY <1>4, <2>2, <2>3, Undisturbed DEF AgentActs, IInv
<1>5. CASE StreamStep \/ Tick \/ UNCHANGED vars
  BY <1>5 DEF StreamStep, ReadRow, ReadTimeline, Tick, vars, turn, IInv, TypeInv, TurnInv
<1> QED BY <1>1, <1>2, <1>3, <1>4, <1>5 DEF Next

\* Nobody is told that the turn failed and another that it completed, for any
\* number of clients, crashes and failed statements (HandleA2AAgentTurnResult,
\* terminalizeStaleA2AAgentTurn, handleTasksCancel).
THEOREM ToldAlike == Spec => []AnswersAgree
<1>1. IInv => AnswersAgree BY DEF IInv, TurnInv, AnswersAgree
<1> QED BY <1>1, InitInv, NextInv, PTL DEF Spec
=============================================================================
