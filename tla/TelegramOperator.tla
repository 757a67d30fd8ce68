-------------------------- MODULE TelegramOperator --------------------------
(***************************************************************************)
(* The Telegram operator (cmd/clawside-telegram-operator): it polls Telegram *)
(* for what allowed users write, acts on one update after the other and      *)
(* answers. Telegram keeps an update until a poll asks for later ones; the   *)
(* offset that says so lives in the operator's memory.                       *)
(*                                                                         *)
(* Updates are numbered as Telegram numbers them. There is one execution to  *)
(* report on and one handoff to approve. A read-only command and a message   *)
(* for the agent bridge differ only in their answer and count as "ask".      *)
(***************************************************************************)
EXTENDS Naturals, SequencesExt, FiniteSetsExt

CONSTANTS
  MaxUpdates,   \* bound: what users write
  Limit,        \* how many updates a poll returns at most (100 at Telegram)
  MaxRounds,    \* bound: submissions of the handoff
  MaxStarts,    \* bound: lives of the operator
  MaxTroubles   \* bound: failed requests and statements

ASSUME OperatorAssumption ==
  {MaxUpdates, MaxRounds, MaxTroubles} \subseteq Nat /\ {Limit, MaxStarts} \subseteq Nat \ {0}

VARIABLES
  updates,     \* what users wrote, by update id
  confirmed,   \* Telegram forgets updates up to here
  op,          \* the operator: where it is, its offset, its batch, its context
  life,        \* how often it was started
  stored,      \* the execution's result: the update it came from, 0 for none
  work,        \* the handoff: its round and whether this round awaits approval
  approvals,   \* who approved which round, in which life (history)
  handled,     \* [update ids -> the life it was last handled in] (history)
  outcome,     \* [update ids -> what became of it then] (history)
  told,        \* the answers users got (history)
  troubles

vars == <<updates, confirmed, op, life, stored, work, approvals, handled, outcome, told,
          troubles>>

Ids   == 1 .. MaxUpdates
Kinds == {"report", "approve", "ask", "ignored"}  \* ignored: not private, not allowed, empty

Down == [at |-> "down", offset |-> 0, batch |-> <<>>, dead |-> FALSE, reply |-> "none"]

----------------------------------------------------------------------------
\* Users, and those who submit the handoff

Write ==
  /\ Len(updates) < MaxUpdates
  /\ \E k \in Kinds : updates' = Append(updates, k)
  /\ UNCHANGED <<confirmed, op, life, stored, work, approvals, handled, outcome, told, troubles>>

\* After a revision or a repair the handoff is submitted again.
Resubmit ==
  /\ ~ work.waits /\ work.round < MaxRounds
  /\ work' = [round |-> work.round + 1, waits |-> TRUE]
  /\ UNCHANGED <<updates, confirmed, op, life, stored, approvals, handled, outcome, told, troubles>>

----------------------------------------------------------------------------
\* runOperatorLoop

Start ==
  /\ op.at = "down" /\ life < MaxStarts
  /\ op'   = [Down EXCEPT !.at = "polling"]
  /\ life' = life + 1
  /\ UNCHANGED <<updates, confirmed, stored, work, approvals, handled, outcome, told, troubles>>

\* What Telegram has for a poll that asks for ids from o on.
Pending(o) == LET first == Max({o, confirmed + 1}) IN
              [i \in 1 .. Min({Limit, Len(updates) + 1 - first}) |-> first - 1 + i]

\* Slip: what is fetched is confirmed.
Slip_GetUpdates ==
  /\ op.at = "polling" /\ ~ op.dead
  /\ confirmed' = Max({confirmed, op.offset - 1} \cup ToSet(Pending(op.offset)))
  /\ op' = [op EXCEPT !.at = "working", !.batch = Pending(op.offset)]
  /\ UNCHANGED <<updates, life, stored, work, approvals, handled, outcome, told, troubles>>

\* Telegram forgets what is below the offset and answers with what is not.
\* Offset 0 is not sent. The answer may get lost: back off, poll again.
GetUpdates ==
  /\ op.at = "polling" /\ ~ op.dead
  /\ op.offset <= Len(updates)
  /\ confirmed' = IF op.offset > 0 THEN Max({confirmed, op.offset - 1}) ELSE confirmed
  /\ \/ /\ op' = [op EXCEPT !.at = "working", !.batch = Pending(op.offset)]
        /\ UNCHANGED troubles
     \/ /\ troubles < MaxTroubles /\ troubles' = troubles + 1
        /\ op' = [op EXCEPT !.at = "backoff"]
  /\ UNCHANGED <<updates, life, stored, work, approvals, handled, outcome, told>>

\* The long poll that returns nothing confirms, too.
EmptyPoll ==
  /\ op.at = "polling" /\ ~ op.dead
  /\ op.offset > Len(updates) /\ op.offset > confirmed + 1
  /\ confirmed' = op.offset - 1
  /\ UNCHANGED <<updates, op, life, stored, work, approvals, handled, outcome, told, troubles>>

EndBackoff ==
  /\ op.at = "backoff"
  /\ op' = [op EXCEPT !.at = "polling"]
  /\ UNCHANGED <<updates, confirmed, life, stored, work, approvals, handled, outcome, told, troubles>>

NextId == Head(op.batch)

\* Slip: the offset stays behind by one.
Slip_Took(id) == Max({op.offset, id})

Took(id) == Max({op.offset, id + 1})

\* What is left of the batch, and the answer there is for the update.
Onward(id, reply) ==
  op' = [op EXCEPT !.offset = Took(id), !.batch = Tail(@), !.reply = reply,
                   !.at = IF reply # "none" THEN "replying" ELSE "working"]

Reply == [done |-> "ok", refused |-> "failed", error |-> "failed", none |-> "none"]

\* Slip: a refusal is not told from success.
Slip_Outcome(id, o) ==
  /\ handled' = [handled EXCEPT ![id] = life]
  /\ outcome' = [outcome EXCEPT ![id] = o]
  /\ Onward(id, IF o = "refused" THEN "ok" ELSE Reply[o])

Outcome(id, o) ==
  /\ handled' = [handled EXCEPT ![id] = life]
  /\ outcome' = [outcome EXCEPT ![id] = o]
  /\ Onward(id, Reply[o])

\* Slip: only the first report is kept.
Slip_SaveExecutionResult(id) == stored' = IF stored = 0 THEN id ELSE stored

SaveExecutionResult(id) == stored' = id

\* HandleHandoffProgress: an approval is refused unless one is awaited.
Approve(id) ==
  /\ work'      = [work EXCEPT !.waits = FALSE]
  /\ approvals' = approvals \cup {[update |-> id, round |-> work.round, life |-> life]}

\* processTelegramUpdate, up to the answer.
ProcessUpdate ==
  /\ op.at = "working" /\ op.batch # <<>> /\ ~ op.dead
  /\ \/ /\ updates[NextId] = "report"
        /\ SaveExecutionResult(NextId) /\ Outcome(NextId, "done")
        /\ UNCHANGED <<work, approvals>>
     \/ /\ updates[NextId] = "approve"
        /\ \/ work.waits /\ Approve(NextId) /\ Outcome(NextId, "done")
           \/ ~ work.waits /\ Outcome(NextId, "refused") /\ UNCHANGED <<work, approvals>>
        /\ UNCHANGED stored
     \/ /\ updates[NextId] = "ask" /\ Outcome(NextId, "done")
        /\ UNCHANGED <<stored, work, approvals>>
     \/ /\ updates[NextId] = "ignored" /\ Outcome(NextId, "none")
        /\ UNCHANGED <<stored, work, approvals>>
  /\ UNCHANGED <<updates, confirmed, life, told, troubles>>

\* The statement or the agent fails; the user hears so, and it is not tried again.
ActFails ==
  /\ op.at = "working" /\ op.batch # <<>> /\ ~ op.dead
  /\ updates[NextId] # "ignored"
  /\ troubles < MaxTroubles /\ troubles' = troubles + 1
  /\ Outcome(NextId, "error")
  /\ UNCHANGED <<updates, confirmed, life, stored, work, approvals, told>>

\* A lost answer is only logged.
SendReply ==
  /\ op.at = "replying"
  /\ op' = [op EXCEPT !.at = "working", !.reply = "none"]
  /\ \/ /\ ~ op.dead
        /\ told' = told \cup {[update |-> op.offset - 1, said |-> op.reply, life |-> life]}
        /\ UNCHANGED troubles
     \/ op.dead /\ UNCHANGED <<told, troubles>>
     \/ troubles < MaxTroubles /\ troubles' = troubles + 1 /\ UNCHANGED told
  /\ UNCHANGED <<updates, confirmed, life, stored, work, approvals, handled, outcome>>

EndBatch ==
  /\ op.at = "working" /\ op.batch = <<>>
  /\ op' = [op EXCEPT !.at = "polling"]
  /\ UNCHANGED <<updates, confirmed, life, stored, work, approvals, handled, outcome, told, troubles>>

\* SIGTERM: the context is dead from here on.
Terminate ==
  /\ op.at # "down" /\ ~ op.dead /\ life < MaxStarts
  /\ op' = [op EXCEPT !.dead = TRUE]
  /\ UNCHANGED <<updates, confirmed, life, stored, work, approvals, handled, outcome, told, troubles>>

\* With a dead context the rest of the batch fails, then the loop ends.
WindDown ==
  /\ op.dead
  /\ \/ op.at = "working" /\ op.batch # <<>> /\ Onward(NextId, "failed")
     \/ op.at \in {"polling", "backoff"} /\ op' = Down
  /\ UNCHANGED <<updates, confirmed, life, stored, work, approvals, handled, outcome, told, troubles>>

Crash ==
  /\ op.at # "down" /\ life < MaxStarts
  /\ op' = Down
  /\ UNCHANGED <<updates, confirmed, life, stored, work, approvals, handled, outcome, told, troubles>>

----------------------------------------------------------------------------

Init ==
  /\ updates = <<>> /\ confirmed = 0
  /\ op = Down /\ life = 0
  /\ stored = 0
  /\ work = [round |-> 1, waits |-> TRUE]
  /\ approvals = {} /\ told = {}
  /\ handled = [i \in Ids |-> 0]
  /\ outcome = [i \in Ids |-> "none"]
  /\ troubles = 0

Run == Start \/ GetUpdates \/ EmptyPoll \/ EndBackoff \/ ProcessUpdate \/ ActFails
       \/ SendReply \/ EndBatch \/ WindDown

Next == Write \/ Resubmit \/ Run \/ Terminate \/ Crash

\* The operator goes on, and whoever runs it starts it again; nobody has to write.
Spec == Init /\ [][Next]_vars /\ WF_vars(Run)

----------------------------------------------------------------------------
\* Properties

\* Telegram forgets nothing the operator has not dealt with, wherever it crashes or
\* is terminated: the offset is sent only when the whole batch is behind it.
ConfirmedIsHandled == \A i \in 1 .. confirmed : handled[i] > 0

\* A report that came later is not overwritten by an earlier one that a crash made
\* Telegram send again, once Telegram has forgotten both.
LatestReportStands ==
  \A i \in 1 .. confirmed :
    updates[i] = "report" /\ outcome[i] = "done" => stored >= i

\* Users hear the truth: approved means approved. A failure means that it was not,
\* unless the message was acted on in an earlier life, too.
AnswersAreTrue ==
  \A t \in told :
    updates[t.update] = "approve" =>
      LET did == \E a \in approvals : a.update = t.update /\ a.life = t.life
      IN (t.said = "ok") <=> did

\* Within a life, updates are acted on once and in the order they were written.
InOrder ==
  [][\A i \in Ids : handled'[i] # handled[i] \/ outcome'[i] # outcome[i] =>
       \A j \in Ids : j >= i => handled[j] # life]_vars

\* What a user writes is dealt with, whatever gets lost, provided the operator is
\* not stopped for good.
EveryUpdateIsHandled ==
  \A i \in Ids : (Len(updates) >= i) ~> (handled[i] > 0)
=============================================================================
