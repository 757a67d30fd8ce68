---------------------------- MODULE SwarmDriver -----------------------------
(***************************************************************************)
(* The swarm driver (internal/swarmdriver, cmd/clawside-swarmd): daemons   *)
(* that take the work the truth plane offers, ask agents for it by a       *)
(* message through the sender, and record what the agents report as        *)
(* protocol actions.                                                       *)
(*                                                                         *)
(* A statement or transaction of a store is one action, so is a request to *)
(* the sender; between two of them everybody else may act. The sender is   *)
(* DeliveryLedger, which SenderQueue implements. Recording an event is one *)
(* action here; TruthPlane opens it up.                                    *)
(***************************************************************************)
EXTENDS HandoffStateMachine, FiniteSets

CONSTANTS
  Handoffs,     \* the handoffs of one workflow, all required for its completion
  Kind,         \* [Handoffs -> Kinds]
  Reviewer,     \* [Handoffs -> Agents \cup {NoActor}]
  Addressed,    \* handoffs with a delivery target: they wait for a dispatch
  DependsOn,    \* [Handoffs -> SUBSET Handoffs]
  Configured,   \* the daemons' agents, in order
  Drivers,      \* the daemons
  Targeted,     \* the daemons told which workflow to drive; others take any work
  Replies,      \* [Phases -> SUBSET of what an agent may report]
  Outside,      \* events others record: agents over MCP, operators
  NoReply, NoOne,
  MaxUpsets     \* bound: failed requests, crashes, store errors and events others record

Phases == {"execute", "review"}
Keys   == [h : Handoffs, agent : Agents, phase : Phases]
Items  == [h : Handoffs, seen : Rows]   \* handoffs with the rows they were read as

ASSUME SwarmAssumption ==
  /\ Kind \in [Handoffs -> Kinds]
  /\ Reviewer \in [Handoffs -> Agents \cup {NoActor}]
  /\ Addressed \subseteq Handoffs
  /\ DependsOn \in [Handoffs -> SUBSET Handoffs]
  /\ Configured \in Seq(Agents)
  /\ Targeted \subseteq Drivers
  /\ \A p \in Phases : Replies[p] \subseteq [status : {"completed", "failed"},
                                            artifacts : Nat, decision : Decisions]
  /\ Outside \subseteq Events
  /\ \A p \in Phases : NoReply \notin Replies[p]
  /\ NoOne \notin Items
  /\ MaxUpsets \in Nat

VARIABLES
  row,        \* [Handoffs -> Rows]: the handoffs table
  exec,       \* [Keys -> ...]: swarm_execution_requests, by correlation id
  verdict,    \* the sender's jobs, by idempotency key: see DeliveryLedger
  delivered,
  said,       \* [Keys -> ...]: everything reported (history)
  driver,     \* [Drivers -> ...]: where a daemon is in its tick
  upsets      \* how many of the events MaxUpsets bounds there have been

L == INSTANCE DeliveryLedger WITH Jobs <- Keys

sender == <<verdict, delivered>>
vars   == <<row, exec, sender, said, driver, upsets>>

Off     == [at |-> "off", todo |-> {}, item |-> NoOne, answer |-> NoReply, outcome |-> "none"]
Resting == [Off EXCEPT !.at = "resting"]
Unasked == [known |-> FALSE, delivery |-> "new", result |-> NoReply]

----------------------------------------------------------------------------
\* What the truth plane answers

DependenciesCompleted(h) == \A d \in DependsOn[h] : row[d].state = "completed"

\* NextWork: what nothing blocks.
Offered ==
  {h \in Handoffs : /\ row[h].state \notin Ended
                    /\ DependenciesCompleted(h)
                    /\ Kind[h].review => row[h].reviewer # NoActor}

\* The projection of the workflow has ended.
WorkflowOver ==
  \/ \E h \in Handoffs : row[h].state \in {"failed", "expired"}
  \/ \A h \in Handoffs : row[h].state = "completed"

\* ApplyProtocolAction. The driver never reads state_version, so it is held at 0.
MayRecord(h, e) ==
  /\ e.type # "failed" => DependenciesCompleted(h)
  /\ Accepts(Kind[h], row[h], e)
ApplyProtocolAction(h, e) ==
  row' = [row EXCEPT ![h] = [Apply(Kind[h], @, e) EXCEPT !.version = 0]]

----------------------------------------------------------------------------
\* What a daemon makes of a handoff it has read as r

Concerns(h, r, a) == a \in {Kind[h].receiver, r.owner, r.reviewer}

Concerned(h, r) == {i \in DOMAIN Configured : Concerns(h, r, Configured[i])}

\* agentForWork: the first configured agent the handoff concerns.
AgentForWork(h, r) ==
  Configured[CHOOSE i \in Concerned(h, r) : \A j \in Concerned(h, r) : i <= j]

\* Slip: reviews and executions share an identity.
Slip_ExecutionKey(h, r) == [h |-> h, agent |-> AgentForWork(h, r), phase |-> "execute"]

\* The correlation id, which is the idempotency key too: nothing in it changes
\* from one attempt to the next, nor from one round of a revision to the next.
ExecutionKey(h, r) ==
  IF r.state # "submitted"
  THEN [h |-> h, agent |-> AgentForWork(h, r), phase |-> "execute"]
  ELSE [h |-> h, phase |-> "review",
        agent |-> IF r.reviewer # NoActor THEN r.reviewer ELSE AgentForWork(h, r)]

\* The adapter waves work through to where an agent has something to do.
WavedThrough == {"created", "dispatched", "received", "claimed"}

\* Slip: reviewers are never asked.
Slip_Delivering == {"started"}

Delivering == {"started", "submitted"}

NothingDone == [status |-> "completed", artifacts |-> 0, decision |-> "none"]

By(type, a) == [type |-> type, subject |-> a, producer |-> a, artifacts |-> 0,
                decision |-> "none"]

Submission(h, reply) ==
  [By("submitted", Kind[h].receiver) EXCEPT !.artifacts =
     IF reply.artifacts = 0 /\ NeedsSubmission(Kind[h]) THEN 1 ELSE reply.artifacts]

\* Anything but a request for revision approves.
Review(r, reply) ==
  [By("reviewed", r.reviewer) EXCEPT !.decision =
     IF reply.decision = "revision_required" THEN "revision_required" ELSE "approved"]

FollowedBy == [dispatched |-> "received", received |-> "claimed",
               claimed |-> "started", started |-> "checkpointed"]

\* Slip: every review is followed by the completion.
Slip_NextProgress(h, r, reply) ==
  LET own(type) == By(type, Kind[h].receiver) IN
  CASE r.state = "created"              -> own("received")
    [] r.state \in DOMAIN FollowedBy    -> own(FollowedBy[r.state])
    [] r.state = "checkpointed"         -> IF NeedsSubmission(Kind[h])
                                           THEN Submission(h, reply) ELSE own("completed")
    [] r.state = "submitted"            -> Review(r, reply)
    [] OTHER                            -> own("completed")

\* nextProgressDecision, for a handoff that is Workable.
NextProgress(h, r, reply) ==
  LET own(type) == By(type, Kind[h].receiver) IN
  CASE r.state = "created"              -> own("received")
    [] r.state \in DOMAIN FollowedBy    -> own(FollowedBy[r.state])
    [] r.state = "checkpointed"         -> IF NeedsSubmission(Kind[h])
                                           THEN Submission(h, reply) ELSE own("completed")
    [] r.state = "submitted"            -> Review(r, reply)
    [] InRevision(r)                    -> own("checkpointed")
    [] OTHER                            -> own("completed")

----------------------------------------------------------------------------
\* A tick (a round of Run, or runDaemonAvailableWork): read what is offered,
\* then take it item by item, in an order that depends on deadlines.

Upset == upsets < MaxUpsets /\ upsets' = upsets + 1

Go(d, at) == driver' = [driver EXCEPT ![d].at = at]
Rest(d)   == driver' = [driver EXCEPT ![d] = Resting]
Quit(d)   == driver' = [driver EXCEPT ![d] = Off]

\* Only these are left of the list; an empty list ends the tick.
ToList(d, left) ==
  driver' = [driver EXCEPT ![d] = IF left = {} THEN Resting
                                  ELSE [Resting EXCEPT !.at = "working", !.todo = left]]

Key(i)   == ExecutionKey(i.h, i.seen)
KeyOf(d) == Key(driver[d].item)

\* Handoffs that wait for a dispatch, or concern none of the agents, are passed over.
Workable(h) == Concerned(h, row[h]) # {} /\ ~ (row[h].state = "created" /\ row[h].target)

\* A daemon with a target leaves an ended workflow alone.
NextWork(d) ==
  LET found == {h \in Offered : Workable(h)} IN
  /\ driver[d].at = "resting"
  /\ d \in Targeted => ~ WorkflowOver
  /\ found # {}
  /\ ToList(d, {[h |-> h, seen |-> row[h]] : h \in found})
  /\ UNCHANGED <<row, exec, sender, said, upsets>>

NeedsAgent(i) == i.seen.state \notin WavedThrough

\* Record what the daemon makes of i and the reply, and go on with the list. A
\* protocol action the truth plane refuses is an error: it ends a targeted
\* daemon, the others leave the handoff for the next tick.
ProgressWork(d, i, reply) ==
  LET e == NextProgress(i.h, i.seen, reply) IN
    \/ /\ MayRecord(i.h, e)
       /\ ApplyProtocolAction(i.h, e)
       /\ ToList(d, driver[d].todo \ {i})
    \/ /\ ~ MayRecord(i.h, e)
       /\ IF d \in Targeted THEN Quit(d) ELSE ToList(d, driver[d].todo \ {i})
       /\ UNCHANGED row

WaveThrough(d) ==
  /\ driver[d].at = "working"
  /\ \E i \in driver[d].todo : ~ NeedsAgent(i) /\ ProgressWork(d, i, NothingDone)
  /\ UNCHANGED <<exec, sender, said, upsets>>

\* Insert the request unless it is there, read it back. What has been reported
\* is used at once; otherwise an agent is asked where the work waits for one.
EnsureExecutionRequest(d) ==
  /\ driver[d].at = "working"
  /\ \E i \in driver[d].todo :
       LET reply     == exec[Key(i)].result
           carry(at) == driver' = [driver EXCEPT ![d] =
                          [at |-> at, todo |-> driver[d].todo \ {i}, item |-> i,
                           answer |-> reply, outcome |-> "none"]] IN
       /\ NeedsAgent(i)
       /\ exec' = [exec EXCEPT ![Key(i)].known = TRUE]
       /\ \/ reply = NoReply /\ i.seen.state \in Delivering /\ carry("asking")
          \/ reply = NoReply /\ i.seen.state \notin Delivering /\ ToList(d, driver[d].todo \ {i})
          \/ reply # NoReply /\ carry(IF reply.status = "failed" THEN "failing" ELSE "recording")
  /\ UNCHANGED <<row, sender, said, upsets>>

RecordReply(d) ==
  /\ driver[d].at = "recording"
  /\ ProgressWork(d, driver[d].item, driver[d].answer)
  /\ UNCHANGED <<exec, sender, said, upsets>>

----------------------------------------------------------------------------
\* Asking an agent, through the sender

\* Slip: the answer is not kept.
Slip_Learn(d, outcome) == Go(d, "marking")

Learn(d, outcome) ==
  driver' = [driver EXCEPT ![d].at = "marking", ![d].outcome = outcome]

\* POST /send, with the correlation id as idempotency key: again at every tick,
\* whatever became of the job.
Send(d) ==
  /\ driver[d].at = "asking"
  /\ LET k == KeyOf(d) IN
       \/ L!Accept(k) /\ Go(d, "polling")
       \/ verdict[k] = "open" /\ Go(d, "polling") /\ UNCHANGED sender
       \/ verdict[k] \in {"sent", "failed"} /\ Learn(d, verdict[k]) /\ UNCHANGED sender
  /\ UNCHANGED <<row, exec, said, upsets>>

\* The request fails, before or after the sender has stored the job; so may
\* reading the job, with an answer the client does not retry.
RequestFails(d) ==
  /\ Upset
  /\ \/ driver[d].at = "asking" /\ Learn(d, "error") /\ (L!Accept(KeyOf(d)) \/ UNCHANGED sender)
     \/ driver[d].at = "polling" /\ Learn(d, "failed") /\ UNCHANGED sender
  /\ UNCHANGED <<row, exec, said>>

\* Slip: what has not failed in time counts as sent.
Slip_PollJob(d) ==
  /\ driver[d].at = "polling"
  /\ Learn(d, IF verdict[KeyOf(d)] = "failed" THEN "failed" ELSE "sent")
  /\ UNCHANGED <<row, exec, sender, said, upsets>>

\* PollJob: the verdict, or what a poll that runs out of time says.
PollJob(d) ==
  /\ driver[d].at = "polling"
  /\ \/ Learn(d, "waiting")
     \/ verdict[KeyOf(d)] \in {"sent", "failed"} /\ Learn(d, verdict[KeyOf(d)])
  /\ UNCHANGED <<row, exec, sender, said, upsets>>

NotDelivered == {"failed", "error"}

GiveUp(d) == driver' = [driver EXCEPT ![d].at = "failing", ![d].outcome = "none"]

\* A delivery that has failed fails the handoff; any other waits for the agent.
MarkExecutionDelivered(d) ==
  LET outcome == driver[d].outcome IN
  /\ driver[d].at = "marking"
  /\ exec' = [exec EXCEPT ![KeyOf(d)].delivery =
               IF outcome \in NotDelivered THEN "failed" ELSE outcome]
  /\ IF outcome \in NotDelivered THEN GiveUp(d) ELSE ToList(d, driver[d].todo)
  /\ UNCHANGED <<row, sender, said, upsets>>

----------------------------------------------------------------------------
\* Giving up

\* A refused failure ends every daemon.
FailHandoff(d) ==
  /\ driver[d].at = "failing"
  /\ LET h == driver[d].item.h
         e == By("failed", Kind[h].receiver) IN
       \/ MayRecord(h, e) /\ ApplyProtocolAction(h, e) /\ ToList(d, driver[d].todo)
       \/ ~ MayRecord(h, e) /\ Quit(d) /\ UNCHANGED row
  /\ UNCHANGED <<exec, sender, said, upsets>>

----------------------------------------------------------------------------
\* Faults

\* A statement fails. The adapter's are counted by a targeted daemon, which goes
\* on or gives the tick up, and end the tick of the others. That the failure
\* of a request could not be noted is ignored.
StoreError(d) ==
  /\ Upset
  /\ LET here    == driver[d].at
         todo    == driver[d].todo
         goOn(i) == IF d \in Targeted THEN ToList(d, todo \ {i}) ELSE Rest(d)
         give(i) == IF d \in Targeted THEN Quit(d) ELSE ToList(d, todo \ {i}) IN
       \/ here \in {"resting", "failing"} /\ Quit(d)
       \/ here = "working" /\ \E i \in todo : NeedsAgent(i) /\ (goOn(i) \/ Rest(d))
       \/ here = "working" /\ \E i \in todo : ~ NeedsAgent(i) /\ give(i)
       \/ here = "marking" /\ IF driver[d].outcome = "error" THEN GiveUp(d)
                              ELSE goOn(driver[d].item) \/ Rest(d)
       \/ here = "recording" /\ give(driver[d].item)
  /\ UNCHANGED <<row, exec, sender, said>>

Crash(d) ==
  /\ Upset
  /\ driver[d].at # "off"
  /\ Quit(d)
  /\ UNCHANGED <<row, exec, sender, said>>

Restart(d) ==
  /\ driver[d].at = "off"
  /\ Rest(d)
  /\ UNCHANGED <<row, exec, sender, said, upsets>>

----------------------------------------------------------------------------
\* Everybody else

\* The sender's workers. One delivery stands for the repeats of an orphaned job.
DeliverTask(k) ==
  /\ delivered[k] = 0
  /\ L!Deliver(k)
  /\ UNCHANGED <<row, exec, said, driver, upsets>>

DecideJob(k) ==
  /\ \E v \in {"sent", "failed"} : L!Decide(k, v)
  /\ UNCHANGED <<row, exec, said, driver, upsets>>

\* SaveExecutionResult, for an agent that got the message: the last report counts.
SaveExecutionResult(k) ==
  /\ exec[k].known
  /\ delivered[k] > 0
  /\ \E reply \in Replies[k.phase] :
       /\ exec' = [exec EXCEPT ![k].result = reply]
       /\ said' = [said EXCEPT ![k] = @ \cup {reply}]
  /\ UNCHANGED <<row, sender, driver, upsets>>

OthersAct(h) ==
  /\ Upset
  /\ \E e \in Outside : MayRecord(h, e) /\ ApplyProtocolAction(h, e)
  /\ UNCHANGED <<exec, sender, said, driver>>

----------------------------------------------------------------------------

Init ==
  /\ row     = [h \in Handoffs |->
                  [state |-> "created", version |-> 0, owner |-> Kind[h].receiver,
                   lease |-> NoActor, reviewer |-> Reviewer[h], target |-> h \in Addressed,
                   has |-> {}, artifacts |-> 0, decision |-> "none"]]
  /\ exec    = [k \in Keys |-> Unasked]
  /\ L!Init
  /\ said    = [k \in Keys |-> {}]
  /\ driver  = [d \in Drivers |-> Resting]
  /\ upsets  = 0

Step(d) ==
  \/ NextWork(d) \/ WaveThrough(d) \/ EnsureExecutionRequest(d)
  \/ Send(d) \/ PollJob(d) \/ MarkExecutionDelivered(d)
  \/ RecordReply(d) \/ FailHandoff(d)

Next ==
  \/ \E d \in Drivers : Step(d) \/ RequestFails(d) \/ StoreError(d) \/ Crash(d) \/ Restart(d)
  \/ \E k \in Keys : DeliverTask(k) \/ DecideJob(k) \/ SaveExecutionResult(k)
  \/ \E h \in Handoffs : OthersAct(h)

Spec == Init /\ [][Next]_vars

\* Daemons run and are started again, the sender decides (DecidedOrOrphaned of
\* SenderQueue), agents that were asked answer.
Fairness ==
  /\ \A d \in Drivers : WF_vars(Step(d) \/ Restart(d))
  /\ WF_vars(\E k \in Keys : DecideJob(k))
  /\ WF_vars(\E k \in Keys : exec[k].result = NoReply /\ SaveExecutionResult(k))

FairSpec == Spec /\ Fairness

----------------------------------------------------------------------------
\* Properties

Busy == {"asking", "polling", "marking", "recording", "failing"}

\* The types of all variables; a daemon that is busy has an item, and while it
\* deals with an agent also the agent's row in swarm_execution_requests.
TypeOK ==
  /\ row \in [Handoffs -> Rows]
  /\ \A k \in Keys :
       /\ exec[k].known \in BOOLEAN
       /\ exec[k].delivery \in {"new", "sent", "waiting", "failed"}
       /\ exec[k].result \in Replies[k.phase] \cup {NoReply}
       /\ verdict[k] # "absent" => exec[k].known
       /\ said[k] \subseteq Replies[k.phase]
       /\ said[k] # {} <=> exec[k].result # NoReply
  /\ \A d \in Drivers :
       /\ driver[d].at \in {"off", "resting", "working"} \cup Busy
       /\ driver[d].at \in Busy <=> driver[d].item # NoOne
       /\ driver[d].at \in {"asking", "polling", "marking"} => exec[KeyOf(d)].known
       /\ driver[d].at = "marking" <=> driver[d].outcome # "none"
       /\ driver[d].at = "working" => driver[d].todo # {}
       /\ driver[d].at = "recording" => driver[d].answer # NoReply

Reported(h, phase) == UNION {said[k] : k \in {n \in Keys : n.h = h /\ n.phase = phase}}
Done(h, phase)     == {reply \in Reported(h, phase) : reply.status = "completed"}

\* Results become protocol progress, and nothing else does: no handoff is
\* checkpointed, and so submitted or completed, before an agent has reported
\* its execution as completed, and none is approved before somebody asked to
\* review it has reported so, whatever the daemons, their crashes and repeated
\* deliveries make of it.
WorkIsReported ==
  \A h \in Handoffs :
    /\ "checkpointed" \in row[h].has => Done(h, "execute") # {}
    /\ row[h].decision = "approved" =>
         \E reply \in Done(h, "review") : reply.decision # "revision_required"

\* nextProgressDecision and the state machine agree: unless the handoff has
\* changed since it was read, what the driver records is accepted. A refusal ends
\* a targeted daemon, and would do so at every restart.
NeverRefused ==
  \A d \in Drivers :
    LET upToDate(i)   == i.seen = row[i.h]
        fits(i, reply) == MayRecord(i.h, NextProgress(i.h, i.seen, reply)) IN
      /\ \A i \in driver[d].todo : upToDate(i) /\ ~ NeedsAgent(i) => fits(i, NothingDone)
      /\ driver[d].at = "recording" /\ upToDate(driver[d].item)
           => fits(driver[d].item, driver[d].answer)

\* The delivery status kept with a request is never ahead of the sender: a task
\* noted as sent has been delivered.
DeliveredIsTrue == \A k \in Keys : exec[k].delivery = "sent" => delivered[k] > 0

\* A submission sent back is answered by the same report of the reviewer again,
\* unless the reviewer sends another.
SentBack(h) == \E reply \in Reported(h, "review") : reply.decision = "revision_required"

\* The workflow ends, unless it goes round in a revision or nobody dispatches what
\* waits for a dispatch: through crashes, lost answers and daemons that work on
\* the same handoffs.
WorkflowEnds ==
  \/ <>(WorkflowOver \/ \E h \in Handoffs : SentBack(h))
  \/ \E h \in Addressed : [](row[h].state = "created")

============================================================================
