----------------------------- MODULE ToolPlane ------------------------------
(***************************************************************************)
(* The truth plane and the sender as a client of the tool server finds them *)
(* (toolserver/handlers.go and what its handlers call): what a call changes, *)
(* when it is refused, and what a later call shows. Pure operators; p is    *)
(* what is stored, c a call.                                                *)
(*                                                                         *)
(* Handoffs, repairs and jobs are known by their number; an event by its    *)
(* place in its handoff's log. A review is "revised" or "approved", and so  *)
(* is the state it leaves. Actors, leases, reasons and clocks are left out: *)
(* callers name the actors the handoff asks for, and a watch comes due only  *)
(* when a call says so. All handoffs are required for completion.           *)
(***************************************************************************)
EXTENDS Naturals, Sequences, FiniteSets

Ended  == {"completed", "failed"}
Events == {"dispatched", "received", "claimed", "started", "checkpointed",
           "submitted", "revised", "approved", "completed", "failed"}

Empty == [hs |-> << >>, repairs |-> << >>, jobs |-> << >>, applied |-> FALSE]

Call(tool, h, arg) == [tool |-> tool, h |-> h, arg |-> arg]

\* What handoff_create is asked for: a workflow of its own or that of handoff
\* c.h, to wait for c.h, a review, a delivery target, another kind of workflow.
Wishes ==
  LET wish(own, waits, review, target, alien) ==
        [own |-> own, waits |-> waits, review |-> review, target |-> target, alien |-> alien]
  IN [root     |-> wish(TRUE, FALSE, FALSE, TRUE, FALSE),
      alien    |-> wish(TRUE, FALSE, FALSE, TRUE, TRUE),
      reviewed |-> wish(TRUE, FALSE, TRUE, TRUE, FALSE),
      after    |-> wish(FALSE, TRUE, FALSE, TRUE, FALSE),
      beside   |-> wish(FALSE, FALSE, TRUE, TRUE, FALSE),
      open     |-> wish(TRUE, FALSE, TRUE, FALSE, FALSE),
      turn     |-> wish(TRUE, FALSE, FALSE, FALSE, FALSE),
      follow   |-> wish(FALSE, TRUE, FALSE, FALSE, FALSE),
      stranger |-> wish(TRUE, TRUE, FALSE, FALSE, FALSE)]

----------------------------------------------------------------------------
\* Handoffs

Depends(p, h)    == \A d \in p.hs[h].deps : p.hs[d].wf = p.hs[h].wf /\ p.hs[d].state = "completed"
Workflow(p, h)   == {n \in DOMAIN p.hs : p.hs[n].wf = p.hs[h].wf}

\* The states an event is accepted in.
Before(x, e) ==
  CASE e = "dispatched"   -> {"created"}
    [] e = "received"     -> {"dispatched"} \cup (IF x.target THEN {} ELSE {"created"})
    [] e = "claimed"      -> {"received"}
    [] e = "started"      -> {"claimed"}
    [] e = "checkpointed" -> {"started", "revised"}
    [] e = "submitted"    -> {"checkpointed", "revised"}
    [] e \in {"revised", "approved"} -> IF x.review THEN {"submitted"} ELSE {}
    [] e = "completed"    -> IF x.review THEN {"approved"} ELSE {"checkpointed", "submitted"}
    [] e = "failed"       -> {"created"} \cup (Events \ Ended)

Claimed(x, e) == IF e = "claimed" THEN [x EXCEPT !.owner = "receiver"] ELSE x
Reach(x, e)   == [Claimed(x, e) EXCEPT !.state = e]
Record(x, e)  == [Reach(x, e) EXCEPT !.log = Append(@, [type |-> e, live |-> TRUE])]

\* The row from the live events, new watches with it.
ReplayHandoffProjection(x) ==
  LET walk[i \in 0 .. Len(x.log)] ==
        IF i = 0 THEN [x EXCEPT !.state = "created", !.owner = "nobody",
                                !.watch = [id |-> @.id + 1, val |-> "default"]]
        ELSE IF x.log[i].live /\ walk[i - 1].state \in Before(x, x.log[i].type)
        THEN Reach(walk[i - 1], x.log[i].type) ELSE walk[i - 1]
  IN walk[Len(x.log)]

\* A reminder of the watch for "received" that nobody has answered.
Reminded(x) ==
  x.watch.val = "reminded" /\ \A i \in DOMAIN x.log : ~ (x.log[i].live /\ x.log[i].type = "received")

Blocked(p, n) == ~ Depends(p, n) \/ Reminded(p.hs[n])

WorkflowStatus(p, h) ==
  LET states == {p.hs[n].state : n \in Workflow(p, h)} IN
    IF "failed" \in states THEN "failed"
    ELSE IF \E n \in Workflow(p, h) : Blocked(p, n) THEN "blocked"
    ELSE IF states = {"completed"} THEN "completed" ELSE "active"

NextWork(p, h)    == {n \in Workflow(p, h) : p.hs[n].state \notin Ended /\ ~ Blocked(p, n)}
BlockedWork(p, h) == {n \in Workflow(p, h) : p.hs[n].state \notin Ended /\ Blocked(p, n)}

\* The last event of a type in a handoff's log, invalidated or not.
LastOf(x, e) == CHOOSE i \in DOMAIN x.log :
                  x.log[i].type = e /\ \A j \in DOMAIN x.log : x.log[j].type = e => j <= i

----------------------------------------------------------------------------
\* What a call is refused for. A refusal is an error, and changes nothing.

HandoffCreateRefused(p, c) ==
  ~ Wishes[c.arg].own /\ WorkflowStatus(p, c.h) \in Ended

HandoffDispatchRefused(p, c) == p.hs[c.h].state # "created" \/ ~ Depends(p, c.h)

HandoffProgressRefused(p, c) ==
  \/ p.hs[c.h].state \notin Before(p.hs[c.h], c.arg)
  \/ c.arg # "failed" /\ ~ Depends(p, c.h)

RepairInvalidateRefused(p, c) == \A i \in DOMAIN p.hs[c.h].log : p.hs[c.h].log[i].type # c.arg
RepairBackfillRefused(p, c)   == p.hs[c.h].state \notin Before(p.hs[c.h], c.arg)
RepairReopenRefused(p, c)     == p.hs[c.h].state \notin Ended

Refused(p, c) ==
  \/ c.tool = "handoff_create" /\ HandoffCreateRefused(p, c)
  \/ c.tool \in {"handoff_dispatch", "agent_turn"} /\ HandoffDispatchRefused(p, c)
  \/ c.tool = "handoff_progress" /\ HandoffProgressRefused(p, c)
  \/ c.tool = "repair_invalidate_event" /\ RepairInvalidateRefused(p, c)
  \/ c.tool = "repair_backfill_event" /\ RepairBackfillRefused(p, c)
  \/ c.tool = "repair_reopen_handoff" /\ RepairReopenRefused(p, c)

----------------------------------------------------------------------------
\* What a call that is not refused leaves

HandoffCreate(p, c) ==
  LET wish == Wishes[c.arg]
      n    == Len(p.hs) + 1
  IN [p EXCEPT !.hs = Append(@,
        [wf     |-> IF wish.own THEN n ELSE p.hs[c.h].wf,
         alien  |-> IF wish.own THEN wish.alien ELSE p.hs[c.h].alien,
         deps   |-> IF wish.waits THEN {c.h} ELSE {},
         review |-> wish.review, target |-> wish.target,
         state  |-> "created", log |-> << >>, hint |-> FALSE, cand |-> FALSE,
         watch  |-> [id |-> 1, val |-> "default"], owner |-> "receiver"])]

\* Three handoffs, each to wait for the one before; under the same key once.
TemplateApply(p) ==
  LET first   == HandoffCreate(p, Call("handoff_create", 0, "root"))
      next(q) == HandoffCreate(q, Call("handoff_create", Len(q.hs), "after"))
  IN IF p.applied THEN p ELSE [next(next(first)) EXCEPT !.applied = TRUE]

HandoffProgress(p, h, e) == [p EXCEPT !.hs[h] = Record(@, e)]

\* A dispatch that names its target; agent_turn also runs the work to its end.
HandoffDispatch(p, h) == [p EXCEPT !.hs[h] = Record([@ EXCEPT !.target = TRUE], "dispatched")]

AgentTurn(p, h) ==
  LET run[i \in 0 .. 5] ==
        IF i = 0 THEN HandoffDispatch(p, h)
        ELSE HandoffProgress(run[i - 1], h,
               <<"received", "claimed", "started", "checkpointed", "completed">>[i])
  IN run[5]

Repaired(p, action, h, event) ==
  [p EXCEPT !.repairs = Append(@, [action |-> action, h |-> h, event |-> event])]

RepairInvalidateEvent(p, h, e) ==
  LET i == LastOf(p.hs[h], e) IN
    [Repaired(p, "invalidate_event", h, i) EXCEPT
       !.hs[h] = ReplayHandoffProjection([@ EXCEPT !.log[i].live = FALSE])]

RepairBackfillEvent(p, h, e) ==
  [Repaired(p, "backfill_event", h, 0) EXCEPT !.hs[h] = Record(@, e)]

\* (a slip: the events stay in force)
Slip_RepairReopenHandoff(p, h) ==
  [Repaired(p, "reopen_handoff", h, 0) EXCEPT !.hs[h] = ReplayHandoffProjection(@)]

RepairReopenHandoff(p, h) ==
  [Repaired(p, "reopen_handoff", h, 0) EXCEPT
     !.hs[h] = ReplayHandoffProjection(
       [@ EXCEPT !.log = [i \in DOMAIN @ |-> [@[i] EXCEPT !.live = FALSE]]])]

\* transport_accepted: the divergence is kept, with a repair candidate while the
\* handoff has made no progress.
DivergenceRecord(p, h) ==
  [p EXCEPT !.hs[h].hint = TRUE,
            !.hs[h].cand = @ \/ p.hs[h].state \in {"created", "dispatched"}]

\* A watch that is due is reminded of.
WatchRun(p) ==
  [p EXCEPT !.hs = [n \in DOMAIN @ |->
     IF @[n].watch.val = "due" THEN [@[n] EXCEPT !.watch.val = "reminded"] ELSE @[n]]]

WatchUpdate(p, h, val)     == [p EXCEPT !.hs[h].watch.val = val]
OwnershipUpdate(p, h, val) == [p EXCEPT !.hs[h].owner = val]

\* The bridge answers with how the job stands when it stops waiting.
A2ADeliver(p, status) == [p EXCEPT !.jobs = Append(@, status)]

\* The other tools only show what is there.
After(p, c) ==
  CASE c.tool = "handoff_create"          -> HandoffCreate(p, c)
    [] c.tool = "template_apply"          -> TemplateApply(p)
    [] c.tool = "handoff_dispatch"        -> HandoffDispatch(p, c.h)
    [] c.tool = "agent_turn"              -> AgentTurn(p, c.h)
    [] c.tool = "handoff_progress"        -> HandoffProgress(p, c.h, c.arg)
    [] c.tool = "repair_invalidate_event" -> RepairInvalidateEvent(p, c.h, c.arg)
    [] c.tool = "repair_backfill_event"   -> RepairBackfillEvent(p, c.h, c.arg)
    [] c.tool = "repair_reopen_handoff"   -> RepairReopenHandoff(p, c.h)
    [] c.tool = "divergence_record"       -> DivergenceRecord(p, c.h)
    [] c.tool = "watch_update"            -> WatchUpdate(p, c.h, c.arg)
    [] c.tool = "watch_run"               -> WatchRun(p)
    [] c.tool = "ownership_update"        -> OwnershipUpdate(p, c.h, c.arg)
    [] c.tool = "a2a_deliver"             -> A2ADeliver(p, c.arg)
    [] OTHER                              -> p
============================================================================
