----------------------------- MODULE Extractors -----------------------------
(***************************************************************************)
(* The evidence extractors (cmd/openclaw-truth-plane-*-extract) and the     *)
(* validators of what they write (cmd/openclaw-mcp-smoke). Each walks the   *)
(* tool results of an agent's transcript and puts together a report of one  *)
(* handoff, or none. A flow is what its walk has found so far; p is what is *)
(* stored when the result of call c was made.                               *)
(*                                                                         *)
(* A script is the calls the report asks for, made of the first handoff the *)
(* agent creates; f.at counts those found. Identifiers, reasons and actors  *)
(* the results repeat unchanged are left out.                               *)
(***************************************************************************)
EXTENDS ToolPlane

NoFlow == [h |-> 0, at |-> 0, key |-> 0, job |-> 0, told |-> "",
           state |-> "", status |-> "", verdict |-> "open"]

Begin(p) == [NoFlow EXCEPT !.h = Len(p.hs), !.at = 1]
End(f, verdict) == [f EXCEPT !.verdict = verdict]

Due(S, f, c)   == f.at \in 1 .. Len(S) - 1 /\ S[f.at + 1].tool = c.tool
Asked(S, f, c) == c.h = f.h /\ c.arg = S[f.at + 1].arg

\* The next step of the script found, and what its result shows.
Onward(S, f, p, c) ==
  [f EXCEPT !.at      = @ + 1,
            !.state   = IF c.tool = "handoff_get" THEN p.hs[c.h].state ELSE @,
            !.status  = IF c.tool = "workflow_status" THEN WorkflowStatus(p, c.h) ELSE @,
            !.verdict = IF f.at + 1 = Len(S) THEN "done" ELSE @]

SameWorkflow(p, f, c) == p.hs[c.h].wf = p.hs[f.h].wf

Path == <<"received", "claimed", "started", "checkpointed", "completed">>

Ask(tool) == <<Call(tool, 1, "")>>
Walk      == [i \in 1 .. 5 |-> Call("handoff_progress", 1, Path[i])]
Opening   == <<Call("handoff_create", 0, "root")>> \o Ask("handoff_dispatch")

----------------------------------------------------------------------------
\* A completed handoff is reopened

ReopenScript ==
  Opening \o Walk \o Ask("divergence_list") \o Ask("repair_candidate_list")
          \o Ask("repair_reopen_handoff") \o Ask("repair_list")
          \o Ask("handoff_get") \o Ask("workflow_status")

ReopenAsked(f, c) == Asked(ReopenScript, f, c)

\* A list with nothing in it is of any handoff.
ReopenShows(p, f, c) ==
  \/ c.h = f.h
  \/ c.tool = "divergence_list" /\ ~ p.hs[c.h].hint
  \/ c.tool = "repair_candidate_list" /\ ~ p.hs[c.h].cand

ReopenLeaves(p, f, c) ==
  /\ p.hs[f.h].state = "created"
  /\ c.tool = "handoff_get" => c.h = f.h
  /\ c.tool = "workflow_status" => SameWorkflow(p, f, c) /\ WorkflowStatus(p, c.h) = "active"

ReopenSays(p, f, c) ==
  IF c.tool \in {"handoff_dispatch", "handoff_progress"} THEN ReopenAsked(f, c)
  ELSE IF c.tool \in {"handoff_get", "workflow_status"} THEN ReopenLeaves(p, f, c)
  ELSE ReopenShows(p, f, c)

\* A creation of the asked kind starts over, and a result that is due and wrong
\* ends the walk; only repair_list is asked for until it shows the repair.
ReopenTakes(f, p, c) ==
  IF f.verdict # "open" THEN f
  ELSE IF c.tool = "handoff_create" THEN IF p.hs[Len(p.hs)].alien THEN f ELSE Begin(p)
  ELSE IF c.tool = "handoff_progress" /\ f.at >= 7 THEN End(f, "error")
  ELSE IF c.tool = "handoff_get" /\ f.at = 12
       THEN IF ReopenLeaves(p, f, c) THEN f ELSE End(f, "error")
  ELSE IF ~ Due(ReopenScript, f, c) THEN f
  ELSE IF ReopenSays(p, f, c) THEN Onward(ReopenScript, f, p, c)
  ELSE IF c.tool = "repair_list" THEN f ELSE End(f, "error")

ReopenPasses(f) == f.state = "created" /\ f.status = "active"

----------------------------------------------------------------------------
\* A transport signal the handoff's progress does not bear out

DivergenceScript ==
  Opening \o Ask("divergence_record") \o Walk \o Ask("divergence_list")
          \o Ask("repair_candidate_list") \o Ask("handoff_get") \o Ask("workflow_status")

DivergenceAsked(f, c) == Asked(DivergenceScript, f, c)

DivergenceShows(p, f, c) ==
  /\ c.h = f.h
  /\ c.tool = "divergence_list" => p.hs[f.h].hint
  /\ c.tool = "repair_candidate_list" => p.hs[f.h].cand

DivergenceLeaves(p, f, c) ==
  /\ p.hs[f.h].state = "completed"
  /\ c.tool = "handoff_get" => c.h = f.h
  /\ c.tool = "workflow_status" =>
       SameWorkflow(p, f, c) /\ WorkflowStatus(p, c.h) \in {"active", "completed"}

DivergenceSays(p, f, c) ==
  IF c.tool \in {"handoff_dispatch", "handoff_progress"} THEN DivergenceAsked(f, c)
  ELSE IF c.tool \in {"handoff_get", "workflow_status"} THEN DivergenceLeaves(p, f, c)
  ELSE DivergenceShows(p, f, c)

DivergenceTakes(f, p, c) ==
  IF f.verdict # "open" THEN f
  ELSE IF c.tool = "handoff_create" THEN Begin(p)
  ELSE IF c.tool = "handoff_progress" /\ f.at >= 8 THEN End(f, "error")
  ELSE IF c.tool = "handoff_get" /\ f.at = 11
       THEN IF DivergenceLeaves(p, f, c) THEN f ELSE End(f, "error")
  ELSE IF ~ Due(DivergenceScript, f, c) THEN f
  ELSE IF DivergenceSays(p, f, c) THEN Onward(DivergenceScript, f, p, c)
  ELSE End(f, "error")

DivergencePasses(f) == f.state = "completed" /\ f.status \in {"active", "completed"}

----------------------------------------------------------------------------
\* A handoff is completed, reopened, and completed again

ContinuityScript ==
  Opening \o Walk \o Ask("divergence_list") \o Ask("repair_candidate_list")
          \o Ask("repair_reopen_handoff") \o Ask("handoff_dispatch") \o Walk
          \o Ask("handoff_get") \o Ask("workflow_status")

ContinuityAsked(f, c) == Asked(ContinuityScript, f, c)

ContinuityShows(p, f, c) ==
  \/ c.h = f.h
  \/ c.tool = "divergence_list" /\ ~ p.hs[c.h].hint
  \/ c.tool = "repair_candidate_list" /\ ~ p.hs[c.h].cand

ContinuityLeaves(p, f, c) ==
  /\ p.hs[f.h].state = "completed"
  /\ c.tool = "handoff_get" => c.h = f.h
  /\ c.tool = "workflow_status" =>
       SameWorkflow(p, f, c) /\ WorkflowStatus(p, c.h) \in {"active", "completed"}

ContinuitySays(p, f, c) ==
  IF c.tool \in {"handoff_dispatch", "handoff_progress"} THEN ContinuityAsked(f, c)
  ELSE ContinuityShows(p, f, c)

\* The last two are asked for as often as they come, and the last answer counts.
ContinuityTakes(f, p, c) ==
  IF f.verdict = "error" THEN f
  ELSE IF c.tool = "handoff_create" THEN IF p.hs[Len(p.hs)].alien THEN f ELSE Begin(p)
  ELSE IF c.tool = "handoff_progress" /\ (f.at \in 7 .. 9 \/ f.at >= 16) THEN End(f, "error")
  ELSE IF c.tool = "handoff_get"
       THEN IF f.at < 16 THEN f
            ELSE IF ContinuityLeaves(p, f, c) THEN [f EXCEPT !.state = "completed"]
            ELSE End(f, "bad")
  ELSE IF c.tool = "workflow_status"
       THEN IF f.state = "" THEN f
            ELSE IF ContinuityLeaves(p, f, c)
            THEN [f EXCEPT !.status = WorkflowStatus(p, c.h), !.verdict = "done"]
            ELSE End(f, "bad")
  ELSE IF ~ Due(ContinuityScript, f, c) THEN f
  ELSE IF ContinuitySays(p, f, c) THEN Onward(ContinuityScript, f, p, c)
  ELSE End(f, "error")

ContinuityPasses(f) == f.state = "completed" /\ f.status \in {"active", "completed"}

----------------------------------------------------------------------------
\* An event is invalidated and another put in its place

RepairScript ==
  Opening \o <<Walk[1], Call("repair_invalidate_event", 1, "received"),
               Call("repair_backfill_event", 1, "received")>>
          \o Ask("repair_list") \o Ask("handoff_get")

RepairAsked(f, c) == Asked(RepairScript, f, c)

RepairShows(p, f, c) ==
  /\ c.tool = "repair_invalidate_event" =>
       c.h = f.h /\ p.repairs[Len(p.repairs)].event = f.key
  /\ c.tool = "repair_list" => c.h = f.h /\ f.job = f.h

RepairLeaves(p, f, c) == c.h = f.h /\ p.hs[f.h].state = "received"

RepairSays(p, f, c) ==
  IF c.tool \in {"handoff_dispatch", "handoff_progress"} THEN RepairAsked(f, c)
  ELSE IF c.tool = "handoff_get" THEN RepairLeaves(p, f, c)
  ELSE RepairShows(p, f, c)

\* The event is the one of the progress; the backfill may be of any handoff, and
\* repair_list tells.
RepairTakes(f, p, c) ==
  IF f.verdict # "open" THEN f
  ELSE IF c.tool = "handoff_create" THEN End(f, "dead")
  ELSE IF ~ Due(RepairScript, f, c) THEN f
  ELSE IF ~ RepairSays(p, f, c) THEN End(f, "dead")
  ELSE [Onward(RepairScript, f, p, c) EXCEPT
          !.key = IF c.tool = "handoff_progress" THEN Len(p.hs[c.h].log) ELSE @,
          !.job = IF c.tool = "repair_backfill_event" THEN c.h ELSE @]

RepairPasses(f) == f.state = "received"

----------------------------------------------------------------------------
\* A handoff is carried from dispatch to completion

ProgressionScript == Opening \o Walk \o Ask("handoff_get") \o Ask("workflow_status")

\* Here the dispatch that counts is the last one before the first progress.
ProgressionAsked(f, c) ==
  f.at <= 5 /\ f.job = f.h /\ c.h = f.h /\ c.arg = Path[f.at]

ProgressionShown(f, p, c) ==
  IF c.tool = "handoff_get"
  THEN [f EXCEPT !.state = IF c.h = f.h THEN p.hs[c.h].state ELSE "another's"]
  ELSE [f EXCEPT !.status = IF SameWorkflow(p, f, c) THEN WorkflowStatus(p, c.h) ELSE "another's"]

ProgressionLeaves(f) == f.state = "completed" /\ f.status \in {"active", "completed"}

ProgressionJudged(f) ==
  IF f.state = "" \/ f.status = "" THEN f
  ELSE End(f, IF ProgressionLeaves(f) THEN "done" ELSE "dead")

ProgressionTakes(f, p, c) ==
  IF f.verdict # "open" THEN f
  ELSE IF c.tool = "handoff_create" THEN End(f, "dead")
  ELSE IF c.tool = "handoff_dispatch" /\ f.at = 1 THEN [f EXCEPT !.job = c.h]
  ELSE IF c.tool = "handoff_progress"
       THEN IF ProgressionAsked(f, c) THEN [f EXCEPT !.at = @ + 1] ELSE End(f, "dead")
  ELSE IF c.tool \in {"handoff_get", "workflow_status"} /\ f.at = 6
       THEN ProgressionJudged(ProgressionShown(f, p, c))
  ELSE f

ProgressionPasses(f) == f.state = "completed" /\ f.status \in {"active", "completed"}

----------------------------------------------------------------------------
\* A watch and the ownership of a handoff are changed

MutationScript ==
  <<Call("handoff_create", 0, "root")>> \o Ask("watch_list")
    \o <<Call("watch_update", 1, "asked"), Call("ownership_update", 1, "asked")>>
    \o Ask("watch_list") \o Ask("ownership_get")

\* (a slip: whatever ownership_get shows is taken)
Slip_MutationSays(p, f, c) ==
  /\ c.h = f.h
  /\ c.arg = MutationScript[f.at + 1].arg
  /\ c.tool = "watch_update" => p.hs[f.h].watch.id = f.key
  /\ c.tool = "watch_list" /\ f.at = 4 => p.hs[f.h].watch = [id |-> f.key, val |-> "asked"]

MutationSays(p, f, c) ==
  /\ c.h = f.h
  /\ c.arg = MutationScript[f.at + 1].arg
  /\ c.tool = "watch_update" => p.hs[f.h].watch.id = f.key
  /\ c.tool = "watch_list" /\ f.at = 4 => p.hs[f.h].watch = [id |-> f.key, val |-> "asked"]
  /\ c.tool = "ownership_get" => p.hs[f.h].owner = "asked"

\* The first list of watches names the watch; after it, what does not fit is
\* passed over.
MutationTakes(f, p, c) ==
  IF f.verdict # "open" THEN f
  ELSE IF c.tool = "handoff_create" THEN End(f, "dead")
  ELSE IF ~ Due(MutationScript, f, c) THEN f
  ELSE IF MutationSays(p, f, c)
       THEN [Onward(MutationScript, f, p, c) EXCEPT
               !.key = IF f.at = 1 THEN p.hs[c.h].watch.id ELSE @]
  ELSE IF f.at = 1 THEN End(f, "dead") ELSE f

MutationPasses(f) == f.key # 0

----------------------------------------------------------------------------
\* A delivery, with the handoff it is for or on its own (h = 0)

DeliveryScript ==
  Opening \o <<Call("a2a_deliver", 0, ""), Call("sender_job_get", 0, ""), Call("sender_job_list", 0, "")>>
          \o Ask("handoff_get") \o Ask("workflow_status")

MainDeliveryScript ==
  <<Call("a2a_deliver", 0, ""), Call("sender_job_get", 0, ""), Call("sender_stats", 0, "")>>

DeliveryAsked(f, c) == Asked(DeliveryScript, f, c)

\* The job as it stands must still be as a2a_deliver told.
DeliveryShows(p, f, c) ==
  /\ c.tool = "sender_job_get" => c.h = f.job /\ p.jobs[c.h] = f.told
  /\ c.tool = "sender_stats" => \A j \in DOMAIN p.jobs : p.jobs[j] # "retrying"
  /\ c.tool = "handoff_get" => c.h = f.h
  /\ c.tool = "workflow_status" => SameWorkflow(p, f, c)

DeliverySays(p, f, c) ==
  IF c.tool = "handoff_dispatch" THEN DeliveryAsked(f, c) ELSE DeliveryShows(p, f, c)

Told(f, p, c) ==
  IF c.tool = "a2a_deliver" THEN [f EXCEPT !.job = Len(p.jobs), !.told = c.arg] ELSE f

DeliveryFlow(f, p, c) ==
  IF c.tool = "handoff_create" THEN End(f, "dead")
  ELSE IF ~ Due(DeliveryScript, f, c) THEN f
  ELSE IF DeliverySays(p, f, c) THEN Told(Onward(DeliveryScript, f, p, c), p, c)
  ELSE End(f, "dead")

MainDeliveryFlow(f, p, c) ==
  IF ~ Due(MainDeliveryScript, f, c) THEN f
  ELSE IF DeliveryShows(p, f, c) THEN Onward(MainDeliveryScript, f, p, c)
  ELSE End(f, "dead")

DeliveryTakes(f, p, c) ==
  IF f.verdict # "open" THEN f
  ELSE IF f.h = 0 THEN MainDeliveryFlow(f, p, c) ELSE DeliveryFlow(f, p, c)

MainDeliveryPasses(f) == f.told = "sent"
DeliveryPasses(f) == f.told = "sent" /\ f.state = "dispatched" /\ f.status = "active"

============================================================================
