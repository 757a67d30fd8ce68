----------------------------- MODULE SmokeRuns ------------------------------
(***************************************************************************)
(* The end-to-end scenarios of cmd/openclaw-mcp-smoke, and of the two       *)
(* programs that show the truth plane at work, clawside-external-runtime-   *)
(* sample and clawside-dogfood-seed. A scenario is the calls it makes and   *)
(* what it takes for an answer; it stops at the first other answer.         *)
(*                                                                         *)
(* Step.h is the place among the handoffs the scenario has created of the   *)
(* one a call is about.                                                     *)
(***************************************************************************)
EXTENDS ToolPlane

Step(tool, h, arg, says) == [tool |-> tool, h |-> h, arg |-> arg, says |-> says]
Do(tool, h)         == <<Step(tool, h, "", "")>>
Sees(tool, h, says) == <<Step(tool, h, "", says)>>
Create(h, wish)     == <<Step("handoff_create", h, wish, "")>>
Progress(h, events) == [i \in DOMAIN events |-> Step("handoff_progress", h, events[i], "")]

Straight == <<"received", "claimed", "started", "checkpointed", "completed">>
Reviewed == <<"received", "claimed", "started", "checkpointed", "submitted", "revised",
              "checkpointed", "submitted", "approved", "completed">>

dispatchAndCompleteSmokeHandoff(h)          == Do("handoff_dispatch", h) \o Progress(h, Straight)
dispatchReviewAndCompleteSmokeHandoff(h) == Do("handoff_dispatch", h) \o Progress(h, Reviewed)

registerSmokeAgent == Do("agent_register", 0)

checkOpenClawDispatch ==
  Create(0, "turn") \o Do("handoff_dispatch", 1) \o Sees("handoff_get", 1, "dispatched")
    \o Progress(1, Straight)

checkMultiProjectHandoff ==
  Create(0, "root") \o Create(1, "after") \o Create(2, "after")
    \o Sees("workflow_status", 1, "blocked") \o Sees("handoff_dispatch", 3, "refused")
    \o dispatchAndCompleteSmokeHandoff(1) \o dispatchAndCompleteSmokeHandoff(2)
    \o dispatchAndCompleteSmokeHandoff(3) \o Sees("workflow_status", 1, "completed")

checkMultiAgentCoordination ==
  registerSmokeAgent \o Create(0, "root") \o Create(1, "after")
    \o Sees("next_work", 1, "offered") \o Sees("blocked_work", 2, "dependency")
    \o dispatchAndCompleteSmokeHandoff(1) \o Sees("next_work", 2, "offered")
    \o Create(0, "root") \o <<Step("watch_update", 3, "due", "")>> \o Do("watch_run", 0)
    \o Sees("blocked_work", 3, "reminder")

checkCollaborationTemplate ==
  registerSmokeAgent \o Sees("template_apply", 0, "new") \o Sees("template_apply", 0, "replayed")
    \o Sees("next_work", 1, "offered") \o Sees("blocked_work", 2, "dependency")
    \o dispatchAndCompleteSmokeHandoff(1) \o Sees("next_work", 2, "offered")
    \o dispatchAndCompleteSmokeHandoff(2) \o Sees("next_work", 3, "offered")

checkPrivateMultiProjectDogfood ==
  registerSmokeAgent \o Create(0, "reviewed") \o Create(1, "after")
    \o Sees("next_work", 1, "offered") \o Sees("blocked_work", 2, "dependency")
    \o dispatchReviewAndCompleteSmokeHandoff(1) \o Sees("next_work", 2, "offered")
    \o dispatchAndCompleteSmokeHandoff(2) \o Sees("workflow_status", 1, "completed")
    \o Do("coordination_evidence_summary", 1)

checkExternalRuntimeRehearsal ==
  registerSmokeAgent \o Create(0, "reviewed") \o Create(1, "after")
    \o Sees("next_work", 1, "offered") \o Sees("blocked_work", 2, "dependency")
    \o dispatchReviewAndCompleteSmokeHandoff(1) \o Sees("next_work", 2, "offered")
    \o dispatchAndCompleteSmokeHandoff(2) \o Sees("handoff_get", 1, "completed")
    \o Sees("workflow_status", 1, "completed") \o Do("coordination_evidence_summary", 1)

----------------------------------------------------------------------------
\* The sample: no dispatch, so the handoffs name no delivery target.

registerSampleAgents  == Do("agent_register", 0)
createSampleHandoffs  == Create(0, "open") \o Create(1, "follow")
completeReviewedUpstream(h) == Progress(h, Reviewed)
completeDownstream(h) == Progress(h, Straight)

createAgentTurnHandoffs == Create(0, "turn") \o Create(3, "follow")

runAgentTurnGate ==
  createAgentTurnHandoffs \o Sees("blocked_work", 4, "dependency") \o Do("agent_turn", 3)
    \o Sees("next_work", 4, "offered")

gateOfSample ==
  registerSampleAgents \o createSampleHandoffs
    \o Sees("next_work", 1, "offered") \o Sees("blocked_work", 2, "dependency")
    \o completeReviewedUpstream(1) \o Sees("next_work", 2, "offered") \o completeDownstream(2)

runSample ==
  gateOfSample \o runAgentTurnGate \o Do("workflow_status", 1)
    \o Do("coordination_evidence_summary", 1)

\* Agents that do as the sample does, without the agent_turn: what the external
\* runtime evidence asks for.
ExternalScript ==
  gateOfSample \o Do("workflow_status", 1) \o Do("coordination_evidence_summary", 1)

seedDogfood ==
  Create(0, "open") \o Do("handoff_dispatch", 1)
    \o Progress(1, <<"received", "claimed", "started", "checkpointed", "submitted">>)

----------------------------------------------------------------------------
\* The answer a step takes; p before and q after a call about handoff h.
Answers(s, p, q, h) ==
  CASE s.tool = "handoff_get"     -> q.hs[h].state = s.says
    [] s.tool = "workflow_status" -> s.says \in {"", WorkflowStatus(q, h)}
    [] s.tool = "next_work"       -> h \in NextWork(q, h)
    [] s.tool = "blocked_work"    ->
         /\ h \in BlockedWork(q, h)
         /\ IF s.says = "dependency" THEN ~ Depends(q, h) ELSE Reminded(q.hs[h])
    [] s.tool = "template_apply"  ->
         Len(q.hs) = Len(p.hs) + (IF s.says = "new" THEN 3 ELSE 0)
    [] OTHER                      -> TRUE
============================================================================
