-------------------------- MODULE ExternalEvidence --------------------------
(***************************************************************************)
(* cmd/openclaw-external-runtime-evidence-extract: from the transcript of   *)
(* agents that work on their own, evidence that an upstream handoff went    *)
(* through its review before the downstream one was worked on. x is what    *)
(* the scan has found; x.at gives the line a milestone is first seen on, 0  *)
(* while it is not, counting only lines with a milestone.                   *)
(***************************************************************************)
EXTENDS ToolPlane

Milestones ==
  <<"upstreamCreated", "downstreamCreated", "dependencyGate", "reviewApproved",
    "upstreamCompleted", "downstreamReady", "downstreamCompleted",
    "workflowCompleted", "evidenceSummary">>

Marks == {Milestones[i] : i \in DOMAIN Milestones}

newExtractionState ==
  [wf |-> 0, up |-> 0, down |-> 0, status |-> "", registered |-> FALSE,
   forbidden |-> FALSE, mismatch |-> FALSE, line |-> 0, at |-> [m \in Marks |-> 0]]

ForbiddenTools == {"handoff_dispatch", "a2a_deliver", "sender_job_get", "sender_job_list", "sender_stats"}

Seen(x, m) == x.at[m] # 0

Mark(x, ms) ==
  LET new == {m \in ms : ~ Seen(x, m)} IN
    IF new = {} THEN x
    ELSE [x EXCEPT !.line = @ + 1,
                   !.at = [m \in Marks |-> IF m \in new THEN x.line + 1 ELSE @[m]]]

\* The upstream is the last one created that needs a review, the downstream the
\* last that waits for it.
observeHandoffCreate(x, p) ==
  LET n     == Len(p.hs)
      waits == x.up \in p.hs[n].deps
      y     == [x EXCEPT !.wf = p.hs[n].wf]
  IN IF x.wf \notin {0, p.hs[n].wf} THEN [x EXCEPT !.mismatch = @ \/ waits]
     ELSE IF p.hs[n].review THEN Mark([y EXCEPT !.up = n], {"upstreamCreated"})
     ELSE IF waits THEN Mark([y EXCEPT !.down = n], {"downstreamCreated"})
     ELSE y

observeBlockedWork(x, p, c) ==
  IF /\ x.up # 0 /\ x.down # 0
     /\ x.down \in BlockedWork(p, c.h)
     /\ x.up \in p.hs[x.down].deps /\ p.hs[x.up].state # "completed"
  THEN Mark(x, {"dependencyGate"}) ELSE x

observeHandoffProgress(x, p, c) ==
  Mark(x, (IF c.h = x.up /\ p.hs[c.h].state = "approved" THEN {"reviewApproved"} ELSE {})
     \cup (IF c.h = x.up /\ p.hs[c.h].state = "completed" THEN {"upstreamCompleted"} ELSE {})
     \cup (IF c.h = x.down /\ p.hs[c.h].state = "completed" THEN {"downstreamCompleted"} ELSE {}))

observeNextWork(x, p, c) ==
  IF x.down # 0 /\ Seen(x, "upstreamCompleted") /\ x.down \in NextWork(p, c.h)
  THEN Mark(x, {"downstreamReady"}) ELSE x

observeWorkflowStatus(x, p, c) ==
  LET completed(h) == h # 0 /\ p.hs[h].state = "completed"
      up   == Seen(x, "upstreamCompleted") \/ completed(x.up)
      down == Seen(x, "downstreamCompleted") \/ completed(x.down)
      y    == [x EXCEPT !.status = WorkflowStatus(p, c.h)]
  IN IF p.hs[c.h].wf # x.wf THEN x
     ELSE Mark(y, (IF up THEN {"upstreamCompleted"} ELSE {})
             \cup (IF down THEN {"downstreamCompleted"} ELSE {})
             \cup (IF up /\ down /\ y.status = "completed" THEN {"workflowCompleted"} ELSE {}))

observeEvidenceSummary(x, p, c) ==
  IF p.hs[c.h].wf = x.wf /\ WorkflowStatus(p, c.h) = "completed"
  THEN Mark(x, {"evidenceSummary"}) ELSE x

\* One line. A forbidden tool counts also when its call is refused; any other
\* call that is refused is not in the scan.
observe(x, p, c, refused) ==
  IF c.tool \in ForbiddenTools THEN [x EXCEPT !.forbidden = TRUE]
  ELSE IF refused THEN x
  ELSE CASE c.tool = "agent_register"   -> [x EXCEPT !.registered = TRUE]
         [] c.tool = "handoff_create"   -> observeHandoffCreate(x, p)
         [] c.tool = "blocked_work"     -> observeBlockedWork(x, p, c)
         [] c.tool = "handoff_progress" -> observeHandoffProgress(x, p, c)
         [] c.tool = "next_work"        -> observeNextWork(x, p, c)
         [] c.tool = "workflow_status"  -> observeWorkflowStatus(x, p, c)
         [] c.tool = "coordination_evidence_summary" -> observeEvidenceSummary(x, p, c)
         [] OTHER                       -> x

\* Milestones on one line are in order.
lifecycleOrderVerified(x) ==
  /\ \A m \in Marks : Seen(x, m)
  /\ \A i \in 2 .. Len(Milestones) : x.at[Milestones[i - 1]] <= x.at[Milestones[i]]

\* Evidence is written.
output(x) ==
  /\ x.registered /\ ~ x.forbidden /\ ~ x.mismatch
  /\ x.up # 0 /\ x.down # 0 /\ x.status = "completed"
  /\ lifecycleOrderVerified(x)

\* The smoke accepts the evidence.
validateOpenClawExternalRuntimeEvidence(x) ==
  /\ x.registered /\ ~ x.forbidden
  /\ x.wf # 0 /\ x.up # 0 /\ x.down # 0
  /\ \A m \in {"dependencyGate", "reviewApproved", "downstreamReady", "evidenceSummary"} : Seen(x, m)
  /\ x.status = "completed" /\ lifecycleOrderVerified(x)
============================================================================
