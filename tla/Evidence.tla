------------------------------ MODULE Evidence ------------------------------
(***************************************************************************)
(* An agent makes the calls of a script while others use the same tool      *)
(* server, and the answers it gets become a transcript an extractor reads   *)
(* (or, for the smoke scenarios, are looked at as they come). The agent may *)
(* start over, or make any call the script does not ask for, and carries on *)
(* after a refusal; the others' calls are in nobody's transcript.           *)
(*                                                                         *)
(* What an extractor makes of a transcript is kept up to date as it grows:  *)
(* it is the report it would write if the transcript ended here.            *)
(***************************************************************************)
EXTENDS Extractors, ExternalEvidence, SmokeRuns

CONSTANTS Kinds,       \* the scripts an agent may follow
          MaxStrays    \* calls outside the script, and restarts, in a behaviour

VARIABLES kind,        \* the script
          plane,       \* what the tool server stores
          pc,          \* the step the agent is at
          mine, job,   \* the handoffs it has created since it started, its last delivery
          flows,       \* what the extractor has found, a flow for each start it knows
          scan,        \* the same for the external runtime evidence
          failed,      \* the scenario got another answer than it takes
          disturbed,   \* something happened that a straight run does not meet
          strays

vars == <<kind, plane, pc, mine, job, flows, scan, failed, disturbed, strays>>

Extracted == {"reopen", "divergence", "continuity", "repair", "progression", "mutation",
              "delivery", "main_delivery"}
OneFlow   == {"reopen", "divergence", "continuity"}
Smoked    == {"dispatch_smoke", "multi_project", "coordination", "template",
              "dogfood", "rehearsal", "sample", "seed"}

ASSUME KindsAssumption == Kinds \subseteq Extracted \cup Smoked \cup {"external"}

Script ==
  CASE kind = "reopen"         -> ReopenScript
    [] kind = "divergence"     -> DivergenceScript
    [] kind = "continuity"     -> ContinuityScript
    [] kind = "repair"         -> RepairScript
    [] kind = "progression"    -> ProgressionScript
    [] kind = "mutation"       -> MutationScript
    [] kind = "delivery"       -> DeliveryScript
    [] kind = "main_delivery"  -> MainDeliveryScript
    [] kind = "external"       -> ExternalScript
    [] kind = "dispatch_smoke" -> checkOpenClawDispatch
    [] kind = "multi_project"  -> checkMultiProjectHandoff
    [] kind = "coordination"   -> checkMultiAgentCoordination
    [] kind = "template"       -> checkCollaborationTemplate
    [] kind = "dogfood"        -> checkPrivateMultiProjectDogfood
    [] kind = "rehearsal"      -> checkExternalRuntimeRehearsal
    [] kind = "sample"         -> runSample
    [] kind = "seed"           -> seedDogfood

Takes(f, p, c) ==
  CASE kind = "reopen"      -> ReopenTakes(f, p, c)
    [] kind = "divergence"  -> DivergenceTakes(f, p, c)
    [] kind = "continuity"  -> ContinuityTakes(f, p, c)
    [] kind = "repair"      -> RepairTakes(f, p, c)
    [] kind = "progression" -> ProgressionTakes(f, p, c)
    [] kind = "mutation"    -> MutationTakes(f, p, c)
    [] OTHER                -> DeliveryTakes(f, p, c)

Passes(f) ==
  CASE kind = "reopen"      -> ReopenPasses(f)
    [] kind = "divergence"  -> DivergencePasses(f)
    [] kind = "continuity"  -> ContinuityPasses(f)
    [] kind = "repair"      -> RepairPasses(f)
    [] kind = "progression" -> ProgressionPasses(f)
    [] kind = "mutation"    -> MutationPasses(f)
    [] OTHER                -> IF f.h = 0 THEN MainDeliveryPasses(f) ELSE DeliveryPasses(f)

\* A flow starts with every handoff_create, and for deliveries with every
\* a2a_deliver too.
Starts(p, c) ==
  IF c.tool = "handoff_create" /\ kind \notin OneFlow \cup {"external"} THEN <<Begin(p)>>
  ELSE IF c.tool = "a2a_deliver" /\ kind \in {"delivery", "main_delivery"}
  THEN <<Told([NoFlow EXCEPT !.at = 1], p, c)>> ELSE << >>

Elems(s)     == {s[i] : i \in DOMAIN s}
Alive(f)     == f.verdict # "dead"
Finished     == pc > Len(Script)
TheirsOnly(c) == c.h \notin Elems(mine)

\* A result in the transcript.
Hears(p, c) ==
  /\ flows' = IF kind \in Extracted
              THEN SelectSeq([i \in DOMAIN flows |-> Takes(flows[i], p, c)], Alive) \o Starts(p, c)
              ELSE flows
  /\ scan' = IF kind = "external" THEN observe(scan, p, c, FALSE) ELSE scan

Init ==
  /\ kind \in Kinds
  /\ plane = Empty /\ pc = 1 /\ mine = << >> /\ job = 0
  /\ flows = IF kind \in OneFlow THEN <<NoFlow>> ELSE << >>
  /\ scan = newExtractionState
  /\ failed = FALSE /\ disturbed = FALSE /\ strays = 0

----------------------------------------------------------------------------
\* The agent

Target(s) ==
  IF s.tool = "sender_job_get" THEN job ELSE IF s.h = 0 THEN 0 ELSE mine[s.h]

Possible(s) == IF s.tool = "sender_job_get" THEN job # 0 ELSE s.h <= Len(mine)

\* The calls a step may come to: a delivery is told as it turns out.
CallsOf(s) ==
  IF s.tool = "a2a_deliver" THEN {Call(s.tool, 0, told) : told \in {"sent", "failed", "retrying"}}
  ELSE {Call(s.tool, Target(s), s.arg)}

Created(p, q) == [i \in 1 .. Len(q.hs) - Len(p.hs) |-> Len(p.hs) + i]

StepAnswered ==
  /\ ~ Finished /\ ~ failed /\ Possible(Script[pc])
  /\ \E c \in CallsOf(Script[pc]) :
       LET q == After(plane, c) IN
         /\ ~ Refused(plane, c)
         /\ plane' = q
         /\ mine' = mine \o Created(plane, q)
         /\ job' = Len(q.jobs)
         /\ Hears(q, c)
         /\ failed' = (kind \in Smoked /\ ~ Answers(Script[pc], plane, q, c.h))
         /\ disturbed' = (disturbed \/ (c.tool = "a2a_deliver" /\ c.arg # "sent"))
         /\ pc' = pc + 1
  /\ UNCHANGED <<kind, strays>>

\* A refused call leaves nothing in the transcript but, for the external
\* evidence, the name of a forbidden tool.
StepRefused ==
  /\ ~ Finished /\ ~ failed
  /\ \/ ~ Possible(Script[pc])
     \/ Possible(Script[pc]) /\ \E c \in CallsOf(Script[pc]) : Refused(plane, c)
  /\ pc' = pc + 1
  /\ failed' = (kind \in Smoked /\ Script[pc].says # "refused")
  /\ UNCHANGED <<kind, plane, mine, job, flows, scan, disturbed, strays>>

\* The agent loses its thread and follows the script from the start, in the same
\* transcript.
StartOver ==
  /\ kind \notin Smoked /\ strays < MaxStrays /\ pc > 1
  /\ pc' = 1 /\ mine' = << >> /\ job' = 0
  /\ strays' = strays + 1 /\ disturbed' = TRUE
  /\ UNCHANGED <<kind, plane, flows, scan, failed>>

----------------------------------------------------------------------------
\* Calls outside the script

Handoffs == DOMAIN plane.hs

StrayCalls(tool) ==
  CASE tool = "handoff_create" ->
         {Call(tool, 0, w) : w \in {"root", "alien", "open"}}
           \cup (IF kind = "external"
                 THEN [tool : {tool}, h : Handoffs, arg : {"after", "beside", "stranger"}] ELSE {})
    [] tool = "handoff_progress" -> [tool : {tool}, h : Handoffs, arg : Events \ {"dispatched"}]
    [] tool \in {"repair_invalidate_event", "repair_backfill_event"} ->
         [tool : {tool}, h : Handoffs, arg : {"received"}]
    [] tool \in {"watch_update", "ownership_update"} ->
         [tool : {tool}, h : Handoffs, arg : {"asked", "other"}]
    [] tool = "a2a_deliver"    -> [tool : {tool}, h : {0}, arg : {"sent", "retrying"}]
    [] tool = "sender_job_get" -> [tool : {tool}, h : DOMAIN plane.jobs, arg : {""}]
    [] tool \in {"watch_run", "sender_job_list", "sender_stats"} -> {Call(tool, 0, "")}
    [] tool \in {"agent_register", "template_apply"} -> {}
    [] OTHER -> [tool : {tool}, h : Handoffs, arg : {""}]

Asking == {Script[i].tool : i \in DOMAIN Script}

Changing == {"handoff_create", "handoff_dispatch", "handoff_progress", "divergence_record",
             "repair_reopen_handoff", "repair_invalidate_event", "watch_update",
             "ownership_update", "watch_run", "a2a_deliver"}

Stray(c) ==
  /\ strays < MaxStrays /\ strays' = strays + 1
  /\ ~ Refused(plane, c)
  /\ plane' = After(plane, c)
  /\ UNCHANGED <<kind, pc, mine, job, failed>>

\* The agent's own, in its transcript.
AgentStrays ==
  /\ kind \notin Smoked
  /\ \E tool \in Asking : \E c \in StrayCalls(tool) :
       /\ Stray(c)
       /\ Hears(plane', c)
  /\ disturbed' = TRUE

\* Somebody else's: on any handoff, but for the smoke scenarios, which hold while
\* the others keep to handoffs of their own. A job of theirs that is not settled
\* shows in sender_stats.
OthersWork ==
  /\ \E tool \in Changing : \E c \in StrayCalls(tool) :
       /\ kind \in Smoked => TheirsOnly(c)
       /\ Stray(c)
       /\ plane' # plane
       /\ disturbed' = (disturbed \/ ~ TheirsOnly(c) \/ c.arg = "retrying")
  /\ UNCHANGED <<flows, scan>>

\* The sender's worker comes to a verdict on a job.
WorkerSettles ==
  /\ \E j \in DOMAIN plane.jobs, verdict \in {"sent", "failed"} :
       plane.jobs[j] = "retrying" /\ plane' = [plane EXCEPT !.jobs[j] = verdict]
  /\ UNCHANGED <<kind, pc, mine, job, flows, scan, failed, disturbed, strays>>

Next == StepAnswered \/ StepRefused \/ StartOver \/ AgentStrays \/ OthersWork \/ WorkerSettles

Spec == Init /\ [][Next]_vars

----------------------------------------------------------------------------
\* What a report claims of its handoff, looked up in what is stored.

\* The log has these events in this order, others in between.
Through(x, events) ==
  LET found[i \in 0 .. Len(x.log)] ==
        IF i = 0 THEN 0
        ELSE IF found[i - 1] < Len(events) /\ x.log[i].type = events[found[i - 1] + 1]
        THEN found[i - 1] + 1 ELSE found[i - 1]
  IN found[Len(x.log)] = Len(events)

RepairedBy(p, action, h) == \E r \in Elems(p.repairs) : r.action = action /\ r.h = h

IsTrue(f, p) ==
  LET x == p.hs[f.h] IN
  CASE kind = "reopen" ->
         /\ Through(x, Path) /\ RepairedBy(p, "reopen_handoff", f.h)
         /\ x.state = "created" /\ WorkflowStatus(p, f.h) = "active"
    [] kind = "divergence" -> Through(x, Path) /\ x.hint /\ x.cand /\ x.state = "completed"
    [] kind = "continuity" ->
         /\ Through(x, Path \o Path) /\ RepairedBy(p, "reopen_handoff", f.h)
         /\ x.state = "completed"
    [] kind = "repair" ->
         /\ x.log[f.key].type = "received" /\ ~ x.log[f.key].live
         /\ RepairedBy(p, "backfill_event", f.h) /\ x.state = "received"
    [] kind = "progression" -> Through(x, Path)
    [] kind = "mutation" -> x.owner = "asked"
    [] OTHER ->
         /\ f.told \in {"sent", "failed"} => p.jobs[f.job] = f.told
         /\ f.h # 0 => Through(x, <<"dispatched">>)

EvidenceIsTrue(x, p) ==
  /\ \A n \in Workflow(p, x.up) : p.hs[n].state = "completed"
  /\ Through(p.hs[x.up], <<"approved", "completed">>)

(* A report is of one handoff, and what it says of it has happened to it:   *)
(* however the calls of two attempts, of a restart or of another client are *)
(* mixed in the transcript, an extractor never puts together a passing run  *)
(* from the pieces of two (summarizeReopenResults and its siblings reset on *)
(* handoff_create or follow each one; lifecycleOrderVerified).              *)
ReportIsTrue ==
  [][ /\ \A f \in Elems(flows') \ Elems(flows) : f.verdict = "done" => IsTrue(f, plane')
      /\ output(scan') /\ ~ output(scan) => EvidenceIsTrue(scan', plane')]_vars

Report == CHOOSE i \in DOMAIN flows : flows[i].verdict = "done" /\ 
            \A j \in DOMAIN flows : flows[j].verdict = "done" => j <= i

(* An agent that follows its script to the end gets a report, and one the   *)
(* smoke validators pass; a smoke scenario gets the answers it takes. What  *)
(* other clients do to handoffs of their own meanwhile changes neither.     *)
StraightRunPasses ==
  ~ disturbed =>
    /\ ~ failed
    /\ Finished /\ kind \in Extracted =>
         (\E i \in DOMAIN flows : flows[i].verdict = "done") /\ Passes(flows[Report])
    /\ Finished /\ kind = "external" => output(scan) /\ validateOpenClawExternalRuntimeEvidence(scan)
============================================================================
