----------------------------- MODULE Workflows ------------------------------
(***************************************************************************)
(* Workflows of the truth plane: how handoffs come into being and depend on *)
(* each other (CreateHandoff, CreateHandoffIdempotent, AppendHandoff,       *)
(* ApplyCollaborationTemplate in service.go and collaboration_template.go), *)
(* and what a workflow's handoffs make of it (ProjectWorkflow).             *)
(*                                                                         *)
(* Handoffs are numbered as they are created, and a workflow is known by    *)
(* its root handoff. What a handoff goes through is cut down to "created",  *)
(* "underway" and its end; HandoffStateMachine has the rest. Callers are    *)
(* requests served by any process; a transaction is one action.             *)
(***************************************************************************)
EXTENDS Naturals, Sequences, FiniteSets

CONSTANTS
  Callers,
  Keys,         \* idempotency keys
  NoKey,        \* the empty key: applying a template without one
  Payloads,     \* what tasks are asked for under a key
  NoOne,        \* no caller, no record
  Demands,      \* whether handoffs are required for completion: a subset of BOOLEAN
  MaxHandoffs,  \* bound: handoffs
  MaxReopens    \* bound: repairs

ASSUME WorkflowAssumption ==
  /\ NoKey \notin Keys
  /\ Demands \subseteq BOOLEAN
  /\ MaxHandoffs \in Nat /\ MaxReopens \in Nat

VARIABLES
  handoffs,   \* the handoffs table, in the order of creation
  records,    \* a2a_inbound_task_creations and collaboration_template_applications
  call,       \* [Callers -> ...]: what a request under way has read
  granted,    \* the answers to requests that had a key (history)
  reopens     \* repairs so far

vars == <<handoffs, records, call, granted, reopens>>

----------------------------------------------------------------------------
\* Handoffs and what becomes of them

Ids       == DOMAIN handoffs
Ended     == {"completed", "failed"}      \* an expired handoff counts as failed
Of(w)     == {n \in Ids : handoffs[n].wf = w}
Roots     == {n \in Ids : handoffs[n].wf = n}
Needed(w) == {n \in Of(w) : handoffs[n].required}

\* A dependency in another workflow is never completed.
Waits(n) == \E d \in handoffs[n].deps :
              d \notin Of(handoffs[n].wf) \/ handoffs[d].state # "completed"

\* ProjectWorkflow: the status column itself stays "active".
Status(w) ==
  IF Needed(w) = {} THEN "active"
  ELSE IF \E n \in Needed(w) : handoffs[n].state = "failed" THEN "failed"
  ELSE IF \E n \in Needed(w) : Waits(n) THEN "blocked"
  ELSE IF \A n \in Needed(w) : handoffs[n].state = "completed" THEN "completed"
  ELSE "active"

Over(w) == Status(w) \in Ended

NewHandoff(w, deps, required) ==
  [wf |-> w, deps |-> deps, required |-> required, state |-> "created"]

----------------------------------------------------------------------------
\* Templates: who waits for whom. The handoffs are made in the order of Roles.

Roles == [upstream_downstream_review |-> <<"upstream", "downstream", "reviewer">>,
          review_gate                |-> <<"upstream", "reviewer", "downstream">>,
          fanout_review              |-> <<"upstream", "downstream", "reviewer">>]

Templates == DOMAIN Roles

\* Slip: the gate is left open on both sides.
Slip_DependsOnRole ==
  [upstream_downstream_review |-> [upstream |-> {}, downstream |-> {"upstream"},
                                   reviewer |-> {"downstream"}],
   review_gate                |-> [upstream |-> {}, downstream |-> {"reviewer"},
                                   reviewer |-> {"upstream", "downstream"}],
   fanout_review              |-> [upstream |-> {}, downstream |-> {"upstream"},
                                   reviewer |-> {"upstream"}]]

DependsOnRole ==
  [upstream_downstream_review |-> [upstream |-> {}, downstream |-> {"upstream"},
                                   reviewer |-> {"downstream"}],
   review_gate                |-> [upstream |-> {}, downstream |-> {"reviewer"},
                                   reviewer |-> {"upstream"}],
   fanout_review              |-> [upstream |-> {}, downstream |-> {"upstream"},
                                   reviewer |-> {"upstream"}]]

\* A role's place in the order of creation
Place(t, r) == CHOOSE i \in 1 .. 3 : Roles[t][i] = r

\* The template's handoffs, the first of which gets number root.
Built(t, root) ==
  [i \in 1 .. 3 |->
     NewHandoff(root, {root - 1 + Place(t, r) : r \in DependsOnRole[t][Roles[t][i]]}, TRUE)]

\* A creation on record is told from none.
ASSUME RecordAssumption == NoOne \notin [payload : Payloads \cup Templates, wf : Nat]

----------------------------------------------------------------------------
\* Creation

NewId == Len(handoffs) + 1

\* The bound on handoffs, those about to be appended included.
Room(k) ==
  Len(handoffs) + Cardinality({c \in Callers : call[c].at = "appending"}) + k <= MaxHandoffs

\* New handoffs, the first of them a root.
Insert(new) ==
  /\ Room(Len(new))
  /\ handoffs' = handoffs \o new

\* A caller that gets no answer and asks again gets another workflow.
CreateHandoff ==
  /\ \E required \in Demands : Insert(<<NewHandoff(NewId, {}, required)>>)
  /\ UNCHANGED <<records, call, granted, reopens>>

Answer(table, key, payload, w) ==
  granted' = granted \cup {[table |-> table, key |-> key, payload |-> payload, wf |-> w]}

\* Slip: what is asked for under a known key is not compared.
Slip_OncePerKey(table, key, payload, new) ==
  \/ /\ records[table][key] = NoOne
     /\ Insert(new)
     /\ records' = [records EXCEPT ![table][key] = [payload |-> payload, wf |-> NewId]]
     /\ Answer(table, key, payload, NewId)
  \/ /\ records[table][key] # NoOne
     /\ Answer(table, key, payload, records[table][key].wf)
     /\ UNCHANGED <<handoffs, records>>

\* Look the key up and insert in one transaction; a known key is answered with
\* what was made then, if it was the same request, and else is a conflict.
OncePerKey(table, key, payload, new) ==
  \/ /\ records[table][key] = NoOne
     /\ Insert(new)
     /\ records' = [records EXCEPT ![table][key] = [payload |-> payload, wf |-> NewId]]
     /\ Answer(table, key, payload, NewId)
  \/ /\ records[table][key] # NoOne
     /\ records[table][key].payload = payload
     /\ Answer(table, key, payload, records[table][key].wf)
     /\ UNCHANGED <<handoffs, records>>

\* CreateHandoffIdempotent, for a controlled task of the A2A server: one handoff.
CreateHandoffIdempotent(key, payload) ==
  /\ OncePerKey("task", key, payload, <<NewHandoff(NewId, {}, TRUE)>>)
  /\ UNCHANGED <<call, reopens>>

\* The payload is the whole input; the template stands for it.
ApplyCollaborationTemplate(t, key) ==
  /\ IF key = NoKey
     THEN Insert(Built(t, NewId)) /\ UNCHANGED <<records, granted>>
     ELSE OncePerKey("template", key, t, Built(t, NewId))
  /\ UNCHANGED <<call, reopens>>

----------------------------------------------------------------------------
\* Appending: the workflow is read and projected before the transaction

Idle == [at |-> "idle", wf |-> 0, seen |-> "none", deps |-> {},
         required |-> FALSE, h |-> 0, to |-> "created"]

Return(c) == call' = [call EXCEPT ![c] = Idle]

\* Slip: only a failed workflow is closed.
Slip_BeginAppend(c) ==
  /\ call[c].at = "idle"
  /\ Room(1)
  /\ \E w \in Roots, deps \in SUBSET Ids, required \in Demands :
       /\ Status(w) # "failed"
       /\ call' = [call EXCEPT ![c] = [Idle EXCEPT !.at = "appending", !.wf = w,
                      !.seen = Status(w), !.deps = deps, !.required = required]]
  /\ UNCHANGED <<handoffs, records, granted, reopens>>

BeginAppend(c) ==
  /\ call[c].at = "idle"
  /\ Room(1)
  /\ \E w \in Roots, deps \in SUBSET Ids, required \in Demands :
       /\ ~ Over(w)
       /\ call' = [call EXCEPT ![c] = [Idle EXCEPT !.at = "appending", !.wf = w,
                      !.seen = Status(w), !.deps = deps, !.required = required]]
  /\ UNCHANGED <<handoffs, records, granted, reopens>>

\* Slip: dependencies are looked up by their id alone.
Slip_FinishAppend(c) ==
  LET a == call[c] IN
  /\ a.at = "appending"
  /\ handoffs' = Append(handoffs, NewHandoff(a.wf, a.deps, a.required))
  /\ Return(c)
  /\ UNCHANGED <<records, granted, reopens>>

\* The transaction: every dependency, and the parent, must be of this workflow.
FinishAppend(c) ==
  LET a == call[c] IN
  /\ a.at = "appending"
  /\ \/ /\ a.deps \subseteq Of(a.wf)
        /\ handoffs' = Append(handoffs, NewHandoff(a.wf, a.deps, a.required))
     \/ ~ a.deps \subseteq Of(a.wf) /\ UNCHANGED handoffs
  /\ Return(c)
  /\ UNCHANGED <<records, granted, reopens>>

----------------------------------------------------------------------------
\* Work: the dependencies are checked before the event is recorded

Follows == [created |-> {"underway"}, underway |-> {"underway", "completed"},
            completed |-> {}, failed |-> {}]
MayBecome(n, to) == IF to = "failed" THEN handoffs[n].state \notin Ended
                    ELSE to \in Follows[handoffs[n].state]

\* Slip: the dependencies of work that has begun are not looked at.
Slip_CheckDependencies(c) ==
  /\ call[c].at = "idle"
  /\ \E n \in Ids, to \in {"underway", "completed", "failed"} :
       /\ to = "underway" => ~ Waits(n) \/ handoffs[n].wf # n
       /\ call' = [call EXCEPT ![c] = [Idle EXCEPT !.at = "recording", !.h = n, !.to = to]]
  /\ UNCHANGED <<handoffs, records, granted, reopens>>

\* A failure, a cancellation among them, needs no dependencies.
CheckDependencies(c) ==
  /\ call[c].at = "idle"
  /\ \E n \in Ids, to \in {"underway", "completed", "failed"} :
       /\ to # "failed" => ~ Waits(n)
       /\ call' = [call EXCEPT ![c] = [Idle EXCEPT !.at = "recording", !.h = n, !.to = to]]
  /\ UNCHANGED <<handoffs, records, granted, reopens>>

RecordEvent(c) ==
  LET n == call[c].h IN
  /\ call[c].at = "recording"
  /\ \/ /\ MayBecome(n, call[c].to)
        /\ handoffs' = [handoffs EXCEPT ![n].state = call[c].to]
     \/ ~ MayBecome(n, call[c].to) /\ UNCHANGED handoffs
  /\ Return(c)
  /\ UNCHANGED <<records, granted, reopens>>

\* Whatever depends on n stays as it is.
ReopenHandoff(n) ==
  /\ reopens < MaxReopens
  /\ handoffs[n].state \in Ended
  /\ handoffs' = [handoffs EXCEPT ![n].state = "created"]
  /\ reopens'  = reopens + 1
  /\ UNCHANGED <<records, call, granted>>

----------------------------------------------------------------------------

Tables == {"task", "template"}

Init ==
  /\ handoffs = <<>>
  /\ records  = [t \in Tables |-> [k \in Keys |-> NoOne]]
  /\ call     = [c \in Callers |-> Idle]
  /\ granted  = {}
  /\ reopens  = 0

Next ==
  \/ CreateHandoff
  \/ \E k \in Keys, p \in Payloads : CreateHandoffIdempotent(k, p)
  \/ \E t \in Templates, k \in Keys \cup {NoKey} : ApplyCollaborationTemplate(t, k)
  \/ \E c \in Callers : BeginAppend(c) \/ FinishAppend(c)
                        \/ CheckDependencies(c) \/ RecordEvent(c)
  \/ \E n \in Ids : ReopenHandoff(n)

Spec == Init /\ [][Next]_vars

----------------------------------------------------------------------------
\* Properties

\* A key is good for one workflow: however often and from wherever a task or a
\* template is asked for under it, every answer names the same workflow and is
\* given for the same request (idempotency key and payload hash).
OneCreationPerKey ==
  \A a, b \in granted : a.table = b.table /\ a.key = b.key => a = b

\* Appending and templates keep the dependencies inside the workflow and
\* pointing at older handoffs: they have no cycles.
DependenciesInside ==
  \A n \in Ids : \A d \in handoffs[n].deps : d < n /\ d \in Of(handoffs[n].wf)

\* Work begins after what it depends on is done, although the check and the
\* recording are two steps; only a repair may take a dependency back.
WorkFollowsDependencies ==
  reopens = 0 => \A n \in Ids : handoffs[n].state \in {"underway", "completed"} => ~ Waits(n)

\* A workflow that has not ended is never stuck: some handoff in it has not ended
\* and waits for nothing. Not so when something waits for a
\* handoff that nobody requires and that has failed: the workflow stays blocked.
NeverStuck ==
  \A w \in Roots :
    \/ Over(w)
    \/ Needed(w) = {}
    \/ \E n \in Of(w) : \E d \in handoffs[n].deps :
         handoffs[d].state = "failed" /\ ~ handoffs[d].required
    \/ \E n \in Of(w) : handoffs[n].state \notin Ended /\ ~ Waits(n)

\* An ended workflow stays as it ended, unless a handoff is reopened or an append
\* that found the workflow open commits after its end.
EndedStays ==
  [][\A w \in Roots :
       \/ ~ Over(w)
       \/ \E c \in Callers : call[c].at = "appending" /\ call[c].wf = w
                             /\ call[c].seen \notin Ended
       \/ reopens' # reopens
       \/ (Status(w))' = Status(w)]_vars
=============================================================================
