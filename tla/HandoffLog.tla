----------------------------- MODULE HandoffLog -----------------------------
(***************************************************************************)
(* What the truth plane promises of its handoffs, without saying how: a     *)
(* handoff is a log of events. An event that the handoff accepts is put at  *)
(* the end of its log, in one step; nothing is ever taken out of a log, but *)
(* a repair takes events out of force, one or all of an ended handoff's;    *)
(* and what a handoff shows is what the events in force make of a new one.  *)
(***************************************************************************)
EXTENDS HandoffStateMachine

CONSTANTS
  Handoffs,
  Kind,      \* [Handoffs -> Kinds]
  Reported   \* the events there can be

VARIABLES
  new,       \* [Handoffs -> Rows]: the handoff before any event
  log,       \* [Handoffs -> Seq([event : Reported, status : {"accepted", "invalid"}])]
  shown      \* [Handoffs -> ...]: its state, version, milestones, artifacts, decision

vars == <<new, log, shown>>

Handoff(h) == Replay(Kind[h], new[h], Effective(log[h]))

Init ==
  /\ new   = [h \in Handoffs |-> Base(new[h])]
  /\ log   = [h \in Handoffs |-> << >>]
  /\ shown = [h \in Handoffs |-> Progress(new[h])]

Record(h, e) ==
  /\ log'   = [log EXCEPT ![h] = Append(@, [event |-> e, status |-> "accepted"])]
  /\ Accepts(Kind[h], Handoff(h), e)
  /\ shown' = [shown EXCEPT ![h] = Progress(Take(Kind[h], Handoff(h), e))]
  /\ UNCHANGED new

\* While nothing has happened to it, a handoff may be given a delivery target.
NameTarget(h) ==
  /\ shown[h].state = "created"
  /\ new' = [new EXCEPT ![h].target = TRUE]
  /\ UNCHANGED <<log, shown>>

Repair(h, ids) ==
  LET entries == [i \in DOMAIN log[h] |->
                    IF i \in ids THEN [log[h][i] EXCEPT !.status = "invalid"] ELSE log[h][i]]
  IN /\ log'   = [log EXCEPT ![h] = entries]
     /\ shown' = [shown EXCEPT ![h] = Progress(Replay(Kind[h], new[h], Effective(entries)))]
     /\ UNCHANGED new

Invalidate(h) == \E i \in DOMAIN log[h] : Repair(h, {i})

Reopen(h) == shown[h].state \in Ended /\ Repair(h, DOMAIN log[h])

\* Every step but the naming of a target adds to a log or takes from what is in force.
Next == \E h \in Handoffs :
  \/ NameTarget(h)
  \/ log' # log /\ (Invalidate(h) \/ Reopen(h) \/ \E e \in Reported : Record(h, e))

Spec == Init /\ [][Next]_vars
=============================================================================
