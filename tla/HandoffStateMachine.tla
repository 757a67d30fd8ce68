------------------------ MODULE HandoffStateMachine ------------------------
(***************************************************************************)
(* state_machine.go: which authoritative event a handoff accepts, and what *)
(* it makes of the handoff. Pure operators; k is what never changes of a   *)
(* handoff (its receiver, how many artifacts and whether a review it       *)
(* requires), h its row, e an event.                                       *)
(***************************************************************************)
EXTENDS Integers, SequencesExt

CONSTANTS
  Agents,        \* agents and users
  Controller, Orchestrator, Adapter, Watchdog,   \* the system actors
  NoActor        \* the empty actor reference

Systems == {Controller, Orchestrator, Adapter, Watchdog}
Actors  == Agents \cup Systems

ASSUME ActorAssumption ==
  /\ Agents \cap Systems = {}
  /\ NoActor \notin Actors

----------------------------------------------------------------------------
\* What is recorded

\* The milestones of the lifecycle, in order: each is a state, a has_ flag and
\* an event type.
Path == <<"received", "claimed", "started", "checkpointed", "submitted", "reviewed">>

Milestones == {Path[i] : i \in 1 .. 6}
UpTo(i)    == {Path[n] : n \in 1 .. i}
Place(s)   == CHOOSE i \in 1 .. 6 : Path[i] = s

Ended      == {"completed", "failed", "expired"}
States     == {"created", "dispatched"} \cup Milestones \cup Ended
Signals    == {"transport_accepted", "transport_rejected", "transport_timeout",
               "transport_delivery_confirmed"}
EventTypes == {"transport_requested"} \cup Signals \cup Milestones \cup Ended
Decisions  == {"none", "approved", "revision_required", "rejected"}

Kinds  == [receiver : Agents, artifacts : Nat, review : BOOLEAN]
Rows   == [state : States, version : Nat, owner : Actors \cup {NoActor},
           lease : Actors \cup {NoActor}, reviewer : Actors \cup {NoActor},
           target : BOOLEAN, has : SUBSET Milestones, artifacts : Nat,
           decision : Decisions]
Events == [type : EventTypes, subject : Actors \cup {NoActor},
           producer : Actors \cup {NoActor}, artifacts : Nat, decision : Decisions]

----------------------------------------------------------------------------
\* Who may report what

ByTransport(e)  == e.producer \in {Orchestrator, Adapter}
ByWatch(e)      == e.producer \in {Watchdog, Controller}
ByReceiver(k, e) == e.subject = k.receiver /\ e.producer \in {k.receiver, Controller}

ByReviewer(h, e) ==
  /\ h.reviewer # NoActor
  /\ e.subject = h.reviewer
  /\ e.producer \in {h.reviewer, Controller}

\* The lease holder, the owner, the receiver and the controller, each on its
\* own behalf. The receiver stays a worker when the lease is somebody else's.
ByWorker(k, h, e) ==
  /\ e.subject # NoActor
  /\ e.producer = e.subject
  /\ e.subject \in {h.lease, h.owner, k.receiver, Controller}

----------------------------------------------------------------------------
\* What an event finds

NeedsSubmission(k) == k.artifacts > 0 \/ k.review

\* The flags a state implies.
Implied(k, h) ==
  {m \in Milestones :
     \/ h.state \in Milestones /\ Place(m) <= Place(h.state)
     \/ /\ h.state = "completed"
        /\ \/ m \in UpTo(4)
           \/ m = "submitted" /\ NeedsSubmission(k)
           \/ m = "reviewed" /\ k.review}

HydrateFlags(k, h) == [h EXCEPT !.has = @ \cup Implied(k, h)]

InRevision(h) == h.state = "reviewed" /\ h.decision = "revision_required"

\* Slip: any review will do.
Slip_CompletionPrereqs(k, h) ==
  /\ UpTo(4) \subseteq h.has
  /\ NeedsSubmission(k) => "submitted" \in h.has
  /\ k.artifacts > 0 => h.artifacts >= k.artifacts
  /\ k.review => "reviewed" \in h.has

\* What completion asks for beyond its state.
CompletionPrereqs(k, h) ==
  /\ UpTo(4) \subseteq h.has
  /\ NeedsSubmission(k) => "submitted" \in h.has
  /\ k.artifacts > 0 => h.artifacts >= k.artifacts
  /\ k.review => "reviewed" \in h.has /\ h.decision = "approved"

MayComplete(k, h) ==
  \/ h.state = "checkpointed" /\ ~ NeedsSubmission(k)
  \/ h.state = "submitted" /\ ~ k.review
  \/ h.state = "reviewed" /\ k.review

\* Slip: a handoff that has ended may still be reported failed.
Slip_MayFail(h) == h.state # "failed"

MayFail(h)   == h.state \notin Ended
MayExpire(h) == h.state \in {"dispatched"} \cup UpTo(5)

\* The transition an event asks for is open in the handoff's state.
Allows(k, h, e) ==
  \/ e.type = "transport_requested" /\ h.state = "created"
  \/ e.type \in Signals
  \/ /\ e.type = "received"
     /\ h.state = "dispatched" \/ (h.state = "created" /\ ~ h.target)
  \/ e.type = "claimed" /\ h.state = "received"
  \/ e.type = "started" /\ h.state = "claimed"
  \/ e.type = "checkpointed" /\ (h.state = "started" \/ InRevision(h))
  \/ e.type = "submitted" /\ (h.state = "checkpointed" \/ InRevision(h))
  \/ e.type = "reviewed" /\ h.state = "submitted" /\ e.decision # "none"
  \/ e.type = "completed" /\ MayComplete(k, h) /\ CompletionPrereqs(k, h)
  \/ e.type = "failed" /\ MayFail(h)
  \/ e.type = "expired" /\ MayExpire(h)

\* The actors of an event may report it.
Permits(k, h, e) ==
  CASE e.type \in {"transport_requested"} \cup Signals -> ByTransport(e)
    [] e.type = "received"                             -> ByReceiver(k, e)
    [] e.type = "reviewed"                             -> ByReviewer(h, e)
    [] e.type = "expired"                              -> ByWatch(e)
    [] OTHER                                           -> ByWorker(k, h, e)

Accepts(k, h, e) == Allows(k, HydrateFlags(k, h), e) /\ Permits(k, h, e)

----------------------------------------------------------------------------
\* What an accepted event makes of the handoff

StateAfter(e) == IF e.type = "transport_requested" THEN "dispatched" ELSE e.type

\* Flags a rework takes back.
Withdrawn(e) ==
  CASE e.type = "checkpointed" -> {"submitted", "reviewed"}
    [] e.type = "submitted"    -> {"reviewed"}
    [] OTHER                   -> {}

\* A submission without artifacts keeps the count of the one before.
Advance(h, e) ==
  [h EXCEPT !.state     = StateAfter(e),
            !.version   = @ + 1,
            !.owner     = IF e.type = "claimed" THEN e.subject ELSE @,
            !.lease     = IF e.type = "claimed" THEN e.subject ELSE @,
            !.has       = @ \ Withdrawn(e),
            !.artifacts = IF e.type = "submitted" /\ e.artifacts > 0 THEN e.artifacts ELSE @,
            !.decision  = CASE e.type = "reviewed"                      -> e.decision
                            [] e.type \in {"checkpointed", "submitted"} -> "none"
                            [] OTHER                                    -> @]

\* Apply for an event the handoff accepts; a transport signal changes nothing.
Apply(k, h, e) ==
  IF e.type \in Signals
  THEN HydrateFlags(k, h)
  ELSE HydrateFlags(k, Advance(HydrateFlags(k, h), e))

\* The row a repair starts from: as created, but nobody owns it.
Base(h) ==
  [h EXCEPT !.state = "created", !.version = 0, !.owner = NoActor, !.lease = NoActor,
            !.has = {}, !.artifacts = 0, !.decision = "none"]

\* What e makes of h: an event that is not accepted where it stands is skipped.
Take(k, h, e) == IF Accepts(k, h, e) THEN Apply(k, h, e) ELSE h

\* Take the events in order.
Replay(k, h, events) ==
  LET after[n \in 0 .. Len(events)] ==
        IF n = 0 THEN h ELSE Take(k, after[n - 1], events[n])
  IN after[Len(events)]

----------------------------------------------------------------------------
\* Logs of entries with an event and a status

Accepted(entry) == entry.status = "accepted"

\* The events a replay reads: accepted and not invalidated.
Effective(entries) ==
  LET kept[n \in 0 .. Len(entries)] ==
        IF n = 0 THEN << >>
        ELSE IF Accepted(entries[n]) THEN Append(kept[n - 1], entries[n].event)
        ELSE kept[n - 1]
  IN kept[Len(entries)]

\* The lifecycle part of a row.
Progress(r) == [state |-> r.state, version |-> r.version, has |-> r.has,
                artifacts |-> r.artifacts, decision |-> r.decision]
============================================================================
