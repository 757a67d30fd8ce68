----------------------------- MODULE TruthPlane -----------------------------
(***************************************************************************)
(* The truth plane: the handoffs of one SQLite database, the log of events *)
(* accepted for each, and the operations that MCP, A2A and CLI processes   *)
(* run on them concurrently (service.go, protocol_service.go, store.go).   *)
(*                                                                         *)
(* A transaction, or a statement outside one, is one action. An operation  *)
(* that reads the clock or a row first and writes later is two or more.    *)
(*                                                                         *)
(* timeline[h] holds the events of h in the order of their ingested_at,    *)
(* which is the order a replay reads them in. An event has its place there *)
(* from the moment its operation reads the clock; while the operation is   *)
(* under way the entry is "pending" and not in the database.               *)
(***************************************************************************)
EXTENDS HandoffStateMachine, FiniteSetsExt

CONSTANTS
  Handoffs,
  Kind,         \* [Handoffs -> Kinds]
  Reviewer,     \* [Handoffs -> Actors \cup {NoActor}]: named at creation
  DependsOn,    \* [Handoffs -> SUBSET Handoffs]
  Targeted,     \* handoffs created with a delivery target
  Callers,      \* requests and commands being served at a time
  NoOne,        \* no caller, no handoff
  Requests,     \* events of protocol actions (handoff_progress, lifecycle events)
  Reports,      \* events recorded as they are (event record, event bridge)
  Backfills,    \* events of repair_backfill_event
  DispatchTargets,  \* whether a dispatch names a target: a subset of BOOLEAN
  Reassigned,   \* actors ownership_update makes owner, lease holder or reviewer
  Overlap,      \* TRUE: operations on one handoff may overlap
  MaxEvents,    \* bound: entries of a timeline
  MaxRepairs,   \* bound: repairs
  MaxRewrites   \* bound: ownership updates

ASSUME TruthAssumption ==
  /\ Kind \in [Handoffs -> Kinds]
  /\ Reviewer \in [Handoffs -> Actors \cup {NoActor}]
  /\ DependsOn \in [Handoffs -> SUBSET Handoffs]
  /\ Targeted \subseteq Handoffs
  /\ NoOne \notin Callers /\ NoOne \notin Handoffs
  /\ IsFiniteSet(Callers)
  /\ Requests \subseteq Events /\ Reports \subseteq Events /\ Backfills \subseteq Events
  /\ DispatchTargets \subseteq BOOLEAN
  /\ Reassigned \subseteq Agents
  /\ Overlap \in BOOLEAN
  /\ MaxEvents \in Nat /\ MaxRepairs \in Nat /\ MaxRewrites \in Nat

VARIABLES
  row,       \* [Handoffs -> Rows]: the handoffs table
  timeline,  \* [Handoffs -> sequences of entries]: accepted_events, see above
  call,      \* [Callers -> ...]: what each operation under way has read
  repairs,   \* repairs so far
  rewrites   \* ownership updates so far

vars == <<row, timeline, call, repairs, rewrites>>

Entries == [event : Events, by : Callers \cup {NoOne},
            status : {"pending", "accepted", "invalid"}]
Idle    == [at |-> "idle", h |-> NoOne, copy |-> NoOne]

----------------------------------------------------------------------------
\* Reads

Pending(c, h)    == {i \in DOMAIN timeline[h] : timeline[h][i].by = c}

DependenciesCompleted(h) == \A d \in DependsOn[h] : row[d].state = "completed"

\* The bound on repairs, those under way included.
RepairsLeft == repairs + Cardinality({c \in Callers : call[c].at = "backfill"}) < MaxRepairs

\* Caller c starts an operation on h.
MayBegin(c, h) ==
  /\ call[c].at = "idle"
  /\ Overlap \/ \A d \in Callers : call[d].h # h

----------------------------------------------------------------------------
\* Recording an event. The event is stamped, then the state machine is asked
\* and the answer written in one transaction (it is also asked once before,
\* where a refusal is answered at once; that it is refused changes nothing).

Stamp(h, e, c) ==
  /\ Len(timeline[h]) < MaxEvents
  /\ timeline' = [timeline EXCEPT ![h] = Append(@, [event |-> e, by |-> c,
                                                    status |-> "pending"])]

BeginRecording(c, h, e, path) ==
  /\ MayBegin(c, h)
  /\ Stamp(h, e, c)
  /\ call' = [call EXCEPT ![c] = [at |-> path, h |-> h, copy |-> NoOne]]
  /\ UNCHANGED <<row, repairs, rewrites>>

\* RecordAuthoritativeEvent: transport signals are refused, no dependency check.
RecordAuthoritativeEvent(c, h, e) ==
  /\ e.type \notin Signals
  /\ BeginRecording(c, h, e, "record")

\* Every protocol action but fail waits for the handoff's dependencies.
MayAct(h, e) == e.type # "failed" => DependenciesCompleted(h)

\* ApplyProtocolAction: the dependencies are read before the event is stamped.
ApplyProtocolAction(c, h, e) ==
  /\ MayAct(h, e)
  /\ BeginRecording(c, h, e, "record")

\* BackfillEvent: the state machine is asked, the dependencies are not.
BackfillEvent(c, h, e) ==
  /\ RepairsLeft
  /\ BeginRecording(c, h, e, "backfill")

\* The end of an operation on a timeline: its entry stays, or goes.
Keep(h, i) ==
  timeline' = [timeline EXCEPT ![h][i].status = "accepted", ![h][i].by = NoOne]

\* Slip: what was written before the refusal is not rolled back.
Slip_Drop(h, i) == UNCHANGED timeline

Drop(h, i) ==
  timeline' = [timeline EXCEPT ![h] = RemoveAt(@, i)]

\* RecordAcceptedEvent, and the transaction of BackfillEvent.
RecordAcceptedEvent(c) ==
  /\ call[c].at \in {"record", "backfill"}
  /\ \E i \in Pending(c, call[c].h) :
       LET h == call[c].h
           e == timeline[h][i].event
       IN IF Accepts(Kind[h], row[h], e)
          THEN /\ row' = [row EXCEPT ![h] = Apply(Kind[h], row[h], e)]
               /\ Keep(h, i)
               /\ repairs' = IF call[c].at = "backfill" THEN repairs + 1 ELSE repairs
          ELSE /\ Drop(h, i)
               /\ UNCHANGED <<row, repairs>>
  /\ call' = [call EXCEPT ![c] = Idle]
  /\ UNCHANGED rewrites

----------------------------------------------------------------------------
\* DispatchHandoff: the row is read with the clock; a row without a target is
\* written back whole, with the target, by a statement that names no version;
\* then transport_requested is recorded. What the adapter answers is observed
\* (signals change no row) or applied as protocol actions.

TransportRequested == [type |-> "transport_requested", subject |-> NoActor,
                       producer |-> Orchestrator, artifacts |-> 0, decision |-> "none"]

DispatchHandoff(c, h, named) ==
  /\ MayBegin(c, h)
  /\ row[h].state = "created"
  /\ DependenciesCompleted(h)
  /\ Stamp(h, TransportRequested, c)
  /\ call' = [call EXCEPT ![c] =
       IF named /\ ~ row[h].target
       THEN [at |-> "save", h |-> h, copy |-> [row[h] EXCEPT !.target = TRUE]]
       ELSE [at |-> "record", h |-> h, copy |-> NoOne]]
  /\ UNCHANGED <<row, repairs, rewrites>>

SaveHandoff(c) ==
  /\ call[c].at = "save"
  /\ row'  = [row EXCEPT ![call[c].h] = call[c].copy]
  /\ call' = [call EXCEPT ![c].at = "record", ![c].copy = NoOne]
  /\ UNCHANGED <<timeline, repairs, rewrites>>

----------------------------------------------------------------------------
\* UpdateOwnership: read the row, write its ownership columns, whatever the
\* version has become. The caller names a new owner, lease holder or reviewer.

LoadOwnership(c, h, o) ==
  /\ MayBegin(c, h)
  /\ rewrites < MaxRewrites
  /\ rewrites' = rewrites + 1
  /\ \E r \in {[row[h] EXCEPT !.owner = o], [row[h] EXCEPT !.lease = o],
               [row[h] EXCEPT !.reviewer = o]} :
       call' = [call EXCEPT ![c] = [at |-> "own", h |-> h, copy |-> r]]
  /\ UNCHANGED <<row, timeline, repairs>>

\* Slip: the whole row is written back.
Slip_UpdateHandoffOwnership(c) ==
  /\ call[c].at = "own"
  /\ row'  = [row EXCEPT ![call[c].h] = call[c].copy]
  /\ call' = [call EXCEPT ![c] = Idle]
  /\ UNCHANGED <<timeline, repairs, rewrites>>

UpdateHandoffOwnership(c) ==
  /\ call[c].at = "own"
  /\ LET h == call[c].h
         r == call[c].copy
     IN row' = [row EXCEPT ![h].owner = r.owner, ![h].lease = r.lease,
                           ![h].reviewer = r.reviewer]
  /\ call' = [call EXCEPT ![c] = Idle]
  /\ UNCHANGED <<timeline, repairs, rewrites>>

----------------------------------------------------------------------------
\* The caller goes away or its process is killed: what it has written stays.

Abandon(c) ==
  /\ call[c].at # "idle"
  /\ IF Pending(c, call[c].h) = {} THEN UNCHANGED timeline
     ELSE \E i \in Pending(c, call[c].h) : Drop(call[c].h, i)
  /\ call' = [call EXCEPT ![c] = Idle]
  /\ UNCHANGED <<row, repairs, rewrites>>

----------------------------------------------------------------------------
\* Repairs, one transaction each

\* Slip: the replay reads the log before the repair is in it.
Slip_ReplayHandoffProjection(h, entries) ==
  row' = [row EXCEPT ![h] = Replay(Kind[h], Base(row[h]), Effective(timeline[h]))]

ReplayHandoffProjection(h, entries) ==
  row' = [row EXCEPT ![h] = Replay(Kind[h], Base(row[h]), Effective(entries))]

Invalidated(entries, ids) ==
  [i \in DOMAIN entries |->
     IF i \in ids THEN [entries[i] EXCEPT !.status = "invalid"] ELSE entries[i]]

RepairTimeline(h, ids) ==
  LET entries == Invalidated(timeline[h], ids) IN
    /\ RepairsLeft
    /\ repairs' = repairs + 1
    /\ timeline' = [timeline EXCEPT ![h] = entries]
    /\ ReplayHandoffProjection(h, entries)
    /\ UNCHANGED <<call, rewrites>>

Recorded(h) == {i \in DOMAIN timeline[h] : timeline[h][i].status # "pending"}

\* An event of the log, invalidated before or not.
InvalidateEvent(h) == \E i \in Recorded(h) : RepairTimeline(h, {i})

IsReopenable(h) == row[h].state \in Ended

\* All the events of an ended handoff.
ReopenHandoff(h) == IsReopenable(h) /\ RepairTimeline(h, Recorded(h))

----------------------------------------------------------------------------
\* saveHandoffExec of a new handoff: the receiver owns it, nobody leases it.
Created(h) ==
  [state |-> "created", version |-> 0, owner |-> Kind[h].receiver, lease |-> NoActor,
   reviewer |-> Reviewer[h], target |-> h \in Targeted, has |-> {}, artifacts |-> 0,
   decision |-> "none"]

Init ==
  /\ row      = [h \in Handoffs |-> Created(h)]
  /\ timeline = [h \in Handoffs |-> << >>]
  /\ call     = [c \in Callers |-> Idle]
  /\ repairs  = 0
  /\ rewrites = 0

Begin(c, h) ==
  \/ \E e \in Requests  : ApplyProtocolAction(c, h, e)
  \/ \E e \in Reports   : RecordAuthoritativeEvent(c, h, e)
  \/ \E e \in Backfills : BackfillEvent(c, h, e)
  \/ \E named \in DispatchTargets : DispatchHandoff(c, h, named)
  \/ \E o \in Reassigned : LoadOwnership(c, h, o)

Continue(c) ==
  RecordAcceptedEvent(c) \/ SaveHandoff(c) \/ UpdateHandoffOwnership(c) \/ Abandon(c)

Next ==
  \/ \E c \in Callers : Continue(c) \/ \E h \in Handoffs : Begin(c, h)
  \/ \E h \in Handoffs : InvalidateEvent(h) \/ ReopenHandoff(h)

Spec == Init /\ [][Next]_vars

----------------------------------------------------------------------------
\* Properties

\* Every variable has its type; an operation that records has exactly one
\* pending entry, in the timeline of its handoff.
TypeOK ==
  /\ row      \in [Handoffs -> Rows]
  /\ timeline \in [Handoffs -> Seq(Entries)]
  /\ call     \in [Callers -> [at : {"idle", "record", "backfill", "save", "own"},
                               h : Handoffs \cup {NoOne}, copy : Rows \cup {NoOne}]]
  /\ \A c \in Callers, h \in Handoffs :
       Cardinality(Pending(c, h)) =
         IF call[c].h = h /\ call[c].at \in {"record", "backfill", "save"} THEN 1 ELSE 0
  /\ repairs  \in 0 .. MaxRepairs
  /\ rewrites \in 0 .. MaxRewrites

\* A handoff's row is what replaying its effective events makes of a new one,
\* after any sequence of events, refusals and repairs: so a repair changes
\* nothing but what the events it invalidates had brought about.
ReplayAgrees ==
  \A h \in Handoffs :
    Progress(row[h]) =
      Progress(Replay(Kind[h], Base(row[h]), Effective(timeline[h])))

\* Event j reopens the work of a handoff created as the row b: the replay does
\* not skip it.
Rework(k, b, es, j) ==
  /\ es[j].type \in {"checkpointed", "submitted"}
  /\ Accepts(k, Replay(k, b, SubSeq(es, 1, j - 1)), es[j])

\* The events es earn a handoff of kind k its completion: the four milestones,
\* the artifacts, and an approval with no rework after it.
Earned(k, b, es) ==
  \E n \in DOMAIN es :
    /\ es[n].type = "completed"
    /\ \A m \in UpTo(4) : \E i \in 1 .. n - 1 : es[i].type = m
    /\ k.artifacts > 0 => \E i \in 1 .. n - 1 : es[i].type = "submitted"
                                                /\ es[i].artifacts >= k.artifacts
    /\ k.review => \E i \in 1 .. n - 1 :
         /\ es[i].type = "reviewed" /\ es[i].decision = "approved"
         /\ \A j \in i + 1 .. n - 1 : ~ Rework(k, b, es, j)

\* A completed handoff has earned it by events nobody invalidated, whatever was
\* sent back for revision, reported by others, backfilled or repaired before.
CompletedIsEarned ==
  \A h \in Handoffs :
    row[h].state = "completed" => Earned(Kind[h], Base(row[h]), Effective(timeline[h]))

\* An ended handoff stays as it ended until somebody repairs it: no late
\* report, lifecycle event, dispatch or ownership update brings it back.
EndedUntilRepaired ==
  [][\A h \in Handoffs :
       row[h].state \in Ended /\ Progress(row'[h]) # Progress(row[h])
       => repairs' > repairs]_vars

\* What an accepted event brought about is undone by repairs only.
AcceptedStays ==
  [][\A h \in Handoffs : row'[h].version < row[h].version => repairs' > repairs]_vars

\* A handoff to somebody who sees its row and the log of what was recorded of it:
\* what is under way, and who owns it, is internal.
NewRows      == [h \in Handoffs |-> Base(row[h])]
RecordedLogs == [h \in Handoffs |-> [i \in Recorded(h) |->
                   [event |-> timeline[h][i].event, status |-> timeline[h][i].status]]]
ShownRows    == [h \in Handoffs |-> Progress(row[h])]

Happenings == Requests \cup Reports \cup Backfills \cup {TransportRequested}

Log == INSTANCE HandoffLog WITH
  Reported <- Happenings, new <- NewRows, log <- RecordedLogs, shown <- ShownRows

\* Operations of several statements, refused, interrupted or repaired, come to a
\* log that is only appended to, an event at a time that the handoff accepted, and
\* to a row that shows what the events in force make of a new handoff.
ImplementsLog == Log!Spec

=============================================================================
