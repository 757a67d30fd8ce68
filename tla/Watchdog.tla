------------------------------ MODULE Watchdog ------------------------------
(***************************************************************************)
(* Watches of the truth plane: the reminders of RunWatchdog (watchdog.go),  *)
(* which any process may run at any time, what they do to the status of a   *)
(* workflow and to the work it offers (WorkflowStatus, NextWork and         *)
(* BlockedWork in service.go), and the repairs that set all watches anew.   *)
(*                                                                         *)
(* One workflow. An event is its type; a handoff's log is its effective     *)
(* events, in the order of a replay. Claims, checkpoints and reviews are    *)
(* left out (no watch waits for one), and so are the owners' and reviewers' *)
(* reasons for a block. One tick of the clock is five minutes.              *)
(***************************************************************************)
EXTENDS Integers, Sequences, FiniteSets

CONSTANTS
  Handoffs,
  Required,    \* those required for the completion of the workflow
  Submitting,  \* those whose work is submitted before it is completed
  DependsOn,   \* [Handoffs -> SUBSET Handoffs]
  Dogs,        \* those who run the watchdog
  MaxTime,     \* bound: the clock
  MaxEvents,   \* bound: effective events of a handoff
  MaxTroubles  \* bound: repairs, updates of a watch and runs cut short, together

ASSUME WatchdogAssumption ==
  /\ Required \subseteq Handoffs /\ Submitting \subseteq Handoffs
  /\ DependsOn \in [Handoffs -> SUBSET Handoffs]
  /\ {MaxTime, MaxEvents, MaxTroubles} \subseteq Nat

VARIABLES
  now,
  state,     \* [Handoffs -> ...]: the state of a handoff
  log,       \* [Handoffs -> Seq(Events)]
  watches,   \* the watches table: [Handoffs -> [event awaited -> watch]]
  run,       \* [Dogs -> ...]: the run of the watchdog under way
  troubles,  \* repairs, edits and crashes so far
  sent,      \* when each watch was last reminded of, by whomever (history)
  repeated,  \* watches reminded of twice within the cooldown (history)
  excused    \* watches reminded of by runs that overlap, or that crash before the mark

vars == <<now, state, log, watches, run, troubles, sent, repeated, excused>>

----------------------------------------------------------------------------
\* Handoffs

Events == {"received", "started", "submitted", "completed", "failed"}
Ended  == {"completed", "failed"}

Path(h) == IF h \in Submitting THEN <<"created", "received", "started", "submitted", "completed">>
           ELSE <<"created", "received", "started", "completed">>

\* A state is named for the event that leads to it.
Accepts(h, s, e) ==
  /\ s \notin Ended
  /\ e = "failed" \/ \E i \in 1 .. Len(Path(h)) - 1 : Path(h)[i] = s /\ Path(h)[i + 1] = e

\* An event that a replay does not accept is passed over, and stays effective.
Replay(h, events) ==
  LET after[i \in 0 .. Len(events)] ==
        IF i = 0 THEN "created"
        ELSE IF Accepts(h, after[i - 1], events[i]) THEN events[i] ELSE after[i - 1]
  IN  after[Len(events)]

Has(h, e) == \E i \in DOMAIN log[h] : log[h][i] = e

----------------------------------------------------------------------------
\* Watches

Cooldown == 1
Never    == -1

\* CreateDefaultWatches: 5, 10 and 15 minutes
Watched(h) == {"received", "started", IF h \in Submitting THEN "submitted" ELSE "completed"}

Deadline(h) ==
  [e \in Watched(h) |-> CASE e = "received" -> 1 [] e = "started" -> 2 [] OTHER -> 3]

DefaultWatches(h, t, gen) ==
  [e \in Watched(h) |-> [gen |-> gen, due |-> t + Deadline(h)[e], active |-> TRUE, last |-> Never]]

\* A reminder was sent, and what it asks for has not come.
Outstanding(h, e) == watches[h][e].active /\ watches[h][e].last # Never /\ ~ Has(h, e)

----------------------------------------------------------------------------
\* What the others see

Waits(h) == \E d \in DependsOn[h] : state[d] # "completed"

ProjectWorkflow ==
  IF Required = {} THEN "active"
  ELSE IF \E h \in Required : state[h] = "failed" THEN "failed"
  ELSE IF \E h \in Required : Waits(h) THEN "blocked"
  ELSE IF \A h \in Required : state[h] = "completed" THEN "completed"
  ELSE "active"

\* Slip: a watch whose event has come counts as any other.
Slip_WorkflowStatus ==
  IF ProjectWorkflow = "active" /\ \E h \in Required : \E e \in Watched(h) : watches[h][e].last # Never
  THEN "blocked" ELSE ProjectWorkflow

WorkflowStatus ==
  IF ProjectWorkflow = "active" /\ \E h \in Required : \E e \in Watched(h) : Outstanding(h, e)
  THEN "blocked" ELSE ProjectWorkflow

\* workBlockReasons; the work that has any is blocked, the other is offered.
Reasons(h) ==
  {d \in DependsOn[h] : state[d] # "completed"} \cup {e \in Watched(h) : Outstanding(h, e)}

BlockedWork == {h \in Handoffs : state[h] \notin Ended /\ Reasons(h) # {}}
NextWork    == {h \in Handoffs : state[h] \notin Ended /\ Reasons(h) = {}}

----------------------------------------------------------------------------
\* Events and repairs

Trouble == troubles < MaxTroubles /\ troubles' = troubles + 1

\* RecordAuthoritativeEvent, and BackfillEvent: no watch is touched.
RecordEvent(h, e) ==
  /\ Len(log[h]) < MaxEvents
  /\ Accepts(h, state[h], e)
  /\ log'   = [log EXCEPT ![h] = Append(@, e)]
  /\ state' = [state EXCEPT ![h] = e]
  /\ UNCHANGED <<now, watches, run, troubles, sent, repeated, excused>>

\* replayHandoffProjectionTx: the state from the events left, and new watches.
ReplayHandoff(h, events) ==
  /\ log'     = [log EXCEPT ![h] = events]
  /\ state'   = [state EXCEPT ![h] = Replay(h, events)]
  /\ watches' = [watches EXCEPT ![h] =
                   [e \in Watched(h) |-> [gen |-> watches[h][e].gen + 1, active |-> TRUE,
                                          due |-> now + Deadline(h)[e], last |-> Never]]]
  /\ sent'     = [sent EXCEPT ![h] = [e \in Watched(h) |-> Never]]
  /\ repeated' = {w \in repeated : w[1] # h}
  /\ excused'  = {w \in excused : w[1] # h}
  /\ Trouble
  /\ UNCHANGED <<now, run>>

InvalidateEvent(h) ==
  \E i \in DOMAIN log[h] :
    ReplayHandoff(h, [k \in 1 .. Len(log[h]) - 1 |-> log[h][IF k < i THEN k ELSE k + 1]])

ReopenHandoff(h) == state[h] \in Ended /\ ReplayHandoff(h, <<>>)

\* The deadline or the status; the check columns stay.
UpdateWatch(h, e) ==
  /\ Trouble
  /\ \/ watches' = [watches EXCEPT ![h][e].active = ~ @]
     \/ watches' = [watches EXCEPT ![h][e].due = now]
  /\ UNCHANGED <<now, state, log, run, sent, repeated, excused>>

----------------------------------------------------------------------------
\* RunWatchdog, by d. The order of the handoffs, and of a handoff's watches,
\* matters to no property.

Rest == [at |-> "rest", now |-> 0, left |-> {}, h |-> "none", gen |-> 0,
         due |-> {}, watch |-> "none", crowded |-> FALSE]

\* On to the next watch, or the next handoff, or done.
Onward(r) ==
  IF r.due # {} THEN [r EXCEPT !.at = "send"]
  ELSE IF r.left # {} THEN [r EXCEPT !.at = "next", !.h = "none", !.gen = 0]
  ELSE Rest

Asleep(d) == run[d].at = "rest"

Start(d) ==
  /\ Asleep(d)
  /\ LET crowded == \E x \in Dogs : ~ Asleep(x) IN
     run' = [x \in Dogs |->
              IF x = d THEN [Rest EXCEPT !.at = "next", !.now = now, !.left = Handoffs,
                                         !.crowded = crowded]
              ELSE IF Asleep(x) THEN run[x] ELSE [run[x] EXCEPT !.crowded = TRUE]]
  /\ UNCHANGED <<now, state, log, watches, troubles, sent, repeated, excused>>

\* Slip: the cooldown is not looked at.
Slip_Due(h, e, t) ==
  LET w == watches[h][e] IN w.active /\ w.due <= t

\* Slip: a watch is due one cooldown after its deadline.
Slip_DueLate(h, e, t) ==
  LET w == watches[h][e] IN w.active /\ w.due < t - Cooldown

\* What the row says of watch e of h at time t
Due(h, e, t) ==
  LET w == watches[h][e] IN
  w.active /\ w.due <= t /\ (w.last = Never \/ t - w.last >= Cooldown)

ReadWatches(d, h) ==
  /\ run[d].at = "next" /\ h \in run[d].left
  /\ run' = [run EXCEPT ![d].at = "events", ![d].h = h, ![d].left = @ \ {h},
                        ![d].gen = watches[h]["received"].gen,
                        ![d].due = {e \in Watched(h) : Due(h, e, run[d].now)}]
  /\ UNCHANGED <<now, state, log, watches, troubles, sent, repeated, excused>>

ReadEvents(d) ==
  /\ run[d].at = "events"
  /\ run' = [run EXCEPT ![d] = Onward([run[d] EXCEPT !.due = {e \in @ : ~ Has(run[d].h, e)}])]
  /\ UNCHANGED <<now, state, log, watches, troubles, sent, repeated, excused>>

\* RecordObserverHint: a signal and a repair candidate, which only the history
\* keeps here; a reminder of a watch that a repair has replaced is no reminder
\* of the new one.
SendReminder(d, e) ==
  LET h == run[d].h
      known == run[d].gen = watches[h][e].gen
  IN
  /\ run[d].at = "send" /\ e \in run[d].due
  /\ run'  = [run EXCEPT ![d].at = "mark", ![d].due = @ \ {e}, ![d].watch = e]
  /\ sent' = IF known THEN [sent EXCEPT ![h][e] = run[d].now] ELSE sent
  /\ repeated' = repeated \cup {w \in {<<h, e>>} : known /\ sent[h][e] # Never
                                                  /\ run[d].now - sent[h][e] < Cooldown}
  /\ excused'  = excused \cup {w \in {<<h, e>>} : known /\ run[d].crowded}
  /\ UNCHANGED <<now, state, log, watches, troubles>>

\* Slip: the mark goes by the handoff and the event, not by the watch's id.
Slip_MarkReminder(d) ==
  LET h == run[d].h
      e == run[d].watch
  IN
  /\ run[d].at = "mark"
  /\ watches' = [watches EXCEPT ![h][e].last = run[d].now]
  /\ run' = [run EXCEPT ![d] = Onward([run[d] EXCEPT !.watch = "none"])]
  /\ UNCHANGED <<now, state, log, troubles, sent, repeated, excused>>

\* UpdateWatchCheck, by the watch's id: nothing is hit once a repair has replaced it.
MarkReminder(d) ==
  LET h == run[d].h
      e == run[d].watch
  IN
  /\ run[d].at = "mark"
  /\ watches' = IF watches[h][e].gen = run[d].gen
                THEN [watches EXCEPT ![h][e].last = run[d].now] ELSE watches
  /\ run' = [run EXCEPT ![d] = Onward([run[d] EXCEPT !.watch = "none"])]
  /\ UNCHANGED <<now, state, log, troubles, sent, repeated, excused>>

\* The process dies, its context ends, or a statement fails: all end the run.
Crash(d) ==
  /\ ~ Asleep(d)
  /\ Trouble
  /\ run' = [run EXCEPT ![d] = Rest]
  /\ excused' = excused \cup {w \in {<<run[d].h, run[d].watch>>} : run[d].at = "mark"}
  /\ UNCHANGED <<now, state, log, watches, sent, repeated>>

Tick ==
  /\ now < MaxTime
  /\ now' = now + 1
  /\ UNCHANGED <<state, log, watches, run, troubles, sent, repeated, excused>>

----------------------------------------------------------------------------

Init ==
  /\ now = 0
  /\ state   = [h \in Handoffs |-> "created"]
  /\ log     = [h \in Handoffs |-> <<>>]
  /\ watches = [h \in Handoffs |-> DefaultWatches(h, 0, 0)]
  /\ run     = [d \in Dogs |-> Rest]
  /\ troubles = 0
  /\ sent    = [h \in Handoffs |-> [e \in Watched(h) |-> Never]]
  /\ repeated = {} /\ excused = {}

RunStep(d) ==
  \/ \E h \in Handoffs : ReadWatches(d, h)
  \/ ReadEvents(d)
  \/ \E e \in run[d].due : SendReminder(d, e)
  \/ MarkReminder(d)

Next ==
  \/ \E h \in Handoffs, e \in Events : RecordEvent(h, e)
  \/ \E h \in Handoffs : InvalidateEvent(h) \/ ReopenHandoff(h)
  \/ \E h \in Handoffs : \E e \in Watched(h) : UpdateWatch(h, e)
  \/ \E d \in Dogs : Start(d) \/ RunStep(d) \/ Crash(d)
  \/ Tick

\* The clock goes on, and somebody runs the watchdog again and again and lets
\* it finish; nobody has to do the work, to repair or to edit.
Fairness == WF_vars(Tick) /\ \A d \in Dogs : WF_vars(Start(d)) /\ WF_vars(RunStep(d))

Spec == Init /\ [][Next]_vars /\ Fairness

----------------------------------------------------------------------------
\* Properties

\* A blocked workflow is explained: blocked_work names a handoff and its reason,
\* unless a repair took back what completed work depends on; next_work then
\* offers what is missing.
BlockedIsExplained ==
  WorkflowStatus = "blocked" =>
    \/ BlockedWork \cap Required # {}
    \/ NextWork # {} /\ \E h \in Required : state[h] = "completed" /\ Waits(h)

\* A watch is reminded of twice within the cooldown only by runs that overlap,
\* or when a run ended between the reminder and its mark.
RepeatsExcused == repeated \subseteq excused

\* A new watch owes nothing to the old one: whatever a run does that had read the
\* watches before a repair, work is withheld for a reminder of the new watch only.
WithheldForItsReminder ==
  \A h \in Handoffs : \A e \in Watched(h) : watches[h][e].last # Never => sent[h][e] # Never

\* A handoff that has not come as far as a watch demands by its deadline is
\* reminded of in the end, unless it moves, is repaired, the watch is taken out,
\* or an event that a replay passed over makes the watch believe it did.
StalledIsReminded ==
  \A h \in Handoffs : \A e \in {"received", "started"} :
    LET w     == watches[h][e]
        short == state[h] = "created" \/ (e = "started" /\ state[h] = "received")
    IN  (short /\ w.due <= now) ~>
          (~ short \/ now < w.due \/ ~ w.active \/ w.last # Never \/ Has(h, e))
=============================================================================
