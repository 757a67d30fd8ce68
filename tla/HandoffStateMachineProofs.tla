--------------------- MODULE HandoffStateMachineProofs ---------------------
(***************************************************************************)
(* What state_machine.go guarantees of every handoff and every event,      *)
(* whoever the actors are, and what replaying a log of any length makes of *)
(* a handoff. The provers cannot instantiate an induction rule for         *)
(* predicates; Least and what follows from it are induction rules for      *)
(* sets, which they can.                                                   *)
(***************************************************************************)
EXTENDS HandoffStateMachine, WellFoundedInduction, TLAPS

\* Hydrating a row (hydrateFlags) adds milestones and leaves the rest alone.
LEMMA HydrateType ==
  ASSUME NEW k \in Kinds, NEW h \in Rows
  PROVE  /\ HydrateFlags(k, h) \in Rows
         /\ HydrateFlags(k, h).state = h.state
         /\ HydrateFlags(k, h).version = h.version
         /\ HydrateFlags(k, h).decision = h.decision
         /\ HydrateFlags(k, h).artifacts = h.artifacts
<1>1. Implied(k, h) \subseteq Milestones
  BY DEF Implied
<1> QED BY <1>1 DEF HydrateFlags, Rows

\* Each column an accepted event writes keeps its type.
LEMMA AdvanceType ==
  ASSUME NEW h \in Rows, NEW e \in Events,
         StateAfter(e) \in States,
         e.type = "claimed" => e.subject \in Actors
  PROVE  /\ Advance(h, e) \in Rows
         /\ Advance(h, e).state = StateAfter(e)
         /\ Advance(h, e).version = h.version + 1
<1> DEFINE o == IF e.type = "claimed" THEN e.subject ELSE h.owner
           l == IF e.type = "claimed" THEN e.subject ELSE h.lease
           f == h.has \ Withdrawn(e)
           a == IF e.type = "submitted" /\ e.artifacts > 0 THEN e.artifacts ELSE h.artifacts
           d == CASE e.type = "reviewed"                      -> e.decision
                  [] e.type \in {"checkpointed", "submitted"} -> "none"
                  [] OTHER                                    -> h.decision
<1>1. o \in Actors \cup {NoActor} /\ l \in Actors \cup {NoActor}
  BY DEF Rows
<1>2. f \subseteq Milestones
  BY DEF Rows
<1>3. a \in Nat
  BY DEF Rows, Events
<1>4. d \in Decisions
  <2>1. h.decision \in Decisions /\ e.decision \in Decisions /\ "none" \in Decisions
    BY DEF Rows, Events, Decisions
  <2>2. CASE e.type = "reviewed"
    BY <2>1, <2>2
  <2>3. CASE e.type \in {"checkpointed", "submitted"}
    BY <2>1, <2>3
  <2>4. CASE e.type \notin {"reviewed", "checkpointed", "submitted"}
    BY <2>1, <2>4
  <2> QED BY <2>2, <2>3, <2>4
<1>5. Advance(h, e) = [h EXCEPT !.state = StateAfter(e), !.version = h.version + 1,
                                !.owner = o, !.lease = l, !.has = f,
                                !.artifacts = a, !.decision = d]
  BY DEF Advance, Rows
<1> HIDE DEF o, l, f, a, d
<1>6. Advance(h, e) = [state |-> StateAfter(e), version |-> h.version + 1, owner |-> o,
                       lease |-> l, reviewer |-> h.reviewer, target |-> h.target,
                       has |-> f, artifacts |-> a, decision |-> d]
  BY <1>5 DEF Rows
<1>7. h.version + 1 \in Nat /\ h.reviewer \in Actors \cup {NoActor} /\ h.target \in BOOLEAN
  BY DEF Rows
<1> QED BY <1>1, <1>2, <1>3, <1>4, <1>6, <1>7 DEF Rows

\* What an event that is no transport signal leads to is a state.
LEMMA StateAfterType ==
  ASSUME NEW e \in Events, e.type \notin Signals
  PROVE  StateAfter(e) \in States
<1>1. e.type \in {"transport_requested"} \cup Milestones \cup Ended
  BY DEF Events, EventTypes
<1> QED BY <1>1 DEF StateAfter, States

\* A claim names an actor (validateWorkerActor).
LEMMA ClaimNamesActor ==
  ASSUME NEW k \in Kinds, NEW h \in Rows, NEW e \in Events,
         e.type = "claimed", Permits(k, h, e)
  PROVE  e.subject \in Actors
<1>1. ByWorker(k, h, e)
  BY DEF Permits, Signals
<1> QED BY <1>1 DEF ByWorker, Events

\* An accepted event makes a row of a row: whatever the log and the repairs
\* were, Apply stays within what the handoffs table can hold.
THEOREM ApplyType ==
  ASSUME NEW k \in Kinds, NEW h \in Rows, NEW e \in Events, Accepts(k, h, e)
  PROVE  Apply(k, h, e) \in Rows
<1>1. PICK g \in Rows : g = HydrateFlags(k, h)
  BY HydrateType
<1>2. CASE e.type \in Signals
  BY <1>1, <1>2 DEF Apply
<1>3. CASE e.type \notin Signals
  <2>1. e.type = "claimed" => e.subject \in Actors
    BY <1>1, ClaimNamesActor DEF Accepts
  <2>2. Advance(g, e) \in Rows
    BY <1>3, <2>1, AdvanceType, StateAfterType
  <2>3. HydrateFlags(k, Advance(g, e)) \in Rows
    BY <2>2, HydrateType
  <2> QED BY <1>1, <1>3, <2>3 DEF Apply
<1> QED BY <1>2, <1>3

\* An accepted event counts one version, and leads where its type says; a
\* transport signal does neither.
THEOREM ApplyStep ==
  ASSUME NEW k \in Kinds, NEW h \in Rows, NEW e \in Events, Accepts(k, h, e)
  PROVE  IF e.type \in Signals
         THEN Apply(k, h, e).state = h.state /\ Apply(k, h, e).version = h.version
         ELSE /\ Apply(k, h, e).state = StateAfter(e)
              /\ Apply(k, h, e).version = h.version + 1
<1>1. PICK g \in Rows : g = HydrateFlags(k, h)
  BY HydrateType
<1>2. g.state = h.state /\ g.version = h.version
  BY <1>1, HydrateType
<1>3. CASE e.type \in Signals
  BY <1>1, <1>2, <1>3 DEF Apply
<1>4. CASE e.type \notin Signals
  <2>1. e.type = "claimed" => e.subject \in Actors
    BY <1>1, ClaimNamesActor DEF Accepts
  <2>2. PICK n \in Rows : n = Advance(g, e)
    BY <1>4, <2>1, AdvanceType, StateAfterType
  <2>3. n.state = StateAfter(e) /\ n.version = h.version + 1
    BY <1>2, <1>4, <2>1, <2>2, AdvanceType, StateAfterType
  <2>4. HydrateFlags(k, n).state = n.state /\ HydrateFlags(k, n).version = n.version
    BY <2>2, HydrateType
  <2>5. Apply(k, h, e) = HydrateFlags(k, n)
    BY <1>1, <1>4, <2>2 DEF Apply
  <2> QED BY <1>4, <2>3, <2>4, <2>5
<1> QED BY <1>3, <1>4

\* A handoff that has ended accepts transport signals only: no late report,
\* whoever makes it, brings it back (the state checks of Apply).
THEOREM EndedIsFinal ==
  ASSUME NEW k \in Kinds, NEW h \in Rows, NEW e \in Events,
         h.state \in Ended, Accepts(k, h, e)
  PROVE  /\ e.type \in Signals
         /\ Apply(k, h, e).state = h.state
         /\ Apply(k, h, e).version = h.version
<1>1. PICK g \in Rows : g = HydrateFlags(k, h)
  BY HydrateType
<1>2. g.state = h.state
  BY <1>1, HydrateType
<1>3. h.state \notin {"created", "dispatched"} \cup UpTo(6)
  BY DEF Ended, UpTo, Path
<1>4. UpTo(5) \subseteq UpTo(6)
  BY DEF UpTo
<1>5. /\ "received" \in UpTo(6) /\ "claimed" \in UpTo(6) /\ "started" \in UpTo(6)
      /\ "checkpointed" \in UpTo(6) /\ "submitted" \in UpTo(6) /\ "reviewed" \in UpTo(6)
  BY DEF UpTo, Path
<1>6. Allows(k, g, e)
  BY <1>1 DEF Accepts
<1>7. e.type \in Signals
  BY <1>2, <1>3, <1>4, <1>5, <1>6 DEF Allows, MayComplete, MayFail, MayExpire, InRevision
<1> QED BY <1>7, ApplyStep

\* A completion is accepted only of work that was checkpointed, that has the
\* artifacts and the approval its kind asks for (validateCompletionPrereqs
\* after hydrateFlags).
THEOREM CompletionIsEarned ==
  ASSUME NEW k \in Kinds, NEW h \in Rows, NEW e \in Events,
         e.type = "completed", Accepts(k, h, e)
  PROVE  /\ h.state \in {"checkpointed", "submitted", "reviewed"}
         /\ h.artifacts >= k.artifacts
         /\ k.review => h.state = "reviewed" /\ h.decision = "approved"
<1>1. PICK g \in Rows : g = HydrateFlags(k, h)
  BY HydrateType
<1>2. g.state = h.state /\ g.decision = h.decision /\ g.artifacts = h.artifacts
  BY <1>1, HydrateType
<1>3. MayComplete(k, g) /\ CompletionPrereqs(k, g)
  BY <1>1 DEF Accepts, Allows, Signals
<1>4. h.artifacts \in Nat /\ k.artifacts \in Nat
  BY DEF Rows, Kinds
<1> QED BY <1>2, <1>3, <1>4 DEF MayComplete, CompletionPrereqs, NeedsSubmission
----------------------------------------------------------------------------
\* Induction over numbers and logs

\* A set of numbers has a least member.
LEMMA Least ==
  ASSUME NEW T \in SUBSET Nat, T # {}
  PROVE  \E n \in T : \A i \in T : n <= i
<1> DEFINE Less == {p \in Nat \X Nat : p[1] < p[2]}
<1>1. OpToRel(<, Nat) = Less
  BY DEF OpToRel
<1>2. IsWellFoundedOn(Less, Nat)
  BY <1>1, NatLessThanWellFounded
<1> HIDE DEF Less
<1>3. PICK n \in T : \A i \in T : ~ (<<i, n>> \in Less)
  BY <1>2, WFMin
<1>4. ASSUME NEW i \in T, i < n PROVE FALSE
  <2>1. <<i, n>> \in Nat \X Nat
    BY <1>4
  <2> QED BY <1>3, <1>4, <2>1 DEF Less
<1> QED BY <1>4

\* A set that holds 0, and n + 1 with n, holds every number.
LEMMA Induction ==
  ASSUME NEW T, 0 \in T, \A n \in Nat : n \in T => n + 1 \in T
  PROVE  \A n \in Nat : n \in T
<1>1. SUFFICES ASSUME Nat \ T # {} PROVE FALSE
  OBVIOUS
<1>2. PICK n \in Nat \ T : \A i \in Nat \ T : n <= i
  BY <1>1, Least
<1>3. n # 0 /\ n - 1 \in Nat /\ n - 1 \in T
  BY <1>2
<1> QED BY <1>2, <1>3

\* What a log consists of.
LEMMA LogParts ==
  ASSUME NEW S, NEW es \in Seq(S), NEW n \in Nat, Len(es) = n + 1
  PROVE  \E f \in Seq(S), e \in S : Len(f) = n /\ es = Append(f, e)
<1>1. /\ SubSeq(es, 1, n) \in Seq(S) /\ Len(SubSeq(es, 1, n)) = n
      /\ es[n + 1] \in S
      /\ es = Append(SubSeq(es, 1, n), es[n + 1])
  OBVIOUS
<1> QED BY <1>1

\* A set that holds the empty log, and with a log what appending makes of it,
\* holds every log.
LEMMA LogInduction ==
  ASSUME NEW S, NEW T, << >> \in T,
         \A es \in Seq(S), e \in S : es \in T => Append(es, e) \in T
  PROVE  \A es \in Seq(S) : es \in T
<1> DEFINE N == {n \in Nat : \A es \in Seq(S) : Len(es) = n => es \in T}
<1>1. 0 \in N
  <2>1. \A es \in Seq(S) : Len(es) = 0 => es = << >>
    OBVIOUS
  <2> QED BY <2>1
<1>2. ASSUME NEW n \in Nat, n \in N PROVE n + 1 \in N
  <2>1. ASSUME NEW es \in Seq(S), Len(es) = n + 1 PROVE es \in T
    <3>1. PICK f \in Seq(S), e \in S : Len(f) = n /\ es = Append(f, e)
      BY <2>1, LogParts
    <3>2. f \in T
      BY <1>2, <3>1
    <3> QED BY <3>1, <3>2
  <2> QED BY <2>1
<1> HIDE DEF N
<1>3. \A n \in Nat : n \in N
  BY <1>1, <1>2, Induction
<1> QED BY <1>3 DEF N

----------------------------------------------------------------------------
\* Replay

\* g holds the row after every prefix of the log.
Runs(k, h, es, g) ==
  g = [n \in 0 .. Len(es) |-> IF n = 0 THEN h ELSE Take(k, g[n - 1], es[n])]

\* The function Replay is defined with exists.
LEMMA RunExists ==
  ASSUME NEW k, NEW h, NEW S
  PROVE  \A es \in Seq(S) : \E g : Runs(k, h, es, g)
<1> DEFINE T == {es \in Seq(S) : \E g : Runs(k, h, es, g)}
<1>1. << >> \in T
  <2>1. Runs(k, h, << >>, [n \in 0 .. 0 |-> h])
    BY DEF Runs
  <2> QED BY <2>1
<1>2. ASSUME NEW es \in Seq(S), NEW e \in S, es \in T PROVE Append(es, e) \in T
  <2>1. PICK g : Runs(k, h, es, g)
    BY <1>2
  <2> DEFINE f == [n \in 0 .. Len(es) + 1 |->
                     IF n <= Len(es) THEN g[n] ELSE Take(k, g[Len(es)], e)]
  <2>2. Runs(k, h, Append(es, e), f)
    <3>1. \A n \in 0 .. Len(es) + 1 :
            f[n] = IF n = 0 THEN h ELSE Take(k, f[n - 1], Append(es, e)[n])
      BY <2>1 DEF Runs
    <3> QED BY <3>1 DEF Runs
  <2> QED BY <2>2
<1> HIDE DEF T
<1>3. \A es \in Seq(S) : es \in T
  BY <1>1, <1>2, LogInduction
<1> QED BY <1>3 DEF T

\* Replay follows such a function.
LEMMA ReplayRuns ==
  ASSUME NEW k, NEW h, NEW es, \E g : Runs(k, h, es, g)
  PROVE  \E g : Runs(k, h, es, g) /\ Replay(k, h, es) = g[Len(es)]
BY DEF Replay, Runs

\* A replay takes the last event in the row the others have led to.
LEMMA ReplayAppend ==
  ASSUME NEW k, NEW h, NEW S, NEW es \in Seq(S), NEW e \in S
  PROVE  Replay(k, h, Append(es, e)) = Take(k, Replay(k, h, es), e)
<1>1. PICK g : Runs(k, h, es, g) /\ Replay(k, h, es) = g[Len(es)]
  BY RunExists, ReplayRuns
<1>2. Append(es, e) \in Seq(S)
  OBVIOUS
<1>3. PICK f : Runs(k, h, Append(es, e), f) /\ Replay(k, h, Append(es, e)) = f[Len(es) + 1]
  <2>1. \E r : Runs(k, h, Append(es, e), r)
    BY <1>2, RunExists
  <2>2. Len(Append(es, e)) = Len(es) + 1
    OBVIOUS
  <2> QED BY <2>1, <2>2, ReplayRuns
<1> DEFINE T == {n \in Nat : n <= Len(es) => f[n] = g[n]}
<1>4. 0 \in T
  BY <1>1, <1>3 DEF Runs
<1>5. ASSUME NEW n \in Nat, n \in T PROVE n + 1 \in T
  BY <1>1, <1>3, <1>5 DEF Runs
<1> HIDE DEF T
<1>6. \A n \in Nat : n \in T
  BY <1>4, <1>5, Induction
<1>7. f[Len(es)] = g[Len(es)]
  BY <1>6 DEF T
<1> QED BY <1>1, <1>3, <1>7 DEF Runs

\* An empty log leaves the row as it is.
LEMMA ReplayEmpty ==
  ASSUME NEW k, NEW h
  PROVE  Replay(k, h, << >>) = h
<1>1. << >> \in Seq({})
  OBVIOUS
<1>2. PICK g : Runs(k, h, << >>, g) /\ Replay(k, h, << >>) = g[Len(<< >>)]
  BY <1>1, RunExists, ReplayRuns
<1> QED BY <1>2 DEF Runs

\* Apply is Advance between two hydrations, which add flags and nothing else.
LEMMA ApplyParts ==
  ASSUME NEW k \in Kinds, NEW h \in Rows, NEW e \in Events, Accepts(k, h, e),
         e.type \notin Signals
  PROVE  /\ HydrateFlags(k, h) \in Rows
         /\ Advance(HydrateFlags(k, h), e) \in Rows
         /\ Apply(k, h, e) = HydrateFlags(k, Advance(HydrateFlags(k, h), e))
<1>1. PICK g \in Rows : g = HydrateFlags(k, h)
  BY HydrateType
<1>2. e.type = "claimed" => e.subject \in Actors
  BY <1>1, ClaimNamesActor DEF Accepts
<1>3. Advance(g, e) \in Rows
  BY <1>2, AdvanceType, StateAfterType
<1> QED BY <1>1, <1>3 DEF Apply

\* What Apply leaves in every column but has.
LEMMA ApplyColumns ==
  ASSUME NEW k \in Kinds, NEW h \in Rows, NEW e \in Events, Accepts(k, h, e),
         e.type \notin Signals
  PROVE  LET r == Apply(k, h, e) IN
         /\ r \in Rows
         /\ r.state = StateAfter(e)
         /\ r.version = h.version + 1
         /\ r.owner = IF e.type = "claimed" THEN e.subject ELSE h.owner
         /\ r.lease = IF e.type = "claimed" THEN e.subject ELSE h.lease
         /\ r.reviewer = h.reviewer /\ r.target = h.target
         /\ r.artifacts = IF e.type = "submitted" /\ e.artifacts > 0
                          THEN e.artifacts ELSE h.artifacts
         /\ r.decision = CASE e.type = "reviewed"                      -> e.decision
                           [] e.type \in {"checkpointed", "submitted"} -> "none"
                           [] OTHER                                    -> h.decision
         /\ r.has = ((h.has \cup Implied(k, h)) \ Withdrawn(e)) \cup Implied(k, r)
<1>1. PICK g \in Rows : g = HydrateFlags(k, h)
  BY ApplyParts
<1>2. PICK a \in Rows : a = Advance(g, e)
  BY <1>1, ApplyParts
<1>3. PICK r \in Rows : r = HydrateFlags(k, a)
  BY <1>2, HydrateType
<1>4. r = Apply(k, h, e)
  BY <1>1, <1>2, <1>3, ApplyParts
<1>5. g = [h EXCEPT !.has = h.has \cup Implied(k, h)]
  BY <1>1 DEF HydrateFlags
<1>6. r = [a EXCEPT !.has = a.has \cup Implied(k, a)]
  BY <1>3 DEF HydrateFlags
<1>7. Implied(k, a) = Implied(k, r)
  BY <1>6 DEF Implied, Rows
<1>8. /\ g.version = h.version /\ g.owner = h.owner /\ g.lease = h.lease
      /\ g.reviewer = h.reviewer /\ g.target = h.target /\ g.artifacts = h.artifacts
      /\ g.decision = h.decision /\ g.has = h.has \cup Implied(k, h)
  BY <1>5 DEF Rows
<1>9. /\ r.state = a.state /\ r.version = a.version /\ r.owner = a.owner
      /\ r.lease = a.lease /\ r.reviewer = a.reviewer /\ r.target = a.target
      /\ r.artifacts = a.artifacts /\ r.decision = a.decision
      /\ r.has = a.has \cup Implied(k, r)
  BY <1>6, <1>7 DEF Rows
<1>10. /\ a.state = StateAfter(e) /\ a.version = g.version + 1
       /\ a.owner = (IF e.type = "claimed" THEN e.subject ELSE g.owner)
       /\ a.lease = (IF e.type = "claimed" THEN e.subject ELSE g.lease)
       /\ a.reviewer = g.reviewer /\ a.target = g.target
       /\ a.has = g.has \ Withdrawn(e)
  BY <1>2 DEF Advance, Rows
<1>11. a.artifacts = (IF e.type = "submitted" /\ e.artifacts > 0
                      THEN e.artifacts ELSE g.artifacts)
  BY <1>2 DEF Advance, Rows
<1>12. a.decision = CASE e.type = "reviewed"                      -> e.decision
                      [] e.type \in {"checkpointed", "submitted"} -> "none"
                      [] OTHER                                    -> g.decision
  BY <1>2 DEF Advance, Rows
<1> QED BY <1>4, <1>8, <1>9, <1>10, <1>11, <1>12

\* An event taken or skipped: a row stays a row, and who reviews it and whether it
\* has a target are not the log's to say.
LEMMA TakeType ==
  ASSUME NEW k \in Kinds, NEW h \in Rows, NEW e \in Events
  PROVE  /\ Take(k, h, e) \in Rows
         /\ Take(k, h, e).reviewer = h.reviewer
         /\ Take(k, h, e).target = h.target
<1>1. CASE ~ Accepts(k, h, e)
  BY <1>1 DEF Take
<1>2. CASE Accepts(k, h, e) /\ e.type \in Signals
  <2>1. Take(k, h, e) = HydrateFlags(k, h)
    BY <1>2 DEF Take, Apply
  <2>2. HydrateFlags(k, h) = [h EXCEPT !.has = h.has \cup Implied(k, h)]
    BY DEF HydrateFlags
  <2> QED BY <2>1, <2>2, HydrateType DEF Rows
<1>3. CASE Accepts(k, h, e) /\ e.type \notin Signals
  <2>1. Take(k, h, e) = Apply(k, h, e)
    BY <1>3 DEF Take
  <2> QED BY <1>3, <2>1, ApplyColumns
<1> QED BY <1>1, <1>2, <1>3

\* Whatever the log, a replay (replayHandoffProjectionTx) makes a row of a row and
\* keeps its reviewer and whether it has a target.
THEOREM ReplayType ==
  ASSUME NEW k \in Kinds, NEW h \in Rows, NEW es \in Seq(Events)
  PROVE  /\ Replay(k, h, es) \in Rows
         /\ Replay(k, h, es).reviewer = h.reviewer
         /\ Replay(k, h, es).target = h.target
<1> DEFINE Good(r) == r \in Rows /\ r.reviewer = h.reviewer /\ r.target = h.target
           T == {f \in Seq(Events) : Good(Replay(k, h, f))}
<1>1. << >> \in T
  <2>1. << >> \in Seq(Events)
    OBVIOUS
  <2> QED BY <2>1, ReplayEmpty
<1>2. ASSUME NEW f \in Seq(Events), NEW e \in Events, f \in T
      PROVE  Append(f, e) \in T
  <2>1. PICK r \in Rows : r = Replay(k, h, f) /\ Good(r)
    BY <1>2
  <2>2. Good(Take(k, r, e))
    BY <2>1, TakeType
  <2>3. Replay(k, h, Append(f, e)) = Take(k, r, e)
    BY <2>1, ReplayAppend
  <2> QED BY <2>2, <2>3
<1> HIDE DEF T
<1>3. \A f \in Seq(Events) : f \in T
  BY <1>1, <1>2, LogInduction
<1> QED BY <1>3 DEF T

----------------------------------------------------------------------------
\* A replay that leads nowhere

\* Nothing in the log moves a handoff that is in row h.
Inert(k, h, es) == \A i \in DOMAIN es : es[i].type \in Signals \/ ~ Accepts(k, h, es[i])

\* One more event.
LEMMA InertLonger ==
  ASSUME NEW k, NEW h, NEW es \in Seq(Events), NEW e \in Events
  PROVE  Inert(k, h, Append(es, e))
           <=> Inert(k, h, es) /\ (e.type \in Signals \/ ~ Accepts(k, h, e))
<1>1. /\ DOMAIN Append(es, e) = (DOMAIN es) \cup {Len(es) + 1}
      /\ \A i \in DOMAIN es : Append(es, e)[i] = es[i]
      /\ Append(es, e)[Len(es) + 1] = e
  OBVIOUS
<1> QED BY <1>1 DEF Inert

\* Other events, but no new ones.
LEMMA InertFewer ==
  ASSUME NEW k, NEW h, NEW es, NEW f, Range(f) \subseteq Range(es), Inert(k, h, es)
  PROVE  Inert(k, h, f)
<1>1. ASSUME NEW i \in DOMAIN f PROVE \E n \in DOMAIN es : es[n] = f[i]
  BY DEF Range
<1> QED BY <1>1 DEF Inert

\* A new row has no flag to hydrate.
LEMMA NothingImplied ==
  ASSUME NEW k \in Kinds, NEW h \in Rows, h.state = "created"
  PROVE  Implied(k, h) = {}
<1>1. "created" \notin Milestones
  BY DEF Milestones, Path
<1> QED BY <1>1 DEF Implied

\* A row as a repair starts from it.
LEMMA BaseType ==
  ASSUME NEW h \in Rows
  PROVE  /\ Base(h) \in Rows /\ Base(Base(h)) = Base(h)
         /\ Base(h).state = "created" /\ Base(h).version = 0 /\ Base(h).owner = NoActor
         /\ Base(h).lease = NoActor /\ Base(h).has = {} /\ Base(h).artifacts = 0
         /\ Base(h).decision = "none"
         /\ Base(h).reviewer = h.reviewer /\ Base(h).target = h.target
<1>1. /\ Base(h).state = "created" /\ Base(h).version = 0 /\ Base(h).owner = NoActor
      /\ Base(h).lease = NoActor /\ Base(h).has = {} /\ Base(h).artifacts = 0
      /\ Base(h).decision = "none"
      /\ Base(h).reviewer = h.reviewer /\ Base(h).target = h.target
  BY DEF Base, Rows
<1>2. Base(h) \in Rows
  BY DEF Base, Rows, States, Decisions
<1>3. Base(Base(h)) = Base(h)
  <2>1. PICK b \in Rows : b = Base(h)
    BY <1>2
  <2>2. Base(b) = b
    BY <1>1, <2>1 DEF Base, Rows
  <2> QED BY <2>1, <2>2
<1> QED BY <1>1, <1>2, <1>3

\* Rows with the same reviewer and target start alike.
LEMMA SameBase ==
  ASSUME NEW h \in Rows, NEW r \in Rows, h.reviewer = r.reviewer, h.target = r.target
  PROVE  Base(h) = Base(r)
<1>1. PICK b \in Rows : b = Base(h)
  BY BaseType
<1>2. PICK c \in Rows : c = Base(r)
  BY BaseType
<1>3. /\ b.state = c.state /\ b.version = c.version /\ b.owner = c.owner /\ b.lease = c.lease
      /\ b.reviewer = c.reviewer /\ b.target = c.target /\ b.has = c.has
      /\ b.artifacts = c.artifacts /\ b.decision = c.decision
  BY <1>1, <1>2, BaseType
<1>4. b = c
  BY <1>3 DEF Rows
<1> QED BY <1>1, <1>2, <1>4

\* No event leads back to "created".
LEMMA NeverBack ==
  ASSUME NEW e \in Events, e.type \notin Signals
  PROVE  StateAfter(e) # "created"
<1>1. e.type # "created"
  BY DEF Events, EventTypes, Signals, Milestones, Path, Ended
<1> QED BY <1>1 DEF StateAfter

\* An event leaves a row as Base makes it in that state only if it leaves it alone.
LEMMA TakeCreated ==
  ASSUME NEW k \in Kinds, NEW h \in Rows, h = Base(h), NEW e \in Events
  PROVE  /\ Take(k, h, e).state = "created"
           <=> e.type \in Signals \/ ~ Accepts(k, h, e)
         /\ Take(k, h, e).state = "created" => Take(k, h, e) = h
<1>1. h.state = "created" /\ h.has = {}
  BY DEF Base, Rows
<1>2. CASE ~ Accepts(k, h, e)
  BY <1>1, <1>2 DEF Take
<1>3. CASE Accepts(k, h, e) /\ e.type \in Signals
  <2>1. Take(k, h, e) = HydrateFlags(k, h)
    BY <1>3 DEF Take, Apply
  <2>2. HydrateFlags(k, h) = [h EXCEPT !.has = {} \cup {}]
    BY <1>1, NothingImplied DEF HydrateFlags
  <2>3. [h EXCEPT !.has = {} \cup {}] = h
    BY <1>1 DEF Rows
  <2> QED BY <1>1, <1>3, <2>1, <2>2, <2>3
<1>4. CASE Accepts(k, h, e) /\ e.type \notin Signals
  <2>1. Take(k, h, e).state = StateAfter(e)
    BY <1>4, ApplyColumns DEF Take
  <2> QED BY <1>4, <2>1, NeverBack
<1> QED BY <1>2, <1>3, <1>4

\* A replay ends in "created" exactly if nothing in the log moves a new row, and then
\* it gives that row: what replayHandoffProjectionTx makes of a reopened handoff.
THEOREM ReplayCreated ==
  ASSUME NEW k \in Kinds, NEW h \in Rows, h = Base(h), NEW es \in Seq(Events)
  PROVE  /\ Replay(k, h, es).state = "created" <=> Inert(k, h, es)
         /\ Inert(k, h, es) => Replay(k, h, es) = h
<1> DEFINE Good(f) == /\ Replay(k, h, f).state = "created" <=> Inert(k, h, f)
                      /\ Inert(k, h, f) => Replay(k, h, f) = h
                      /\ Replay(k, h, f) \in Rows
           T == {f \in Seq(Events) : Good(f)}
<1>1. << >> \in T
  <2>1. << >> \in Seq(Events) /\ Replay(k, h, << >>) = h
    BY ReplayEmpty
  <2>2. h.state = "created"
    BY DEF Base, Rows
  <2> QED BY <2>1, <2>2 DEF Inert
<1>2. ASSUME NEW f \in Seq(Events), NEW e \in Events, f \in T
      PROVE  Append(f, e) \in T
  <2>1. Append(f, e) \in Seq(Events) /\ Good(f)
    BY <1>2
  <2>2. PICK r \in Rows : r = Replay(k, h, f)
    BY <2>1
  <2>3. Replay(k, h, Append(f, e)) = Take(k, r, e)
    BY <2>2, ReplayAppend
  <2>4. Inert(k, h, Append(f, e)) <=> Inert(k, h, f) /\ (e.type \in Signals \/ ~ Accepts(k, h, e))
    BY InertLonger
  <2>5. CASE Inert(k, h, f)
    <3>1. r = h
      BY <2>1, <2>2, <2>5
    <3> QED BY <2>1, <2>3, <2>4, <2>5, <3>1, TakeCreated, TakeType
  <2>6. CASE ~ Inert(k, h, f)
    <3>1. r.state # "created"
      BY <2>1, <2>2, <2>6
    <3>2. Take(k, r, e).state # "created"
      <4>1. CASE ~ Accepts(k, r, e)
        BY <3>1, <4>1 DEF Take
      <4>2. CASE Accepts(k, r, e) /\ e.type \in Signals
        BY <3>1, <4>2, ApplyStep DEF Take
      <4>3. CASE Accepts(k, r, e) /\ e.type \notin Signals
        <5>1. Take(k, r, e).state = StateAfter(e)
          BY <4>3, ApplyColumns DEF Take
        <5> QED BY <4>3, <5>1, NeverBack
      <4> QED BY <4>1, <4>2, <4>3
    <3> QED BY <2>1, <2>3, <2>4, <2>6, <3>2, TakeType
  <2> QED BY <2>5, <2>6
<1> HIDE DEF T
<1>3. \A f \in Seq(Events) : f \in T
  BY <1>1, <1>2, LogInduction
<1> QED BY <1>3 DEF T

----------------------------------------------------------------------------
\* Rows that a log treats alike

\* A new handoff is owned by its receiver, a repaired one by nobody, and it makes
\* no difference: the receiver may act either way, and nobody acts as no actor.
Alike(k, h, r) ==
  /\ h.state = r.state /\ h.version = r.version /\ h.lease = r.lease
  /\ h.reviewer = r.reviewer /\ h.target = r.target /\ h.has = r.has
  /\ h.artifacts = r.artifacts /\ h.decision = r.decision
  /\ h.owner = r.owner \/ {h.owner, r.owner} \subseteq {k.receiver, NoActor}

\* Such rows have the same flags to hydrate and accept the same events.
LEMMA AlikeAccepts ==
  ASSUME NEW k \in Kinds, NEW h \in Rows, NEW r \in Rows, Alike(k, h, r), NEW e \in Events
  PROVE  /\ Implied(k, h) = Implied(k, r)
         /\ Alike(k, HydrateFlags(k, h), HydrateFlags(k, r))
         /\ Accepts(k, h, e) <=> Accepts(k, r, e)
<1>1. Implied(k, h) = Implied(k, r)
  BY DEF Alike, Implied
<1>2. PICK g \in Rows : g = HydrateFlags(k, h)
  BY HydrateType
<1>3. PICK q \in Rows : q = HydrateFlags(k, r)
  BY HydrateType
<1>4. Alike(k, g, q)
  <2>1. g = [h EXCEPT !.has = h.has \cup Implied(k, h)]
    BY <1>2 DEF HydrateFlags
  <2>2. q = [r EXCEPT !.has = r.has \cup Implied(k, r)]
    BY <1>3 DEF HydrateFlags
  <2> QED BY <1>1, <2>1, <2>2 DEF Alike, Rows
<1>5. Allows(k, g, e) <=> Allows(k, q, e)
  BY <1>4 DEF Alike, Allows, InRevision, MayComplete, CompletionPrereqs, MayFail, MayExpire
<1>6. ByReviewer(h, e) <=> ByReviewer(r, e)
  BY DEF Alike, ByReviewer
<1>7. ByWorker(k, h, e) <=> ByWorker(k, r, e)
  BY DEF Alike, ByWorker
<1>8. Permits(k, h, e) <=> Permits(k, r, e)
  BY <1>6, <1>7 DEF Permits
<1> QED BY <1>1, <1>2, <1>3, <1>4, <1>5, <1>8 DEF Accepts

\* An event leads from such rows to such rows.
LEMMA AlikeTake ==
  ASSUME NEW k \in Kinds, NEW h \in Rows, NEW r \in Rows, Alike(k, h, r), NEW e \in Events
  PROVE  Alike(k, Take(k, h, e), Take(k, r, e))
<1>1. CASE ~ Accepts(k, h, e)
  BY <1>1, AlikeAccepts DEF Take
<1>2. CASE Accepts(k, h, e) /\ e.type \in Signals
  BY <1>2, AlikeAccepts DEF Take, Apply
<1>3. CASE Accepts(k, h, e) /\ e.type \notin Signals
  <2>1. Accepts(k, r, e) /\ Implied(k, h) = Implied(k, r)
    BY <1>3, AlikeAccepts
  <2>2. PICK a \in Rows : a = Apply(k, h, e)
    BY <1>3, ApplyColumns
  <2>3. PICK c \in Rows : c = Apply(k, r, e)
    BY <1>3, <2>1, ApplyColumns
  <2>4. a.state = c.state
    BY <1>3, <2>1, <2>2, <2>3, ApplyColumns
  <2>5. Implied(k, a) = Implied(k, c)
    BY <2>4 DEF Implied
  <2>6. /\ a.version = c.version /\ a.lease = c.lease /\ a.reviewer = c.reviewer
        /\ a.target = c.target /\ a.artifacts = c.artifacts
        /\ a.owner = c.owner \/ {a.owner, c.owner} \subseteq {k.receiver, NoActor}
    BY <1>3, <2>1, <2>2, <2>3, ApplyColumns DEF Alike
  <2>7. a.has = c.has
    <3>1. a.has = ((h.has \cup Implied(k, h)) \ Withdrawn(e)) \cup Implied(k, a)
      BY <1>3, <2>2, ApplyColumns
    <3>2. c.has = ((r.has \cup Implied(k, r)) \ Withdrawn(e)) \cup Implied(k, c)
      BY <1>3, <2>1, <2>3, ApplyColumns
    <3>3. h.has = r.has
      BY DEF Alike
    <3> QED BY <2>1, <2>5, <3>1, <3>2, <3>3
  <2>8. a.decision = c.decision
    BY <1>3, <2>1, <2>2, <2>3, ApplyColumns DEF Alike
  <2>9. Alike(k, a, c)
    BY <2>4, <2>6, <2>7, <2>8 DEF Alike
  <2> QED BY <1>3, <2>1, <2>2, <2>3, <2>9 DEF Take
<1> QED BY <1>1, <1>2, <1>3

----------------------------------------------------------------------------
\* Rows with every flag their state implies

Hydrated(k, h) == Implied(k, h) \subseteq h.has

\* New rows have.
LEMMA NewHydrated ==
  ASSUME NEW k \in Kinds, NEW h \in Rows, h.state = "created"
  PROVE  Hydrated(k, h)
BY NothingImplied DEF Hydrated

\* An event taken leaves such a row, and a transport signal leaves it as it is.
LEMMA TakeHydrated ==
  ASSUME NEW k \in Kinds, NEW h \in Rows, Hydrated(k, h), NEW e \in Events
  PROVE  /\ Hydrated(k, Take(k, h, e))
         /\ e.type \in Signals => Take(k, h, e) = h
<1>1. CASE ~ Accepts(k, h, e)
  BY <1>1 DEF Take
<1>2. CASE Accepts(k, h, e) /\ e.type \in Signals
  <2>1. Take(k, h, e) = [h EXCEPT !.has = h.has \cup Implied(k, h)]
    BY <1>2 DEF Take, Apply, HydrateFlags
  <2>2. h.has \cup Implied(k, h) = h.has
    BY DEF Hydrated
  <2>3. [h EXCEPT !.has = h.has] = h
    BY DEF Rows
  <2> QED BY <2>1, <2>2, <2>3
<1>3. CASE Accepts(k, h, e) /\ e.type \notin Signals
  <2>1. PICK r \in Rows : r = Apply(k, h, e)
    BY <1>3, ApplyColumns
  <2>2. r.has = ((h.has \cup Implied(k, h)) \ Withdrawn(e)) \cup Implied(k, r)
    BY <1>3, <2>1, ApplyColumns
  <2> QED BY <1>3, <2>1, <2>2 DEF Hydrated, Take
<1> QED BY <1>1, <1>2, <1>3

\* So does a replay.
LEMMA ReplayHydrated ==
  ASSUME NEW k \in Kinds, NEW h \in Rows, Hydrated(k, h), NEW es \in Seq(Events)
  PROVE  Hydrated(k, Replay(k, h, es))
<1> DEFINE T == {f \in Seq(Events) : Hydrated(k, Replay(k, h, f))}
<1>1. << >> \in T
  <2>1. << >> \in Seq(Events)
    OBVIOUS
  <2> QED BY <2>1, ReplayEmpty
<1>2. ASSUME NEW f \in Seq(Events), NEW e \in Events, f \in T
      PROVE  Append(f, e) \in T
  <2>1. Replay(k, h, f) \in Rows
    BY ReplayType
  <2>2. Hydrated(k, Take(k, Replay(k, h, f), e))
    BY <1>2, <2>1, TakeHydrated
  <2>3. Replay(k, h, Append(f, e)) = Take(k, Replay(k, h, f), e)
    BY ReplayAppend
  <2> QED BY <2>2, <2>3
<1> HIDE DEF T
<1>3. \A f \in Seq(Events) : f \in T
  BY <1>1, <1>2, LogInduction
<1> QED BY <1>3 DEF T

\* A new row accepts no more for having a target or another reviewer.
LEMMA NewAccepts ==
  ASSUME NEW k \in Kinds, NEW h \in Rows, h = Base(h), NEW r \in Rows, r = Base(r),
         h.target => r.target,
         NEW e \in Events, e.type \notin Signals, Accepts(k, r, e)
  PROVE  Accepts(k, h, e)
<1>1. /\ h.state = "created" /\ r.state = "created" /\ h.has = {} /\ r.has = {}
      /\ h.owner = NoActor /\ h.lease = NoActor /\ r.owner = NoActor /\ r.lease = NoActor
  BY BaseType
<1>2. ASSUME NEW q \in Rows, q.state = "created", q.has = {} PROVE HydrateFlags(k, q) = q
  <2>1. HydrateFlags(k, q) = [q EXCEPT !.has = {} \cup {}]
    BY <1>2, NothingImplied DEF HydrateFlags
  <2> QED BY <1>2, <2>1 DEF Rows
<1>3. HydrateFlags(k, h) = h /\ HydrateFlags(k, r) = r
  BY <1>1, <1>2
<1>4. "created" \notin UpTo(5) /\ "created" \notin Ended
  BY DEF UpTo, Path, Ended
<1>5. Allows(k, r, e) /\ Permits(k, r, e)
  BY <1>3 DEF Accepts
<1>6. /\ e.type \in {"transport_requested", "received", "failed"}
      /\ Allows(k, h, e)
  BY <1>1, <1>4, <1>5 DEF Allows, InRevision, MayComplete, MayFail, MayExpire
<1>7. ByWorker(k, r, e) <=> ByWorker(k, h, e)
  BY <1>1 DEF ByWorker
<1>8. Permits(k, h, e)
  BY <1>5, <1>6, <1>7 DEF Permits
<1> QED BY <1>3, <1>6, <1>8 DEF Accepts

\* So what leads nowhere from one leads nowhere from the other.
LEMMA InertEither ==
  ASSUME NEW k \in Kinds, NEW h \in Rows, h = Base(h), NEW r \in Rows, r = Base(r),
         h.target => r.target, NEW es \in Seq(Events), Inert(k, h, es)
  PROVE  Inert(k, r, es)
<1>1. ASSUME NEW i \in DOMAIN es PROVE es[i].type \in Signals \/ ~ Accepts(k, r, es[i])
  <2>1. es[i] \in Events
    OBVIOUS
  <2> QED BY <2>1, NewAccepts DEF Inert
<1> QED BY <1>1 DEF Inert

----------------------------------------------------------------------------
\* The order of the milestones

\* The places of the milestones on the path.
LEMMA PlaceValues ==
  /\ Place("received") = 1 /\ Place("claimed") = 2 /\ Place("started") = 3
  /\ Place("checkpointed") = 4 /\ Place("submitted") = 5 /\ Place("reviewed") = 6
<1>1. \A i \in 1 .. 6 : i = 1 \/ i = 2 \/ i = 3 \/ i = 4 \/ i = 5 \/ i = 6
  OBVIOUS
<1>2. /\ Path[1] = "received" /\ Path[2] = "claimed" /\ Path[3] = "started"
      /\ Path[4] = "checkpointed" /\ Path[5] = "submitted" /\ Path[6] = "reviewed"
  BY DEF Path
<1>3. \A i \in 1 .. 6 :
        /\ Path[i] = "received" <=> i = 1
        /\ Path[i] = "claimed" <=> i = 2
        /\ Path[i] = "started" <=> i = 3
        /\ Path[i] = "checkpointed" <=> i = 4
        /\ Path[i] = "submitted" <=> i = 5
        /\ Path[i] = "reviewed" <=> i = 6
  BY <1>1, <1>2
<1> QED BY <1>3 DEF Place

\* The milestones spelt out, and those up to the checkpoint.
LEMMA Places ==
  /\ Milestones = {"received", "claimed", "started", "checkpointed", "submitted", "reviewed"}
  /\ UpTo(4) = {"received", "claimed", "started", "checkpointed"}
<1>1. \A i \in 1 .. 6 : i = 1 \/ i = 2 \/ i = 3 \/ i = 4 \/ i = 5 \/ i = 6
  OBVIOUS
<1>2. \A i \in 1 .. 4 : i = 1 \/ i = 2 \/ i = 3 \/ i = 4
  OBVIOUS
<1>3. /\ Path[1] = "received" /\ Path[2] = "claimed" /\ Path[3] = "started"
      /\ Path[4] = "checkpointed" /\ Path[5] = "submitted" /\ Path[6] = "reviewed"
  BY DEF Path
<1>4. /\ 1 \in 1 .. 6 /\ 2 \in 1 .. 6 /\ 3 \in 1 .. 6 /\ 4 \in 1 .. 6 /\ 5 \in 1 .. 6 /\ 6 \in 1 .. 6
      /\ 1 \in 1 .. 4 /\ 2 \in 1 .. 4 /\ 3 \in 1 .. 4 /\ 4 \in 1 .. 4
  OBVIOUS
<1>5. Milestones = {"received", "claimed", "started", "checkpointed", "submitted", "reviewed"}
  BY <1>1, <1>3, <1>4 DEF Milestones
<1>6. UpTo(4) = {"received", "claimed", "started", "checkpointed"}
  BY <1>2, <1>3, <1>4 DEF UpTo
<1> QED BY <1>5, <1>6

\* A milestone is accepted in the state of one before it, or of the review.
LEMMA Earlier ==
  ASSUME NEW k \in Kinds, NEW g \in Rows, NEW e \in Events, Allows(k, g, e),
         e.type \in Milestones, NEW m \in Milestones, Place(m) < Place(e.type)
  PROVE  g.state \in Milestones /\ Place(m) <= Place(g.state)
<1>1. /\ e.type = "received" => FALSE
      /\ e.type = "claimed" => g.state = "received"
      /\ e.type = "started" => g.state = "claimed"
      /\ e.type = "checkpointed" => g.state \in {"started", "reviewed"}
      /\ e.type = "submitted" => g.state \in {"checkpointed", "reviewed"}
      /\ e.type = "reviewed" => g.state = "submitted"
  <2>1. e.type # "received"
    BY Places, PlaceValues
  <2> QED BY <2>1 DEF Allows, Signals, InRevision
<1> QED BY <1>1, Places, PlaceValues

\* An accepted event brings no milestone flag but its own: the others are those of
\* the state it finds.
LEMMA NewFlags ==
  ASSUME NEW k \in Kinds, NEW r \in Rows, Hydrated(k, r), NEW e \in Events,
         e.type \notin Signals, Accepts(k, r, e), NEW m \in UpTo(4), m \in Apply(k, r, e).has
  PROVE  m \in r.has \/ m = e.type
<1>1. PICK q \in Rows : q = Apply(k, r, e) /\ q.state = StateAfter(e)
                        /\ q.has = ((r.has \cup Implied(k, r)) \ Withdrawn(e)) \cup Implied(k, q)
  BY ApplyColumns
<1>2. Implied(k, r) \subseteq r.has
  BY DEF Hydrated
<1>3. SUFFICES ASSUME m \in Implied(k, q) PROVE m \in r.has \/ m = e.type
  BY <1>1, <1>2
<1>4. PICK g \in Rows : g.state = r.state /\ Allows(k, g, e) /\ g.has = r.has
  <2>1. HydrateFlags(k, r) = [r EXCEPT !.has = r.has \cup Implied(k, r)]
    BY DEF HydrateFlags
  <2>2. HydrateFlags(k, r).has = r.has
    BY <1>2, <2>1 DEF Rows
  <2> QED BY <2>2, HydrateType DEF Accepts
<1>5. m \in Milestones /\ "completed" \notin Milestones /\ "transport_requested" \notin Milestones
  BY Places
<1>6. CASE e.type = "completed"
  <2>1. UpTo(4) \subseteq g.has
    BY <1>4, <1>6 DEF Allows, CompletionPrereqs, Signals
  <2> QED BY <1>4, <2>1
<1>7. CASE e.type \in Milestones
  <2>1. Place(m) <= Place(e.type)
    BY <1>1, <1>3, <1>5, <1>7 DEF StateAfter, Implied
  <2>2. CASE m # e.type
    <3>1. Place(m) < Place(e.type)
      BY <1>5, <1>7, <2>1, <2>2, Places, PlaceValues
    <3>2. r.state \in Milestones /\ Place(m) <= Place(r.state)
      BY <1>4, <1>5, <1>7, <3>1, Earlier
    <3>3. m \in Implied(k, r)
      BY <1>5, <3>2 DEF Implied
    <3> QED BY <1>2, <3>3
  <2> QED BY <2>2
<1>8. CASE e.type \notin Milestones \cup {"completed"}
  <2>1. q.state \notin Milestones \cup {"completed"}
    BY <1>1, <1>8, Places DEF StateAfter
  <2> QED BY <1>3, <2>1 DEF Implied
<1> QED BY <1>6, <1>7, <1>8
=============================================================================
