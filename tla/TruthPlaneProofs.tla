-------------------------- MODULE TruthPlaneProofs --------------------------
(***************************************************************************)
(* The truth plane for every number of handoffs, callers, events and       *)
(* repairs: the types of its tables, what only a repair takes back, and,   *)
(* where operations on one handoff do not overlap, that rows and logs      *)
(* agree, completions are earned, and each handoff is the log of accepted  *)
(* events that HandoffLog promises.                                        *)
(***************************************************************************)
EXTENDS TruthPlane, HandoffStateMachineProofs, FiniteSetTheorems

----------------------------------------------------------------------------
\* The entries of a log

\* Those of an operation under way.
Theirs(s, c) == {i \in DOMAIN s : s[i].by = c}

\* What Keep makes of a log.
Kept(s, i) == [s EXCEPT ![i] = [event |-> s[i].event, by |-> NoOne, status |-> "accepted"]]

\* Stamp adds an entry at the end of a log.
LEMMA StampedLog ==
  ASSUME NEW s \in Seq(Entries), NEW x \in Entries, NEW c
  PROVE  /\ Append(s, x) \in Seq(Entries)
         /\ Theirs(Append(s, x), c) =
              Theirs(s, c) \cup (IF x.by = c THEN {Len(s) + 1} ELSE {})
  <1>1. /\ Append(s, x) \in Seq(Entries)
        /\ DOMAIN Append(s, x) = (DOMAIN s) \cup {Len(s) + 1}
        /\ \A i \in DOMAIN s : Append(s, x)[i] = s[i]
        /\ Append(s, x)[Len(s) + 1] = x
        /\ Len(s) + 1 \notin DOMAIN s
    OBVIOUS
  <1>. QED
    BY <1>1 DEF Theirs

\* Keep leaves the log's other entries alone.
LEMMA KeptLog ==
  ASSUME NEW s \in Seq(Entries), NEW i \in DOMAIN s, NEW c \in Callers
  PROVE  /\ Kept(s, i) \in Seq(Entries)
         /\ Theirs(Kept(s, i), c) = Theirs(s, c) \ {i}
  <1>1. [event |-> s[i].event, by |-> NoOne, status |-> "accepted"] \in Entries
    <2>1. s[i] \in Entries
      OBVIOUS
    <2>. QED
      BY <2>1 DEF Entries
  <1>2. Kept(s, i) \in Seq(Entries)
    BY <1>1 DEF Kept
  <1>3. /\ DOMAIN Kept(s, i) = DOMAIN s
        /\ Kept(s, i)[i].by = NoOne
        /\ \A j \in DOMAIN s : j # i => Kept(s, i)[j] = s[j]
    BY DEF Kept
  <1>. QED
    BY <1>2, <1>3, TruthAssumption DEF Theirs

\* Drop closes the gap.
LEMMA DroppedLog ==
  ASSUME NEW s \in Seq(Entries), NEW i \in DOMAIN s
  PROVE  /\ RemoveAt(s, i) \in Seq(Entries)
         /\ Len(RemoveAt(s, i)) = Len(s) - 1
         /\ \A j \in 1 .. Len(s) - 1 : RemoveAt(s, i)[j] = IF j < i THEN s[j] ELSE s[j + 1]
  <1>. DEFINE a == SubSeq(s, 1, i - 1)
              b == SubSeq(s, i + 1, Len(s))
  <1>1. Len(s) \in Nat /\ i \in 1 .. Len(s)
    OBVIOUS
  <1>2. /\ a \in Seq(Entries) /\ Len(a) = i - 1
        /\ \A j \in 1 .. i - 1 : a[j] = s[j]
    BY <1>1
  <1>3. /\ b \in Seq(Entries) /\ Len(b) = Len(s) - i
        /\ \A j \in 1 .. Len(s) - i : b[j] = s[j + i]
    BY <1>1
  <1>. HIDE DEF a, b
  <1>4. /\ a \o b \in Seq(Entries) /\ Len(a \o b) = Len(s) - 1
        /\ \A j \in 1 .. Len(s) - 1 :
             (a \o b)[j] = IF j < i THEN a[j] ELSE b[j - (i - 1)]
    <2>1. /\ a \o b \in Seq(Entries) /\ Len(a \o b) = Len(a) + Len(b)
          /\ \A j \in 1 .. Len(a) + Len(b) :
               (a \o b)[j] = IF j <= Len(a) THEN a[j] ELSE b[j - Len(a)]
      BY <1>2, <1>3
    <2>. QED
      BY <1>1, <1>2, <1>3, <2>1
  <1>5. \A j \in 1 .. Len(s) - 1 : (a \o b)[j] = IF j < i THEN s[j] ELSE s[j + 1]
    BY <1>1, <1>2, <1>3, <1>4
  <1>. QED
    BY <1>4, <1>5 DEF RemoveAt, a, b

\* Removing an entry of a caller's leaves none of his, and moves another's single entry down.
LEMMA DroppedTheirs ==
  ASSUME NEW s \in Seq(Entries), NEW i \in DOMAIN s, NEW c
  PROVE  /\ Theirs(s, c) \subseteq {i} => Theirs(RemoveAt(s, i), c) = {}
         /\ \A j : Theirs(s, c) = {j} /\ j # i =>
              Theirs(RemoveAt(s, i), c) = {IF j < i THEN j ELSE j - 1}
  <1>. DEFINE t == RemoveAt(s, i)
  <1>1. /\ DOMAIN t = 1 .. Len(s) - 1
        /\ \A j \in 1 .. Len(s) - 1 : t[j] = IF j < i THEN s[j] ELSE s[j + 1]
    BY DroppedLog
  <1>. HIDE DEF t
  <1>2. DOMAIN s = 1 .. Len(s) /\ Len(s) \in Nat /\ i \in 1 .. Len(s)
    OBVIOUS
  <1>3. ASSUME Theirs(s, c) \subseteq {i} PROVE Theirs(t, c) = {}
    BY <1>1, <1>2, <1>3 DEF Theirs
  <1>4. ASSUME NEW j, Theirs(s, c) = {j}, j # i
        PROVE  Theirs(t, c) = {IF j < i THEN j ELSE j - 1}
    <2>1. j \in 1 .. Len(s) /\ s[j].by = c /\ \A n \in 1 .. Len(s) : s[n].by = c => n = j
      BY <1>2, <1>4 DEF Theirs
    <2>2. CASE j < i
      BY <1>1, <1>2, <2>1, <2>2 DEF Theirs
    <2>3. CASE j > i
      <3>1. j - 1 \in 1 .. Len(s) - 1 /\ ~ (j - 1 < i)
        BY <1>2, <2>1, <2>3
      <3>2. t[j - 1].by = c
        BY <1>1, <2>1, <3>1
      <3>3. \A n \in 1 .. Len(s) - 1 : t[n].by = c => n = j - 1
        BY <1>1, <1>2, <2>1, <2>3
      <3>4. ~ (j < i)
        BY <1>2, <2>1, <2>3
      <3>. QED
        BY <1>1, <3>1, <3>2, <3>3, <3>4 DEF Theirs
    <2>. QED
      BY <1>2, <1>4, <2>1, <2>2, <2>3
  <1>. QED
    BY <1>3, <1>4 DEF t

\* Invalidating changes statuses.
LEMMA InvalidatedLog ==
  ASSUME NEW s \in Seq(Entries), NEW ids, NEW c
  PROVE  /\ Invalidated(s, ids) \in Seq(Entries)
         /\ Theirs(Invalidated(s, ids), c) = Theirs(s, c)
  <1>1. \A i \in DOMAIN s : s[i] \in Entries
    OBVIOUS
  <1>2. \A i \in DOMAIN s : [s[i] EXCEPT !.status = "invalid"] \in Entries
    BY <1>1 DEF Entries
  <1>3. DOMAIN s = 1 .. Len(s) /\ Len(s) \in Nat
    OBVIOUS
  <1>4. Invalidated(s, ids) \in [1 .. Len(s) -> Entries]
    BY <1>1, <1>2, <1>3 DEF Invalidated
  <1>5. Invalidated(s, ids) \in Seq(Entries)
    BY <1>3, <1>4
  <1>6. /\ DOMAIN Invalidated(s, ids) = DOMAIN s
        /\ \A i \in DOMAIN s : Invalidated(s, ids)[i].by = s[i].by
    BY <1>1 DEF Invalidated, Entries
  <1>. QED
    BY <1>5, <1>6 DEF Theirs

----------------------------------------------------------------------------
\* Type correctness

Calls == [at : {"idle", "record", "backfill", "save", "own"},
          h : Handoffs \cup {NoOne}, copy : Rows \cup {NoOne}]

\* An operation o that has an entry in the log of h.
Recording(o, h) == o.h = h /\ o.at \in {"record", "backfill", "save"}

Tables ==
  /\ row      \in [Handoffs -> Rows]
  /\ timeline \in [Handoffs -> Seq(Entries)]
  /\ call     \in [Callers -> Calls]

\* An operation under way has a handoff; one that writes a row back has read one.
CallOK ==
  \A c \in Callers :
    /\ call[c].at = "idle" <=> call[c].h = NoOne
    /\ call[c].at \in {"save", "own"} => call[c].copy \in Rows

PendingOK ==
  \A c \in Callers, h \in Handoffs :
    IF Recording(call[c], h) THEN \E i : Theirs(timeline[h], c) = {i}
                             ELSE Theirs(timeline[h], c) = {}

Backfilling == {c \in Callers : call[c].at = "backfill"}

\* Repairs under way have been counted against the bound.
Budget ==
  /\ repairs \in Nat /\ repairs + Cardinality(Backfilling) <= MaxRepairs
  /\ rewrites \in 0 .. MaxRewrites

TypeInv == Tables /\ CallOK /\ PendingOK /\ Budget

\* The inductive type invariant implies the one the runs check.
LEMMA TypeInvTypeOK ==
  TypeInv => TypeOK
  <1>. SUFFICES ASSUME TypeInv PROVE TypeOK
    OBVIOUS
  <1>1. Tables
    BY DEF TypeInv
  <1>2. ASSUME NEW c \in Callers, NEW h \in Handoffs
        PROVE  Cardinality(Pending(c, h)) =
                 IF call[c].h = h /\ call[c].at \in {"record", "backfill", "save"} THEN 1 ELSE 0
    <2>1. Pending(c, h) = Theirs(timeline[h], c)
      BY DEF Pending, Theirs
    <2>2. CASE Recording(call[c], h)
      <3>1. PICK i : Pending(c, h) = {i}
        BY <2>1, <2>2 DEF TypeInv, PendingOK
      <3>2. Cardinality({i}) = 1
        BY FS_Singleton
      <3>. QED
        BY <2>2, <3>1, <3>2 DEF Recording
    <2>3. CASE ~ Recording(call[c], h)
      <3>1. Pending(c, h) = {}
        BY <2>1, <2>3 DEF TypeInv, PendingOK
      <3>. QED
        BY <2>3, <3>1, FS_EmptySet DEF Recording
    <2>. QED
      BY <2>2, <2>3
  <1>3. Cardinality(Backfilling) \in Nat
    BY FS_Subset, FS_CardinalityType, TruthAssumption DEF Backfilling
  <1>4. repairs \in 0 .. MaxRepairs /\ rewrites \in 0 .. MaxRewrites
    BY <1>3, TruthAssumption DEF TypeInv, Budget
  <1>. QED
    BY <1>1, <1>2, <1>4 DEF TypeOK, Tables, Calls

\* An operation begins and stamps its event (Stamp, BeginRecording, DispatchHandoff).
LEMMA Begun ==
  ASSUME TypeInv, NEW c \in Callers, NEW h \in Handoffs, NEW e \in Events, NEW o \in Calls,
         call[c].at = "idle", Stamp(h, e, c), call' = [call EXCEPT ![c] = o], Recording(o, h),
         o.at = "save" => o.copy \in Rows, row' = row
  PROVE  Tables' /\ CallOK' /\ PendingOK'
  <1>. DEFINE x == [event |-> e, by |-> c, status |-> "pending"]
              s == Append(timeline[h], x)
  <1>1. Tables /\ CallOK /\ PendingOK
    BY DEF TypeInv
  <1>2. timeline[h] \in Seq(Entries) /\ x \in Entries
    BY <1>1 DEF Tables, Entries
  <1>3. timeline' = [timeline EXCEPT ![h] = s]
    BY DEF Stamp
  <1>4. s \in Seq(Entries)
    BY <1>2
  <1>5. \A d \in Callers : Theirs(s, d) = Theirs(timeline[h], d)
                                          \cup (IF c = d THEN {Len(timeline[h]) + 1} ELSE {})
    BY <1>2, StampedLog
  <1>. HIDE DEF s
  <1>6. Tables'
    BY <1>1, <1>3, <1>4 DEF Tables
  <1>7. h # NoOne
    BY TruthAssumption
  <1>8. CallOK'
    BY <1>1, <1>7 DEF CallOK, Recording, Tables
  <1>9. ASSUME NEW d \in Callers, NEW g \in Handoffs
        PROVE  IF Recording(call'[d], g) THEN \E i : Theirs(timeline'[g], d) = {i}
                                         ELSE Theirs(timeline'[g], d) = {}
    <2>1. IF Recording(call[d], g) THEN \E i : Theirs(timeline[g], d) = {i}
                                   ELSE Theirs(timeline[g], d) = {}
      BY <1>1 DEF PendingOK
    <2>2. CASE g = h
      <3>1. timeline'[g] = s
        BY <1>1, <1>3, <2>2 DEF Tables
      <3>2. CASE d = c
        <4>1. ~ Recording(call[d], g) /\ Recording(call'[d], g)
          BY <1>1, <2>2, <3>2 DEF Recording, Tables
        <4>2. Theirs(s, d) = {Len(timeline[h]) + 1}
          BY <1>5, <2>1, <2>2, <3>2, <4>1
        <4>. QED
          BY <3>1, <4>1, <4>2
      <3>3. CASE d # c
        <4>1. call'[d] = call[d] /\ Theirs(s, d) = Theirs(timeline[h], d)
          BY <1>1, <1>5, <3>3 DEF Tables
        <4>. QED
          BY <2>1, <2>2, <3>1, <4>1
      <3>. QED
        BY <3>2, <3>3
    <2>3. CASE g # h
      <3>1. timeline'[g] = timeline[g]
        BY <1>1, <1>3, <2>3 DEF Tables
      <3>2. Recording(call'[d], g) <=> Recording(call[d], g)
        BY <1>1, <1>7, <2>3 DEF Recording, Tables, CallOK
      <3>. QED
        BY <2>1, <3>1, <3>2
    <2>. QED
      BY <2>2, <2>3
  <1>. QED
    BY <1>6, <1>8, <1>9 DEF PendingOK

\* An operation ends, and leaves the log as s, without an entry of its own.
LEMMA Finished ==
  ASSUME TypeInv, NEW c \in Callers, NEW h \in Handoffs, call[c].h = h, NEW s \in Seq(Entries),
         timeline' = [timeline EXCEPT ![h] = s], call' = [call EXCEPT ![c] = Idle],
         row' \in [Handoffs -> Rows], Theirs(s, c) = {},
         \A d \in Callers \ {c} :
           /\ Theirs(timeline[h], d) = {} => Theirs(s, d) = {}
           /\ \A j : Theirs(timeline[h], d) = {j} => \E i : Theirs(s, d) = {i}
  PROVE  Tables' /\ CallOK' /\ PendingOK'
  <1>1. Tables /\ CallOK /\ PendingOK
    BY DEF TypeInv
  <1>2. Idle \in Calls /\ NoOne \notin Handoffs
    BY TruthAssumption DEF Idle, Calls
  <1>3. Tables'
    BY <1>1, <1>2 DEF Tables
  <1>4. CallOK'
    BY <1>1 DEF CallOK, Idle, Tables
  <1>5. ASSUME NEW d \in Callers, NEW g \in Handoffs
        PROVE  IF Recording(call'[d], g) THEN \E i : Theirs(timeline'[g], d) = {i}
                                         ELSE Theirs(timeline'[g], d) = {}
    <2>1. IF Recording(call[d], g) THEN \E i : Theirs(timeline[g], d) = {i}
                                   ELSE Theirs(timeline[g], d) = {}
      BY <1>1 DEF PendingOK
    <2>2. timeline'[g] = IF g = h THEN s ELSE timeline[g]
      BY <1>1 DEF Tables
    <2>3. CASE d = c
      <3>1. ~ Recording(call'[d], g)
        BY <1>1, <1>2, <2>3 DEF Recording, Idle, Tables
      <3>2. g # h => ~ Recording(call[d], g)
        BY <2>3 DEF Recording
      <3>. QED
        BY <2>1, <2>2, <2>3, <3>1, <3>2
    <2>4. CASE d # c
      <3>1. call'[d] = call[d]
        BY <1>1, <2>4 DEF Tables
      <3>. QED
        BY <2>1, <2>2, <2>4, <3>1
    <2>. QED
      BY <2>3, <2>4
  <1>. QED
    BY <1>3, <1>4, <1>5 DEF PendingOK

\* The number of repairs under way.
LEMMA BackfillCount ==
  /\ IsFiniteSet(Backfilling) /\ Cardinality(Backfilling) \in Nat
  /\ \A c \in Callers : /\ Cardinality(Backfilling \cup {c}) \in Nat
                        /\ Cardinality(Backfilling \cup {c}) <= Cardinality(Backfilling) + 1
  /\ \A S \in SUBSET Backfilling : /\ Cardinality(S) \in Nat
                                  /\ Cardinality(S) <= Cardinality(Backfilling)
  /\ \A c \in Backfilling : Cardinality(Backfilling \ {c}) = Cardinality(Backfilling) - 1
  <1>1. IsFiniteSet(Backfilling)
    BY FS_Subset, TruthAssumption DEF Backfilling
  <1>2. Cardinality(Backfilling) \in Nat
    BY <1>1, FS_CardinalityType
  <1>3. \A c : /\ Cardinality(Backfilling \cup {c}) \in Nat
               /\ Cardinality(Backfilling \cup {c}) <= Cardinality(Backfilling) + 1
    BY <1>1, <1>2, FS_AddElement
  <1>4. \A c \in Backfilling : Cardinality(Backfilling \ {c}) = Cardinality(Backfilling) - 1
    BY <1>1, <1>2, FS_RemoveElement
  <1>5. \A S \in SUBSET Backfilling : /\ Cardinality(S) \in Nat
                                     /\ Cardinality(S) <= Cardinality(Backfilling)
    BY <1>1, FS_Subset, FS_CardinalityType
  <1>. QED
    BY <1>1, <1>2, <1>3, <1>4, <1>5

\* The bound on repairs when nothing is repaired and no backfill begins.
LEMMA SameBudget ==
  ASSUME Budget, Backfilling' \subseteq Backfilling, repairs' = repairs,
         rewrites' \in 0 .. MaxRewrites
  PROVE  Budget'
  <1>1. /\ Cardinality(Backfilling') \in Nat /\ Cardinality(Backfilling) \in Nat
        /\ Cardinality(Backfilling') <= Cardinality(Backfilling)
    BY BackfillCount
  <1>. QED
    BY <1>1, TruthAssumption DEF Budget

\* BeginRecording, for its three callers.
LEMMA RecordingBegins ==
  ASSUME TypeInv, NEW c \in Callers, NEW h \in Handoffs, NEW e \in Events,
         NEW path \in {"record", "backfill"}, BeginRecording(c, h, e, path),
         path = "backfill" => RepairsLeft
  PROVE  TypeInv'
  <1>. DEFINE o == [at |-> path, h |-> h, copy |-> NoOne]
  <1>1. o \in Calls /\ Recording(o, h) /\ o.at # "save"
    BY DEF Calls, Recording
  <1>2. /\ call[c].at = "idle" /\ Stamp(h, e, c) /\ call' = [call EXCEPT ![c] = o]
        /\ UNCHANGED <<row, repairs, rewrites>>
    BY DEF BeginRecording, MayBegin
  <1>3. Tables' /\ CallOK' /\ PendingOK'
    BY <1>1, <1>2, Begun
  <1>4. Budget'
    <2>1. Tables /\ Budget
      BY DEF TypeInv
    <2>2. CASE path = "record"
      <3>1. Backfilling' \subseteq Backfilling
        BY <1>2, <2>1, <2>2 DEF Backfilling, Tables
      <3>. QED
        BY <1>2, <2>1, <3>1, SameBudget DEF Budget
    <2>3. CASE path = "backfill"
      <3>1. Backfilling' = Backfilling \cup {c}
        BY <1>2, <2>1, <2>3 DEF Backfilling, Tables
      <3>2. repairs + Cardinality(Backfilling) < MaxRepairs
        BY <2>3 DEF RepairsLeft, Backfilling
      <3>3. /\ Cardinality(Backfilling) \in Nat /\ Cardinality(Backfilling') \in Nat
            /\ Cardinality(Backfilling \cup {c}) <= Cardinality(Backfilling) + 1
        BY <3>1, BackfillCount
      <3>. QED
        BY <1>2, <2>1, <3>1, <3>2, <3>3, TruthAssumption DEF Budget
    <2>. QED
      BY <2>2, <2>3
  <1>. QED
    BY <1>3, <1>4 DEF TypeInv

\* Whatever a caller begins.
LEMMA BeginType ==
  ASSUME TypeInv, NEW c \in Callers, NEW h \in Handoffs, Begin(c, h)
  PROVE  TypeInv'
  <1>1. ASSUME NEW e \in Requests, ApplyProtocolAction(c, h, e) PROVE TypeInv'
    BY <1>1, RecordingBegins, TruthAssumption DEF ApplyProtocolAction
  <1>2. ASSUME NEW e \in Reports, RecordAuthoritativeEvent(c, h, e) PROVE TypeInv'
    BY <1>2, RecordingBegins, TruthAssumption DEF RecordAuthoritativeEvent
  <1>3. ASSUME NEW e \in Backfills, BackfillEvent(c, h, e) PROVE TypeInv'
    BY <1>3, RecordingBegins, TruthAssumption DEF BackfillEvent
  <1>4. ASSUME NEW named \in DispatchTargets, DispatchHandoff(c, h, named) PROVE TypeInv'
    <2>. DEFINE o == IF named /\ ~ row[h].target
                     THEN [at |-> "save", h |-> h, copy |-> [row[h] EXCEPT !.target = TRUE]]
                     ELSE [at |-> "record", h |-> h, copy |-> NoOne]
    <2>1. Tables /\ Budget
      BY DEF TypeInv
    <2>2. [row[h] EXCEPT !.target = TRUE] \in Rows
      <3>1. row[h] \in Rows
        BY <2>1 DEF Tables
      <3>. QED
        BY <3>1 DEF Rows
    <2>3. o \in Calls /\ Recording(o, h) /\ (o.at = "save" => o.copy \in Rows)
      BY <2>2 DEF Calls, Recording
    <2>4. TransportRequested \in Events
      BY DEF TransportRequested, Events, EventTypes, Actors, Systems, Decisions
    <2>5. /\ call[c].at = "idle" /\ Stamp(h, TransportRequested, c)
          /\ call' = [call EXCEPT ![c] = o] /\ UNCHANGED <<row, repairs, rewrites>>
      BY <1>4 DEF DispatchHandoff, MayBegin
    <2>6. Tables' /\ CallOK' /\ PendingOK'
      BY <2>3, <2>4, <2>5, Begun
    <2>7. o.at # "backfill"
      OBVIOUS
    <2>. HIDE DEF o
    <2>8. Backfilling' \subseteq Backfilling
      BY <2>1, <2>5, <2>7 DEF Backfilling, Tables
    <2>9. Budget'
      BY <2>1, <2>5, <2>8, SameBudget DEF Budget
    <2>. QED
      BY <2>6, <2>9 DEF TypeInv
  <1>5. ASSUME NEW a \in Reassigned, LoadOwnership(c, h, a) PROVE TypeInv'
    <2>1. Tables /\ CallOK /\ PendingOK /\ Budget
      BY DEF TypeInv
    <2>2. row[h] \in Rows /\ a \in Actors
      BY <2>1, TruthAssumption DEF Tables, Actors
    <2>3. PICK r \in {[row[h] EXCEPT !.owner = a], [row[h] EXCEPT !.lease = a],
                      [row[h] EXCEPT !.reviewer = a]} :
            call' = [call EXCEPT ![c] = [at |-> "own", h |-> h, copy |-> r]]
      BY <1>5 DEF LoadOwnership
    <2>4. r \in Rows
      BY <2>2, <2>3 DEF Rows
    <2>5. [at |-> "own", h |-> h, copy |-> r] \in Calls
      BY <2>4 DEF Calls
    <2>6. call[c].at = "idle" /\ UNCHANGED <<row, timeline, repairs>>
          /\ rewrites < MaxRewrites /\ rewrites' = rewrites + 1
      BY <1>5 DEF LoadOwnership, MayBegin
    <2>7. Tables'
      BY <2>1, <2>3, <2>5, <2>6 DEF Tables
    <2>8. h # NoOne
      BY TruthAssumption
    <2>9. CallOK'
      BY <2>1, <2>3, <2>4, <2>6, <2>8 DEF CallOK, Tables
    <2>10. \A d \in Callers, g \in Handoffs : Recording(call'[d], g) <=> Recording(call[d], g)
      BY <2>1, <2>3, <2>6 DEF Recording, Tables
    <2>11. PendingOK'
      BY <2>1, <2>6, <2>10 DEF PendingOK
    <2>12. Backfilling' \subseteq Backfilling
      BY <2>1, <2>3 DEF Backfilling, Tables
    <2>13. rewrites' \in 0 .. MaxRewrites
      BY <2>1, <2>6, TruthAssumption DEF Budget
    <2>14. Budget'
      BY <2>1, <2>6, <2>12, <2>13, SameBudget
    <2>. QED
      BY <2>7, <2>9, <2>11, <2>14 DEF TypeInv
  <1>. QED
    BY <1>1, <1>2, <1>3, <1>4, <1>5 DEF Begin

\* The entry of an operation, where it has one.
LEMMA TheirEntry ==
  ASSUME TypeInv, NEW c \in Callers, NEW h \in Handoffs, NEW i \in Pending(c, h)
  PROVE  /\ call[c].h = h /\ call[c].at \in {"record", "backfill", "save"}
         /\ timeline[h] \in Seq(Entries) /\ i \in DOMAIN timeline[h]
         /\ timeline[h][i] \in Entries /\ timeline[h][i].by = c
         /\ Theirs(timeline[h], c) = {i}
         /\ \A d \in Callers \ {c} : \A j : Theirs(timeline[h], d) = {j} => j # i
  <1>1. timeline[h] \in Seq(Entries) /\ i \in DOMAIN timeline[h]
        /\ timeline[h][i].by = c /\ i \in Theirs(timeline[h], c)
    BY DEF TypeInv, Tables, Pending, Theirs
  <1>2. timeline[h][i] \in Entries
    BY <1>1
  <1>3. Recording(call[c], h) /\ Theirs(timeline[h], c) = {i}
    BY <1>1 DEF TypeInv, PendingOK
  <1>4. \A d \in Callers \ {c} : \A j : Theirs(timeline[h], d) = {j} => j # i
    BY <1>1 DEF Theirs
  <1>. QED
    BY <1>1, <1>2, <1>3, <1>4 DEF Recording

\* Keep, written as an assignment to the log.
LEMMA KeepKeeps ==
  ASSUME Tables, NEW h \in Handoffs, NEW i \in DOMAIN timeline[h], Keep(h, i)
  PROVE  timeline' = [timeline EXCEPT ![h] = Kept(timeline[h], i)]
  <1>1. timeline[h] \in Seq(Entries) /\ timeline[h][i] \in Entries
    BY DEF Tables
  <1>2. ASSUME NEW x \in Entries
        PROVE  [[x EXCEPT !.status = "accepted"] EXCEPT !.by = NoOne]
                 = [event |-> x.event, by |-> NoOne, status |-> "accepted"]
    <2>. DEFINE y == [x EXCEPT !.status = "accepted"]
    <2>1. DOMAIN x = {"event", "by", "status"}
      BY DEF Entries
    <2>2. y = [n \in {"event", "by", "status"} |-> IF n = "status" THEN "accepted" ELSE x[n]]
      BY <2>1
    <2>. HIDE DEF y
    <2>3. [y EXCEPT !.by = NoOne]
            = [n \in {"event", "by", "status"} |-> IF n = "by" THEN NoOne ELSE y[n]]
      BY <2>2
    <2>. QED
      BY <2>2, <2>3 DEF y
  <1>3. timeline' = [timeline EXCEPT ![h] =
          [timeline[h] EXCEPT ![i] = [[timeline[h][i] EXCEPT !.status = "accepted"] EXCEPT !.by = NoOne]]]
    BY <1>1 DEF Keep, Tables
  <1>. QED
    BY <1>1, <1>2, <1>3 DEF Kept

\* The end of an operation that keeps its entry, or drops it.
LEMMA EntryEnds ==
  ASSUME TypeInv, NEW c \in Callers, NEW h \in Handoffs, NEW i \in Pending(c, h),
         Keep(h, i) \/ Drop(h, i), call' = [call EXCEPT ![c] = Idle],
         row' \in [Handoffs -> Rows]
  PROVE  Tables' /\ CallOK' /\ PendingOK'
  <1>1. /\ call[c].h = h /\ timeline[h] \in Seq(Entries) /\ i \in DOMAIN timeline[h]
        /\ Theirs(timeline[h], c) = {i}
        /\ \A d \in Callers \ {c} : \A j : Theirs(timeline[h], d) = {j} => j # i
    BY TheirEntry
  <1>2. CASE Keep(h, i)
    <2>1. timeline' = [timeline EXCEPT ![h] = Kept(timeline[h], i)]
      BY <1>1, <1>2, KeepKeeps DEF TypeInv
    <2>2. /\ Kept(timeline[h], i) \in Seq(Entries)
          /\ \A d \in Callers : Theirs(Kept(timeline[h], i), d) = Theirs(timeline[h], d) \ {i}
      BY <1>1, KeptLog
    <2>3. Theirs(Kept(timeline[h], i), c) = {}
      BY <1>1, <2>2
    <2>4. \A d \in Callers \ {c} :
            /\ Theirs(timeline[h], d) = {} => Theirs(Kept(timeline[h], i), d) = {}
            /\ \A j : Theirs(timeline[h], d) = {j} => \E n : Theirs(Kept(timeline[h], i), d) = {n}
      <3>1. \A d \in Callers \ {c} :
              /\ Theirs(timeline[h], d) = {} => Theirs(Kept(timeline[h], i), d) = {}
              /\ \A j : Theirs(timeline[h], d) = {j} => Theirs(Kept(timeline[h], i), d) = {j}
        BY <1>1, <2>2
      <3>. QED
        BY <3>1
    <2>. QED
      BY <1>1, <2>1, <2>2, <2>3, <2>4, Finished
  <1>3. CASE Drop(h, i)
    <2>1. timeline' = [timeline EXCEPT ![h] = RemoveAt(timeline[h], i)]
      BY <1>3 DEF Drop
    <2>2. RemoveAt(timeline[h], i) \in Seq(Entries)
      BY <1>1, DroppedLog
    <2>3. Theirs(RemoveAt(timeline[h], i), c) = {}
      BY <1>1, DroppedTheirs
    <2>4. ASSUME NEW d \in Callers \ {c}
          PROVE  /\ Theirs(timeline[h], d) = {} => Theirs(RemoveAt(timeline[h], i), d) = {}
                 /\ \A j : Theirs(timeline[h], d) = {j}
                           => \E n : Theirs(RemoveAt(timeline[h], i), d) = {n}
      <3>1. Theirs(timeline[h], d) = {} => Theirs(RemoveAt(timeline[h], i), d) = {}
        BY <1>1, DroppedTheirs
      <3>2. ASSUME NEW j, Theirs(timeline[h], d) = {j}
            PROVE  \E n : Theirs(RemoveAt(timeline[h], i), d) = {n}
        <4>1. j # i
          BY <1>1, <3>2
        <4>2. Theirs(RemoveAt(timeline[h], i), d) = {IF j < i THEN j ELSE j - 1}
          BY <1>1, <3>2, <4>1, DroppedTheirs
        <4>. QED
          BY <4>2
      <3>. QED
        BY <3>1, <3>2
    <2>. QED
      BY <1>1, <2>1, <2>2, <2>3, <2>4, Finished
  <1>. QED
    BY <1>2, <1>3

\* Whatever a caller goes on with.
LEMMA ContinueType ==
  ASSUME TypeInv, NEW c \in Callers, Continue(c)
  PROVE  TypeInv'
  <1>1. Tables /\ CallOK /\ PendingOK /\ Budget
    BY DEF TypeInv
  <1>2. Idle \in Calls /\ Idle.at = "idle"
    BY DEF Idle, Calls
  <1>3. CASE RecordAcceptedEvent(c)
    <2>1. /\ call[c].at \in {"record", "backfill"} /\ call' = [call EXCEPT ![c] = Idle]
          /\ UNCHANGED rewrites
      BY <1>3 DEF RecordAcceptedEvent
    <2>2. PICK h \in Handoffs : h = call[c].h
      BY <1>1, <2>1 DEF CallOK, Tables, Calls
    <2>3. PICK i \in Pending(c, h) :
            \/ /\ Accepts(Kind[h], row[h], timeline[h][i].event)
               /\ row' = [row EXCEPT ![h] = Apply(Kind[h], row[h], timeline[h][i].event)]
               /\ Keep(h, i)
               /\ repairs' = IF call[c].at = "backfill" THEN repairs + 1 ELSE repairs
            \/ Drop(h, i) /\ UNCHANGED <<row, repairs>>
      BY <1>3, <2>2 DEF RecordAcceptedEvent
    <2>4. row[h] \in Rows /\ Kind[h] \in Kinds /\ timeline[h][i].event \in Events
      <3>1. timeline[h][i] \in Entries
        BY TheirEntry
      <3>. QED
        BY <1>1, <3>1, TruthAssumption DEF Tables, Entries
    <2>5. row' \in [Handoffs -> Rows]
      BY <1>1, <2>3, <2>4, ApplyType DEF Tables
    <2>6. Keep(h, i) \/ Drop(h, i)
      BY <2>3
    <2>7. Tables' /\ CallOK' /\ PendingOK'
      BY <2>1, <2>5, <2>6, EntryEnds
    <2>8. Budget'
      <3>1. Backfilling' = Backfilling \ {c}
        BY <1>1, <1>2, <2>1 DEF Backfilling, Tables
      <3>2. CASE repairs' = repairs
        BY <1>1, <2>1, <3>1, <3>2, SameBudget DEF Budget
      <3>3. CASE repairs' # repairs
        <4>1. call[c].at = "backfill" /\ repairs' = repairs + 1
          BY <2>3, <3>3
        <4>2. c \in Backfilling
          BY <4>1 DEF Backfilling
        <4>3. /\ Cardinality(Backfilling') = Cardinality(Backfilling) - 1
              /\ Cardinality(Backfilling) \in Nat
          BY <3>1, <4>2, BackfillCount
        <4>. QED
          BY <1>1, <2>1, <4>1, <4>3, TruthAssumption DEF Budget
      <3>. QED
        BY <3>2, <3>3
    <2>. QED
      BY <2>7, <2>8 DEF TypeInv
  <1>4. CASE SaveHandoff(c)
    <2>1. /\ call[c].at = "save" /\ row' = [row EXCEPT ![call[c].h] = call[c].copy]
          /\ call' = [call EXCEPT ![c].at = "record", ![c].copy = NoOne]
          /\ UNCHANGED <<timeline, repairs, rewrites>>
      BY <1>4 DEF SaveHandoff
    <2>2. call[c].h \in Handoffs /\ call[c].copy \in Rows
      BY <1>1, <2>1 DEF CallOK, Tables, Calls
    <2>3. call' = [call EXCEPT ![c] = [at |-> "record", h |-> call[c].h, copy |-> NoOne]]
      <3>1. DOMAIN call[c] = {"at", "h", "copy"}
        BY <1>1 DEF Tables, Calls
      <3>2. [[call[c] EXCEPT !.at = "record"] EXCEPT !.copy = NoOne]
              = [at |-> "record", h |-> call[c].h, copy |-> NoOne]
        <4>. DEFINE y == [call[c] EXCEPT !.at = "record"]
        <4>1. y = [n \in {"at", "h", "copy"} |-> IF n = "at" THEN "record" ELSE call[c][n]]
          BY <3>1
        <4>. HIDE DEF y
        <4>2. [y EXCEPT !.copy = NoOne]
                = [n \in {"at", "h", "copy"} |-> IF n = "copy" THEN NoOne ELSE y[n]]
          BY <4>1
        <4>. QED
          BY <4>1, <4>2 DEF y
      <3>3. call' = [call EXCEPT ![c] = [[call[c] EXCEPT !.at = "record"] EXCEPT !.copy = NoOne]]
        BY <1>1, <2>1 DEF Tables
      <3>. QED
        BY <3>2, <3>3
    <2>4. [at |-> "record", h |-> call[c].h, copy |-> NoOne] \in Calls
      BY <2>2 DEF Calls
    <2>5. Tables'
      BY <1>1, <2>1, <2>2, <2>3, <2>4 DEF Tables
    <2>6. CallOK'
      BY <1>1, <2>1, <2>3 DEF CallOK, Tables
    <2>7. \A d \in Callers, g \in Handoffs : Recording(call'[d], g) <=> Recording(call[d], g)
      <3>1. \A d \in Callers : d # c => call'[d] = call[d]
        BY <1>1, <2>3 DEF Tables
      <3>2. call'[c].h = call[c].h /\ call'[c].at = "record"
        BY <1>1, <2>3 DEF Tables
      <3>. QED
        BY <2>1, <3>1, <3>2 DEF Recording
    <2>8. PendingOK'
      BY <1>1, <2>1, <2>7 DEF PendingOK
    <2>9. Backfilling' \subseteq Backfilling
      BY <1>1, <2>3 DEF Backfilling, Tables
    <2>10. Budget'
      BY <1>1, <2>1, <2>9, SameBudget DEF Budget
    <2>. QED
      BY <2>5, <2>6, <2>8, <2>10 DEF TypeInv
  <1>5. CASE UpdateHandoffOwnership(c)
    <2>1. /\ call[c].at = "own" /\ call' = [call EXCEPT ![c] = Idle]
          /\ row' = [row EXCEPT ![call[c].h].owner = call[c].copy.owner,
                                ![call[c].h].lease = call[c].copy.lease,
                                ![call[c].h].reviewer = call[c].copy.reviewer]
          /\ UNCHANGED <<timeline, repairs, rewrites>>
      BY <1>5 DEF UpdateHandoffOwnership
    <2>2. PICK h \in Handoffs : h = call[c].h
      BY <1>1, <2>1 DEF CallOK, Tables, Calls
    <2>3. call[c].copy \in Rows /\ row[h] \in Rows
      BY <1>1, <2>1 DEF CallOK, Tables
    <2>4. [[[row[h] EXCEPT !.owner = call[c].copy.owner] EXCEPT !.lease = call[c].copy.lease]
             EXCEPT !.reviewer = call[c].copy.reviewer] \in Rows
      BY <2>3 DEF Rows
    <2>5. row' \in [Handoffs -> Rows]
      BY <1>1, <2>1, <2>2, <2>4 DEF Tables
    <2>6. Theirs(timeline[h], c) = {} /\ timeline[h] \in Seq(Entries)
      BY <1>1, <2>1, <2>2 DEF PendingOK, Recording, Tables
    <2>7. timeline' = [timeline EXCEPT ![h] = timeline[h]]
      BY <1>1, <2>1 DEF Tables
    <2>8. Tables' /\ CallOK' /\ PendingOK'
      BY <2>1, <2>2, <2>5, <2>6, <2>7, Finished
    <2>9. Backfilling' \subseteq Backfilling
      BY <1>1, <1>2, <2>1 DEF Backfilling, Tables
    <2>10. Budget'
      BY <1>1, <2>1, <2>9, SameBudget DEF Budget
    <2>. QED
      BY <2>8, <2>10 DEF TypeInv
  <1>6. CASE Abandon(c)
    <2>1. /\ call[c].at # "idle" /\ call' = [call EXCEPT ![c] = Idle]
          /\ UNCHANGED <<row, repairs, rewrites>>
      BY <1>6 DEF Abandon
    <2>2. PICK h \in Handoffs : h = call[c].h
      BY <1>1, <2>1 DEF CallOK, Tables, Calls
    <2>3. Tables' /\ CallOK' /\ PendingOK'
      <3>1. CASE Pending(c, h) = {}
        <4>1. timeline' = [timeline EXCEPT ![h] = timeline[h]]
          BY <1>1, <1>6, <2>2, <3>1 DEF Abandon, Tables
        <4>2. Theirs(timeline[h], c) = {} /\ timeline[h] \in Seq(Entries)
          BY <1>1, <3>1 DEF Theirs, Pending, Tables
        <4>. QED
          BY <1>1, <2>1, <2>2, <4>1, <4>2, Finished DEF Tables
      <3>2. CASE Pending(c, h) # {}
        <4>1. PICK i \in Pending(c, h) : Drop(h, i)
          BY <1>6, <2>2, <3>2 DEF Abandon
        <4>. QED
          BY <1>1, <2>1, <4>1, EntryEnds DEF Tables
      <3>. QED
        BY <3>1, <3>2
    <2>4. Backfilling' \subseteq Backfilling
      BY <1>1, <1>2, <2>1 DEF Backfilling, Tables
    <2>5. Budget'
      BY <1>1, <2>1, <2>4, SameBudget DEF Budget
    <2>. QED
      BY <2>3, <2>5 DEF TypeInv
  <1>. QED
    BY <1>3, <1>4, <1>5, <1>6 DEF Continue

----------------------------------------------------------------------------
\* The events a replay reads

\* What an entry adds to the events es.
Sift(es, x) == IF Accepted(x) THEN Append(es, x.event) ELSE es

\* g holds the effective events of every prefix of the log.
Sifts(s, g) ==
  g = [n \in 0 .. Len(s) |-> IF n = 0 THEN << >> ELSE Sift(g[n - 1], s[n])]

\* The function Effective is defined with exists.
LEMMA SiftExists ==
  ASSUME NEW S
  PROVE  \A s \in Seq(S) : \E g : Sifts(s, g)
  <1>. DEFINE T == {s \in Seq(S) : \E g : Sifts(s, g)}
  <1>1. << >> \in T
    <2>1. Sifts(<< >>, [n \in 0 .. 0 |-> << >>])
      BY DEF Sifts
    <2>. QED
      BY <2>1
  <1>2. ASSUME NEW s \in Seq(S), NEW x \in S, s \in T PROVE Append(s, x) \in T
    <2>1. PICK g : Sifts(s, g)
      BY <1>2
    <2>. DEFINE f == [n \in 0 .. Len(s) + 1 |->
                        IF n <= Len(s) THEN g[n] ELSE Sift(g[Len(s)], x)]
    <2>2. Sifts(Append(s, x), f)
      <3>1. \A n \in 0 .. Len(s) + 1 :
              f[n] = IF n = 0 THEN << >> ELSE Sift(f[n - 1], Append(s, x)[n])
        BY <2>1 DEF Sifts
      <3>. QED
        BY <3>1 DEF Sifts
    <2>. QED
      BY <2>2
  <1>. HIDE DEF T
  <1>3. \A s \in Seq(S) : s \in T
    BY <1>1, <1>2, LogInduction
  <1>. QED
    BY <1>3 DEF T

\* Effective follows such a function.
LEMMA EffectiveSifts ==
  ASSUME NEW s, \E g : Sifts(s, g)
  PROVE  \E g : Sifts(s, g) /\ Effective(s) = g[Len(s)]
  BY DEF Effective, Sifts, Sift

\* The last entry of a log counts if it is accepted.
LEMMA EffectiveAppend ==
  ASSUME NEW S, NEW s \in Seq(S), NEW x \in S
  PROVE  Effective(Append(s, x)) = Sift(Effective(s), x)
  <1>1. PICK g : Sifts(s, g) /\ Effective(s) = g[Len(s)]
    BY SiftExists, EffectiveSifts
  <1>2. PICK f : Sifts(Append(s, x), f) /\ Effective(Append(s, x)) = f[Len(s) + 1]
    <2>1. Append(s, x) \in Seq(S) /\ Len(Append(s, x)) = Len(s) + 1
      OBVIOUS
    <2>2. \E f : Sifts(Append(s, x), f)
      BY <2>1, SiftExists
    <2>. QED
      BY <2>1, <2>2, EffectiveSifts
  <1>. DEFINE T == {n \in Nat : n <= Len(s) => f[n] = g[n]}
  <1>3. 0 \in T
    BY <1>1, <1>2 DEF Sifts
  <1>4. ASSUME NEW n \in Nat, n \in T PROVE n + 1 \in T
    BY <1>1, <1>2, <1>4 DEF Sifts
  <1>. HIDE DEF T
  <1>5. \A n \in Nat : n \in T
    BY <1>3, <1>4, Induction
  <1>6. f[Len(s)] = g[Len(s)]
    BY <1>5 DEF T
  <1>. QED
    BY <1>1, <1>2, <1>6 DEF Sifts

\* An empty log has no effective events.
LEMMA EffectiveEmpty ==
  Effective(<< >>) = << >>
  <1>1. << >> \in Seq({})
    OBVIOUS
  <1>2. PICK g : Sifts(<< >>, g) /\ Effective(<< >>) = g[Len(<< >>)]
    BY <1>1, SiftExists, EffectiveSifts
  <1>. QED
    BY <1>2 DEF Sifts

\* What is effective in a log: the events of its accepted entries.
LEMMA EffectiveEvents ==
  ASSUME NEW s \in Seq(Entries)
  PROVE  /\ Effective(s) \in Seq(Events)
         /\ Range(Effective(s)) = {s[n].event : n \in {i \in DOMAIN s : Accepted(s[i])}}
  <1>. DEFINE Kepts(f) == {f[n].event : n \in {i \in DOMAIN f : Accepted(f[i])}}
              T == {f \in Seq(Entries) : Effective(f) \in Seq(Events)
                                         /\ Range(Effective(f)) = Kepts(f)}
  <1>1. << >> \in T
    <2>1. << >> \in Seq(Entries) /\ << >> \in Seq(Events) /\ DOMAIN << >> = {}
      OBVIOUS
    <2>. QED
      BY <2>1, EffectiveEmpty DEF Range
  <1>2. ASSUME NEW f \in Seq(Entries), NEW x \in Entries, f \in T PROVE Append(f, x) \in T
    <2>1. /\ Append(f, x) \in Seq(Entries) /\ Len(f) + 1 \notin DOMAIN f
          /\ DOMAIN Append(f, x) = (DOMAIN f) \cup {Len(f) + 1}
          /\ \A i \in DOMAIN f : Append(f, x)[i] = f[i]
          /\ Append(f, x)[Len(f) + 1] = x
      OBVIOUS
    <2>2. Kepts(Append(f, x)) = Kepts(f) \cup (IF Accepted(x) THEN {x.event} ELSE {})
      BY <2>1
    <2>3. x.event \in Events /\ Effective(f) \in Seq(Events) /\ Range(Effective(f)) = Kepts(f)
      BY <1>2 DEF Entries
    <2>4. /\ Append(Effective(f), x.event) \in Seq(Events)
          /\ Range(Append(Effective(f), x.event)) = Range(Effective(f)) \cup {x.event}
      <3>1. \A es \in Seq(Events), e \in Events :
              /\ Append(es, e) \in Seq(Events)
              /\ Range(Append(es, e)) = Range(es) \cup {e}
        <4>1. ASSUME NEW es \in Seq(Events), NEW e \in Events
              PROVE  /\ Append(es, e) \in Seq(Events)
                     /\ DOMAIN Append(es, e) = (DOMAIN es) \cup {Len(es) + 1}
                     /\ \A i \in DOMAIN es : Append(es, e)[i] = es[i]
                     /\ Append(es, e)[Len(es) + 1] = e
                     /\ Len(es) + 1 \notin DOMAIN es
          OBVIOUS
        <4>. QED
          BY <4>1 DEF Range
      <3>. QED
        BY <2>3, <3>1
    <2>5. Effective(Append(f, x)) = Sift(Effective(f), x)
      BY <1>2, EffectiveAppend
    <2>. QED
      BY <2>1, <2>2, <2>3, <2>4, <2>5 DEF Sift
  <1>. HIDE DEF T
  <1>3. \A f \in Seq(Entries) : f \in T
    BY <1>1, <1>2, LogInduction
  <1>. QED
    BY <1>3 DEF T

\* Whatever a repair of one handoff invalidates (RepairTimeline).
LEMMA RepairType ==
  ASSUME TypeInv, NEW h \in Handoffs, NEW ids, RepairTimeline(h, ids)
  PROVE  TypeInv'
  <1>. DEFINE s == Invalidated(timeline[h], ids)
  <1>1. Tables /\ CallOK /\ PendingOK /\ Budget
    BY DEF TypeInv
  <1>2. /\ RepairsLeft /\ repairs' = repairs + 1 /\ UNCHANGED <<call, rewrites>>
        /\ timeline' = [timeline EXCEPT ![h] = s]
        /\ row' = [row EXCEPT ![h] = Replay(Kind[h], Base(row[h]), Effective(s))]
    BY DEF RepairTimeline, ReplayHandoffProjection
  <1>3. /\ s \in Seq(Entries) /\ \A c \in Callers : Theirs(s, c) = Theirs(timeline[h], c)
    BY <1>1, InvalidatedLog DEF Tables
  <1>4. Kind[h] \in Kinds /\ Base(row[h]) \in Rows
    <2>1. row[h] \in Rows
      BY <1>1 DEF Tables
    <2>. QED
      BY <2>1, BaseType, TruthAssumption
  <1>. HIDE DEF s
  <1>5. Effective(s) \in Seq(Events)
    BY <1>3, EffectiveEvents
  <1>6. Replay(Kind[h], Base(row[h]), Effective(s)) \in Rows
    BY <1>4, <1>5, ReplayType
  <1>7. Tables'
    BY <1>1, <1>2, <1>3, <1>6 DEF Tables
  <1>8. CallOK'
    BY <1>1, <1>2 DEF CallOK
  <1>9. PendingOK'
    BY <1>1, <1>2, <1>3 DEF PendingOK, Tables
  <1>10. Budget'
    <2>1. repairs + Cardinality(Backfilling) < MaxRepairs /\ Backfilling' = Backfilling
      BY <1>2 DEF RepairsLeft, Backfilling
    <2>2. Cardinality(Backfilling) \in Nat
      BY BackfillCount
    <2>. QED
      BY <1>1, <1>2, <2>1, <2>2, TruthAssumption DEF Budget
  <1>. QED
    BY <1>7, <1>8, <1>9, <1>10 DEF TypeInv

\* A step of the truth plane is that of a caller or a repair.
LEMMA Steps ==
  ASSUME Next
  PROVE  \/ \E c \in Callers : Continue(c)
         \/ \E c \in Callers, h \in Handoffs : Begin(c, h)
         \/ \E h \in Handoffs : \E ids \in SUBSET Recorded(h) : RepairTimeline(h, ids)
  BY DEF Next, InvalidateEvent, ReopenHandoff

\* The handoffs as they are created (Created).
LEMMA CreatedType ==
  ASSUME NEW h \in Handoffs
  PROVE  Created(h) \in Rows
  <1>1. Kind[h].receiver \in Actors /\ Reviewer[h] \in Actors \cup {NoActor}
    BY TruthAssumption DEF Kinds, Actors
  <1>. QED
    BY <1>1 DEF Created, Rows, States, Decisions

\* The first rows are rows, nobody is in a call and nothing is logged.
LEMMA InitType ==
  ASSUME Init
  PROVE  TypeInv
  <1>1. Tables
    BY CreatedType DEF Init, Tables, Idle, Calls
  <1>2. CallOK
    BY DEF Init, CallOK, Idle
  <1>3. \A c \in Callers, h \in Handoffs : ~ Recording(call[c], h)
    BY DEF Init, Recording, Idle
  <1>4. PendingOK
    BY <1>3 DEF Init, PendingOK, Theirs
  <1>5. Backfilling = {}
    BY DEF Init, Backfilling, Idle
  <1>6. Budget
    BY <1>5, FS_EmptySet, TruthAssumption DEF Init, Budget
  <1>. QED
    BY <1>1, <1>2, <1>4, <1>6 DEF TypeInv

\* Every step, and stuttering, keeps the type invariant.
LEMMA NextType ==
  ASSUME TypeInv, [Next]_vars
  PROVE  TypeInv'
  <1>1. CASE Next
    BY <1>1, Steps, ContinueType, BeginType, RepairType
  <1>2. CASE UNCHANGED vars
    BY <1>2 DEF vars, TypeInv, Tables, CallOK, PendingOK, Budget, Backfilling
  <1>. QED
    BY <1>1, <1>2

\* The tables hold what their columns can hold, and an operation that records has
\* one pending entry, in the log of its handoff, however many processes call
\* (store.go, protocol_service.go) and whatever is repaired (service.go).
THEOREM TypeCorrect ==
  Spec => []TypeOK
  <1>1. Spec => []TypeInv
    BY InitType, NextType, PTL DEF Spec
  <1>. QED
    BY <1>1, TypeInvTypeOK, PTL

----------------------------------------------------------------------------
\* What a step does to one handoff

\* The entry of an operation under way is the last of its log, and pending.
AtEnd ==
  \A c \in Callers, h \in Handoffs : \A i \in Theirs(timeline[h], c) :
    i = Len(timeline[h]) /\ timeline[h][i].status = "pending"

\* What becomes of the last entry when it is kept, and of the log when it is dropped.
LEMMA LastKept ==
  ASSUME NEW f \in Seq(Entries), NEW y \in Entries
  PROVE  LET s == Append(f, y)
             x == [event |-> y.event, by |-> NoOne, status |-> "accepted"]
         IN /\ x \in Entries
            /\ Kept(s, Len(f) + 1) = Append(f, x)
            /\ RemoveAt(s, Len(f) + 1) = f
  <1>. DEFINE x == [event |-> y.event, by |-> NoOne, status |-> "accepted"]
              s == Append(f, y)
              i == Len(f) + 1
  <1>1. /\ s \in Seq(Entries) /\ Len(f) \in Nat /\ i \in DOMAIN s
        /\ DOMAIN s = 1 .. Len(f) + 1 /\ Len(s) = Len(f) + 1
        /\ s[i] = y /\ \A j \in 1 .. Len(f) : s[j] = f[j]
    OBVIOUS
  <1>2. x \in Entries
    BY DEF Entries
  <1>. HIDE DEF s
  <1>3. Kept(s, i) = Append(f, x)
    <2>1. Kept(s, i) = [j \in 1 .. Len(f) + 1 |-> IF j = i THEN x ELSE s[j]]
      BY <1>1 DEF Kept
    <2>2. Append(f, x) = [j \in 1 .. Len(f) + 1 |-> IF j = Len(f) + 1 THEN x ELSE f[j]]
      BY <1>2
    <2>. QED
      BY <1>1, <2>1, <2>2
  <1>4. RemoveAt(s, i) = f
    <2>. DEFINE t == RemoveAt(s, i)
    <2>1. /\ t \in Seq(Entries) /\ Len(t) = Len(s) - 1
          /\ \A j \in 1 .. Len(s) - 1 : t[j] = IF j < i THEN s[j] ELSE s[j + 1]
      BY <1>1, DroppedLog
    <2>. HIDE DEF t
    <2>2. Len(s) - 1 = Len(f)
      BY <1>1
    <2>3. \A j \in 1 .. Len(f) : t[j] = f[j]
      BY <1>1, <2>1, <2>2
    <2>4. t = f
      BY <2>1, <2>2, <2>3
    <2>. QED
      BY <2>4 DEF t
  <1>. QED
    BY <1>2, <1>3, <1>4 DEF s

\* A pending entry counts for nothing until it is accepted, and then comes last.
LEMMA LastEntry ==
  ASSUME NEW s \in Seq(Entries), NEW i \in DOMAIN s, i = Len(s), s[i].status = "pending"
  PROVE  /\ Effective(Kept(s, i)) = Append(Effective(s), s[i].event)
         /\ Effective(RemoveAt(s, i)) = Effective(s)
  <1>. DEFINE x == [event |-> s[i].event, by |-> NoOne, status |-> "accepted"]
  <1>1. PICK f \in Seq(Entries), y \in Entries : i = Len(f) + 1 /\ s = Append(f, y)
    <2>1. PICK n \in Nat : Len(s) = n + 1
      <3>1. i - 1 \in Nat /\ Len(s) = (i - 1) + 1
        OBVIOUS
      <3>. QED
        BY <3>1
    <2>. QED
      BY <2>1, LogParts
  <1>2. s[i] = y
    BY <1>1
  <1>3. x \in Entries /\ Kept(s, i) = Append(f, x) /\ RemoveAt(s, i) = f
    BY <1>1, <1>2, LastKept
  <1>4. Effective(s) = Effective(f)
    BY <1>1, <1>2, EffectiveAppend DEF Sift, Accepted
  <1>5. Effective(Append(f, x)) = Append(Effective(f), x.event)
    BY <1>1, <1>3, EffectiveAppend DEF Sift, Accepted
  <1>. QED
    BY <1>3, <1>4, <1>5

\* Invalidating adds no event to those a replay reads.
LEMMA FewerEvents ==
  ASSUME NEW s \in Seq(Entries), NEW ids
  PROVE  Range(Effective(Invalidated(s, ids))) \subseteq Range(Effective(s))
  <1>. DEFINE t == Invalidated(s, ids)
  <1>1. t \in Seq(Entries)
    BY InvalidatedLog
  <1>2. DOMAIN t = DOMAIN s
    BY DEF Invalidated
  <1>3. ASSUME NEW i \in DOMAIN s, Accepted(t[i])
        PROVE  Accepted(s[i]) /\ t[i].event = s[i].event
    <2>1. s[i] \in Entries /\ t[i] = IF i \in ids THEN [s[i] EXCEPT !.status = "invalid"] ELSE s[i]
      BY DEF Invalidated
    <2>2. [s[i] EXCEPT !.status = "invalid"].status = "invalid"
      BY <2>1 DEF Entries
    <2>. QED
      BY <1>3, <2>1, <2>2 DEF Accepted
  <1>. HIDE DEF t
  <1>4. Range(Effective(t)) = {t[n].event : n \in {i \in DOMAIN t : Accepted(t[i])}}
    BY <1>1, EffectiveEvents
  <1>5. Range(Effective(s)) = {s[n].event : n \in {i \in DOMAIN s : Accepted(s[i])}}
    BY EffectiveEvents
  <1>6. Range(Effective(t)) \subseteq Range(Effective(s))
    BY <1>2, <1>3, <1>4, <1>5
  <1>. QED
    BY <1>6 DEF t

\* Only the ownership columns differ.
Rewritten(r, q) == Progress(q) = Progress(r) /\ q.target = r.target

\* The five things a step may do to handoff h, and what becomes of the events a
\* replay reads.
Untouched(h) ==
  row'[h] = row[h] /\ (AtEnd => Effective(timeline'[h]) = Effective(timeline[h]))

RecordedBy(c, h) ==
  /\ call[c].h = h /\ call[c].at # "save" /\ call' = [call EXCEPT ![c] = Idle]
  /\ \E e \in Events :
       /\ Accepts(Kind[h], row[h], e) /\ row'[h] = Apply(Kind[h], row[h], e)
       /\ AtEnd => Effective(timeline'[h]) = Append(Effective(timeline[h]), e)

SavedBy(c, h) ==
  /\ call[c].h = h /\ call[c].at = "save" /\ call'[c].at = "record"
  /\ row'[h] = call[c].copy /\ timeline'[h] = timeline[h]

RewrittenBy(c, h) ==
  /\ call[c].h = h /\ call[c].at = "own" /\ call' = [call EXCEPT ![c] = Idle]
  /\ Rewritten(row[h], row'[h]) /\ timeline'[h] = timeline[h]

Repaired(h) ==
  /\ repairs' > repairs /\ call' = call
  /\ row'[h] = Replay(Kind[h], Base(row[h]), Effective(timeline'[h]))
  /\ Effective(timeline'[h]) \in Seq(Events)
  /\ Range(Effective(timeline'[h])) \subseteq Range(Effective(timeline[h]))

\* A caller goes on with its operation.
LEMMA ContinueStep ==
  ASSUME TypeInv, NEW c \in Callers, Continue(c), NEW h \in Handoffs
  PROVE  Untouched(h) \/ RecordedBy(c, h) \/ SavedBy(c, h) \/ RewrittenBy(c, h)
  <1>1. Tables /\ CallOK
    BY DEF TypeInv
  <1>2. CASE RecordAcceptedEvent(c)
    <2>1. call[c].at \in {"record", "backfill"} /\ call' = [call EXCEPT ![c] = Idle]
      BY <1>2 DEF RecordAcceptedEvent
    <2>2. PICK g \in Handoffs : g = call[c].h
      BY <1>1, <2>1 DEF CallOK, Tables, Calls
    <2>3. PICK i \in Pending(c, g) :
            \/ /\ Accepts(Kind[g], row[g], timeline[g][i].event)
               /\ row' = [row EXCEPT ![g] = Apply(Kind[g], row[g], timeline[g][i].event)]
               /\ Keep(g, i)
            \/ Drop(g, i) /\ UNCHANGED row
      BY <1>2, <2>2 DEF RecordAcceptedEvent
    <2>4. /\ timeline[g] \in Seq(Entries) /\ i \in DOMAIN timeline[g]
          /\ timeline[g][i] \in Entries /\ Theirs(timeline[g], c) = {i}
      BY TheirEntry
    <2>5. AtEnd => i = Len(timeline[g]) /\ timeline[g][i].status = "pending"
      BY <2>4 DEF AtEnd
    <2>6. CASE Drop(g, i) /\ UNCHANGED row
      <3>1. timeline' = [timeline EXCEPT ![g] = RemoveAt(timeline[g], i)]
        BY <2>6 DEF Drop
      <3>2. AtEnd => Effective(RemoveAt(timeline[g], i)) = Effective(timeline[g])
        BY <2>4, <2>5, LastEntry
      <3>. QED
        BY <1>1, <2>6, <3>1, <3>2 DEF Untouched, Tables
    <2>7. CASE /\ Accepts(Kind[g], row[g], timeline[g][i].event)
               /\ row' = [row EXCEPT ![g] = Apply(Kind[g], row[g], timeline[g][i].event)]
               /\ Keep(g, i)
      <3>1. timeline' = [timeline EXCEPT ![g] = Kept(timeline[g], i)]
        BY <1>1, <2>4, <2>7, KeepKeeps
      <3>2. CASE h # g
        BY <1>1, <2>7, <3>1, <3>2 DEF Untouched, Tables
      <3>3. CASE h = g
        <4>1. AtEnd => Effective(Kept(timeline[g], i))
                         = Append(Effective(timeline[g]), timeline[g][i].event)
          BY <2>4, <2>5, LastEntry
        <4>2. timeline[g][i].event \in Events
          BY <2>4 DEF Entries
        <4>3. /\ row'[h] = Apply(Kind[g], row[g], timeline[g][i].event)
              /\ timeline'[h] = Kept(timeline[g], i)
          BY <1>1, <2>7, <3>1, <3>3 DEF Tables
        <4>. QED
          BY <2>1, <2>2, <2>7, <3>3, <4>1, <4>2, <4>3 DEF RecordedBy
      <3>. QED
        BY <3>2, <3>3
    <2>. QED
      BY <2>3, <2>6, <2>7
  <1>3. CASE SaveHandoff(c)
    <2>1. /\ call[c].at = "save" /\ row' = [row EXCEPT ![call[c].h] = call[c].copy]
          /\ call' = [call EXCEPT ![c].at = "record", ![c].copy = NoOne]
          /\ timeline' = timeline
      BY <1>3 DEF SaveHandoff
    <2>2. call'[c].at = "record"
      BY <1>1, <2>1 DEF Tables, Calls
    <2>3. CASE h = call[c].h
      BY <1>1, <2>1, <2>2, <2>3 DEF SavedBy, Tables
    <2>4. CASE h # call[c].h
      BY <1>1, <2>1, <2>4 DEF Untouched, Tables
    <2>. QED
      BY <2>3, <2>4
  <1>4. CASE UpdateHandoffOwnership(c)
    <2>1. /\ call[c].at = "own" /\ call' = [call EXCEPT ![c] = Idle]
          /\ row' = [row EXCEPT ![call[c].h].owner = call[c].copy.owner,
                                ![call[c].h].lease = call[c].copy.lease,
                                ![call[c].h].reviewer = call[c].copy.reviewer]
          /\ timeline' = timeline
      BY <1>4 DEF UpdateHandoffOwnership
    <2>2. CASE h = call[c].h
      <3>1. row'[h] = [[[row[h] EXCEPT !.owner = call[c].copy.owner]
                                EXCEPT !.lease = call[c].copy.lease]
                                EXCEPT !.reviewer = call[c].copy.reviewer]
        BY <1>1, <2>1, <2>2 DEF Tables
      <3>2. row[h] \in Rows
        BY <1>1 DEF Tables
      <3>3. Rewritten(row[h], row'[h])
        BY <3>1, <3>2 DEF Rewritten, Progress, Rows
      <3>. QED
        BY <2>1, <2>2, <3>3 DEF RewrittenBy
    <2>3. CASE h # call[c].h
      BY <1>1, <2>1, <2>3 DEF Untouched, Tables
    <2>. QED
      BY <2>2, <2>3
  <1>5. CASE Abandon(c)
    <2>1. call[c].at # "idle" /\ row' = row
      BY <1>5 DEF Abandon
    <2>2. PICK g \in Handoffs : g = call[c].h
      BY <1>1, <2>1 DEF CallOK, Tables, Calls
    <2>3. CASE timeline' = timeline
      BY <2>1, <2>3 DEF Untouched
    <2>4. CASE timeline' # timeline
      <3>1. PICK i \in Pending(c, g) : timeline' = [timeline EXCEPT ![g] = RemoveAt(timeline[g], i)]
        BY <1>5, <2>2, <2>4 DEF Abandon, Drop
      <3>2. /\ timeline[g] \in Seq(Entries) /\ i \in DOMAIN timeline[g]
            /\ Theirs(timeline[g], c) = {i}
        BY TheirEntry
      <3>3. AtEnd => Effective(RemoveAt(timeline[g], i)) = Effective(timeline[g])
        BY <3>2, LastEntry DEF AtEnd
      <3>. QED
        BY <1>1, <2>1, <3>1, <3>3 DEF Untouched, Tables
    <2>. QED
      BY <2>3, <2>4
  <1>. QED
    BY <1>2, <1>3, <1>4, <1>5 DEF Continue

\* What is stamped counts for nothing yet.
LEMMA BeginStep ==
  ASSUME TypeInv, NEW c \in Callers, NEW g \in Handoffs, Begin(c, g), NEW h \in Handoffs
  PROVE  Untouched(h)
  <1>1. Tables
    BY DEF TypeInv
  <1>2. /\ row' = row
        /\ \/ timeline' = timeline
           \/ \E e \in Events : Stamp(g, e, c)
    <2>1. TransportRequested \in Events
      BY DEF TransportRequested, Events, EventTypes, Actors, Systems, Decisions
    <2>. QED
      BY <2>1, TruthAssumption
      DEF Begin, ApplyProtocolAction, RecordAuthoritativeEvent, BackfillEvent, BeginRecording,
          DispatchHandoff, LoadOwnership
  <1>3. ASSUME NEW e \in Events, Stamp(g, e, c)
        PROVE  Effective(timeline'[h]) = Effective(timeline[h])
    <2>. DEFINE x == [event |-> e, by |-> c, status |-> "pending"]
    <2>1. x \in Entries /\ timeline[g] \in Seq(Entries) /\ ~ Accepted(x)
      BY <1>1 DEF Entries, Tables, Accepted
    <2>2. timeline' = [timeline EXCEPT ![g] = Append(timeline[g], x)]
      BY <1>3 DEF Stamp
    <2>. HIDE DEF x
    <2>3. Effective(Append(timeline[g], x)) = Effective(timeline[g])
      BY <2>1, EffectiveAppend DEF Sift
    <2>. QED
      BY <1>1, <2>2, <2>3 DEF Tables
  <1>. QED
    BY <1>2, <1>3 DEF Untouched

\* A repair of handoff g.
LEMMA RepairStep ==
  ASSUME TypeInv, NEW g \in Handoffs, NEW ids, RepairTimeline(g, ids), NEW h \in Handoffs
  PROVE  Untouched(h) \/ Repaired(h)
  <1>. DEFINE s == Invalidated(timeline[g], ids)
  <1>1. Tables /\ repairs \in Nat
    BY DEF TypeInv, Budget
  <1>2. /\ repairs' = repairs + 1 /\ call' = call
        /\ timeline' = [timeline EXCEPT ![g] = s]
        /\ row' = [row EXCEPT ![g] = Replay(Kind[g], Base(row[g]), Effective(s))]
    BY DEF RepairTimeline, ReplayHandoffProjection
  <1>3. Effective(s) \in Seq(Events) /\ Range(Effective(s)) \subseteq Range(Effective(timeline[g]))
    BY <1>1, InvalidatedLog, EffectiveEvents, FewerEvents DEF Tables
  <1>. HIDE DEF s
  <1>4. CASE h = g
    BY <1>1, <1>2, <1>3, <1>4 DEF Repaired, Tables
  <1>5. CASE h # g
    BY <1>1, <1>2, <1>5 DEF Untouched, Tables
  <1>. QED
    BY <1>4, <1>5

\* Whatever the step, one of the five.
LEMMA HandoffStep ==
  ASSUME TypeInv, [Next]_vars, NEW h \in Handoffs
  PROVE  \/ Untouched(h) \/ Repaired(h)
         \/ \E c \in Callers : RecordedBy(c, h) \/ SavedBy(c, h) \/ RewrittenBy(c, h)
  <1>1. CASE Next
    BY <1>1, Steps, ContinueStep, BeginStep, RepairStep
  <1>2. CASE UNCHANGED vars
    BY <1>2 DEF vars, Untouched
  <1>. QED
    BY <1>1, <1>2

----------------------------------------------------------------------------
\* What only a repair takes back

Flags == \A h \in Handoffs : Hydrated(Kind[h], row[h])

\* A dispatch that writes a row back finds it where it has read it.
SavesMatch ==
  \A c \in Callers : call[c].at = "save" =>
    row[call[c].h].state = "created" /\ Progress(call[c].copy) = Progress(row[call[c].h])

\* Then no step but a repair takes an ended handoff on, or any handoff back.
LEMMA RowStep ==
  ASSUME TypeInv, Flags, SavesMatch, [Next]_vars, NEW h \in Handoffs
  PROVE  /\ Hydrated(Kind[h], row'[h])
         /\ row[h].state \in Ended /\ Progress(row'[h]) # Progress(row[h])
              => repairs' > repairs
         /\ row'[h].version < row[h].version => repairs' > repairs
  <1>1. row[h] \in Rows /\ row'[h] \in Rows /\ Kind[h] \in Kinds
    BY NextType, TruthAssumption DEF TypeInv, Tables
  <1>2. Hydrated(Kind[h], row[h]) /\ ~ (row[h].version < row[h].version)
    BY <1>1 DEF Flags, Rows
  <1>3. \A r, q : Progress(r) = Progress(q) => r.state = q.state /\ r.version = q.version
                                               /\ r.has = q.has
    BY DEF Progress
  <1>4. CASE Untouched(h)
    BY <1>2, <1>4 DEF Untouched
  <1>5. CASE Repaired(h)
    <2>1. Base(row[h]) \in Rows /\ Hydrated(Kind[h], Base(row[h]))
      BY <1>1, BaseType, NewHydrated
    <2>. QED
      BY <1>1, <1>5, <2>1, ReplayHydrated DEF Repaired
  <1>6. ASSUME NEW c \in Callers, RecordedBy(c, h)
        PROVE  /\ Hydrated(Kind[h], row'[h])
               /\ row[h].state \in Ended => Progress(row'[h]) = Progress(row[h])
               /\ ~ (row'[h].version < row[h].version)
    <2>1. PICK e \in Events : Accepts(Kind[h], row[h], e)
                              /\ row'[h] = Apply(Kind[h], row[h], e)
      BY <1>6 DEF RecordedBy
    <2>2. row'[h] = Take(Kind[h], row[h], e)
      BY <2>1 DEF Take
    <2>3. Hydrated(Kind[h], row'[h]) /\ (e.type \in Signals => row'[h] = row[h])
      BY <1>1, <1>2, <2>2, TakeHydrated
    <2>4. row[h].state \in Ended => e.type \in Signals
      BY <1>1, <2>1, EndedIsFinal
    <2>5. e.type \notin Signals => row'[h].version = row[h].version + 1
      BY <1>1, <2>1, ApplyStep
    <2>6. row[h].version \in Nat
      BY <1>1 DEF Rows
    <2>. QED
      BY <1>2, <2>3, <2>4, <2>5, <2>6
  <1>7. ASSUME NEW c \in Callers, SavedBy(c, h)
        PROVE  /\ Hydrated(Kind[h], row'[h]) /\ Progress(row'[h]) = Progress(row[h])
    <2>1. row[h].state = "created" /\ Progress(row'[h]) = Progress(row[h])
      BY <1>7 DEF SavedBy, SavesMatch
    <2>. QED
      BY <1>1, <1>3, <2>1, NewHydrated
  <1>8. ASSUME NEW c \in Callers, RewrittenBy(c, h)
        PROVE  /\ Hydrated(Kind[h], row'[h]) /\ Progress(row'[h]) = Progress(row[h])
    <2>1. Progress(row'[h]) = Progress(row[h])
      BY <1>8 DEF RewrittenBy, Rewritten
    <2>2. row'[h].state = row[h].state /\ row'[h].has = row[h].has
      BY <1>3, <2>1
    <2>3. Hydrated(Kind[h], row'[h])
      BY <1>2, <2>2 DEF Hydrated, Implied
    <2>. QED
      BY <2>1, <2>3
  <1>9. \/ Untouched(h) \/ Repaired(h)
        \/ \E c \in Callers : RecordedBy(c, h) \/ SavedBy(c, h) \/ RewrittenBy(c, h)
    BY HandoffStep
  <1>10. Repaired(h) => repairs' > repairs
    BY DEF Repaired
  <1>. QED
    BY <1>2, <1>3, <1>4, <1>5, <1>6, <1>7, <1>8, <1>9, <1>10 DEF Untouched

\* The columns of every row go on saying what its state says.
LEMMA FlagsStep ==
  ASSUME TypeInv, Flags, SavesMatch, [Next]_vars
  PROVE  Flags'
  BY RowStep DEF Flags

\* A handoff that was just created has none of the marks of a later state.
LEMMA InitFlags ==
  ASSUME Init
  PROVE  Flags
  <1>1. ASSUME NEW h \in Handoffs PROVE Hydrated(Kind[h], row[h])
    <2>1. row[h] = Created(h) /\ Created(h).state = "created"
      BY DEF Init, Created
    <2>. QED
      BY <2>1, CreatedType, NewHydrated, TruthAssumption
  <1>. QED
    BY <1>1 DEF Flags

----------------------------------------------------------------------------
\* Operations that take turns

\* No two operations on one handoff are under way.
Serial ==
  \A c, d \in Callers : call[c].h # NoOne /\ call[c].h = call[d].h => c = d

\* A handoff in its first state is as it was created,
Fresh ==
  \A h \in Handoffs : row[h].state = "created" => Progress(row[h]) = Progress(Base(row[h]))

\* and no event a replay reads has ever moved it.
Dormant ==
  \A h \in Handoffs : row[h].state = "created" =>
    Inert(Kind[h], Base(row[h]), Effective(timeline[h]))

\* A dispatch that writes a row back has read it as it is, but for the target.
Saves ==
  \A c \in Callers : call[c].at = "save" =>
    /\ row[call[c].h].state = "created"
    /\ Progress(call[c].copy) = Progress(row[call[c].h])
    /\ call[c].copy.reviewer = row[call[c].h].reviewer /\ call[c].copy.target = TRUE

OrderInv ==
  TypeInv /\ Flags /\ Serial /\ AtEnd /\ Fresh /\ Dormant /\ Saves

\* Who begins waits its turn.
LEMMA SerialStep ==
  ASSUME ~ Overlap, TypeInv, Serial, [Next]_vars
  PROVE  Serial'
  <1>1. Tables
    BY DEF TypeInv
  <1>2. ASSUME NEW c \in Callers, Continue(c)
        PROVE  \A d \in Callers : call'[d].h \in {call[d].h, NoOne}
    <2>1. \/ call' = [call EXCEPT ![c] = Idle]
          \/ call' = [call EXCEPT ![c].at = "record", ![c].copy = NoOne]
      BY <1>2 DEF Continue, RecordAcceptedEvent, SaveHandoff, UpdateHandoffOwnership, Abandon
    <2>. QED
      BY <1>1, <2>1 DEF Tables, Calls, Idle
  <1>3. ASSUME NEW c \in Callers, NEW h \in Handoffs, Begin(c, h)
        PROVE  /\ \A d \in Callers : call[d].h # h
               /\ \A d \in Callers : call'[d].h = IF d = c THEN h ELSE call[d].h
    <2>1. MayBegin(c, h) /\ \E at, r : call' = [call EXCEPT ![c] = [at |-> at, h |-> h, copy |-> r]]
      BY <1>3 DEF Begin, ApplyProtocolAction, RecordAuthoritativeEvent, BackfillEvent,
                  BeginRecording, DispatchHandoff, LoadOwnership
    <2>. QED
      BY <1>1, <2>1 DEF MayBegin, Tables
  <1>4. ASSUME NEW h \in Handoffs, NEW ids, RepairTimeline(h, ids) PROVE call' = call
    BY <1>4 DEF RepairTimeline
  <1>5. UNCHANGED vars => call' = call
    BY DEF vars
  <1>6. CASE \E c \in Callers : Continue(c)
    BY <1>2, <1>6 DEF Serial
  <1>7. CASE \E c \in Callers, h \in Handoffs : Begin(c, h)
    BY <1>3, <1>7 DEF Serial
  <1>8. CASE call' = call
    BY <1>8 DEF Serial
  <1>. QED
    BY <1>4, <1>5, <1>6, <1>7, <1>8, Steps

\* So the entry of an operation stays the last.
LEMMA AtEndStep ==
  ASSUME ~ Overlap, TypeInv, Serial, AtEnd, [Next]_vars
  PROVE  AtEnd'
  <1>1. Tables /\ PendingOK
    BY DEF TypeInv
  <1>2. ASSUME NEW d \in Callers, NEW g \in Handoffs, call[d].h # g
        PROVE  Theirs(timeline[g], d) = {}
    BY <1>1, <1>2 DEF PendingOK, Recording
  <1>3. ASSUME NEW c \in Callers, NEW h \in Handoffs, NEW i \in Pending(c, h),
               Keep(h, i) \/ Drop(h, i)
        PROVE  AtEnd'
    <2>1. /\ call[c].h = h /\ timeline[h] \in Seq(Entries) /\ i \in DOMAIN timeline[h]
          /\ Theirs(timeline[h], c) = {i}
      BY TheirEntry
    <2>2. \A d \in Callers : Theirs(timeline[h], d) \subseteq {i}
      BY <1>2, <2>1, TruthAssumption DEF Serial
    <2>3. PICK s \in Seq(Entries) : /\ timeline' = [timeline EXCEPT ![h] = s]
                                    /\ \A d \in Callers : Theirs(s, d) = {}
      <3>1. CASE Keep(h, i)
        <4>1. timeline' = [timeline EXCEPT ![h] = Kept(timeline[h], i)]
          BY <1>1, <2>1, <3>1, KeepKeeps
        <4>2. /\ Kept(timeline[h], i) \in Seq(Entries)
              /\ \A d \in Callers : Theirs(Kept(timeline[h], i), d) = {}
          BY <2>1, <2>2, KeptLog
        <4>. QED
          BY <4>1, <4>2
      <3>2. CASE Drop(h, i)
        <4>1. timeline' = [timeline EXCEPT ![h] = RemoveAt(timeline[h], i)]
          BY <3>2 DEF Drop
        <4>2. /\ RemoveAt(timeline[h], i) \in Seq(Entries)
              /\ \A d \in Callers : Theirs(RemoveAt(timeline[h], i), d) = {}
          BY <2>1, <2>2, DroppedLog, DroppedTheirs
        <4>. QED
          BY <4>1, <4>2
      <3>. QED
        BY <1>3, <3>1, <3>2
    <2>4. \A g \in Handoffs : timeline'[g] = IF g = h THEN s ELSE timeline[g]
      BY <1>1, <2>3 DEF Tables
    <2>. QED
      BY <2>3, <2>4 DEF AtEnd
  <1>4. ASSUME NEW c \in Callers, Continue(c) PROVE AtEnd' \/ timeline' = timeline
    <2>1. CASE RecordAcceptedEvent(c)
      <3>1. call[c].h \in Handoffs
        BY <1>1, <2>1 DEF RecordAcceptedEvent, TypeInv, CallOK, Tables, Calls
      <3>. QED
        BY <1>3, <2>1, <3>1 DEF RecordAcceptedEvent
    <2>2. CASE SaveHandoff(c) \/ UpdateHandoffOwnership(c)
      BY <2>2 DEF SaveHandoff, UpdateHandoffOwnership
    <2>3. CASE Abandon(c)
      <3>1. call[c].h \in Handoffs
        BY <1>1, <2>3 DEF Abandon, TypeInv, CallOK, Tables, Calls
      <3>. QED
        BY <1>3, <2>3, <3>1 DEF Abandon
    <2>. QED
      BY <1>4, <2>1, <2>2, <2>3 DEF Continue
  <1>5. ASSUME NEW c \in Callers, NEW h \in Handoffs, NEW e \in Events,
               MayBegin(c, h), Stamp(h, e, c)
        PROVE  AtEnd'
    <2>. DEFINE x == [event |-> e, by |-> c, status |-> "pending"]
                s == Append(timeline[h], x)
    <2>1. timeline[h] \in Seq(Entries) /\ x \in Entries /\ x.status = "pending"
      BY <1>1 DEF Tables, Entries
    <2>2. timeline' = [timeline EXCEPT ![h] = s]
      BY <1>5 DEF Stamp
    <2>3. \A d \in Callers : Theirs(s, d) \subseteq {Len(timeline[h]) + 1}
      BY <1>2, <1>5, <2>1, StampedLog DEF MayBegin
    <2>4. Len(s) = Len(timeline[h]) + 1 /\ s[Len(timeline[h]) + 1] = x
      BY <2>1
    <2>. HIDE DEF s, x
    <2>5. \A g \in Handoffs : timeline'[g] = IF g = h THEN s ELSE timeline[g]
      BY <1>1, <2>2 DEF Tables
    <2>. QED
      BY <2>1, <2>3, <2>4, <2>5 DEF AtEnd
  <1>6. ASSUME NEW c \in Callers, NEW h \in Handoffs, Begin(c, h)
        PROVE  AtEnd' \/ timeline' = timeline
    <2>1. MayBegin(c, h) /\ (timeline' = timeline \/ \E e \in Events : Stamp(h, e, c))
      <3>1. TransportRequested \in Events
        BY DEF TransportRequested, Events, EventTypes, Actors, Systems, Decisions
      <3>. QED
        BY <1>6, <3>1, TruthAssumption
        DEF Begin, ApplyProtocolAction, RecordAuthoritativeEvent, BackfillEvent, BeginRecording,
            DispatchHandoff, LoadOwnership
    <2>. QED
      BY <1>5, <2>1
  <1>7. ASSUME NEW h \in Handoffs, NEW ids \in SUBSET Recorded(h), RepairTimeline(h, ids)
        PROVE  AtEnd'
    <2>. DEFINE s == Invalidated(timeline[h], ids)
    <2>1. timeline[h] \in Seq(Entries) /\ timeline' = [timeline EXCEPT ![h] = s]
      BY <1>1, <1>7 DEF RepairTimeline, Tables
    <2>2. /\ s \in Seq(Entries) /\ \A d \in Callers : Theirs(s, d) = Theirs(timeline[h], d)
      BY <2>1, InvalidatedLog
    <2>3. Len(s) = Len(timeline[h])
      <3>1. DOMAIN s = DOMAIN timeline[h]
        BY DEF Invalidated
      <3>. HIDE DEF s
      <3>. QED
        BY <2>1, <2>2, <3>1
    <2>4. \A d \in Callers : \A i \in Theirs(timeline[h], d) : s[i] = timeline[h][i]
      <3>1. ASSUME NEW d \in Callers, NEW i \in Theirs(timeline[h], d)
            PROVE  s[i] = timeline[h][i]
        <4>1. i \in DOMAIN timeline[h] /\ i \notin ids
          BY <3>1 DEF AtEnd, Recorded, Theirs
        <4>. QED
          BY <4>1 DEF Invalidated
      <3>. QED
        BY <3>1
    <2>. HIDE DEF s
    <2>5. \A g \in Handoffs : timeline'[g] = IF g = h THEN s ELSE timeline[g]
      BY <1>1, <2>1 DEF Tables
    <2>. QED
      BY <2>2, <2>3, <2>4, <2>5 DEF AtEnd
  <1>8. UNCHANGED vars => timeline' = timeline
    BY DEF vars
  <1>9. timeline' = timeline => AtEnd'
    BY DEF AtEnd
  <1>. QED
    BY <1>4, <1>6, <1>7, <1>8, <1>9, Steps

\* A handoff that is still, or again, in its first state.
LEMMA FreshStep ==
  ASSUME OrderInv, [Next]_vars, NEW h \in Handoffs, row'[h].state = "created"
  PROVE  /\ Progress(row'[h]) = Progress(Base(row'[h]))
         /\ Inert(Kind[h], Base(row'[h]), Effective(timeline'[h]))
  <1>1. /\ row[h] \in Rows /\ row'[h] \in Rows /\ Kind[h] \in Kinds
        /\ timeline[h] \in Seq(Entries) /\ AtEnd
    BY NextType, TruthAssumption DEF OrderInv, TypeInv, Tables
  <1>2. \A r \in Rows : /\ Base(r) \in Rows /\ Base(Base(r)) = Base(r)
                        /\ Base(r).target = r.target
    BY BaseType
  <1>3. \A r \in Rows, q \in Rows : Progress(Base(r)) = Progress(Base(q))
    BY BaseType DEF Progress
  <1>4. \A r, q : Progress(r) = Progress(q) => r.state = q.state
    BY DEF Progress
  <1>5. row[h].state = "created" =>
          /\ Progress(row[h]) = Progress(Base(row[h]))
          /\ Inert(Kind[h], Base(row[h]), Effective(timeline[h]))
    BY DEF OrderInv, Fresh, Dormant
  <1>6. Effective(timeline[h]) \in Seq(Events)
    BY <1>1, EffectiveEvents
  <1>7. CASE Untouched(h)
    BY <1>1, <1>5, <1>7 DEF Untouched
  <1>8. CASE Repaired(h)
    <2>1. /\ row'[h] = Replay(Kind[h], Base(row[h]), Effective(timeline'[h]))
          /\ Effective(timeline'[h]) \in Seq(Events)
      BY <1>8 DEF Repaired
    <2>2. Inert(Kind[h], Base(row[h]), Effective(timeline'[h])) /\ row'[h] = Base(row[h])
      BY <1>1, <1>2, <2>1, ReplayCreated
    <2>. QED
      BY <1>1, <1>2, <1>3, <2>2
  <1>9. ASSUME NEW c \in Callers, RecordedBy(c, h)
        PROVE  /\ Progress(row'[h]) = Progress(Base(row'[h]))
               /\ Inert(Kind[h], Base(row'[h]), Effective(timeline'[h]))
    <2>1. PICK e \in Events : /\ Accepts(Kind[h], row[h], e)
                              /\ row'[h] = Apply(Kind[h], row[h], e)
                              /\ Effective(timeline'[h]) = Append(Effective(timeline[h]), e)
      BY <1>1, <1>9 DEF RecordedBy
    <2>2. e.type \in Signals
      BY <1>1, <2>1, ApplyStep, NeverBack
    <2>3. row'[h] = row[h]
      BY <1>1, <2>1, <2>2, TakeHydrated DEF Take, OrderInv, Flags
    <2>. QED
      BY <1>5, <1>6, <2>1, <2>2, <2>3, InertLonger
  <1>10. ASSUME NEW c \in Callers, SavedBy(c, h)
         PROVE  /\ Progress(row'[h]) = Progress(Base(row'[h]))
                /\ Inert(Kind[h], Base(row'[h]), Effective(timeline'[h]))
    <2>1. /\ row[h].state = "created" /\ Progress(row'[h]) = Progress(row[h])
          /\ row'[h].target = TRUE /\ timeline'[h] = timeline[h]
      BY <1>10 DEF SavedBy, OrderInv, Saves
    <2>2. Inert(Kind[h], Base(row'[h]), Effective(timeline[h]))
      BY <1>1, <1>2, <1>5, <1>6, <2>1, InertEither
    <2>. QED
      BY <1>1, <1>3, <1>5, <2>1, <2>2
  <1>11. ASSUME NEW c \in Callers, RewrittenBy(c, h)
         PROVE  /\ Progress(row'[h]) = Progress(Base(row'[h]))
                /\ Inert(Kind[h], Base(row'[h]), Effective(timeline'[h]))
    <2>1. /\ Progress(row'[h]) = Progress(row[h]) /\ row'[h].target = row[h].target
          /\ timeline'[h] = timeline[h]
      BY <1>11 DEF RewrittenBy, Rewritten
    <2>2. row[h].state = "created"
      BY <1>4, <2>1
    <2>3. Inert(Kind[h], Base(row'[h]), Effective(timeline[h]))
      BY <1>1, <1>2, <1>5, <1>6, <2>1, <2>2, InertEither
    <2>. QED
      BY <1>1, <1>3, <1>5, <2>1, <2>2, <2>3
  <1>12. TypeInv
    BY DEF OrderInv
  <1>. QED
    BY <1>7, <1>8, <1>9, <1>10, <1>11, <1>12, HandoffStep

\* A write of a whole row under way was under way, or has just read it.
LEMMA SaveBegins ==
  ASSUME TypeInv, [Next]_vars, NEW d \in Callers, call'[d].at = "save"
  PROVE  \/ call'[d] = call[d]
         \/ /\ call'[d].h \in Handoffs /\ row[call'[d].h].state = "created" /\ row' = row
            /\ call'[d].copy = [row[call'[d].h] EXCEPT !.target = TRUE]
            /\ TRUE \in DispatchTargets
  <1>1. Tables
    BY DEF TypeInv
  <1>2. ASSUME NEW c \in Callers, Continue(c) PROVE call'[d] = call[d]
    <2>1. \/ call' = [call EXCEPT ![c] = Idle]
          \/ call' = [call EXCEPT ![c].at = "record", ![c].copy = NoOne]
      BY <1>2 DEF Continue, RecordAcceptedEvent, SaveHandoff, UpdateHandoffOwnership, Abandon
    <2>2. call'[c].at # "save"
      BY <1>1, <2>1 DEF Tables, Calls, Idle
    <2>. QED
      BY <1>1, <2>1, <2>2 DEF Tables
  <1>3. ASSUME NEW c \in Callers, NEW h \in Handoffs, Begin(c, h), c = d
        PROVE  /\ call'[d].h \in Handoffs /\ row[call'[d].h].state = "created" /\ row' = row
               /\ call'[d].copy = [row[call'[d].h] EXCEPT !.target = TRUE]
               /\ TRUE \in DispatchTargets
    <2>1. \A o : call' = [call EXCEPT ![c] = o] => call'[d] = o
      BY <1>1, <1>3 DEF Tables
    <2>2. PICK named \in DispatchTargets : DispatchHandoff(c, h, named)
      BY <1>3, <2>1 DEF Begin, ApplyProtocolAction, RecordAuthoritativeEvent, BackfillEvent,
                        BeginRecording, LoadOwnership
    <2>. DEFINE o == IF named /\ ~ row[h].target
                     THEN [at |-> "save", h |-> h, copy |-> [row[h] EXCEPT !.target = TRUE]]
                     ELSE [at |-> "record", h |-> h, copy |-> NoOne]
    <2>3. row[h].state = "created" /\ row' = row /\ call' = [call EXCEPT ![c] = o]
      BY <2>2 DEF DispatchHandoff
    <2>4. o.at = "save" =>
            o.h = h /\ o.copy = [row[h] EXCEPT !.target = TRUE] /\ named = TRUE
      BY TruthAssumption
    <2>. HIDE DEF o
    <2>5. call'[d] = o
      BY <2>1, <2>3
    <2>. QED
      BY <2>2, <2>3, <2>4, <2>5
  <1>4. ASSUME NEW c \in Callers, NEW h \in Handoffs, Begin(c, h), c # d
        PROVE  call'[d] = call[d]
    <2>1. \E o : call' = [call EXCEPT ![c] = o]
      BY <1>4 DEF Begin, ApplyProtocolAction, RecordAuthoritativeEvent, BackfillEvent,
                  BeginRecording, DispatchHandoff, LoadOwnership
    <2>. QED
      BY <1>1, <1>4, <2>1 DEF Tables
  <1>5. ASSUME NEW h \in Handoffs, NEW ids, RepairTimeline(h, ids) PROVE call' = call
    BY <1>5 DEF RepairTimeline
  <1>6. UNCHANGED vars => call' = call
    BY DEF vars
  <1>. QED
    BY <1>2, <1>3, <1>4, <1>5, <1>6, Steps

\* A repair of a handoff that was never moved makes of it what it was.
LEMMA RepairedFresh ==
  ASSUME OrderInv, NEW h \in Handoffs, row[h].state = "created", Repaired(h)
  PROVE  row'[h] = Base(row[h])
  <1>1. row[h] \in Rows /\ Kind[h] \in Kinds
    BY TruthAssumption DEF OrderInv, TypeInv, Tables
  <1>2. Base(row[h]) \in Rows /\ Base(Base(row[h])) = Base(row[h])
    BY <1>1, BaseType
  <1>3. /\ row'[h] = Replay(Kind[h], Base(row[h]), Effective(timeline'[h]))
        /\ Effective(timeline'[h]) \in Seq(Events)
        /\ Range(Effective(timeline'[h])) \subseteq Range(Effective(timeline[h]))
    BY DEF Repaired
  <1>4. Inert(Kind[h], Base(row[h]), Effective(timeline[h]))
    BY DEF OrderInv, Dormant
  <1>5. Inert(Kind[h], Base(row[h]), Effective(timeline'[h]))
    BY <1>3, <1>4, InertFewer
  <1>. QED
    BY <1>1, <1>2, <1>3, <1>5, ReplayCreated

\* Nobody else moves a handoff while a dispatch is about to write its row back.
LEMMA SavesStep ==
  ASSUME OrderInv, [Next]_vars
  PROVE  Saves'
  <1>1. TypeInv /\ Tables /\ CallOK /\ Serial /\ Fresh /\ Saves
    BY DEF OrderInv, TypeInv
  <1>2. ASSUME NEW d \in Callers, call'[d].at = "save"
        PROVE  /\ row'[call'[d].h].state = "created"
               /\ Progress(call'[d].copy) = Progress(row'[call'[d].h])
               /\ call'[d].copy.reviewer = row'[call'[d].h].reviewer
               /\ call'[d].copy.target = TRUE
    <2>1. CASE call'[d] = call[d]
      <3>1. PICK h \in Handoffs : h = call[d].h
        BY <1>1, <1>2, <2>1 DEF CallOK, Tables, Calls
      <3>2. /\ row[h].state = "created" /\ Progress(call[d].copy) = Progress(row[h])
            /\ call[d].copy.reviewer = row[h].reviewer /\ call[d].copy.target = TRUE
        BY <1>1, <1>2, <2>1, <3>1 DEF Saves
      <3>3. CASE Untouched(h)
        BY <2>1, <3>1, <3>2, <3>3 DEF Untouched
      <3>4. CASE Repaired(h)
        <4>1. row'[h] = Base(row[h]) /\ row[h] \in Rows
          BY <1>1, <3>2, <3>4, RepairedFresh DEF Tables
        <4>2. row'[h].state = "created" /\ row'[h].reviewer = row[h].reviewer
          BY <4>1, BaseType
        <4>3. Progress(row'[h]) = Progress(row[h])
          BY <1>1, <3>2, <4>1 DEF Fresh
        <4>. QED
          BY <2>1, <3>1, <3>2, <4>2, <4>3
      <3>5. ASSUME NEW c \in Callers, RecordedBy(c, h) \/ SavedBy(c, h) \/ RewrittenBy(c, h)
            PROVE  FALSE
        <4>1. c = d
          BY <1>1, <3>1, <3>5, TruthAssumption DEF RecordedBy, SavedBy, RewrittenBy, Serial
        <4>2. call'[c].at # "save"
          BY <1>1, <3>5 DEF RecordedBy, SavedBy, RewrittenBy, Idle, Tables
        <4>. QED
          BY <1>2, <4>1, <4>2
      <3>. QED
        BY <1>1, <3>3, <3>4, <3>5, HandoffStep
    <2>2. CASE call'[d] # call[d]
      <3>1. PICK h \in Handoffs : /\ h = call'[d].h /\ row[h].state = "created" /\ row' = row
                                  /\ call'[d].copy = [row[h] EXCEPT !.target = TRUE]
        BY <1>1, <1>2, <2>2, SaveBegins
      <3>2. row[h] \in Rows
        BY <1>1 DEF Tables
      <3>. QED
        BY <3>1, <3>2 DEF Rows, Progress
    <2>. QED
      BY <2>1, <2>2
  <1>. QED
    BY <1>2 DEF Saves

\* Every step keeps what orders the recordings on one handoff.
LEMMA OrderStep ==
  ASSUME ~ Overlap, OrderInv, [Next]_vars
  PROVE  OrderInv'
  <1>1. TypeInv' /\ Serial' /\ AtEnd' /\ Saves'
    BY NextType, SerialStep, AtEndStep, SavesStep DEF OrderInv
  <1>2. SavesMatch
    BY DEF OrderInv, Saves, SavesMatch
  <1>3. Flags'
    BY <1>2, FlagsStep DEF OrderInv
  <1>4. Fresh' /\ Dormant'
    BY FreshStep DEF Fresh, Dormant
  <1>. QED
    BY <1>1, <1>3, <1>4 DEF OrderInv

\* With nobody in a call and nothing logged there is nothing to be out of order.
LEMMA InitOrder ==
  ASSUME Init
  PROVE  OrderInv
  <1>1. TypeInv /\ Flags
    BY InitType, InitFlags
  <1>2. \A c \in Callers : call[c].h = NoOne /\ call[c].at = "idle"
    BY DEF Init, Idle
  <1>3. Serial /\ Saves
    BY <1>2 DEF Serial, Saves
  <1>4. \A h \in Handoffs : timeline[h] = << >> /\ row[h] = Created(h)
    BY DEF Init
  <1>5. AtEnd
    BY <1>4 DEF AtEnd, Theirs
  <1>6. \A h \in Handoffs : Progress(Created(h)) = Progress(Base(Created(h)))
    BY CreatedType, BaseType DEF Progress, Created
  <1>7. Fresh
    BY <1>4, <1>6 DEF Fresh
  <1>8. Dormant
    BY <1>4, EffectiveEmpty DEF Dormant, Inert
  <1>. QED
    BY <1>1, <1>3, <1>5, <1>7, <1>8 DEF OrderInv

\* No dispatch writes a row back where none may name a target.
NoSaves == \A c \in Callers : call[c].at # "save"

\* Without a target a dispatch never comes to write a row back.
LEMMA NoSavesStep ==
  ASSUME TRUE \notin DispatchTargets, TypeInv, NoSaves, [Next]_vars
  PROVE  NoSaves'
  <1>1. ASSUME NEW d \in Callers, call'[d].at = "save" PROVE FALSE
    BY <1>1, SaveBegins DEF NoSaves
  <1>. QED
    BY <1>1 DEF NoSaves

\* What both ways of keeping dispatches from overwriting a row come to.
RowInv == TypeInv /\ Flags /\ SavesMatch

\* Either assumption makes every row written back the row that is there.
LEMMA RowsSafe ==
  ASSUME ~ Overlap \/ TRUE \notin DispatchTargets
  PROVE  Spec => []RowInv
  <1>1. CASE ~ Overlap
    <2>1. Init => OrderInv
      BY InitOrder
    <2>2. OrderInv /\ [Next]_vars => OrderInv'
      BY <1>1, OrderStep
    <2>3. OrderInv => RowInv
      BY DEF OrderInv, RowInv, Saves, SavesMatch
    <2>. QED
      BY <2>1, <2>2, <2>3, PTL DEF Spec
  <1>2. CASE TRUE \notin DispatchTargets
    <2>1. Init => TypeInv /\ Flags /\ NoSaves
      BY InitType, InitFlags DEF Init, NoSaves, Idle
    <2>2. NoSaves => SavesMatch
      BY DEF NoSaves, SavesMatch
    <2>3. TypeInv /\ Flags /\ NoSaves /\ [Next]_vars => (TypeInv /\ Flags /\ NoSaves)'
      BY <1>2, <2>2, NextType, FlagsStep, NoSavesStep
    <2>4. TypeInv /\ Flags /\ NoSaves => RowInv
      BY <2>2 DEF RowInv
    <2>. QED
      BY <2>1, <2>3, <2>4, PTL DEF Spec
  <1>. QED
    BY <1>1, <1>2

\* An ended handoff stays as it ended until a repair, whatever reports, lifecycle
\* events, backfills and ownership updates come late and race each other, as long
\* as operations on a handoff take turns or no dispatch names a target: a dispatch
\* that does writes the row it has read back whole (DispatchHandoff).
THEOREM EndedHandoffsStay ==
  ASSUME ~ Overlap \/ TRUE \notin DispatchTargets
  PROVE  Spec => EndedUntilRepaired
  <1>1. ASSUME RowInv, [Next]_vars
        PROVE  \A h \in Handoffs :
                 row[h].state \in Ended /\ Progress(row'[h]) # Progress(row[h])
                 => repairs' > repairs
    BY <1>1, RowStep DEF RowInv
  <1>2. RowInv /\ [Next]_vars
          => [\A h \in Handoffs :
                row[h].state \in Ended /\ Progress(row'[h]) # Progress(row[h])
                => repairs' > repairs]_vars
    BY <1>1
  <1>3. Spec => []RowInv
    BY RowsSafe
  <1>. QED
    BY <1>2, <1>3, PTL DEF Spec, EndedUntilRepaired

\* The version of a handoff goes back by a repair only, under the same condition:
\* without it SaveHandoff takes back an event accepted meanwhile, as the run
\* MCTruthDispatch shows.
THEOREM AcceptedEventsStay ==
  ASSUME ~ Overlap \/ TRUE \notin DispatchTargets
  PROVE  Spec => AcceptedStays
  <1>1. ASSUME RowInv, [Next]_vars
        PROVE  \A h \in Handoffs : row'[h].version < row[h].version => repairs' > repairs
    BY <1>1, RowStep DEF RowInv
  <1>2. RowInv /\ [Next]_vars
          => [\A h \in Handoffs :
                row'[h].version < row[h].version => repairs' > repairs]_vars
    BY <1>1
  <1>3. Spec => []RowInv
    BY RowsSafe
  <1>. QED
    BY <1>2, <1>3, PTL DEF Spec, AcceptedStays

----------------------------------------------------------------------------
\* Rows and logs

\* A handoff's row is what a replay makes of it, but for who owns it.
Agree ==
  \A h \in Handoffs :
    Alike(Kind[h], row[h], Replay(Kind[h], Base(row[h]), Effective(timeline[h])))

\* Nobody updates ownerships; what a dispatch writes back is as nobody has claimed it.
Unclaimed ==
  \A c \in Callers :
    /\ call[c].at # "own"
    /\ call[c].at = "save" =>
         call[c].copy.lease = NoActor
         /\ call[c].copy.owner \in {Kind[call[c].h].receiver, NoActor}

AgreeInv == OrderInv /\ Agree /\ Unclaimed

\* What a handoff in its first state is alike to.
LEMMA AgreeFresh ==
  ASSUME AgreeInv, NEW h \in Handoffs, row[h].state = "created"
  PROVE  row[h].lease = NoActor /\ row[h].owner \in {Kind[h].receiver, NoActor}
  <1>1. row[h] \in Rows /\ Kind[h] \in Kinds /\ timeline[h] \in Seq(Entries)
    BY TruthAssumption DEF AgreeInv, OrderInv, TypeInv, Tables
  <1>2. PICK b \in Rows : b = Base(row[h]) /\ b = Base(b) /\ b.lease = NoActor /\ b.owner = NoActor
    BY <1>1, BaseType
  <1>3. Effective(timeline[h]) \in Seq(Events) /\ Inert(Kind[h], b, Effective(timeline[h]))
    BY <1>1, <1>2, EffectiveEvents DEF AgreeInv, OrderInv, Dormant
  <1>4. Replay(Kind[h], b, Effective(timeline[h])) = b
    BY <1>1, <1>2, <1>3, ReplayCreated
  <1>5. Alike(Kind[h], row[h], b)
    BY <1>2, <1>4 DEF AgreeInv, Agree
  <1>. QED
    BY <1>2, <1>5 DEF Alike

\* A row as it was created, but for its owner, agrees with a log that leads nowhere.
LEMMA FreshAgrees ==
  ASSUME NEW k \in Kinds, NEW r \in Rows, NEW es \in Seq(Events),
         r.state = "created", Progress(r) = Progress(Base(r)), r.lease = NoActor,
         r.owner \in {k.receiver, NoActor}, Inert(k, Base(r), es)
  PROVE  Alike(k, r, Replay(k, Base(r), es))
  <1>1. PICK b \in Rows : b = Base(r) /\ b = Base(b)
    BY BaseType
  <1>2. Replay(k, b, es) = b
    BY <1>1, ReplayCreated
  <1>3. /\ b.lease = NoActor /\ b.owner = NoActor
        /\ b.reviewer = r.reviewer /\ b.target = r.target
    BY <1>1, BaseType
  <1>4. /\ r.state = b.state /\ r.version = b.version /\ r.has = b.has
        /\ r.artifacts = b.artifacts /\ r.decision = b.decision
    BY <1>1 DEF Progress
  <1>. QED
    BY <1>1, <1>2, <1>3, <1>4 DEF Alike

\* Nobody begins to update an ownership, and a dispatch reads an unclaimed handoff.
LEMMA UnclaimedStep ==
  ASSUME Reassigned = {}, AgreeInv, [Next]_vars
  PROVE  Unclaimed'
  <1>1. TypeInv /\ Tables /\ Unclaimed
    BY DEF AgreeInv, OrderInv, TypeInv
  <1>2. ASSUME NEW c \in Callers, Continue(c)
        PROVE  \A d \in Callers : call'[d].at # "own"
    <2>1. \/ call' = [call EXCEPT ![c] = Idle]
          \/ call' = [call EXCEPT ![c].at = "record", ![c].copy = NoOne]
      BY <1>2 DEF Continue, RecordAcceptedEvent, SaveHandoff, UpdateHandoffOwnership, Abandon
    <2>2. call'[c].at # "own"
      BY <1>1, <2>1 DEF Tables, Calls, Idle
    <2>. QED
      BY <1>1, <2>1, <2>2 DEF Tables, Unclaimed
  <1>3. ASSUME NEW c \in Callers, NEW h \in Handoffs, Begin(c, h)
        PROVE  \A d \in Callers : call'[d].at # "own"
    <2>1. ASSUME NEW at \in {"record", "backfill", "save"}, NEW r,
                 call' = [call EXCEPT ![c] = [at |-> at, h |-> h, copy |-> r]]
          PROVE  \A d \in Callers : call'[d].at # "own"
      BY <1>1, <2>1 DEF Tables, Unclaimed
    <2>2. \A e : \A path \in {"record", "backfill"} :
            BeginRecording(c, h, e, path) => \A d \in Callers : call'[d].at # "own"
      BY <2>1 DEF BeginRecording
    <2>3. \A named : DispatchHandoff(c, h, named) => \A d \in Callers : call'[d].at # "own"
      <3>1. ASSUME NEW named, DispatchHandoff(c, h, named)
            PROVE  \E at \in {"record", "save"} : \E r :
                     call' = [call EXCEPT ![c] = [at |-> at, h |-> h, copy |-> r]]
        <4>1. CASE named /\ ~ row[h].target
          BY <3>1, <4>1 DEF DispatchHandoff
        <4>2. CASE ~ (named /\ ~ row[h].target)
          BY <3>1, <4>2 DEF DispatchHandoff
        <4>. QED
          BY <4>1, <4>2
      <3>. QED
        BY <2>1, <3>1
    <2>. QED
      BY <1>3, <2>2, <2>3 DEF Begin, ApplyProtocolAction, RecordAuthoritativeEvent, BackfillEvent
  <1>4. ASSUME call' = call PROVE \A d \in Callers : call'[d].at # "own"
    BY <1>1, <1>4 DEF Unclaimed
  <1>5. \A h \in Handoffs : \A ids : RepairTimeline(h, ids) => call' = call
    BY DEF RepairTimeline
  <1>6. UNCHANGED vars => call' = call
    BY DEF vars
  <1>7. \A d \in Callers : call'[d].at # "own"
    BY <1>2, <1>3, <1>4, <1>5, <1>6, Steps
  <1>8. ASSUME NEW d \in Callers, call'[d].at = "save"
        PROVE  call'[d].copy.lease = NoActor
               /\ call'[d].copy.owner \in {Kind[call'[d].h].receiver, NoActor}
    <2>1. CASE call'[d] = call[d]
      BY <1>1, <1>8, <2>1 DEF Unclaimed
    <2>2. CASE call'[d] # call[d]
      <3>1. PICK h \in Handoffs : /\ h = call'[d].h /\ row[h].state = "created"
                                  /\ call'[d].copy = [row[h] EXCEPT !.target = TRUE]
        BY <1>1, <1>8, <2>2, SaveBegins
      <3>2. row[h] \in Rows
        BY <1>1 DEF Tables
      <3>3. row[h].lease = NoActor /\ row[h].owner \in {Kind[h].receiver, NoActor}
        BY <3>1, AgreeFresh
      <3>. QED
        BY <3>1, <3>2, <3>3 DEF Rows
    <2>. QED
      BY <2>1, <2>2
  <1>. QED
    BY <1>7, <1>8 DEF Unclaimed

\* Every step keeps a row in agreement with its log.
LEMMA AgreeStep ==
  ASSUME AgreeInv, [Next]_vars, NEW h \in Handoffs
  PROVE  Alike(Kind[h], row'[h], Replay(Kind[h], Base(row'[h]), Effective(timeline'[h])))
  <1>1. /\ row[h] \in Rows /\ row'[h] \in Rows /\ Kind[h] \in Kinds /\ AtEnd /\ TypeInv
        /\ timeline[h] \in Seq(Entries) /\ timeline'[h] \in Seq(Entries)
    BY NextType, TruthAssumption DEF AgreeInv, OrderInv, TypeInv, Tables
  <1>2. Effective(timeline[h]) \in Seq(Events) /\ Effective(timeline'[h]) \in Seq(Events)
    BY <1>1, EffectiveEvents
  <1>3. PICK r \in Rows : r = Replay(Kind[h], Base(row[h]), Effective(timeline[h]))
                          /\ Alike(Kind[h], row[h], r)
    BY <1>1, <1>2, BaseType, ReplayType DEF AgreeInv, Agree
  <1>4. CASE Untouched(h)
    BY <1>1, <1>3, <1>4 DEF Untouched
  <1>5. CASE Repaired(h)
    <2>1. row'[h] = Replay(Kind[h], Base(row[h]), Effective(timeline'[h]))
      BY <1>5 DEF Repaired
    <2>2. row'[h].reviewer = row[h].reviewer /\ row'[h].target = row[h].target
      BY <1>1, <1>2, <2>1, BaseType, ReplayType
    <2>3. Base(row'[h]) = Base(row[h])
      BY <1>1, <2>2, SameBase
    <2>. QED
      BY <2>1, <2>3 DEF Alike
  <1>6. ASSUME NEW c \in Callers, RecordedBy(c, h)
        PROVE  Alike(Kind[h], row'[h],
                     Replay(Kind[h], Base(row'[h]), Effective(timeline'[h])))
    <2>1. PICK e \in Events : /\ Accepts(Kind[h], row[h], e)
                              /\ row'[h] = Apply(Kind[h], row[h], e)
                              /\ Effective(timeline'[h]) = Append(Effective(timeline[h]), e)
      BY <1>1, <1>6 DEF RecordedBy
    <2>2. row'[h] = Take(Kind[h], row[h], e)
      BY <2>1 DEF Take
    <2>3. Base(row'[h]) = Base(row[h])
      BY <1>1, <2>2, TakeType, SameBase
    <2>4. Replay(Kind[h], Base(row[h]), Effective(timeline'[h])) = Take(Kind[h], r, e)
      BY <1>2, <1>3, <2>1, ReplayAppend
    <2>. QED
      BY <1>1, <1>3, <2>2, <2>3, <2>4, AlikeTake
  <1>7. ASSUME NEW c \in Callers, SavedBy(c, h)
        PROVE  Alike(Kind[h], row'[h],
                     Replay(Kind[h], Base(row'[h]), Effective(timeline'[h])))
    <2>1. row[h].state = "created" /\ Progress(row'[h]) = Progress(row[h])
      BY <1>7 DEF SavedBy, AgreeInv, OrderInv, Saves
    <2>2. row'[h].state = "created"
      BY <2>1 DEF Progress
    <2>3. /\ Progress(row'[h]) = Progress(Base(row'[h]))
          /\ Inert(Kind[h], Base(row'[h]), Effective(timeline'[h]))
      BY <2>2, FreshStep DEF AgreeInv
    <2>4. row'[h].lease = NoActor /\ row'[h].owner \in {Kind[h].receiver, NoActor}
      BY <1>7 DEF SavedBy, AgreeInv, Unclaimed
    <2>. QED
      BY <1>1, <1>2, <2>2, <2>3, <2>4, FreshAgrees
  <1>8. ASSUME NEW c \in Callers, RewrittenBy(c, h) PROVE FALSE
    BY <1>8 DEF RewrittenBy, AgreeInv, Unclaimed
  <1>. QED
    BY <1>1, <1>4, <1>5, <1>6, <1>7, <1>8, HandoffStep

\* The first rows are what replaying an empty log gives.
LEMMA InitAgree ==
  ASSUME Init
  PROVE  AgreeInv
  <1>1. OrderInv
    BY InitOrder
  <1>2. Unclaimed
    BY DEF Init, Unclaimed, Idle
  <1>3. ASSUME NEW h \in Handoffs
        PROVE  Alike(Kind[h], row[h], Replay(Kind[h], Base(row[h]), Effective(timeline[h])))
    <2>1. row[h] = Created(h) /\ timeline[h] = << >>
      BY DEF Init
    <2>2. row[h] \in Rows /\ Kind[h] \in Kinds /\ << >> \in Seq(Events)
      BY <2>1, CreatedType, TruthAssumption
    <2>3. /\ row[h].state = "created" /\ row[h].lease = NoActor
          /\ row[h].owner = Kind[h].receiver
      BY <2>1 DEF Created
    <2>4. /\ Progress(row[h]) = Progress(Base(row[h]))
          /\ Inert(Kind[h], Base(row[h]), << >>)
      BY <1>1, <2>1, <2>3, EffectiveEmpty DEF OrderInv, Fresh, Dormant
    <2>. QED
      BY <2>1, <2>2, <2>3, <2>4, EffectiveEmpty, FreshAgrees
  <1>. QED
    BY <1>1, <1>2, <1>3 DEF AgreeInv, Agree

\* Every reachable state has rows that agree with their logs.
LEMMA AgreeInvariant ==
  ASSUME ~ Overlap, Reassigned = {}
  PROVE  Spec => []AgreeInv
  <1>1. Init => AgreeInv
    BY InitAgree
  <1>2. AgreeInv /\ [Next]_vars => AgreeInv'
    <2>1. ASSUME AgreeInv, [Next]_vars PROVE AgreeInv'
      <3>1. OrderInv'
        BY <2>1, OrderStep DEF AgreeInv
      <3>2. Agree'
        BY <2>1, AgreeStep DEF Agree
      <3>3. Unclaimed'
        BY <2>1, UnclaimedStep
      <3>. QED
        BY <3>1, <3>2, <3>3 DEF AgreeInv
    <2>. QED
      BY <2>1
  <1>. QED
    BY <1>1, <1>2, PTL DEF Spec

\* A row is what a replay of its log gives (replayHandoffProjectionTx), so a repair
\* changes nothing but what the events it invalidates had brought about: where
\* operations on one handoff take turns and no ownership is updated by hand, for
\* any sequence of events, refusals, dispatches, repairs and interrupted operations.
THEOREM RowsAgreeWithLogs ==
  ASSUME ~ Overlap, Reassigned = {}
  PROVE  Spec => []ReplayAgrees
  <1>1. AgreeInv => ReplayAgrees
    BY DEF AgreeInv, Agree, ReplayAgrees, Alike, Progress
  <1>2. Spec => []AgreeInv
    BY AgreeInvariant
  <1>. QED
    BY <1>1, <1>2, PTL

----------------------------------------------------------------------------
\* What a replayed log tells

\* Its milestones, artifacts and approval before entry n.
Reached(es, n, m) == \E i \in 1 .. n - 1 : es[i].type = m

Delivered(es, n, a) ==
  \E i \in 1 .. n - 1 : es[i].type = "submitted" /\ es[i].artifacts >= a

Approved(k, b, es, n) ==
  \E i \in 1 .. n - 1 :
    /\ es[i].type = "reviewed" /\ es[i].decision = "approved"
    /\ \A j \in i + 1 .. n - 1 : ~ Rework(k, b, es, j)

\* What the row r a log leads to says of the log.
Story(k, b, es, r) ==
  LET n == Len(es) + 1 IN
    /\ \A m \in UpTo(4) : m \in r.has => Reached(es, n, m)
    /\ r.artifacts > 0 => Delivered(es, n, r.artifacts)
    /\ r.decision = "approved" => Approved(k, b, es, n)
    /\ r.state = "completed" => Earned(k, b, es)

\* A longer log tells the same of its beginning.
LEMMA Prefix ==
  ASSUME NEW k, NEW b, NEW es \in Seq(Events), NEW e \in Events
  PROVE  /\ Len(Append(es, e)) = Len(es) + 1
         /\ \A i \in 1 .. Len(es) : Append(es, e)[i] = es[i]
         /\ Append(es, e)[Len(es) + 1] = e
         /\ \A j \in 1 .. Len(es) : Rework(k, b, Append(es, e), j) <=> Rework(k, b, es, j)
         /\ Rework(k, b, Append(es, e), Len(es) + 1)
              <=> e.type \in {"checkpointed", "submitted"} /\ Accepts(k, Replay(k, b, es), e)
  <1>1. /\ Len(Append(es, e)) = Len(es) + 1 /\ Len(es) \in Nat
        /\ \A i \in 1 .. Len(es) : Append(es, e)[i] = es[i]
        /\ Append(es, e)[Len(es) + 1] = e
    OBVIOUS
  <1>2. \A j \in 1 .. Len(es) : SubSeq(Append(es, e), 1, j - 1) = SubSeq(es, 1, j - 1)
    OBVIOUS
  <1>3. SubSeq(Append(es, e), 1, (Len(es) + 1) - 1) = es
    OBVIOUS
  <1>4. \A j \in 1 .. Len(es) : Rework(k, b, Append(es, e), j) <=> Rework(k, b, es, j)
    BY <1>1, <1>2 DEF Rework
  <1>5. Rework(k, b, Append(es, e), Len(es) + 1)
          <=> e.type \in {"checkpointed", "submitted"} /\ Accepts(k, Replay(k, b, es), e)
    BY <1>1, <1>3 DEF Rework
  <1>. QED
    BY <1>1, <1>4, <1>5

\* What it has told, it tells.
LEMMA LongerStory ==
  ASSUME NEW k, NEW b, NEW es \in Seq(Events), NEW e \in Events
  PROVE  LET f == Append(es, e) IN
         /\ \A m : Reached(es, Len(es) + 1, m) => Reached(f, Len(f) + 1, m)
         /\ Reached(f, Len(f) + 1, e.type)
         /\ \A a : Delivered(es, Len(es) + 1, a) => Delivered(f, Len(f) + 1, a)
         /\ Approved(k, b, es, Len(es) + 1) /\ ~ Rework(k, b, f, Len(es) + 1)
              => Approved(k, b, f, Len(f) + 1)
         /\ Earned(k, b, es) => Earned(k, b, f)
  <1>. DEFINE f == Append(es, e)
  <1>1. /\ Len(f) = Len(es) + 1 /\ Len(es) \in Nat
        /\ \A i \in 1 .. Len(es) : f[i] = es[i]
        /\ f[Len(es) + 1] = e
        /\ \A j \in 1 .. Len(es) : Rework(k, b, f, j) <=> Rework(k, b, es, j)
    <2>1. Len(es) \in Nat
      OBVIOUS
    <2>. QED
      BY <2>1, Prefix
  <1>2. DOMAIN es = 1 .. Len(es) /\ DOMAIN f = 1 .. Len(es) + 1
    OBVIOUS
  <1>. HIDE DEF f
  <1>3. \A m : Reached(es, Len(es) + 1, m) => Reached(f, Len(f) + 1, m)
    BY <1>1 DEF Reached
  <1>4. Reached(f, Len(f) + 1, e.type)
    BY <1>1 DEF Reached
  <1>5. \A a : Delivered(es, Len(es) + 1, a) => Delivered(f, Len(f) + 1, a)
    BY <1>1 DEF Delivered
  <1>6. ASSUME Approved(k, b, es, Len(es) + 1), ~ Rework(k, b, f, Len(es) + 1)
        PROVE  Approved(k, b, f, Len(f) + 1)
    <2>1. PICK i \in 1 .. Len(es) :
            /\ es[i].type = "reviewed" /\ es[i].decision = "approved"
            /\ \A j \in i + 1 .. Len(es) : ~ Rework(k, b, es, j)
      BY <1>1, <1>6 DEF Approved
    <2>2. \A j \in i + 1 .. Len(es) + 1 : ~ Rework(k, b, f, j)
      BY <1>1, <1>6, <2>1
    <2>. QED
      BY <1>1, <2>1, <2>2 DEF Approved
  <1>7. ASSUME Earned(k, b, es) PROVE Earned(k, b, f)
    <2>1. PICK n \in 1 .. Len(es) :
            /\ es[n].type = "completed"
            /\ \A m \in UpTo(4) : \E i \in 1 .. n - 1 : es[i].type = m
            /\ k.artifacts > 0 => \E i \in 1 .. n - 1 : es[i].type = "submitted"
                                                        /\ es[i].artifacts >= k.artifacts
            /\ k.review => \E i \in 1 .. n - 1 :
                 /\ es[i].type = "reviewed" /\ es[i].decision = "approved"
                 /\ \A j \in i + 1 .. n - 1 : ~ Rework(k, b, es, j)
      BY <1>2, <1>7 DEF Earned
    <2>2. /\ n \in DOMAIN f /\ \A i \in 1 .. n : f[i] = es[i]
          /\ \A i \in 1 .. n : Rework(k, b, f, i) <=> Rework(k, b, es, i)
      BY <1>1, <1>2, <2>1
    <2>3. f[n].type = "completed" /\ \A m \in UpTo(4) : \E i \in 1 .. n - 1 : f[i].type = m
      BY <2>1, <2>2
    <2>4. k.artifacts > 0 => \E i \in 1 .. n - 1 : f[i].type = "submitted"
                                                   /\ f[i].artifacts >= k.artifacts
      BY <2>1, <2>2
    <2>5. k.review => \E i \in 1 .. n - 1 :
            /\ f[i].type = "reviewed" /\ f[i].decision = "approved"
            /\ \A j \in i + 1 .. n - 1 : ~ Rework(k, b, f, j)
      <3>1. ASSUME NEW i \in 1 .. n - 1,
                   \A j \in i + 1 .. n - 1 : ~ Rework(k, b, es, j)
            PROVE  \A j \in i + 1 .. n - 1 : ~ Rework(k, b, f, j)
        BY <2>1, <2>2, <3>1
      <3>. QED
        BY <2>1, <2>2, <3>1
    <2>. QED
      BY <2>2, <2>3, <2>4, <2>5 DEF Earned
  <1>. QED
    BY <1>3, <1>4, <1>5, <1>6, <1>7 DEF f

\* What an event adds to the story.
LEMMA StoryGoesOn ==
  ASSUME NEW k \in Kinds, NEW b \in Rows, NEW es \in Seq(Events), NEW e \in Events,
         NEW r \in Rows, r = Replay(k, b, es), Hydrated(k, r), Story(k, b, es, r)
  PROVE  Story(k, b, Append(es, e), Take(k, r, e))
  <1>. DEFINE f == Append(es, e)
  <1>1. /\ \A m \in UpTo(4) : m \in r.has => Reached(es, Len(es) + 1, m)
        /\ r.artifacts > 0 => Delivered(es, Len(es) + 1, r.artifacts)
        /\ r.decision = "approved" => Approved(k, b, es, Len(es) + 1)
        /\ r.state = "completed" => Earned(k, b, es)
    BY DEF Story
  <1>2. /\ \A m : Reached(es, Len(es) + 1, m) => Reached(f, Len(f) + 1, m)
        /\ Reached(f, Len(f) + 1, e.type)
        /\ \A a : Delivered(es, Len(es) + 1, a) => Delivered(f, Len(f) + 1, a)
        /\ Approved(k, b, es, Len(es) + 1) /\ ~ Rework(k, b, f, Len(es) + 1)
             => Approved(k, b, f, Len(f) + 1)
        /\ Earned(k, b, es) => Earned(k, b, f)
    BY LongerStory
  <1>3. /\ Len(f) = Len(es) + 1 /\ Len(es) \in Nat
        /\ \A i \in 1 .. Len(es) : f[i] = es[i]
        /\ f[Len(es) + 1] = e /\ DOMAIN f = 1 .. Len(es) + 1
        /\ \A j \in 1 .. Len(es) : Rework(k, b, f, j) <=> Rework(k, b, es, j)
        /\ Rework(k, b, f, Len(es) + 1)
             <=> e.type \in {"checkpointed", "submitted"} /\ Accepts(k, r, e)
    <2>1. DOMAIN f = 1 .. Len(es) + 1
      OBVIOUS
    <2>. QED
      BY <2>1, Prefix
  <1>. HIDE DEF f
  <1>4. CASE ~ Accepts(k, r, e) \/ e.type \in Signals
    <2>1. Take(k, r, e) = r
      BY <1>4, TakeHydrated DEF Take
    <2>2. ~ Rework(k, b, f, Len(es) + 1)
      BY <1>3, <1>4 DEF Signals
    <2>3. Story(k, b, f, r)
      BY <1>1, <1>2, <2>2 DEF Story
    <2>. QED
      BY <2>1, <2>3 DEF f
  <1>5. CASE Accepts(k, r, e) /\ e.type \notin Signals
    <2>1. PICK q \in Rows : q = Apply(k, r, e)
      BY <1>5, ApplyColumns
    <2>2. /\ q.state = StateAfter(e)
          /\ q.artifacts = IF e.type = "submitted" /\ e.artifacts > 0
                           THEN e.artifacts ELSE r.artifacts
      BY <1>5, <2>1, ApplyColumns
    <2>3. q.decision = CASE e.type = "reviewed"                      -> e.decision
                         [] e.type \in {"checkpointed", "submitted"} -> "none"
                         [] OTHER                                    -> r.decision
      BY <1>5, <2>1, ApplyColumns
    <2>4. \A m \in UpTo(4) : m \in q.has => Reached(f, Len(f) + 1, m)
      BY <1>1, <1>2, <1>5, <2>1, NewFlags
    <2>5. ASSUME q.artifacts > 0 PROVE Delivered(f, Len(f) + 1, q.artifacts)
      <3>1. CASE e.type = "submitted" /\ e.artifacts > 0
        <4>1. e.artifacts \in Nat
          BY DEF Events
        <4>. QED
          BY <1>3, <2>2, <3>1, <4>1 DEF Delivered
      <3>2. CASE ~ (e.type = "submitted" /\ e.artifacts > 0)
        <4>1. q.artifacts = r.artifacts
          BY <2>2, <3>2
        <4>. QED
          BY <1>1, <1>2, <2>5, <4>1
      <3>. QED
        BY <3>1, <3>2
    <2>6. ASSUME q.decision = "approved" PROVE Approved(k, b, f, Len(f) + 1)
      <3>1. CASE e.type = "reviewed"
        <4>1. e.decision = "approved"
          BY <2>3, <2>6, <3>1
        <4>. QED
          BY <1>3, <3>1, <4>1 DEF Approved
      <3>2. CASE e.type # "reviewed"
        <4>1. e.type \notin {"checkpointed", "submitted"}
          <5>1. "none" # "approved"
            OBVIOUS
          <5>2. e.type \in {"checkpointed", "submitted"} => q.decision = "none"
            BY <2>3, <3>2
          <5>. QED
            BY <2>6, <5>1, <5>2
        <4>2. r.decision = "approved"
          BY <2>3, <2>6, <3>2, <4>1
        <4>. QED
          BY <1>1, <1>2, <1>3, <4>1, <4>2
      <3>. QED
        BY <3>1, <3>2
    <2>7. ASSUME q.state = "completed" PROVE Earned(k, b, f)
      <3>1. e.type = "completed"
        BY <2>2, <2>7 DEF StateAfter
      <3>2. UpTo(4) \subseteq r.has
        <4>1. Allows(k, HydrateFlags(k, r), e)
          BY <1>5 DEF Accepts
        <4>2. UpTo(4) \subseteq HydrateFlags(k, r).has
          BY <3>1, <4>1 DEF Allows, CompletionPrereqs, Signals
        <4>3. HydrateFlags(k, r) = [r EXCEPT !.has = r.has \cup Implied(k, r)]
          BY DEF HydrateFlags
        <4>. QED
          BY <4>2, <4>3 DEF Hydrated, Rows
      <3>3. r.artifacts >= k.artifacts /\ (k.review => r.decision = "approved")
        BY <1>5, <3>1, CompletionIsEarned
      <3>4. \A m \in UpTo(4) : \E i \in 1 .. Len(es) : f[i].type = m
        BY <1>1, <1>3, <3>2 DEF Reached
      <3>5. k.artifacts > 0 => \E i \in 1 .. Len(es) : f[i].type = "submitted"
                                                       /\ f[i].artifacts >= k.artifacts
        <4>1. SUFFICES ASSUME k.artifacts > 0
              PROVE  \E i \in 1 .. Len(es) : f[i].type = "submitted"
                                             /\ f[i].artifacts >= k.artifacts
          OBVIOUS
        <4>2. r.artifacts \in Nat /\ k.artifacts \in Nat
          BY DEF Rows, Kinds
        <4>3. PICK i \in 1 .. Len(es) : es[i].type = "submitted" /\ es[i].artifacts >= r.artifacts
          BY <1>1, <1>3, <3>3, <4>1, <4>2 DEF Delivered
        <4>4. es[i].artifacts \in Nat
          <5>1. es[i] \in Events
            BY <1>3, <4>3
          <5>. QED
            BY <5>1 DEF Events
        <4>. QED
          BY <1>3, <3>3, <4>2, <4>3, <4>4
      <3>6. k.review => \E i \in 1 .. Len(es) :
              /\ f[i].type = "reviewed" /\ f[i].decision = "approved"
              /\ \A j \in i + 1 .. Len(es) : ~ Rework(k, b, f, j)
        <4>1. SUFFICES ASSUME k.review
              PROVE  \E i \in 1 .. Len(es) :
                       /\ f[i].type = "reviewed" /\ f[i].decision = "approved"
                       /\ \A j \in i + 1 .. Len(es) : ~ Rework(k, b, f, j)
          OBVIOUS
        <4>2. PICK i \in 1 .. Len(es) :
                /\ es[i].type = "reviewed" /\ es[i].decision = "approved"
                /\ \A j \in i + 1 .. Len(es) : ~ Rework(k, b, es, j)
          BY <1>1, <1>3, <3>3, <4>1 DEF Approved
        <4>3. \A j \in i + 1 .. Len(es) : ~ Rework(k, b, f, j)
          BY <1>3, <4>2
        <4>. QED
          BY <1>3, <4>2, <4>3
      <3>7. Len(es) + 1 \in DOMAIN f /\ (Len(es) + 1) - 1 = Len(es) /\ f[Len(es) + 1] = e
        BY <1>3
      <3>. QED
        BY <3>1, <3>4, <3>5, <3>6, <3>7 DEF Earned
    <2>8. Story(k, b, f, q)
      BY <2>4, <2>5, <2>6, <2>7 DEF Story
    <2>. QED
      BY <1>5, <2>1, <2>8 DEF Take, f
  <1>. QED
    BY <1>4, <1>5

\* Whatever the log, a handoff that a replay leaves completed has earned it by the
\* events of the log (validateCompletionPrereqs, replayHandoffProjectionTx).
THEOREM ReplayEarns ==
  ASSUME NEW k \in Kinds, NEW b \in Rows, b = Base(b), NEW es \in Seq(Events),
         Replay(k, b, es).state = "completed"
  PROVE  Earned(k, b, es)
  <1>. DEFINE T == {f \in Seq(Events) : Story(k, b, f, Replay(k, b, f))}
  <1>1. b.state = "created" /\ b.has = {} /\ b.artifacts = 0 /\ b.decision = "none"
    BY BaseType
  <1>2. << >> \in T
    <2>1. << >> \in Seq(Events) /\ Replay(k, b, << >>) = b
      BY ReplayEmpty
    <2>2. Story(k, b, << >>, b)
      BY <1>1 DEF Story
    <2>. QED
      BY <2>1, <2>2
  <1>3. ASSUME NEW f \in Seq(Events), NEW e \in Events, f \in T PROVE Append(f, e) \in T
    <2>1. PICK r \in Rows : r = Replay(k, b, f)
      BY ReplayType
    <2>2. Hydrated(k, r)
      BY <1>1, <2>1, NewHydrated, ReplayHydrated
    <2>3. Story(k, b, Append(f, e), Take(k, r, e))
      BY <1>3, <2>1, <2>2, StoryGoesOn
    <2>4. Replay(k, b, Append(f, e)) = Take(k, r, e)
      BY <2>1, ReplayAppend
    <2>. QED
      BY <2>3, <2>4
  <1>. HIDE DEF T
  <1>4. es \in T
    BY <1>2, <1>3, LogInduction
  <1>. QED
    BY <1>4 DEF T, Story

\* A completed handoff has earned it by events nobody invalidated, whatever was sent
\* back for revision, reported by others, backfilled or repaired before: under the
\* conditions under which its row agrees with its log.
THEOREM CompletionsAreEarned ==
  ASSUME ~ Overlap, Reassigned = {}
  PROVE  Spec => []CompletedIsEarned
  <1>1. AgreeInv => CompletedIsEarned
    <2>1. ASSUME AgreeInv, NEW h \in Handoffs, row[h].state = "completed"
          PROVE  Earned(Kind[h], Base(row[h]), Effective(timeline[h]))
      <3>1. row[h] \in Rows /\ Kind[h] \in Kinds /\ timeline[h] \in Seq(Entries)
        BY <2>1, TruthAssumption DEF AgreeInv, OrderInv, TypeInv, Tables
      <3>2. Base(row[h]) \in Rows /\ Base(Base(row[h])) = Base(row[h])
        BY <3>1, BaseType
      <3>3. Effective(timeline[h]) \in Seq(Events)
        BY <3>1, EffectiveEvents
      <3>4. Replay(Kind[h], Base(row[h]), Effective(timeline[h])).state = "completed"
        BY <2>1 DEF AgreeInv, Agree, Alike
      <3>. QED
        BY <3>1, <3>2, <3>3, <3>4, ReplayEarns
    <2>. QED
      BY <2>1 DEF CompletedIsEarned
  <1>2. Spec => []AgreeInv
    BY AgreeInvariant
  <1>. QED
    BY <1>1, <1>2, PTL

----------------------------------------------------------------------------
\* What is recorded of a log

\* What is recorded of a log: the entry of an operation under way is not.
LogOf(s) ==
  [i \in {j \in DOMAIN s : s[j].status # "pending"} |->
     [event |-> s[i].event, status |-> s[i].status]]

LogEntries == [event : Events, status : {"accepted", "invalid"}]

Settled(s) == \A i \in DOMAIN s : s[i].status # "pending"

\* Only the last entry of a log may be that of an operation under way.
Orderly(s) == \A i \in DOMAIN s : s[i].status = "pending" => i = Len(s)

\* A log nobody is adding to is recorded entry by entry.
LEMMA SettledLog ==
  ASSUME NEW f \in Seq(Entries), Settled(f)
  PROVE  /\ LogOf(f) \in Seq(LogEntries) /\ Len(LogOf(f)) = Len(f)
         /\ \A i \in 1 .. Len(f) : LogOf(f)[i] = [event |-> f[i].event, status |-> f[i].status]
  <1>1. /\ Len(f) \in Nat /\ {j \in DOMAIN f : f[j].status # "pending"} = 1 .. Len(f)
        /\ \A i \in 1 .. Len(f) : f[i] \in Entries /\ f[i].status # "pending"
    BY DEF Settled
  <1>2. LogOf(f) = [i \in 1 .. Len(f) |-> [event |-> f[i].event, status |-> f[i].status]]
    BY <1>1 DEF LogOf
  <1>3. \A i \in 1 .. Len(f) : [event |-> f[i].event, status |-> f[i].status] \in LogEntries
    BY <1>1 DEF Entries, LogEntries
  <1>. QED
    BY <1>1, <1>2, <1>3

\* An entry at the end of it.
LEMMA LongerLog ==
  ASSUME NEW f \in Seq(Entries), Settled(f), NEW x \in Entries, x.status # "pending"
  PROVE  /\ Settled(Append(f, x))
         /\ LogOf(Append(f, x)) = Append(LogOf(f), [event |-> x.event, status |-> x.status])
  <1>. DEFINE y == [event |-> x.event, status |-> x.status]
              s == Append(f, x)
  <1>1. /\ s \in Seq(Entries) /\ Len(s) = Len(f) + 1 /\ Len(f) \in Nat
        /\ \A i \in 1 .. Len(f) : s[i] = f[i]
        /\ s[Len(f) + 1] = x /\ DOMAIN s = 1 .. Len(f) + 1 /\ DOMAIN f = 1 .. Len(f)
    OBVIOUS
  <1>2. y \in LogEntries
    BY DEF Entries, LogEntries
  <1>. HIDE DEF s
  <1>3. Settled(s)
    BY <1>1 DEF Settled
  <1>4. /\ LogOf(s) \in Seq(LogEntries) /\ Len(LogOf(s)) = Len(f) + 1
        /\ \A i \in 1 .. Len(f) + 1 : LogOf(s)[i] = [event |-> s[i].event, status |-> s[i].status]
    BY <1>1, <1>3, SettledLog
  <1>5. /\ LogOf(f) \in Seq(LogEntries) /\ Len(LogOf(f)) = Len(f)
        /\ \A i \in 1 .. Len(f) : LogOf(f)[i] = [event |-> f[i].event, status |-> f[i].status]
    BY SettledLog
  <1>. HIDE DEF y
  <1>6. /\ Append(LogOf(f), y) \in Seq(LogEntries) /\ Len(Append(LogOf(f), y)) = Len(f) + 1
        /\ \A i \in 1 .. Len(f) : Append(LogOf(f), y)[i] = LogOf(f)[i]
        /\ Append(LogOf(f), y)[Len(f) + 1] = y
    BY <1>2, <1>5
  <1>7. \A i \in 1 .. Len(f) + 1 : LogOf(s)[i] = Append(LogOf(f), y)[i]
    BY <1>1, <1>4, <1>5, <1>6 DEF y
  <1>8. LogOf(s) = Append(LogOf(f), y)
    BY <1>1, <1>4, <1>6, <1>7
  <1>. QED
    BY <1>3, <1>8 DEF s, y

\* What is under way is not recorded.
LEMMA PendingLog ==
  ASSUME NEW s \in Seq(Entries), NEW x \in Entries, x.status = "pending"
  PROVE  LogOf(Append(s, x)) = LogOf(s)
  <1>1. /\ DOMAIN Append(s, x) = (DOMAIN s) \cup {Len(s) + 1}
        /\ \A i \in DOMAIN s : Append(s, x)[i] = s[i]
        /\ Append(s, x)[Len(s) + 1] = x
        /\ Len(s) + 1 \notin DOMAIN s
    OBVIOUS
  <1>2. {j \in DOMAIN Append(s, x) : Append(s, x)[j].status # "pending"}
          = {j \in DOMAIN s : s[j].status # "pending"}
    BY <1>1
  <1>. QED
    BY <1>1, <1>2 DEF LogOf

\* A log whose last entry is under way.
LEMMA OrderlyLog ==
  ASSUME NEW s \in Seq(Entries), Orderly(s), ~ Settled(s)
  PROVE  \E f \in Seq(Entries), y \in Entries :
           s = Append(f, y) /\ Settled(f) /\ y.status = "pending" /\ Len(s) = Len(f) + 1
  <1>1. PICK i \in DOMAIN s : i = Len(s) /\ s[i].status = "pending"
    BY DEF Orderly, Settled
  <1>2. PICK n \in Nat : Len(s) = n + 1
    <2>1. i - 1 \in Nat /\ Len(s) = (i - 1) + 1
      BY <1>1
    <2>. QED
      BY <2>1
  <1>3. PICK f \in Seq(Entries), y \in Entries : Len(s) = Len(f) + 1 /\ s = Append(f, y)
    BY <1>2, LogParts
  <1>4. /\ DOMAIN f = 1 .. n /\ \A j \in 1 .. n : f[j] = s[j] /\ j \in DOMAIN s /\ j # n + 1
        /\ s[n + 1] = y
    <2>1. Len(f) \in Nat /\ Len(f) = n /\ DOMAIN f = 1 .. Len(f)
      BY <1>2, <1>3
    <2>. QED
      BY <1>2, <1>3, <2>1
  <1>5. Settled(f)
    BY <1>2, <1>4 DEF Orderly, Settled
  <1>. QED
    BY <1>1, <1>2, <1>3, <1>4, <1>5

\* A replay reads of a log what is recorded of it.
LEMMA EffectiveLog ==
  ASSUME NEW s \in Seq(Entries), Orderly(s)
  PROVE  LogOf(s) \in Seq(LogEntries) /\ Effective(LogOf(s)) = Effective(s)
  <1>. DEFINE T == {f \in Seq(Entries) : Settled(f) => Effective(LogOf(f)) = Effective(f)}
  <1>1. << >> \in T
    <2>1. << >> \in Seq(Entries) /\ Settled(<< >>)
      BY DEF Settled
    <2>2. LogOf(<< >>) \in Seq(LogEntries) /\ Len(LogOf(<< >>)) = 0
      BY <2>1, SettledLog
    <2>3. LogOf(<< >>) = << >>
      BY <2>2
    <2>. QED
      BY <2>1, <2>3
  <1>2. ASSUME NEW f \in Seq(Entries), NEW x \in Entries, f \in T PROVE Append(f, x) \in T
    <2>. DEFINE y == [event |-> x.event, status |-> x.status]
    <2>1. SUFFICES ASSUME Settled(Append(f, x))
          PROVE  Effective(LogOf(Append(f, x))) = Effective(Append(f, x))
      BY <1>2
    <2>2. Settled(f) /\ x.status # "pending"
      <3>1. /\ DOMAIN Append(f, x) = (DOMAIN f) \cup {Len(f) + 1}
            /\ \A i \in DOMAIN f : Append(f, x)[i] = f[i]
            /\ Append(f, x)[Len(f) + 1] = x
        OBVIOUS
      <3>. QED
        BY <2>1, <3>1 DEF Settled
    <2>3. LogOf(Append(f, x)) = Append(LogOf(f), y)
      BY <2>2, LongerLog
    <2>4. LogOf(f) \in Seq(LogEntries) /\ y \in LogEntries
      BY <2>2, SettledLog DEF Entries, LogEntries
    <2>5. y.event = x.event /\ y.status = x.status
      OBVIOUS
    <2>. HIDE DEF y
    <2>6. Effective(Append(LogOf(f), y)) = Sift(Effective(LogOf(f)), y)
      BY <2>4, EffectiveAppend
    <2>7. Effective(Append(f, x)) = Sift(Effective(f), x)
      BY EffectiveAppend
    <2>. QED
      BY <1>2, <2>2, <2>3, <2>5, <2>6, <2>7 DEF Sift, Accepted
  <1>. HIDE DEF T
  <1>3. \A f \in Seq(Entries) : f \in T
    BY <1>1, <1>2, LogInduction
  <1>4. CASE Settled(s)
    BY <1>3, <1>4, SettledLog DEF T
  <1>5. CASE ~ Settled(s)
    <2>1. PICK f \in Seq(Entries), y \in Entries :
            s = Append(f, y) /\ Settled(f) /\ y.status = "pending"
      BY <1>5, OrderlyLog
    <2>2. LogOf(s) = LogOf(f)
      BY <2>1, PendingLog
    <2>3. Effective(s) = Effective(f)
      BY <2>1, EffectiveAppend DEF Sift, Accepted
    <2>. QED
      BY <1>3, <2>1, <2>2, <2>3, SettledLog DEF T
  <1>. QED
    BY <1>4, <1>5

\* The end of an operation: its entry is recorded, or never was.
LEMMA EndedLog ==
  ASSUME NEW s \in Seq(Entries), Orderly(s), NEW i \in DOMAIN s, s[i].status = "pending"
  PROVE  /\ LogOf(Kept(s, i)) = Append(LogOf(s), [event |-> s[i].event, status |-> "accepted"])
         /\ LogOf(RemoveAt(s, i)) = LogOf(s)
  <1>1. PICK f \in Seq(Entries), y \in Entries :
          s = Append(f, y) /\ Settled(f) /\ y.status = "pending" /\ Len(s) = Len(f) + 1
    BY OrderlyLog DEF Settled
  <1>2. i = Len(f) + 1 /\ s[i] = y
    <2>1. i = Len(f) + 1
      BY <1>1 DEF Orderly
    <2>. QED
      BY <1>1, <2>1
  <1>. DEFINE x == [event |-> y.event, by |-> NoOne, status |-> "accepted"]
  <1>3. x \in Entries /\ Kept(s, i) = Append(f, x) /\ RemoveAt(s, i) = f
    BY <1>1, <1>2, LastKept
  <1>4. x.event = y.event /\ x.status = "accepted"
    OBVIOUS
  <1>. HIDE DEF x
  <1>5. LogOf(s) = LogOf(f)
    BY <1>1, PendingLog
  <1>6. LogOf(Append(f, x)) = Append(LogOf(f), [event |-> x.event, status |-> x.status])
    BY <1>1, <1>3, <1>4, LongerLog
  <1>. QED
    BY <1>2, <1>3, <1>4, <1>5, <1>6

\* A repair of what is recorded.
LEMMA RepairedLog ==
  ASSUME NEW s \in Seq(Entries), NEW ids \in SUBSET {j \in DOMAIN s : s[j].status # "pending"}
  PROVE  /\ DOMAIN LogOf(s) = {j \in DOMAIN s : s[j].status # "pending"}
         /\ LogOf(Invalidated(s, ids)) =
              [i \in DOMAIN LogOf(s) |->
                 IF i \in ids THEN [LogOf(s)[i] EXCEPT !.status = "invalid"] ELSE LogOf(s)[i]]
  <1>. DEFINE D == {j \in DOMAIN s : s[j].status # "pending"}
              t == Invalidated(s, ids)
  <1>1. /\ DOMAIN LogOf(s) = D
        /\ \A i \in D : LogOf(s)[i] = [event |-> s[i].event, status |-> s[i].status]
    BY DEF LogOf
  <1>2. \A i \in DOMAIN s : s[i] \in Entries
    OBVIOUS
  <1>3. /\ DOMAIN t = DOMAIN s
        /\ \A i \in DOMAIN s : /\ t[i].event = s[i].event
                               /\ t[i].status = IF i \in ids THEN "invalid" ELSE s[i].status
    BY <1>2 DEF Invalidated, Entries
  <1>. HIDE DEF t
  <1>4. {j \in DOMAIN t : t[j].status # "pending"} = D
    BY <1>3
  <1>5. LogOf(t) = [i \in D |-> [event |-> t[i].event, status |-> t[i].status]]
    BY <1>4 DEF LogOf
  <1>6. ASSUME NEW i \in D
        PROVE  [event |-> t[i].event, status |-> t[i].status]
                 = IF i \in ids THEN [LogOf(s)[i] EXCEPT !.status = "invalid"] ELSE LogOf(s)[i]
    <2>1. LogOf(s)[i] = [event |-> s[i].event, status |-> s[i].status]
      BY <1>1
    <2>2. t[i].event = s[i].event /\ t[i].status = IF i \in ids THEN "invalid" ELSE s[i].status
      BY <1>3
    <2>. QED
      BY <2>1, <2>2
  <1>7. LogOf(t) = [i \in DOMAIN LogOf(s) |->
                 IF i \in ids THEN [LogOf(s)[i] EXCEPT !.status = "invalid"] ELSE LogOf(s)[i]]
    BY <1>1, <1>5, <1>6
  <1>. QED
    BY <1>1, <1>7 DEF t

----------------------------------------------------------------------------
\* Every entry is of an event somebody reports, and a pending one is somebody's.
Entered ==
  \A h \in Handoffs : \A i \in DOMAIN timeline[h] :
    /\ timeline[h][i].event \in Happenings
    /\ timeline[h][i].status = "pending" => timeline[h][i].by \in Callers

\* What a step may do to the log of g.
LogStep(g, s) ==
  \/ s = timeline[g]
  \/ \E c \in Callers, e \in Happenings :
       s = Append(timeline[g], [event |-> e, by |-> c, status |-> "pending"])
  \/ \E i \in DOMAIN timeline[g] : s = Kept(timeline[g], i) \/ s = RemoveAt(timeline[g], i)
  \/ \E ids : s = Invalidated(timeline[g], ids)

\* Whatever the step, one of these.
LEMMA LogSteps ==
  ASSUME TypeInv, [Next]_vars, NEW h \in Handoffs
  PROVE  LogStep(h, timeline'[h])
  <1>1. Tables /\ CallOK
    BY DEF TypeInv
  <1>2. \A g \in Handoffs : \A s : timeline' = [timeline EXCEPT ![g] = s]
          => timeline'[h] = IF h = g THEN s ELSE timeline[h]
    BY <1>1 DEF Tables
  <1>3. timeline' = timeline => LogStep(h, timeline'[h])
    BY DEF LogStep
  <1>4. ASSUME NEW c \in Callers, NEW g \in Handoffs, NEW i \in Pending(c, g),
               Keep(g, i) \/ Drop(g, i)
        PROVE  LogStep(h, timeline'[h])
    <2>1. i \in DOMAIN timeline[g]
      BY DEF Pending
    <2>2. \/ timeline' = [timeline EXCEPT ![g] = Kept(timeline[g], i)]
          \/ timeline' = [timeline EXCEPT ![g] = RemoveAt(timeline[g], i)]
      BY <1>1, <1>4, <2>1, KeepKeeps DEF Drop
    <2>. QED
      BY <1>2, <2>1, <2>2 DEF LogStep
  <1>5. ASSUME NEW c \in Callers, Continue(c) PROVE LogStep(h, timeline'[h])
    <2>1. call[c].at # "idle" => call[c].h \in Handoffs
      BY <1>1 DEF CallOK, Tables, Calls
    <2>2. CASE RecordAcceptedEvent(c)
      BY <1>4, <2>1, <2>2 DEF RecordAcceptedEvent
    <2>3. CASE SaveHandoff(c) \/ UpdateHandoffOwnership(c)
      BY <1>3, <2>3 DEF SaveHandoff, UpdateHandoffOwnership
    <2>4. CASE Abandon(c)
      BY <1>3, <1>4, <2>1, <2>4 DEF Abandon
    <2>. QED
      BY <1>5, <2>2, <2>3, <2>4 DEF Continue
  <1>6. ASSUME NEW c \in Callers, NEW g \in Handoffs, NEW e \in Happenings, Stamp(g, e, c)
        PROVE  LogStep(h, timeline'[h])
    BY <1>2, <1>6 DEF Stamp, LogStep
  <1>7. ASSUME NEW c \in Callers, NEW g \in Handoffs, Begin(c, g) PROVE LogStep(h, timeline'[h])
    <2>1. timeline' = timeline \/ \E e \in Happenings : Stamp(g, e, c)
      BY <1>7 DEF Begin, ApplyProtocolAction, RecordAuthoritativeEvent, BackfillEvent,
                  BeginRecording, DispatchHandoff, LoadOwnership, Happenings
    <2>. QED
      BY <1>3, <1>6, <2>1
  <1>8. ASSUME NEW g \in Handoffs, NEW ids, RepairTimeline(g, ids)
        PROVE  LogStep(h, timeline'[h])
    BY <1>2, <1>8 DEF RepairTimeline, LogStep
  <1>9. UNCHANGED vars => timeline' = timeline
    BY DEF vars
  <1>. QED
    BY <1>3, <1>5, <1>7, <1>8, <1>9, Steps

\* An entry of one step's log is one of the log before, or new.
LEMMA EnteredStep ==
  ASSUME TypeInv, Entered, [Next]_vars
  PROVE  Entered'
  <1>1. ASSUME NEW h \in Handoffs, NEW n \in DOMAIN (timeline'[h])
        PROVE  /\ timeline'[h][n].event \in Happenings
               /\ timeline'[h][n].status = "pending" => timeline'[h][n].by \in Callers
    <2>. DEFINE s == timeline[h]
                Fit(x) == x.event \in Happenings /\ (x.status = "pending" => x.by \in Callers)
    <2>1. s \in Seq(Entries) /\ \A i \in DOMAIN s : Fit(s[i]) /\ s[i] \in Entries
      BY DEF Entered, TypeInv, Tables
    <2>2. LogStep(h, timeline'[h])
      BY LogSteps
    <2>3. ASSUME NEW c \in Callers, NEW e \in Happenings,
                 timeline'[h] = Append(s, [event |-> e, by |-> c, status |-> "pending"])
          PROVE  Fit(timeline'[h][n])
      <3>. DEFINE x == [event |-> e, by |-> c, status |-> "pending"]
      <3>1. Fit(x)
        OBVIOUS
      <3>. HIDE DEF x
      <3>2. Append(s, x)[n] = x \/ (n \in DOMAIN s /\ Append(s, x)[n] = s[n])
        <4>1. n \in DOMAIN Append(s, x)
          BY <2>3 DEF x
        <4>. HIDE DEF s, Fit
        <4>. QED
          BY <2>1, <4>1
      <3>3. timeline'[h] = Append(s, x)
        BY <2>3 DEF x
      <3>. QED
        BY <2>1, <3>1, <3>2, <3>3
    <2>4. ASSUME NEW i \in DOMAIN s, timeline'[h] = Kept(s, i)
          PROVE  Fit(timeline'[h][n])
      <3>. DEFINE x == [event |-> s[i].event, by |-> NoOne, status |-> "accepted"]
      <3>1. Fit(x)
        BY <2>1
      <3>2. n \in DOMAIN s /\ Kept(s, i)[n] = IF n = i THEN x ELSE s[n]
        BY <1>1, <2>4 DEF Kept
      <3>. QED
        BY <2>1, <2>4, <3>1, <3>2
    <2>5. ASSUME NEW i \in DOMAIN s, timeline'[h] = RemoveAt(s, i)
          PROVE  Fit(timeline'[h][n])
      <3>. HIDE DEF s, Fit
      <3>1. /\ RemoveAt(s, i) \in Seq(Entries) /\ Len(RemoveAt(s, i)) = Len(s) - 1
            /\ \A j \in 1 .. Len(s) - 1 : RemoveAt(s, i)[j] = IF j < i THEN s[j] ELSE s[j + 1]
        BY <2>1, DroppedLog
      <3>2. n \in 1 .. Len(s) - 1 /\ DOMAIN s = 1 .. Len(s) /\ Len(s) \in Nat
        BY <2>1, <2>5, <3>1
      <3>3. n \in DOMAIN s /\ n + 1 \in DOMAIN s
        BY <3>2
      <3>. QED
        BY <2>1, <2>5, <3>1, <3>2, <3>3
    <2>6. ASSUME NEW ids, timeline'[h] = Invalidated(s, ids)
          PROVE  Fit(timeline'[h][n])
      <3>1. n \in DOMAIN s
        BY <2>6 DEF Invalidated
      <3>2. Invalidated(s, ids)[n] = IF n \in ids THEN [s[n] EXCEPT !.status = "invalid"] ELSE s[n]
        BY <3>1 DEF Invalidated
      <3>3. Fit([s[n] EXCEPT !.status = "invalid"])
        BY <2>1, <3>1 DEF Entries
      <3>. QED
        BY <2>1, <2>6, <3>1, <3>2, <3>3
    <2>7. timeline'[h] = s => Fit(timeline'[h][n])
      BY <2>1
    <2>8. Fit(timeline'[h][n])
      <3>. HIDE DEF Fit
      <3>. QED
        BY <2>2, <2>3, <2>4, <2>5, <2>6, <2>7 DEF LogStep
    <2>. QED
      BY <2>8
  <1>. QED
    BY <1>1 DEF Entered

----------------------------------------------------------------------------
\* The log a handoff is promised to be (HandoffLog)

\* The state machine the abstract specification is told in is the same one.
LEMMA SameMachine ==
  /\ \A k, h, e : Log!Take(k, h, e) = Take(k, h, e)
  /\ \A k, h, es : Log!Replay(k, h, es) = Replay(k, h, es)
  /\ \A k, h, e : Log!Accepts(k, h, e) = Accepts(k, h, e)
  /\ \A s : Log!Effective(s) = Effective(s)
  /\ \A r : Log!Progress(r) = Progress(r) /\ Log!Base(r) = Base(r)
  /\ Log!Ended = Ended
  <1>1. \A k, h : Log!HydrateFlags(k, h) = HydrateFlags(k, h)
    BY DEF Log!HydrateFlags, HydrateFlags, Log!Implied, Implied, Log!Milestones, Milestones,
           Log!Path, Path, Log!Place, Place, Log!UpTo, UpTo, Log!NeedsSubmission, NeedsSubmission
  <1>2. \A k, h, e : Log!Allows(k, h, e) = Allows(k, h, e)
    BY DEF Log!Allows, Allows, Log!Signals, Signals, Log!InRevision, InRevision,
           Log!MayComplete, MayComplete, Log!NeedsSubmission, NeedsSubmission,
           Log!CompletionPrereqs, CompletionPrereqs, Log!UpTo, UpTo, Log!Path, Path,
           Log!MayFail, MayFail, Log!Ended, Ended, Log!MayExpire, MayExpire
  <1>3. \A k, h, e : Log!Permits(k, h, e) = Permits(k, h, e)
    BY DEF Log!Permits, Permits, Log!Signals, Signals, Log!ByTransport, ByTransport,
           Log!ByReceiver, ByReceiver, Log!ByReviewer, ByReviewer, Log!ByWatch, ByWatch,
           Log!ByWorker, ByWorker
  <1>4. \A k, h, e : Log!Accepts(k, h, e) = Accepts(k, h, e)
    BY <1>1, <1>2, <1>3 DEF Log!Accepts, Accepts
  <1>5. \A h, e : Log!Advance(h, e) = Advance(h, e)
    BY DEF Log!Advance, Advance, Log!StateAfter, StateAfter, Log!Withdrawn, Withdrawn
  <1>6. \A k, h, e : Log!Apply(k, h, e) = Apply(k, h, e)
    BY <1>1, <1>5 DEF Log!Apply, Apply, Log!Signals, Signals
  <1>7. \A k, h, e : Log!Take(k, h, e) = Take(k, h, e)
    BY <1>4, <1>6 DEF Log!Take, Take
  <1>8. \A k, h, es : Log!Replay(k, h, es) = Replay(k, h, es)
    BY <1>7 DEF Log!Replay, Replay
  <1>9. \A s : Log!Effective(s) = Effective(s)
    BY DEF Log!Effective, Effective, Log!Accepted, Accepted
  <1>10. \A r : Log!Progress(r) = Progress(r) /\ Log!Base(r) = Base(r)
    BY DEF Log!Progress, Progress, Log!Base, Base
  <1>11. Log!Ended = Ended
    BY DEF Log!Ended, Ended
  <1>. QED
    BY <1>4, <1>7, <1>8, <1>9, <1>10, <1>11

\* What the promised log needs of the truth plane.
LedgerInv == AgreeInv /\ Entered

\* A handoff's log, and what a replay reads of it.
LEMMA LedgerLog ==
  ASSUME LedgerInv, NEW h \in Handoffs
  PROVE  /\ row[h] \in Rows /\ Kind[h] \in Kinds /\ timeline[h] \in Seq(Entries)
         /\ Orderly(timeline[h])
         /\ Effective(LogOf(timeline[h])) = Effective(timeline[h])
         /\ LogOf(timeline[h]) \in Seq(LogEntries)
  <1>1. row[h] \in Rows /\ Kind[h] \in Kinds /\ timeline[h] \in Seq(Entries) /\ AtEnd
    BY TruthAssumption DEF LedgerInv, AgreeInv, OrderInv, TypeInv, Tables
  <1>2. Orderly(timeline[h])
    BY <1>1 DEF LedgerInv, Entered, AtEnd, Theirs, Orderly
  <1>. QED
    BY <1>1, <1>2, EffectiveLog

\* A handoff as its log tells of it is, but for its owner, the row.
LEMMA LedgerHandoff ==
  ASSUME LedgerInv, NEW h \in Handoffs
  PROVE  /\ Log!Handoff(h) = Replay(Kind[h], Base(row[h]), Effective(timeline[h]))
         /\ Log!Handoff(h) \in Rows
         /\ Alike(Kind[h], row[h], Log!Handoff(h))
  <1>1. RecordedLogs[h] = LogOf(timeline[h]) /\ NewRows[h] = Base(row[h])
    BY DEF RecordedLogs, NewRows, LogOf, Recorded
  <1>2. /\ row[h] \in Rows /\ Kind[h] \in Kinds /\ timeline[h] \in Seq(Entries)
        /\ Effective(LogOf(timeline[h])) = Effective(timeline[h])
    BY LedgerLog
  <1>3. Log!Handoff(h) = Replay(Kind[h], Base(row[h]), Effective(timeline[h]))
    BY <1>1, <1>2, SameMachine DEF Log!Handoff
  <1>4. Effective(timeline[h]) \in Seq(Events) /\ Base(row[h]) \in Rows
    BY <1>2, EffectiveEvents, BaseType
  <1>5. Replay(Kind[h], Base(row[h]), Effective(timeline[h])) \in Rows
    BY <1>2, <1>4, ReplayType
  <1>. QED
    BY <1>3, <1>5 DEF LedgerInv, AgreeInv, Agree

\* A step that writes one row and one log, seen from outside.
LEMMA OneWritten ==
  ASSUME Tables, NEW g \in Handoffs, NEW q, NEW s,
         row' = [row EXCEPT ![g] = q], timeline' = [timeline EXCEPT ![g] = s]
  PROVE  /\ NewRows' = [NewRows EXCEPT ![g] = Base(q)]
         /\ RecordedLogs' = [RecordedLogs EXCEPT ![g] = LogOf(s)]
         /\ ShownRows' = [ShownRows EXCEPT ![g] = Progress(q)]
  <1>1. /\ \A h \in Handoffs : row'[h] = IF h = g THEN q ELSE row[h]
        /\ \A h \in Handoffs : timeline'[h] = IF h = g THEN s ELSE timeline[h]
    BY DEF Tables
  <1>2. NewRows' = [NewRows EXCEPT ![g] = Base(q)]
    <2>1. NewRows = [h \in Handoffs |-> Base(row[h])]
      BY DEF NewRows
    <2>2. NewRows' = [h \in Handoffs |-> Base(row'[h])]
      BY DEF NewRows
    <2>. QED
      BY <1>1, <2>1, <2>2
  <1>3. RecordedLogs = [h \in Handoffs |-> LogOf(timeline[h])]
    BY DEF RecordedLogs, LogOf, Recorded
  <1>4. RecordedLogs' = [h \in Handoffs |-> LogOf(timeline'[h])]
    BY DEF RecordedLogs, LogOf, Recorded
  <1>5. RecordedLogs' = [RecordedLogs EXCEPT ![g] = LogOf(s)]
    BY <1>1, <1>3, <1>4
  <1>6. ShownRows' = [ShownRows EXCEPT ![g] = Progress(q)]
    <2>1. ShownRows = [h \in Handoffs |-> Progress(row[h])]
      BY DEF ShownRows
    <2>2. ShownRows' = [h \in Handoffs |-> Progress(row'[h])]
      BY DEF ShownRows
    <2>. QED
      BY <1>1, <2>1, <2>2
  <1>. QED
    BY <1>2, <1>5, <1>6

\* A step that changes neither a row nor what is recorded is none.
LEMMA NothingSeen ==
  ASSUME Tables, row' = row,
         timeline' = timeline \/ \E g \in Handoffs : \E s :
           timeline' = [timeline EXCEPT ![g] = s] /\ LogOf(s) = LogOf(timeline[g])
  PROVE  UNCHANGED Log!vars
  <1>1. NewRows' = NewRows /\ ShownRows' = ShownRows
    BY DEF NewRows, ShownRows
  <1>2. RecordedLogs = [h \in Handoffs |-> LogOf(timeline[h])]
    BY DEF RecordedLogs, LogOf, Recorded
  <1>3. RecordedLogs' = [h \in Handoffs |-> LogOf(timeline'[h])]
    BY DEF RecordedLogs, LogOf, Recorded
  <1>4. \A h \in Handoffs : LogOf(timeline'[h]) = LogOf(timeline[h])
    BY DEF Tables
  <1>5. RecordedLogs' = RecordedLogs
    BY <1>2, <1>3, <1>4
  <1>. QED
    BY <1>1, <1>5 DEF Log!vars

\* An operation that has its event accepted appends it (RecordAcceptedEvent).
LEMMA AcceptedRecorded ==
  ASSUME LedgerInv, NEW c \in Callers, NEW g \in Handoffs, NEW i \in Pending(c, g),
         Accepts(Kind[g], row[g], timeline[g][i].event),
         row' = [row EXCEPT ![g] = Apply(Kind[g], row[g], timeline[g][i].event)],
         Keep(g, i)
  PROVE  Log!Next
  <1>. DEFINE s == timeline[g]
              e == timeline[g][i].event
              r == Log!Handoff(g)
              x == [event |-> e, status |-> "accepted"]
  <1>1. TypeInv /\ Tables /\ AtEnd /\ Entered
    BY DEF LedgerInv, AgreeInv, OrderInv, TypeInv
  <1>2. /\ row[g] \in Rows /\ Kind[g] \in Kinds /\ s \in Seq(Entries) /\ Orderly(s)
        /\ LogOf(s) \in Seq(LogEntries)
    BY LedgerLog
  <1>3. /\ i \in DOMAIN s /\ s[i] \in Entries /\ s[i].status = "pending" /\ e \in Happenings
        /\ e \in Events
    <2>1. i \in DOMAIN s /\ s[i] \in Entries /\ i \in Theirs(s, c)
      BY <1>1, TheirEntry
    <2>. QED
      BY <1>1, <2>1 DEF AtEnd, Entered, Entries
  <1>4. r \in Rows /\ Alike(Kind[g], row[g], r)
    BY LedgerHandoff
  <1>5. Accepts(Kind[g], r, e)
    BY <1>2, <1>3, <1>4, AlikeAccepts
  <1>6. /\ Apply(Kind[g], row[g], e) = Take(Kind[g], row[g], e)
        /\ Take(Kind[g], row[g], e) \in Rows
        /\ Base(Take(Kind[g], row[g], e)) = Base(row[g])
    BY <1>2, <1>3, TakeType, SameBase DEF Take
  <1>7. Progress(Take(Kind[g], row[g], e)) = Progress(Take(Kind[g], r, e))
    BY <1>2, <1>3, <1>4, AlikeTake DEF Alike, Progress
  <1>8. timeline' = [timeline EXCEPT ![g] = Kept(s, i)]
    BY <1>1, <1>3, KeepKeeps
  <1>9. LogOf(Kept(s, i)) = Append(LogOf(s), x)
    BY <1>2, <1>3, EndedLog
  <1>10. RecordedLogs[g] = LogOf(s) /\ NewRows[g] = Base(row[g])
    BY DEF RecordedLogs, NewRows, LogOf, Recorded
  <1>11. /\ NewRows' = [NewRows EXCEPT ![g] = Base(row[g])]
         /\ RecordedLogs' = [RecordedLogs EXCEPT ![g] = Append(LogOf(s), x)]
         /\ ShownRows' = [ShownRows EXCEPT ![g] = Progress(Take(Kind[g], r, e))]
    <2>1. PICK q : q = Apply(Kind[g], row[g], e)
      OBVIOUS
    <2>2. PICK t : t = Kept(s, i)
      OBVIOUS
    <2>3. row' = [row EXCEPT ![g] = q] /\ timeline' = [timeline EXCEPT ![g] = t]
      BY <1>8, <2>1, <2>2
    <2>4. /\ NewRows' = [NewRows EXCEPT ![g] = Base(q)]
          /\ RecordedLogs' = [RecordedLogs EXCEPT ![g] = LogOf(t)]
          /\ ShownRows' = [ShownRows EXCEPT ![g] = Progress(q)]
      BY <1>1, <2>3, OneWritten
    <2>. QED
      BY <1>6, <1>7, <1>9, <2>1, <2>2, <2>4
  <1>12. NewRows' = NewRows
    BY <1>10, <1>11 DEF NewRows
  <1>13. RecordedLogs' # RecordedLogs
    <2>1. Append(LogOf(s), x) # LogOf(s)
      <3>1. Len(Append(LogOf(s), x)) = Len(LogOf(s)) + 1 /\ Len(LogOf(s)) \in Nat
        BY <1>2
      <3>. QED
        BY <3>1
    <2>2. RecordedLogs'[g] = Append(LogOf(s), x)
      BY <1>11 DEF RecordedLogs
    <2>. QED
      BY <1>10, <2>1, <2>2
  <1>. HIDE DEF s, e, r
  <1>14. Log!Record(g, e)
    BY <1>5, <1>10, <1>11, <1>12, SameMachine DEF Log!Record, r
  <1>. QED
    BY <1>3, <1>13, <1>14 DEF Log!Next

\* A dispatch that writes the row back names a target (SaveHandoff).
LEMMA SavedTarget ==
  ASSUME LedgerInv, NEW c \in Callers, SaveHandoff(c)
  PROVE  Log!Next
  <1>1. Tables /\ CallOK /\ Saves
    BY DEF LedgerInv, AgreeInv, OrderInv, TypeInv
  <1>2. /\ call[c].at = "save" /\ row' = [row EXCEPT ![call[c].h] = call[c].copy]
        /\ timeline' = timeline
    BY DEF SaveHandoff
  <1>3. PICK g \in Handoffs, q \in Rows : g = call[c].h /\ q = call[c].copy
    BY <1>1, <1>2 DEF CallOK, Tables, Calls
  <1>4. /\ row[g].state = "created" /\ Progress(q) = Progress(row[g])
        /\ q.reviewer = row[g].reviewer /\ q.target = TRUE
    BY <1>1, <1>2, <1>3 DEF Saves
  <1>5. row[g] \in Rows
    BY <1>1 DEF Tables
  <1>6. Base(q) = [Base(row[g]) EXCEPT !.target = TRUE]
    BY <1>4, <1>5 DEF Base, Rows
  <1>7. timeline' = [timeline EXCEPT ![g] = timeline[g]]
    BY <1>1, <1>2 DEF Tables
  <1>8. /\ NewRows[g] = Base(row[g]) /\ RecordedLogs[g] = LogOf(timeline[g])
        /\ ShownRows[g] = Progress(row[g])
    BY DEF RecordedLogs, NewRows, ShownRows, LogOf, Recorded
  <1>9. /\ NewRows' = [NewRows EXCEPT ![g] = Base(q)]
        /\ RecordedLogs' = [RecordedLogs EXCEPT ![g] = LogOf(timeline[g])]
        /\ ShownRows' = [ShownRows EXCEPT ![g] = Progress(q)]
    <2>1. PICK s : s = timeline[g]
      OBVIOUS
    <2>2. row' = [row EXCEPT ![g] = q] /\ timeline' = [timeline EXCEPT ![g] = s]
      BY <1>2, <1>3, <1>7, <2>1
    <2>. QED
      BY <1>1, <2>1, <2>2, OneWritten
  <1>10. RecordedLogs' = RecordedLogs /\ ShownRows' = ShownRows
    BY <1>4, <1>8, <1>9 DEF RecordedLogs, ShownRows
  <1>11. ShownRows[g].state = "created"
    BY <1>4, <1>8 DEF Progress
  <1>12. NewRows' = [NewRows EXCEPT ![g].target = TRUE]
    BY <1>6, <1>8, <1>9
  <1>. QED
    BY <1>10, <1>11, <1>12 DEF Log!Next, Log!NameTarget

\* Whatever a caller does next is an event recorded, a target named, or not seen.
LEMMA ContinueSeen ==
  ASSUME LedgerInv, NEW c \in Callers, Continue(c)
  PROVE  [Log!Next]_(Log!vars)
  <1>1. TypeInv /\ Tables /\ CallOK /\ AtEnd /\ Unclaimed
    BY DEF LedgerInv, AgreeInv, OrderInv, TypeInv
  <1>2. call[c].at # "idle" => call[c].h \in Handoffs
    BY <1>1 DEF CallOK, Tables, Calls
  <1>3. ASSUME NEW g \in Handoffs, NEW i \in Pending(c, g), Drop(g, i), row' = row
        PROVE  UNCHANGED Log!vars
    <2>1. timeline[g] \in Seq(Entries) /\ Orderly(timeline[g])
      BY LedgerLog
    <2>2. i \in DOMAIN timeline[g] /\ timeline[g][i].status = "pending"
      BY <1>1 DEF Pending, Theirs, AtEnd
    <2>3. LogOf(RemoveAt(timeline[g], i)) = LogOf(timeline[g])
      BY <2>1, <2>2, EndedLog
    <2>4. timeline' = [timeline EXCEPT ![g] = RemoveAt(timeline[g], i)]
      BY <1>3 DEF Drop
    <2>. QED
      BY <1>1, <1>3, <2>3, <2>4, NothingSeen
  <1>4. CASE RecordAcceptedEvent(c)
    <2>1. PICK g \in Handoffs : g = call[c].h
      BY <1>2, <1>4 DEF RecordAcceptedEvent
    <2>2. PICK i \in Pending(c, g) :
            \/ /\ Accepts(Kind[g], row[g], timeline[g][i].event)
               /\ row' = [row EXCEPT ![g] = Apply(Kind[g], row[g], timeline[g][i].event)]
               /\ Keep(g, i)
            \/ Drop(g, i) /\ row' = row
      BY <1>4, <2>1 DEF RecordAcceptedEvent
    <2>. QED
      BY <1>3, <2>2, AcceptedRecorded
  <1>5. CASE SaveHandoff(c)
    BY <1>5, SavedTarget
  <1>6. CASE UpdateHandoffOwnership(c)
    BY <1>1, <1>6 DEF UpdateHandoffOwnership, Unclaimed
  <1>7. CASE Abandon(c)
    <2>1. PICK g \in Handoffs : g = call[c].h
      BY <1>2, <1>7 DEF Abandon
    <2>2. row' = row /\ (timeline' = timeline \/ \E i \in Pending(c, g) : Drop(g, i))
      BY <1>7, <2>1 DEF Abandon
    <2>. QED
      BY <1>1, <1>3, <2>2, NothingSeen
  <1>. QED
    BY <1>4, <1>5, <1>6, <1>7 DEF Continue

\* That an operation has begun is not seen.
LEMMA BeginSeen ==
  ASSUME LedgerInv, NEW c \in Callers, NEW g \in Handoffs, Begin(c, g)
  PROVE  UNCHANGED Log!vars
  <1>1. TypeInv /\ Tables
    BY DEF LedgerInv, AgreeInv, OrderInv, TypeInv
  <1>2. row' = row /\ (timeline' = timeline \/ \E e \in Events : Stamp(g, e, c))
    <2>1. TransportRequested \in Events
      BY DEF TransportRequested, Events, EventTypes, Actors, Systems, Decisions
    <2>. QED
      BY <2>1, TruthAssumption
      DEF Begin, ApplyProtocolAction, RecordAuthoritativeEvent, BackfillEvent, BeginRecording,
          DispatchHandoff, LoadOwnership
  <1>3. ASSUME NEW e \in Events, Stamp(g, e, c)
        PROVE  \E s : timeline' = [timeline EXCEPT ![g] = s] /\ LogOf(s) = LogOf(timeline[g])
    <2>. DEFINE x == [event |-> e, by |-> c, status |-> "pending"]
    <2>1. x \in Entries /\ x.status = "pending" /\ timeline[g] \in Seq(Entries)
      BY <1>1 DEF Entries, Tables
    <2>2. timeline' = [timeline EXCEPT ![g] = Append(timeline[g], x)]
      BY <1>3 DEF Stamp
    <2>. HIDE DEF x
    <2>3. LogOf(Append(timeline[g], x)) = LogOf(timeline[g])
      BY <2>1, PendingLog
    <2>. QED
      BY <2>2, <2>3
  <1>. QED
    BY <1>1, <1>2, <1>3, NothingSeen

\* A repair is one of the log, or of nothing (RepairTimeline).
LEMMA RepairSeen ==
  ASSUME LedgerInv, NEW g \in Handoffs, InvalidateEvent(g) \/ ReopenHandoff(g)
  PROVE  [Log!Next]_(Log!vars)
  <1>. DEFINE s == timeline[g]
              D == {j \in DOMAIN s : s[j].status # "pending"}
  <1>1. PICK ids \in SUBSET D :
          /\ RepairTimeline(g, ids)
          /\ \/ \E i \in D : ids = {i}
             \/ row[g].state \in Ended /\ ids = D
    BY DEF InvalidateEvent, ReopenHandoff, IsReopenable, Recorded
  <1>. DEFINE t == Invalidated(s, ids)
              q == Replay(Kind[g], Base(row[g]), Effective(t))
  <1>2. Tables
    BY DEF LedgerInv, AgreeInv, OrderInv, TypeInv
  <1>3. row' = [row EXCEPT ![g] = q] /\ timeline' = [timeline EXCEPT ![g] = t]
    BY <1>1 DEF RepairTimeline, ReplayHandoffProjection
  <1>4. row[g] \in Rows /\ Kind[g] \in Kinds /\ s \in Seq(Entries)
    BY LedgerLog
  <1>6. t \in Seq(Entries) /\ Orderly(t) /\ Effective(LogOf(t)) = Effective(t)
    <2>1. t \in Seq(Entries) /\ DOMAIN t = DOMAIN s
      BY <1>4, InvalidatedLog DEF Invalidated
    <2>2. \A i \in DOMAIN s : t[i].status = "pending" => s[i].status = "pending"
      <3>1. \A i \in DOMAIN s : s[i] \in Entries
        BY <1>4
      <3>. QED
        BY <3>1 DEF Invalidated, Entries
    <2>3. Orderly(s)
      BY LedgerLog
    <2>. HIDE DEF s, t
    <2>4. Len(t) = Len(s)
      BY <1>4, <2>1
    <2>5. Orderly(t)
      BY <2>1, <2>2, <2>3, <2>4 DEF Orderly
    <2>. QED
      BY <2>1, <2>5, EffectiveLog
  <1>. DEFINE entries == [i \in DOMAIN LogOf(s) |->
                 IF i \in ids THEN [LogOf(s)[i] EXCEPT !.status = "invalid"] ELSE LogOf(s)[i]]
  <1>7. DOMAIN LogOf(s) = D /\ LogOf(t) = entries
    BY <1>4, RepairedLog
  <1>8. /\ NewRows[g] = Base(row[g]) /\ RecordedLogs[g] = LogOf(s)
        /\ ShownRows[g] = Progress(row[g])
    BY DEF RecordedLogs, NewRows, ShownRows, LogOf, Recorded
  <1>9. q \in Rows /\ Base(q) = Base(row[g])
    <2>1. Base(row[g]) \in Rows /\ Effective(t) \in Seq(Events)
      BY <1>4, <1>6, BaseType, EffectiveEvents
    <2>2. q \in Rows /\ q.reviewer = Base(row[g]).reviewer /\ q.target = Base(row[g]).target
      BY <1>4, <2>1, ReplayType
    <2>. QED
      BY <1>4, <2>2, BaseType, SameBase
  <1>. HIDE DEF s, t, q, entries, D
  <1>10. /\ NewRows' = [NewRows EXCEPT ![g] = Base(row[g])]
         /\ RecordedLogs' = [RecordedLogs EXCEPT ![g] = entries]
         /\ ShownRows' = [ShownRows EXCEPT ![g] = Progress(q)]
    <2>1. /\ NewRows' = [NewRows EXCEPT ![g] = Base(q)]
          /\ RecordedLogs' = [RecordedLogs EXCEPT ![g] = LogOf(t)]
          /\ ShownRows' = [ShownRows EXCEPT ![g] = Progress(q)]
      BY <1>2, <1>3, OneWritten
    <2>. QED
      BY <1>7, <1>9, <2>1
  <1>11. NewRows' = NewRows
    BY <1>8, <1>10 DEF NewRows
  <1>12. q = Log!Replay(Kind[g], NewRows[g], Log!Effective(entries))
    BY <1>6, <1>7, <1>8, SameMachine DEF q
  <1>13. Log!Repair(g, ids)
    BY <1>8, <1>10, <1>11, <1>12, SameMachine DEF Log!Repair, entries
  <1>14. CASE RecordedLogs' # RecordedLogs
    <2>1. DOMAIN RecordedLogs[g] = D
      BY <1>7, <1>8
    <2>2. ASSUME NEW i \in D, ids = {i} PROVE Log!Invalidate(g)
      BY <1>13, <2>1, <2>2 DEF Log!Invalidate
    <2>3. ASSUME row[g].state \in Ended, ids = D PROVE Log!Reopen(g)
      <3>1. ShownRows[g].state \in Log!Ended
        BY <1>8, <2>3, SameMachine DEF Progress
      <3>. QED
        BY <1>13, <2>1, <2>3, <3>1 DEF Log!Reopen
    <2>. QED
      BY <1>1, <1>14, <2>2, <2>3 DEF Log!Next
  <1>15. CASE RecordedLogs' = RecordedLogs
    <2>1. entries = LogOf(s)
      BY <1>8, <1>10, <1>15 DEF RecordedLogs
    <2>2. Effective(t) = Effective(s)
      <3>1. Effective(LogOf(s)) = Effective(s)
        BY LedgerLog DEF s
      <3>. QED
        BY <1>6, <1>7, <2>1, <3>1
    <2>3. Alike(Kind[g], row[g], q)
      BY <2>2 DEF LedgerInv, AgreeInv, Agree, q, s
    <2>4. Progress(q) = Progress(row[g])
      BY <2>3 DEF Alike, Progress
    <2>5. ShownRows' = ShownRows
      BY <1>8, <1>10, <2>4 DEF ShownRows
    <2>. QED
      BY <1>11, <1>15, <2>5 DEF Log!vars
  <1>. QED
    BY <1>14, <1>15

\* A new truth plane is a new log for every handoff.
LEMMA InitSeen ==
  ASSUME Init
  PROVE  Entered /\ Log!Init
  <1>1. \A h \in Handoffs : row[h] = Created(h) /\ timeline[h] = << >>
    BY DEF Init
  <1>2. Entered
    BY <1>1 DEF Entered
  <1>3. \A h \in Handoffs : LogOf(timeline[h]) = << >>
    <2>1. << >> \in Seq(Entries) /\ Settled(<< >>)
      BY DEF Settled
    <2>2. LogOf(<< >>) \in Seq(LogEntries) /\ Len(LogOf(<< >>)) = 0
      BY <2>1, SettledLog
    <2>3. LogOf(<< >>) = << >>
      BY <2>2
    <2>. QED
      BY <1>1, <2>3
  <1>4. RecordedLogs = [h \in Handoffs |-> << >>]
    <2>1. RecordedLogs = [h \in Handoffs |-> LogOf(timeline[h])]
      BY DEF RecordedLogs, LogOf, Recorded
    <2>. QED
      BY <1>3, <2>1
  <1>5. ASSUME NEW h \in Handoffs
        PROVE  Base(row[h]) = Base(NewRows[h]) /\ Progress(row[h]) = Progress(NewRows[h])
    <2>1. row[h] = Created(h) /\ Created(h) \in Rows
      BY <1>1, CreatedType
    <2>2. NewRows[h] = Base(row[h])
      BY DEF NewRows
    <2>3. Base(Base(row[h])) = Base(row[h])
      BY <2>1, BaseType
    <2>4. Progress(Created(h)) = Progress(Base(Created(h)))
      BY <2>1, BaseType DEF Progress, Created
    <2>. QED
      BY <2>1, <2>2, <2>3, <2>4
  <1>6. NewRows = [h \in Handoffs |-> Log!Base(NewRows[h])]
    BY <1>5, SameMachine DEF NewRows
  <1>7. ShownRows = [h \in Handoffs |-> Log!Progress(NewRows[h])]
    BY <1>5, SameMachine DEF ShownRows
  <1>. QED
    BY <1>2, <1>4, <1>6, <1>7 DEF Log!Init

\* Where operations on one handoff take turns and no ownership is updated by hand,
\* the truth plane is a log of accepted events for each handoff, whatever several
\* statements its operations are made of and wherever they are interrupted
\* (RecordAcceptedEvent, DispatchHandoff, replayHandoffProjectionTx): seen from
\* outside, every step appends one event the handoff accepts, names a target for a
\* handoff nothing has happened to, takes entries out of force, or is none.
THEOREM LogImplemented ==
  ASSUME ~ Overlap, Reassigned = {}
  PROVE  Spec => ImplementsLog
  <1>1. Init => Log!Init
    BY InitSeen
  <1>2. LedgerInv /\ [Next]_vars => [Log!Next]_(Log!vars)
    <2>1. ASSUME LedgerInv, [Next]_vars PROVE [Log!Next]_(Log!vars)
      <3>1. CASE UNCHANGED vars
        <4>1. Tables /\ row' = row /\ timeline' = timeline
          BY <2>1, <3>1 DEF LedgerInv, AgreeInv, OrderInv, TypeInv, vars
        <4>. QED
          BY <4>1, NothingSeen
      <3>2. CASE Next
        BY <2>1, <3>2, ContinueSeen, BeginSeen, RepairSeen DEF Next
      <3>. QED
        BY <2>1, <3>1, <3>2
    <2>. QED
      BY <2>1
  <1>3. Spec => []Entered
    <2>1. Init => TypeInv /\ Entered
      BY InitType, InitSeen
    <2>2. TypeInv /\ Entered /\ [Next]_vars => (TypeInv /\ Entered)'
      BY NextType, EnteredStep
    <2>. QED
      BY <2>1, <2>2, PTL DEF Spec
  <1>4. Spec => []AgreeInv
    BY AgreeInvariant
  <1>5. Spec => []LedgerInv
    BY <1>3, <1>4, PTL DEF LedgerInv
  <1>. QED
    BY <1>1, <1>2, <1>5, PTL DEF Spec, ImplementsLog, Log!Spec
=============================================================================
