--------------------------- MODULE WorkflowsProofs ---------------------------
(***************************************************************************)
(* Workflows for any number of callers, keys, payloads and handoffs: one     *)
(* creation per key, dependencies that stay inside, work after what it      *)
(* depends on, open workflows that can go on, and ends that last.           *)
(***************************************************************************)
EXTENDS Workflows, Integers, WellFoundedInduction, TLAPS

States   == {"created", "underway"} \cup Ended
Handoff  == [wf : Nat, deps : SUBSET Nat, required : BOOLEAN, state : States]
Made     == [payload : Payloads \cup Templates, wf : Nat]
Requests == [at : {"idle", "appending", "recording"}, wf : Nat,
             seen : {"none", "active", "blocked"}, deps : SUBSET Nat, required : BOOLEAN,
             h : Nat, to : States]

\* The types of all variables.
Types ==
  /\ handoffs \in Seq(Handoff)
  /\ records \in [Tables -> [Keys -> {NoOne} \cup Made]]
  /\ call \in [Callers -> Requests]
  /\ reopens \in Nat

\* Every answer is what is on record.
AnswersOnRecord ==
  \A a \in granted :
    /\ a.table \in Tables /\ a.key \in Keys
    /\ records[a.table][a.key] # NoOne
    /\ a = [table |-> a.table, key |-> a.key, payload |-> records[a.table][a.key].payload,
            wf |-> records[a.table][a.key].wf]

\* A workflow's handoffs exist, and its root is the first.
Inside == /\ \A n \in Ids : handoffs[n].wf \in Ids /\ handoffs[n].wf <= n
          /\ DependenciesInside

\* Without a repair, what was found done stays done.
Checked ==
  \A c \in Callers : call[c].at = "recording" =>
    /\ call[c].h \in Ids
    /\ reopens = 0 /\ call[c].to # "failed" => ~ Waits(call[c].h)

\* An append is to a workflow that was there, and open.
Appending ==
  \A c \in Callers : call[c].at = "appending" =>
    call[c].wf \in Ids /\ call[c].seen \notin Ended

IInv == Types /\ AnswersOnRecord /\ Inside /\ Checked /\ Appending
        /\ WorkFollowsDependencies

----------------------------------------------------------------------------
\* Handoffs over a step

\* Nobody's dependencies change, and what is done stays done.
Keep ==
  /\ Len(handoffs') >= Len(handoffs)
  /\ \A m \in Ids :
       /\ handoffs'[m].wf = handoffs[m].wf /\ handoffs'[m].deps = handoffs[m].deps
       /\ handoffs[m].state = "completed" => handoffs'[m].state = "completed"

\* The handoffs are numbered as they were created.
LEMMA IdsAre ==
  ASSUME Types
  PROVE  Ids = 1 .. Len(handoffs) /\ Len(handoffs) \in Nat /\ \A n \in Ids : handoffs[n] \in Handoff
  BY DEF Types, Ids

\* A handoff that waits for nothing does not come to wait unless a handoff is reopened.
LEMMA WaitsStay ==
  ASSUME Types, Types', Inside, Keep, NEW n \in Ids, ~ Waits(n)
  PROVE  ~ Waits(n)'
  <1>1. Ids = 1 .. Len(handoffs) /\ Ids' = 1 .. Len(handoffs') /\ Ids \subseteq Ids'
    BY IdsAre DEF Types, Ids, Keep
  <1>2. \A d \in handoffs[n].deps : d \in Ids /\ handoffs[d].wf = handoffs[n].wf
                                    /\ handoffs[d].state = "completed"
    BY DEF Waits, Of
  <1>3. \A d \in handoffs'[n].deps : d \in Ids' /\ handoffs'[d].wf = handoffs'[n].wf
                                     /\ handoffs'[d].state = "completed"
    BY <1>1, <1>2 DEF Keep
  <1>. QED
    BY <1>3 DEF Waits, Of

\* New handoffs find their place after the others.
Fits(new) ==
  \A i \in 1 .. Len(new) :
    /\ new[i].state = "created"
    /\ new[i].wf \in 1 .. Len(handoffs) + i
    /\ \A d \in new[i].deps : /\ d \in 1 .. Len(handoffs) + i - 1
                              /\ (handoffs \o new)[d].wf = new[i].wf

\* New handoffs that fit leave the old ones as they were.
LEMMA GrowStep ==
  ASSUME Types, Inside, NEW new \in Seq(Handoff), handoffs' = handoffs \o new, Fits(new)
  PROVE  /\ handoffs' \in Seq(Handoff) /\ Keep /\ Inside'
         /\ \A n \in Ids' : (n \in Ids /\ handoffs'[n] = handoffs[n]) \/ handoffs'[n].state = "created"
  <1>. DEFINE k == Len(handoffs)
  <1>1. /\ handoffs \in Seq(Handoff) /\ k \in Nat /\ Len(new) \in Nat /\ Ids = 1 .. k
        /\ handoffs' \in Seq(Handoff) /\ Len(handoffs') = k + Len(new)
        /\ Ids' = 1 .. k + Len(new)
    BY DEF Types, Ids
  <1>2. \A n \in 1 .. k : handoffs'[n] = handoffs[n]
    BY <1>1
  <1>3. ASSUME NEW n \in Ids', n \notin Ids
        PROVE  \E i \in 1 .. Len(new) : n = k + i /\ handoffs'[n] = new[i]
    <2>1. n - k \in 1 .. Len(new) /\ n = k + (n - k)
      BY <1>1, <1>3
    <2>2. handoffs'[n] = new[n - k]
      BY <1>1, <1>3, <2>1
    <2>. QED
      BY <2>1, <2>2
  <1>. HIDE DEF k
  <1>4. Keep
    BY <1>1, <1>2 DEF Keep, k
  <1>5. ASSUME NEW n \in Ids'
        PROVE  handoffs'[n].wf \in Ids' /\ handoffs'[n].wf <= n
               /\ \A d \in handoffs'[n].deps : d < n /\ d \in Ids' /\ handoffs'[d].wf = handoffs'[n].wf
    <2>1. CASE n \in Ids
      BY <1>1, <1>2, <2>1 DEF Inside, DependenciesInside, Of
    <2>2. CASE n \notin Ids
      <3>1. PICK i \in 1 .. Len(new) : n = k + i /\ handoffs'[n] = new[i]
        BY <1>3, <2>2
      <3>2. new[i].wf \in 1 .. k + i /\ \A d \in new[i].deps : d \in 1 .. k + i - 1
                                                             /\ handoffs'[d].wf = new[i].wf
        BY DEF Fits, k
      <3>. QED
        BY <1>1, <3>1, <3>2
    <2>. QED
      BY <2>1, <2>2
  <1>6. Inside'
    BY <1>5 DEF Inside, DependenciesInside, Of
  <1>7. ASSUME NEW n \in Ids', n \notin Ids PROVE handoffs'[n].state = "created"
    BY <1>3, <1>7 DEF Fits
  <1>. QED
    BY <1>1, <1>2, <1>4, <1>6, <1>7

----------------------------------------------------------------------------
\* What is created fits.

\* A handoff that begins a workflow of its own fits.
LEMMA RootFits ==
  ASSUME Types, NEW required \in BOOLEAN
  PROVE  LET new == <<NewHandoff(NewId, {}, required)>> IN new \in Seq(Handoff) /\ Fits(new)
  <1>. DEFINE h   == NewHandoff(NewId, {}, required)
              new == <<h>>
  <1>1. /\ Len(handoffs) \in Nat /\ NewId = Len(handoffs) + 1
        /\ h \in Handoff /\ h.state = "created" /\ h.wf = NewId /\ h.deps = {}
    BY DEF Types, NewId, NewHandoff, Handoff, States
  <1>. HIDE DEF h
  <1>2. new \in Seq(Handoff) /\ Len(new) = 1 /\ new[1] = h
    BY <1>1
  <1>. HIDE DEF new
  <1>3. Fits(new)
    BY <1>1, <1>2 DEF Fits
  <1>. QED
    BY <1>2, <1>3 DEF new, h

\* Each role has its place, and waits for earlier ones.
LEMMA PlacesAre ==
  /\ \A t \in Templates : \A i \in 1 .. 3 : Place(t, Roles[t][i]) = i
  /\ \A t \in Templates : \A i \in 1 .. 3 : \A r \in DependsOnRole[t][Roles[t][i]] :
       Place(t, r) \in 1 .. i - 1
  <1>1. Templates = {"upstream_downstream_review", "review_gate", "fanout_review"}
    BY DEF Templates, Roles
  <1>2. ASSUME NEW t \in Templates, NEW i \in 1 .. 3 PROVE Place(t, Roles[t][i]) = i
    <2>1. \A j \in 1 .. 3 : Roles[t][j] = Roles[t][i] => j = i
      BY <1>1 DEF Roles
    <2>2. \E j \in 1 .. 3 : Roles[t][j] = Roles[t][i]
      OBVIOUS
    <2>3. Place(t, Roles[t][i]) \in 1 .. 3 /\ Roles[t][Place(t, Roles[t][i])] = Roles[t][i]
      BY <2>2, Zenon DEF Place
    <2>. QED
      BY <2>1, <2>3
  <1>3. ASSUME NEW t \in Templates, NEW i \in 1 .. 3, NEW r \in DependsOnRole[t][Roles[t][i]]
        PROVE  Place(t, r) \in 1 .. i - 1
    <2>1. \E j \in 1 .. i - 1 : r = Roles[t][j]
      BY <1>1, <1>3 DEF Roles, DependsOnRole
    <2>2. PICK j \in 1 .. i - 1 : r = Roles[t][j]
      BY <2>1
    <2>3. j \in 1 .. 3
      OBVIOUS
    <2>. QED
      BY <1>2, <2>2, <2>3
  <1>. QED
    BY <1>2, <1>3

\* A function on 1 .. 3 is a sequence of three.
LEMMA ThreeAreASequence ==
  ASSUME NEW S, NEW f \in [1 .. 3 -> S]
  PROVE  f \in Seq(S) /\ Len(f) = 3
  <1>1. f = [i \in 1 .. 3 |-> f[i]] /\ \A i \in 1 .. 3 : f[i] \in S
    OBVIOUS
  <1>2. [i \in 1 .. 3 |-> f[i]] \in Seq(S) /\ Len([i \in 1 .. 3 |-> f[i]]) = 3
    BY <1>1
  <1>. QED
    BY <1>1, <1>2

\* An index beyond the first of two sequences is one of the second.
LEMMA ConcatAt ==
  ASSUME NEW S, NEW s \in Seq(S), NEW t \in Seq(S), NEW d \in Int, d - Len(s) \in 1 .. Len(t)
  PROVE  (s \o t)[d] = t[d - Len(s)]
  OBVIOUS

\* The handoffs of a template fit: they depend on each other only.
LEMMA TemplateFits ==
  ASSUME Types, NEW t \in Templates
  PROVE  Built(t, NewId) \in Seq(Handoff) /\ Fits(Built(t, NewId))
  <1>. DEFINE root    == NewId
              deps(i) == {root - 1 + Place(t, r) : r \in DependsOnRole[t][Roles[t][i]]}
              new     == Built(t, root)
  <1>1. root \in Nat /\ root = Len(handoffs) + 1 /\ Len(handoffs) \in Nat
    BY DEF Types, NewId
  <1>2. \A i \in 1 .. 3 : \A d \in deps(i) : d \in root .. root + i - 2
    <2>. SUFFICES ASSUME NEW i \in 1 .. 3, NEW r \in DependsOnRole[t][Roles[t][i]]
                  PROVE  root - 1 + Place(t, r) \in root .. root + i - 2
      OBVIOUS
    <2>1. Place(t, r) \in 1 .. i - 1
      BY PlacesAre
    <2>. QED
      BY <1>1, <2>1
  <1>3. new = [i \in 1 .. 3 |-> NewHandoff(root, deps(i), TRUE)]
    BY DEF Built
  <1>. HIDE DEF deps, new, root
  <1>4. \A i \in 1 .. 3 : deps(i) \in SUBSET Nat
    BY <1>1, <1>2
  <1>5. \A i \in 1 .. 3 : NewHandoff(root, deps(i), TRUE) \in Handoff
    BY <1>1, <1>4 DEF NewHandoff, Handoff, States
  <1>6. new \in Seq(Handoff) /\ Len(new) = 3
    <2>1. new \in [1 .. 3 -> Handoff]
      BY <1>3, <1>5
    <2>. QED
      BY <2>1, ThreeAreASequence
  <1>7. \A i \in 1 .. 3 : new[i].wf = root /\ new[i].deps = deps(i) /\ new[i].state = "created"
    BY <1>3 DEF NewHandoff
  <1>8. \A d \in root .. root + 2 : (handoffs \o new)[d].wf = root
    <2>. SUFFICES ASSUME NEW d \in root .. root + 2 PROVE (handoffs \o new)[d].wf = root
      OBVIOUS
    <2>1. d - Len(handoffs) \in 1 .. 3
      BY <1>1
    <2>2. (handoffs \o new)[d] = new[d - Len(handoffs)]
      <3>1. d \in Int /\ d - Len(handoffs) \in 1 .. Len(new) /\ handoffs \in Seq(Handoff)
        BY <1>1, <1>6, <2>1 DEF Types
      <3>. QED
        BY <1>6, <3>1, ConcatAt
    <2>. QED
      BY <1>7, <2>1, <2>2
  <1>9. Fits(new)
    <2>. SUFFICES ASSUME NEW i \in 1 .. 3
                  PROVE  /\ new[i].state = "created" /\ new[i].wf \in 1 .. Len(handoffs) + i
                         /\ \A d \in new[i].deps : /\ d \in 1 .. Len(handoffs) + i - 1
                                                   /\ (handoffs \o new)[d].wf = new[i].wf
      BY <1>6 DEF Fits
    <2>1. \A d \in deps(i) : d \in root .. root + i - 2 /\ d \in root .. root + 2
                             /\ d \in 1 .. Len(handoffs) + i - 1
      BY <1>1, <1>2
    <2>2. new[i].wf = root /\ new[i].deps = deps(i) /\ new[i].state = "created"
      BY <1>7
    <2>3. root \in 1 .. Len(handoffs) + i
      BY <1>1
    <2>4. \A d \in deps(i) : d \in 1 .. Len(handoffs) + i - 1 /\ (handoffs \o new)[d].wf = root
      BY <1>8, <2>1
    <2>. QED
      BY <2>2, <2>3, <2>4
  <1>. QED
    BY <1>6, <1>9 DEF new, root

----------------------------------------------------------------------------
\* Steps

\* A creation, whatever becomes of the records.
LEMMA CreationStep ==
  ASSUME IInv, NEW new \in Seq(Handoff), Fits(new), Insert(new), UNCHANGED <<call, reopens>>,
         records' \in [Tables -> [Keys -> {NoOne} \cup Made]], AnswersOnRecord'
  PROVE  IInv'
  <1>. USE DEF IInv
  <1>1. /\ handoffs' \in Seq(Handoff) /\ Keep /\ Inside'
        /\ \A n \in Ids' : (n \in Ids /\ handoffs'[n] = handoffs[n]) \/ handoffs'[n].state = "created"
    BY GrowStep DEF Insert
  <1>2. Types'
    BY <1>1 DEF Types
  <1>3. \A n \in Ids : n \in Ids' /\ (~ Waits(n) => ~ Waits(n)')
    <2>1. \A n \in Ids : n \in Ids'
      BY <1>1, <1>2, IdsAre DEF Keep, Types, Ids
    <2>. QED
      BY <1>1, <1>2, <2>1, WaitsStay
  <1>4. Checked'
    BY <1>3 DEF Checked
  <1>5. WorkFollowsDependencies'
    BY <1>1, <1>3 DEF WorkFollowsDependencies
  <1>6. Appending'
    BY <1>3 DEF Appending
  <1>. QED
    BY <1>1, <1>2, <1>4, <1>5, <1>6

\* A creation under an idempotency key keeps the invariant.
LEMMA OnceStep ==
  ASSUME IInv, NEW table \in Tables, NEW key \in Keys, NEW payload \in Payloads \cup Templates,
         NEW new \in Seq(Handoff), Fits(new), OncePerKey(table, key, payload, new),
         UNCHANGED <<call, reopens>>
  PROVE  IInv'
  <1>. USE DEF IInv
  <1>1. NewId \in Nat /\ records \in [Tables -> [Keys -> {NoOne} \cup Made]]
    BY DEF Types, NewId
  <1>2. CASE /\ records[table][key] = NoOne /\ Insert(new)
             /\ records' = [records EXCEPT ![table][key] = [payload |-> payload, wf |-> NewId]]
             /\ Answer(table, key, payload, NewId)
    <2>. DEFINE made == [payload |-> payload, wf |-> NewId]
    <2>1. made \in Made /\ made # NoOne /\ made.payload = payload /\ made.wf = NewId
      BY <1>1, RecordAssumption DEF Made
    <2>2. /\ records' \in [Tables -> [Keys -> {NoOne} \cup Made]]
          /\ records'[table][key] = made
          /\ \A t \in Tables, k \in Keys : t # table \/ k # key => records'[t][k] = records[t][k]
      BY <1>1, <1>2, <2>1
    <2>3. AnswersOnRecord'
      <3>. SUFFICES ASSUME NEW a \in granted'
                    PROVE  /\ a.table \in Tables /\ a.key \in Keys
                           /\ records'[a.table][a.key] # NoOne
                           /\ a = [table |-> a.table, key |-> a.key,
                                   payload |-> records'[a.table][a.key].payload,
                                   wf |-> records'[a.table][a.key].wf]
        BY DEF AnswersOnRecord
      <3>1. CASE a \in granted
        <4>1. /\ a.table \in Tables /\ a.key \in Keys /\ records[a.table][a.key] # NoOne
              /\ a = [table |-> a.table, key |-> a.key,
                      payload |-> records[a.table][a.key].payload,
                      wf |-> records[a.table][a.key].wf]
          BY <3>1 DEF AnswersOnRecord
        <4>2. records'[a.table][a.key] = records[a.table][a.key]
          BY <1>2, <2>2, <4>1
        <4>. QED
          BY <4>1, <4>2
      <3>2. CASE a = [table |-> table, key |-> key, payload |-> payload, wf |-> NewId]
        <4>1. a.table = table /\ a.key = key
          BY <3>2
        <4>. QED
          BY <2>1, <2>2, <3>2, <4>1
      <3>. QED
        BY <1>2, <3>1, <3>2 DEF Answer
    <2>. QED
      BY <1>2, <2>2, <2>3, CreationStep
  <1>3. CASE /\ records[table][key] # NoOne /\ records[table][key].payload = payload
             /\ Answer(table, key, payload, records[table][key].wf)
             /\ UNCHANGED <<handoffs, records>>
    <2>1. AnswersOnRecord'
      BY <1>3 DEF AnswersOnRecord, Answer
    <2>. QED
      BY <1>3, <2>1 DEF Types, Inside, DependenciesInside, Checked, Appending,
                        WorkFollowsDependencies, Waits, Of, Ids
  <1>. QED
    BY <1>2, <1>3 DEF OncePerKey

\* A request that reads, and what it found.
LEMMA ReadStep ==
  ASSUME IInv, NEW c \in Callers, NEW a \in Requests, call' = [call EXCEPT ![c] = a],
         UNCHANGED <<handoffs, records, granted, reopens>>,
         a.at = "recording" => a.h \in Ids /\ (a.to # "failed" => ~ Waits(a.h)),
         a.at = "appending" => a.wf \in Ids /\ a.seen \notin Ended
  PROVE  IInv'
  <1>. USE DEF IInv
  <1>1. call' \in [Callers -> Requests] /\ \A x \in Callers : call'[x] = IF x = c THEN a ELSE call[x]
    BY DEF Types
  <1>2. Types'
    BY <1>1 DEF Types
  <1>3. Ids' = Ids /\ \A n : Waits(n)' = Waits(n)
    BY DEF Ids, Waits, Of
  <1>4. AnswersOnRecord' /\ Inside' /\ WorkFollowsDependencies'
    BY <1>3 DEF AnswersOnRecord, Inside, DependenciesInside, Of, Ids, WorkFollowsDependencies
  <1>5. Checked'
    BY <1>1, <1>3 DEF Checked
  <1>6. Appending'
    BY <1>1, <1>3 DEF Appending
  <1>. QED
    BY <1>2, <1>4, <1>5, <1>6

\* A caller at rest is well typed.
LEMMA IdleIs == Idle \in Requests /\ Idle.at = "idle"
  BY DEF Idle, Requests, States

\* The request is over, and nothing else changes.
LEMMA ReturnStep ==
  ASSUME IInv, NEW c \in Callers, Return(c), UNCHANGED <<handoffs, records, granted, reopens>>
  PROVE  IInv'
  BY IdleIs, ReadStep DEF Return

\* As CreationStep, when a request ends with it.
LEMMA AppendStep ==
  ASSUME IInv, NEW c \in Callers, FinishAppend(c)
  PROVE  IInv'
  <1>. USE DEF IInv
  <1>. DEFINE a == call[c]
              h == NewHandoff(a.wf, a.deps, a.required)
  <1>1. CASE a.deps \subseteq Of(a.wf) /\ handoffs' = Append(handoffs, h)
    <2>1. /\ a.wf \in Ids /\ a.wf \in Nat /\ a.deps \in SUBSET Nat /\ a.required \in BOOLEAN
          /\ Return(c) /\ UNCHANGED <<records, granted, reopens>>
      BY DEF Types, Requests, Appending, FinishAppend
    <2>2. h \in Handoff /\ h.wf = a.wf /\ h.deps = a.deps /\ h.state = "created"
      BY <2>1 DEF NewHandoff, Handoff, States
    <2>3. \A d \in a.deps : d \in Ids /\ handoffs[d].wf = a.wf
      BY <1>1 DEF Of
    <2>. HIDE DEF h, a
    <2>4. /\ <<h>> \in Seq(Handoff) /\ Len(<<h>>) = 1 /\ <<h>>[1] = h
          /\ handoffs \in Seq(Handoff) /\ Ids = 1 .. Len(handoffs) /\ Len(handoffs) \in Nat
      BY <2>2 DEF Types, Ids
    <2>5. handoffs' = handoffs \o <<h>>
      BY <1>1, <2>2, <2>4
    <2>6. \A d \in Ids : (handoffs \o <<h>>)[d] = handoffs[d]
      BY <2>4
    <2>7. Fits(<<h>>)
      BY <2>1, <2>2, <2>3, <2>4, <2>6 DEF Fits
    <2>8. /\ handoffs' \in Seq(Handoff) /\ Keep /\ Inside'
          /\ \A n \in Ids' : (n \in Ids /\ handoffs'[n] = handoffs[n]) \/ handoffs'[n].state = "created"
      BY <2>4, <2>5, <2>7, GrowStep
    <2>9. call' \in [Callers -> Requests] /\ \A x \in Callers : call'[x] = IF x = c THEN Idle ELSE call[x]
      BY <2>1, IdleIs DEF Types, Return
    <2>10. Types'
      BY <2>1, <2>8, <2>9 DEF Types
    <2>11. \A n \in Ids : n \in Ids' /\ (~ Waits(n) => ~ Waits(n)')
      <3>1. \A n \in Ids : n \in Ids'
        BY <2>8, <2>10, IdsAre DEF Keep, Types, Ids
      <3>. QED
        BY <2>8, <2>10, <3>1, WaitsStay
    <2>12. Checked'
      BY <2>1, <2>9, <2>11, IdleIs DEF Checked
    <2>13. Appending'
      BY <2>9, <2>11, IdleIs DEF Appending
    <2>14. WorkFollowsDependencies'
      BY <2>1, <2>8, <2>11 DEF WorkFollowsDependencies
    <2>15. AnswersOnRecord'
      BY <2>1 DEF AnswersOnRecord
    <2>. QED
      BY <2>8, <2>10, <2>12, <2>13, <2>14, <2>15
  <1>2. CASE UNCHANGED handoffs
    BY <1>2, ReturnStep DEF FinishAppend
  <1>. QED
    BY <1>1, <1>2 DEF FinishAppend

\* One handoff goes on; n is done only after what it waits for, and without a
\* repair what is done stays done.
LEMMA WorkStep ==
  ASSUME IInv, NEW n \in Ids, NEW s \in States, handoffs' = [handoffs EXCEPT ![n].state = s]
  PROVE  /\ handoffs' \in Seq(Handoff) /\ Ids' = Ids /\ Inside'
         /\ handoffs'[n].state = s
         /\ \A m \in Ids : m # n => handoffs'[m] = handoffs[m]
         /\ handoffs[n].state # "completed" => Keep
  <1>. USE DEF IInv
  <1>1. handoffs \in Seq(Handoff) /\ handoffs[n] \in Handoff
    BY DEF Types, Ids
  <1>2. [handoffs[n] EXCEPT !.state = s] \in Handoff
    BY <1>1 DEF Handoff
  <1>3. handoffs' = [handoffs EXCEPT ![n] = [handoffs[n] EXCEPT !.state = s]]
    BY Zenon
  <1>4. /\ handoffs' \in Seq(Handoff) /\ Len(handoffs') = Len(handoffs) /\ Ids' = Ids
        /\ handoffs'[n] = [handoffs[n] EXCEPT !.state = s]
        /\ \A m \in Ids : m # n => handoffs'[m] = handoffs[m]
    BY <1>1, <1>2, <1>3 DEF Ids
  <1>5. /\ handoffs'[n].wf = handoffs[n].wf /\ handoffs'[n].deps = handoffs[n].deps
        /\ handoffs'[n].state = s
    BY <1>1, <1>4 DEF Handoff
  <1>6. \A m \in Ids : handoffs'[m].wf = handoffs[m].wf /\ handoffs'[m].deps = handoffs[m].deps
    BY <1>4, <1>5
  <1>7. Inside'
    BY <1>4, <1>6 DEF Inside, DependenciesInside, Of
  <1>8. handoffs[n].state # "completed" => Keep
    BY <1>1, <1>4, <1>6 DEF Keep
  <1>. QED
    BY <1>4, <1>5, <1>7, <1>8

\* The event that was checked is recorded, if the handoff still takes it.
LEMMA RecordStep ==
  ASSUME IInv, NEW c \in Callers, RecordEvent(c)
  PROVE  IInv'
  <1>. USE DEF IInv
  <1>. DEFINE n == call[c].h
              s == call[c].to
  <1>1. CASE MayBecome(n, s) /\ handoffs' = [handoffs EXCEPT ![n].state = s]
    <2>0. /\ n \in Ids /\ (reopens = 0 /\ s # "failed" => ~ Waits(n))
          /\ Return(c) /\ UNCHANGED <<records, granted, reopens>>
      BY DEF Checked, RecordEvent
    <2>1. /\ n \in Ids /\ s \in States /\ handoffs[n].state \in States
          /\ Return(c) /\ UNCHANGED <<records, granted, reopens>>
          /\ reopens = 0 /\ s # "failed" => ~ Waits(n)
      <3>1. call[c] \in Requests /\ handoffs[n] \in Handoff
        BY <2>0, IdsAre DEF Types
      <3>. QED
        BY <2>0, <3>1 DEF Requests, Handoff
    <2>2. handoffs[n].state # "completed" /\ s # "created"
      BY <1>1, <2>1 DEF MayBecome, Follows, States, Ended
    <2>. HIDE DEF n, s
    <2>3. /\ handoffs' \in Seq(Handoff) /\ Ids' = Ids /\ Inside' /\ Keep
          /\ handoffs'[n].state = s
          /\ \A m \in Ids : m # n => handoffs'[m] = handoffs[m]
      BY <1>1, <2>1, <2>2, WorkStep
    <2>4. call' \in [Callers -> Requests] /\ \A x \in Callers : call'[x] = IF x = c THEN Idle ELSE call[x]
      BY <2>1, IdleIs DEF Types, Return
    <2>5. Types'
      BY <2>1, <2>3, <2>4 DEF Types
    <2>6. \A m \in Ids : ~ Waits(m) => ~ Waits(m)'
      BY <2>3, <2>5, WaitsStay
    <2>7. Checked'
      BY <2>1, <2>3, <2>4, <2>6, IdleIs DEF Checked
    <2>8. Appending'
      BY <2>3, <2>4, IdleIs DEF Appending
    <2>9. WorkFollowsDependencies'
      <3>. SUFFICES ASSUME reopens = 0, NEW m \in Ids, handoffs'[m].state \in {"underway", "completed"}
                    PROVE  ~ Waits(m)'
        BY <2>1, <2>3 DEF WorkFollowsDependencies
      <3>1. CASE m = n
        BY <2>1, <2>3, <2>6, <3>1
      <3>2. CASE m # n
        BY <2>3, <2>6, <3>2 DEF WorkFollowsDependencies
      <3>. QED
        BY <3>1, <3>2
    <2>10. AnswersOnRecord'
      BY <2>1 DEF AnswersOnRecord
    <2>. QED
      BY <2>3, <2>5, <2>7, <2>8, <2>9, <2>10
  <1>2. CASE UNCHANGED handoffs
    BY <1>2, ReturnStep DEF RecordEvent
  <1>. QED
    BY <1>1, <1>2 DEF RecordEvent

\* After a repair nothing is said of dependencies that were done.
LEMMA ReopenStep ==
  ASSUME IInv, NEW n \in Ids, ReopenHandoff(n)
  PROVE  IInv'
  <1>. USE DEF IInv
  <1>1. handoffs' \in Seq(Handoff) /\ Ids' = Ids /\ Inside'
    BY WorkStep DEF ReopenHandoff, States
  <1>2. /\ UNCHANGED <<records, call, granted>> /\ reopens' \in Nat /\ reopens' # 0
    BY DEF ReopenHandoff, Types
  <1>3. Types'
    BY <1>1, <1>2 DEF Types
  <1>4. Checked' /\ Appending' /\ WorkFollowsDependencies' /\ AnswersOnRecord'
    BY <1>1, <1>2 DEF Checked, Appending, WorkFollowsDependencies, AnswersOnRecord
  <1>. QED
    BY <1>1, <1>3, <1>4

\* A workflow that is not over is active or blocked.
LEMMA StatusOpen ==
  ASSUME NEW w, ~ Over(w)
  PROVE  Status(w) \in {"active", "blocked"}
  BY DEF Over, Status, Ended

\* An append begins with a look at the status of the workflow.
LEMMA BeginStep ==
  ASSUME IInv, NEW c \in Callers, BeginAppend(c)
  PROVE  IInv'
  <1>1. PICK w \in Roots, deps \in SUBSET Ids, required \in Demands :
          /\ ~ Over(w)
          /\ call' = [call EXCEPT ![c] = [Idle EXCEPT !.at = "appending", !.wf = w,
                         !.seen = Status(w), !.deps = deps, !.required = required]]
    BY DEF BeginAppend
  <1>. DEFINE seen == Status(w)
  <1>2. seen \in {"active", "blocked"} /\ w \in Ids /\ w \in Nat /\ deps \in SUBSET Nat /\ required \in BOOLEAN
    BY <1>1, StatusOpen, IdsAre, WorkflowAssumption DEF IInv, Roots
  <1>. HIDE DEF seen
  <1>. DEFINE a == [Idle EXCEPT !.at = "appending", !.wf = w, !.seen = seen, !.deps = deps,
                                !.required = required]
  <1>3. a \in Requests /\ a.at = "appending" /\ a.wf = w /\ a.seen = seen
    BY <1>2 DEF Idle, Requests, States
  <1>4. call' = [call EXCEPT ![c] = a]
    BY <1>1 DEF seen
  <1>. HIDE DEF a
  <1>. QED
    BY <1>2, <1>3, <1>4, ReadStep DEF BeginAppend, Ended

\* An event begins with a look at what the handoff depends on.
LEMMA CheckStep ==
  ASSUME IInv, NEW c \in Callers, CheckDependencies(c)
  PROVE  IInv'
  <1>1. PICK n \in Ids, to \in {"underway", "completed", "failed"} :
          /\ to # "failed" => ~ Waits(n)
          /\ call' = [call EXCEPT ![c] = [Idle EXCEPT !.at = "recording", !.h = n, !.to = to]]
    BY DEF CheckDependencies
  <1>. DEFINE a == [Idle EXCEPT !.at = "recording", !.h = n, !.to = to]
  <1>2. n \in Nat
    BY IdsAre DEF IInv
  <1>3. a \in Requests /\ a.at = "recording" /\ a.h = n /\ a.to = to
    BY <1>2 DEF Idle, Requests, States, Ended
  <1>4. call' = [call EXCEPT ![c] = a]
    BY <1>1
  <1>. HIDE DEF a
  <1>. QED
    BY <1>1, <1>3, <1>4, ReadStep DEF CheckDependencies

\* A single handoff without dependencies fits.
LEMMA OneFits ==
  ASSUME IInv, NEW required \in BOOLEAN
  PROVE  /\ <<NewHandoff(NewId, {}, required)>> \in Seq(Handoff)
         /\ Fits(<<NewHandoff(NewId, {}, required)>>)
  BY RootFits DEF IInv

\* A creation without a key keeps the invariant.
LEMMA PlainStep ==
  ASSUME IInv, NEW new \in Seq(Handoff), Fits(new), Insert(new),
         UNCHANGED <<records, call, granted, reopens>>
  PROVE  IInv'
  <1>1. records' \in [Tables -> [Keys -> {NoOne} \cup Made]] /\ AnswersOnRecord'
    BY DEF IInv, Types, AnswersOnRecord
  <1>. QED
    BY <1>1, CreationStep

\* There are no handoffs, no records and no calls at the start.
LEMMA InitInv == Init => IInv
  BY DEF Init, IInv, Types, AnswersOnRecord, Inside, DependenciesInside, Checked, Appending,
         WorkFollowsDependencies, Idle, Requests, States, Ids, Tables

\* Every step, and stuttering, keeps the invariant.
LEMMA NextInv == IInv /\ [Next]_vars => IInv'
  <1>. SUFFICES ASSUME IInv, [Next]_vars PROVE IInv'
    OBVIOUS
  <1>1. CASE CreateHandoff
    <2>1. PICK required \in BOOLEAN : Insert(<<NewHandoff(NewId, {}, required)>>)
      BY <1>1, WorkflowAssumption DEF CreateHandoff
    <2>. QED
      BY <1>1, <2>1, OneFits, PlainStep DEF CreateHandoff
  <1>2. ASSUME NEW k \in Keys, NEW p \in Payloads, CreateHandoffIdempotent(k, p) PROVE IInv'
    <2>1. /\ OncePerKey("task", k, p, <<NewHandoff(NewId, {}, TRUE)>>)
          /\ UNCHANGED <<call, reopens>> /\ "task" \in Tables
      BY <1>2 DEF CreateHandoffIdempotent, Tables
    <2>. QED
      BY <2>1, OneFits, OnceStep
  <1>3. ASSUME NEW t \in Templates, NEW k \in Keys \cup {NoKey}, ApplyCollaborationTemplate(t, k)
        PROVE  IInv'
    <2>1. Built(t, NewId) \in Seq(Handoff) /\ Fits(Built(t, NewId))
      BY TemplateFits DEF IInv
    <2>2. CASE k = NoKey
      BY <1>3, <2>1, <2>2, PlainStep DEF ApplyCollaborationTemplate
    <2>3. CASE k # NoKey
      <3>1. /\ OncePerKey("template", k, t, Built(t, NewId)) /\ UNCHANGED <<call, reopens>>
            /\ "template" \in Tables /\ k \in Keys
        BY <1>3, <2>3 DEF ApplyCollaborationTemplate, Tables
      <3>. QED
        BY <2>1, <3>1, OnceStep
    <2>. QED
      BY <2>2, <2>3
  <1>4. ASSUME NEW c \in Callers, BeginAppend(c) PROVE IInv'
    BY <1>4, BeginStep
  <1>5. ASSUME NEW c \in Callers, FinishAppend(c) PROVE IInv'
    BY <1>5, AppendStep
  <1>6. ASSUME NEW c \in Callers, CheckDependencies(c) PROVE IInv'
    BY <1>6, CheckStep
  <1>7. ASSUME NEW c \in Callers, RecordEvent(c) PROVE IInv'
    BY <1>7, RecordStep
  <1>8. ASSUME NEW n \in Ids, ReopenHandoff(n) PROVE IInv'
    BY <1>8, ReopenStep
  <1>9. CASE UNCHANGED vars
    BY <1>9 DEF vars, IInv, Types, AnswersOnRecord, Inside, DependenciesInside, Checked, Appending,
                WorkFollowsDependencies, Waits, Of, Ids
  <1>. QED
    BY <1>1, <1>2, <1>3, <1>4, <1>5, <1>6, <1>7, <1>8, <1>9 DEF Next

\* Every reachable state satisfies the inductive invariant.
LEMMA InvAlways == Spec => []IInv
  BY InitInv, NextInv, PTL DEF Spec

----------------------------------------------------------------------------
\* Ends

\* Handoffs that have ended stay, and w gets no new ones.
Settled(w) ==
  /\ Keep
  /\ \A m \in Ids : /\ handoffs'[m].required = handoffs[m].required
                    /\ handoffs[m].state \in Ended => handoffs'[m].state = handoffs[m].state
  /\ \A m \in Ids' \ Ids : handoffs'[m].wf # w

\* A workflow whose ended handoffs stay as they are keeps the status it ended with.
LEMMA StatusStays ==
  ASSUME IInv, Types', NEW w \in Roots, Over(w), Settled(w)
  PROVE  Status(w)' = Status(w)
  <1>. USE DEF IInv
  <1>1. Ids \subseteq Ids'
    BY IdsAre DEF Settled, Keep, Types, Ids
  <1>2. Of(w)' = Of(w) /\ Needed(w)' = Needed(w) /\ Needed(w) \subseteq Ids
    BY <1>1 DEF Settled, Keep, Of, Needed
  <1>3. \A n \in Needed(w) : ~ Waits(n) => ~ Waits(n)'
    BY <1>2, WaitsStay DEF Settled
  <1>4. \A n \in Needed(w) : handoffs[n].state \in Ended => handoffs'[n].state = handoffs[n].state
    BY <1>2 DEF Settled
  <1>5. Status(w) = IF Needed(w) = {} THEN "active"
                    ELSE IF \E n \in Needed(w) : handoffs[n].state = "failed" THEN "failed"
                    ELSE IF \E n \in Needed(w) : Waits(n) THEN "blocked"
                    ELSE IF \A n \in Needed(w) : handoffs[n].state = "completed" THEN "completed"
                    ELSE "active"
    BY DEF Status
  <1>6. Status(w)' = IF Needed(w) = {} THEN "active"
                     ELSE IF \E n \in Needed(w) : handoffs'[n].state = "failed" THEN "failed"
                     ELSE IF \E n \in Needed(w) : Waits(n)' THEN "blocked"
                     ELSE IF \A n \in Needed(w) : handoffs'[n].state = "completed" THEN "completed"
                     ELSE "active"
    BY <1>2 DEF Status
  <1>7. Status(w) \in {"completed", "failed"} /\ Needed(w) # {}
    BY <1>5 DEF Over, Ended
  <1>8. CASE Status(w) = "failed"
    BY <1>4, <1>5, <1>6, <1>7, <1>8 DEF Ended
  <1>9. CASE Status(w) = "completed"
    <2>1. /\ \A n \in Needed(w) : handoffs[n].state = "completed"
          /\ \A n \in Needed(w) : ~ Waits(n)
      BY <1>5, <1>7, <1>9
    <2>. QED
      BY <1>3, <1>4, <1>6, <1>7, <1>9, <2>1 DEF Ended
  <1>. QED
    BY <1>7, <1>8, <1>9

\* What is created elsewhere leaves w alone.
LEMMA ElsewhereStays ==
  ASSUME IInv, Types', NEW w \in Roots, Over(w), NEW new \in Seq(Handoff), Fits(new),
         handoffs' = handoffs \o new, \A i \in 1 .. Len(new) : new[i].wf # w
  PROVE  Status(w)' = Status(w)
  <1>. USE DEF IInv
  <1>1. Keep
    BY GrowStep
  <1>. DEFINE k == Len(handoffs)
  <1>2. /\ handoffs \in Seq(Handoff) /\ k \in Nat /\ Len(new) \in Nat /\ Ids = 1 .. k
        /\ Ids' = 1 .. k + Len(new)
    BY DEF Types, Ids
  <1>3. \A m \in Ids : handoffs'[m] = handoffs[m]
    BY <1>2
  <1>4. ASSUME NEW m \in Ids' \ Ids PROVE handoffs'[m].wf # w
    <2>1. m \in Int /\ m - k \in 1 .. Len(new)
      BY <1>2
    <2>2. handoffs'[m] = new[m - k]
      BY <1>2, <2>1, ConcatAt
    <2>. QED
      BY <2>1, <2>2
  <1>. QED
    BY <1>1, <1>3, <1>4, StatusStays DEF Settled

\* The next id is the root of no workflow yet.
LEMMA NewRoot ==
  ASSUME IInv
  PROVE  NewId \notin Roots
  BY IdsAre DEF IInv, NewId, Roots

\* New workflows leave the others alone.
LEMMA NewIsElsewhere ==
  ASSUME IInv, NEW w \in Roots
  PROVE  /\ \A required \in BOOLEAN :
              LET new == <<NewHandoff(NewId, {}, required)>> IN \A i \in 1 .. Len(new) : new[i].wf # w
         /\ \A t \in Templates :
              LET new == Built(t, NewId) IN \A i \in 1 .. Len(new) : new[i].wf # w
  <1>1. NewId # w
    BY NewRoot
  <1>2. ASSUME NEW required \in BOOLEAN
        PROVE  LET new == <<NewHandoff(NewId, {}, required)>> IN \A i \in 1 .. Len(new) : new[i].wf # w
    BY <1>1 DEF NewHandoff
  <1>3. ASSUME NEW t \in Templates
        PROVE  LET new == Built(t, NewId) IN \A i \in 1 .. Len(new) : new[i].wf # w
    <2>1. Len(Built(t, NewId)) = 3 /\ \A i \in 1 .. 3 : Built(t, NewId)[i].wf = NewId
      BY DEF Built, NewHandoff
    <2>. QED
      BY <1>1, <2>1
  <1>. QED
    BY <1>2, <1>3

\* Nothing happens to handoffs.
LEMMA SameStays ==
  ASSUME UNCHANGED handoffs, NEW w
  PROVE  Status(w)' = Status(w)
  BY DEF Status, Needed, Of, Ids, Waits

\* Without a reopening or a late append, a step leaves a workflow that is over as it is.
LEMMA EndStep ==
  ASSUME IInv, Types', Next, NEW w \in Roots, Over(w), reopens' = reopens,
         \A c \in Callers : ~ (call[c].at = "appending" /\ call[c].wf = w
                               /\ call[c].seen \notin Ended)
  PROVE  Status(w)' = Status(w)
  <1>1. CASE CreateHandoff
    <2>1. PICK required \in BOOLEAN : handoffs' = handoffs \o <<NewHandoff(NewId, {}, required)>>
      BY <1>1, WorkflowAssumption DEF CreateHandoff, Insert
    <2>. QED
      BY <2>1, OneFits, NewIsElsewhere, ElsewhereStays
  <1>2. ASSUME NEW k \in Keys, NEW p \in Payloads, CreateHandoffIdempotent(k, p)
        PROVE  Status(w)' = Status(w)
    <2>1. CASE handoffs' = handoffs \o <<NewHandoff(NewId, {}, TRUE)>>
      BY <2>1, OneFits, NewIsElsewhere, ElsewhereStays
    <2>2. CASE UNCHANGED handoffs
      BY <2>2, SameStays
    <2>. QED
      BY <1>2, <2>1, <2>2 DEF CreateHandoffIdempotent, OncePerKey, Insert
  <1>3. ASSUME NEW t \in Templates, NEW k \in Keys \cup {NoKey}, ApplyCollaborationTemplate(t, k)
        PROVE  Status(w)' = Status(w)
    <2>1. CASE handoffs' = handoffs \o Built(t, NewId)
      <3>1. Built(t, NewId) \in Seq(Handoff) /\ Fits(Built(t, NewId))
        BY TemplateFits DEF IInv
      <3>. QED
        BY <2>1, <3>1, NewIsElsewhere, ElsewhereStays
    <2>2. CASE UNCHANGED handoffs
      BY <2>2, SameStays
    <2>. QED
      BY <1>3, <2>1, <2>2 DEF ApplyCollaborationTemplate, OncePerKey, Insert
  <1>4. ASSUME NEW c \in Callers, FinishAppend(c) PROVE Status(w)' = Status(w)
    <2>. DEFINE a == call[c]
                h == NewHandoff(a.wf, a.deps, a.required)
    <2>1. CASE handoffs' = Append(handoffs, h)
      <3>1. /\ a.wf # w /\ a \in Requests /\ handoffs \in Seq(Handoff)
        BY <1>4 DEF FinishAppend, IInv, Types, Appending
      <3>2. h \in Handoff /\ h.wf # w
        BY <3>1 DEF NewHandoff, Handoff, Requests, States
      <3>. HIDE DEF h, a
      <3>3. /\ Ids = 1 .. Len(handoffs) /\ Ids' = 1 .. Len(handoffs) + 1 /\ Len(handoffs) \in Nat
            /\ \A m \in Ids : handoffs'[m] = handoffs[m]
            /\ \A m \in Ids' \ Ids : handoffs'[m] = h
            /\ Len(handoffs') >= Len(handoffs)
        BY <2>1, <3>1, <3>2 DEF Ids
      <3>4. Settled(w)
        BY <3>2, <3>3 DEF Settled, Keep
      <3>. QED
        BY <3>4, StatusStays
    <2>2. CASE UNCHANGED handoffs
      BY <2>2, SameStays
    <2>. QED
      BY <1>4, <2>1, <2>2 DEF FinishAppend
  <1>5. ASSUME NEW c \in Callers, RecordEvent(c) PROVE Status(w)' = Status(w)
    <2>. DEFINE n == call[c].h
                s == call[c].to
    <2>1. CASE MayBecome(n, s) /\ handoffs' = [handoffs EXCEPT ![n].state = s]
      <3>1. n \in Ids /\ s \in States /\ handoffs[n] \in Handoff
        <4>1. n \in Ids /\ call[c] \in Requests
          BY <1>5 DEF RecordEvent, IInv, Types, Checked
        <4>. QED
          BY <4>1, IdsAre DEF Requests, IInv
      <3>2. handoffs[n].state \notin Ended
        BY <2>1, <3>1 DEF MayBecome, Follows, Handoff, States, Ended
      <3>3. handoffs'[n].required = handoffs[n].required
        BY <2>1, <3>1 DEF Handoff, Ids
      <3>. HIDE DEF n, s
      <3>4. /\ Ids' = Ids /\ Keep
            /\ \A m \in Ids : m # n => handoffs'[m] = handoffs[m]
        BY <2>1, <3>1, <3>2, WorkStep DEF Ended
      <3>5. Settled(w)
        BY <3>2, <3>3, <3>4 DEF Settled
      <3>. QED
        BY <3>5, StatusStays
    <2>2. CASE UNCHANGED handoffs
      BY <2>2, SameStays
    <2>. QED
      BY <1>5, <2>1, <2>2 DEF RecordEvent
  <1>6. ASSUME NEW c \in Callers, BeginAppend(c) \/ CheckDependencies(c)
        PROVE  Status(w)' = Status(w)
    BY <1>6, SameStays DEF BeginAppend, CheckDependencies
  <1>7. ASSUME NEW n \in Ids, ReopenHandoff(n) PROVE FALSE
    BY <1>7 DEF ReopenHandoff, IInv, Types
  <1>. QED
    BY <1>1, <1>2, <1>3, <1>4, <1>5, <1>6, <1>7 DEF Next

----------------------------------------------------------------------------
\* The oldest handoff that has not ended

\* A set of numbers has a least member.
LEMMA Least ==
  ASSUME NEW T \in SUBSET Nat, T # {}
  PROVE  \E n \in T : \A i \in T : n <= i
  <1>. DEFINE Less == {p \in Nat \X Nat : p[1] < p[2]}
  <1>1. OpToRel(<, Nat) = Less
    BY DEF OpToRel
  <1>2. IsWellFoundedOn(Less, Nat)
    BY <1>1, NatLessThanWellFounded
  <1>. HIDE DEF Less
  <1>3. PICK n \in T : \A i \in T : ~ (<<i, n>> \in Less)
    BY <1>2, WFMin
  <1>4. ASSUME NEW i \in T, i < n PROVE FALSE
    <2>1. <<i, n>> \in Nat \X Nat
      BY <1>4
    <2>. QED
      BY <1>3, <1>4, <2>1 DEF Less
  <1>. QED
    BY <1>4

\* What it depends on is older, so it has ended, and well.
LEMMA OldestGoesOn ==
  ASSUME IInv, NEW w \in Roots, ~ Over(w), Needed(w) # {},
         \A n \in Of(w) : \A d \in handoffs[n].deps :
           handoffs[d].state = "failed" => handoffs[d].required
  PROVE  \E n \in Of(w) : handoffs[n].state \notin Ended /\ ~ Waits(n)
  <1>. DEFINE T == {n \in Of(w) : handoffs[n].state \notin Ended}
  <1>1. /\ Ids \subseteq Nat
        /\ \A n \in Ids : handoffs[n].state \in States /\ handoffs[n].required \in BOOLEAN
    BY IdsAre DEF IInv, Handoff
  <1>2. /\ \A n \in Needed(w) : handoffs[n].state # "failed"
        /\ \E n \in Needed(w) : Waits(n) \/ handoffs[n].state # "completed"
    BY DEF Over, Status, Ended
  <1>3. \A n \in Of(w) : \A d \in handoffs[n].deps : d \in Of(w) /\ d < n
    BY DEF IInv, Inside, DependenciesInside, Of
  <1>4. \A n \in Of(w) : \A d \in handoffs[n].deps : handoffs[d].state # "failed"
    BY <1>1, <1>2, <1>3 DEF Needed, Of
  <1>5. \A n \in Of(w) : Waits(n) => \E d \in handoffs[n].deps : d \in T /\ d < n
    BY <1>3, <1>4 DEF Waits, Ended, Of
  <1>6. T # {}
    <2>1. PICK n \in Needed(w) : Waits(n) \/ handoffs[n].state # "completed"
      BY <1>2
    <2>2. n \in Of(w)
      BY DEF Needed
    <2>3. CASE Waits(n)
      BY <1>5, <2>2, <2>3
    <2>4. CASE handoffs[n].state # "completed"
      BY <1>2, <2>1, <2>2, <2>4 DEF Ended
    <2>. QED
      BY <2>1, <2>3, <2>4
  <1>7. PICK n \in T : \A i \in T : n <= i
    BY <1>1, <1>6, Least DEF Of
  <1>8. ~ Waits(n)
    <2>1. SUFFICES ASSUME NEW d \in T, d < n PROVE FALSE
      BY <1>5
    <2>2. n <= d /\ n \in Nat /\ d \in Nat
      BY <1>1, <1>7 DEF Of
    <2>. QED
      BY <2>1, <2>2
  <1>. QED
    BY <1>8

----------------------------------------------------------------------------
\* Theorems

\* However often and from wherever a controlled task or a template is asked for
\* under a key (CreateHandoffIdempotent, ApplyCollaborationTemplate), it is
\* created once, and every answer names what was made then.
THEOREM KeysHold == Spec => []OneCreationPerKey
  <1>1. IInv => OneCreationPerKey
    BY Zenon DEF IInv, AnswersOnRecord, OneCreationPerKey
  <1>. QED
    BY <1>1, InvAlways, PTL

\* AppendHandoff and the templates never tie a handoff to a later one or to
\* another workflow's: dependencies have no cycles.
THEOREM NoCycles == Spec => []DependenciesInside
  <1>1. IInv => DependenciesInside
    BY DEF IInv, Inside
  <1>. QED
    BY <1>1, InvAlways, PTL

\* The dependency check of RecordEvent reads before it writes; without a repair
\* in between the recorded work still follows what it depends on.
THEOREM WorkFollows == Spec => []WorkFollowsDependencies
  <1>1. IInv => WorkFollowsDependencies
    BY DEF IInv
  <1>. QED
    BY <1>1, InvAlways, PTL

\* An open workflow (ProjectWorkflow) always has a handoff to work on: not ended and
\* waiting for nothing, unless what is waited for is a failed handoff nobody requires.
THEOREM WorkToDo == Spec => []NeverStuck
  <1>1. IInv => NeverStuck
    BY OldestGoesOn DEF NeverStuck
  <1>. QED
    BY <1>1, InvAlways, PTL

\* Only a repair, or an append that read the workflow while it was open
\* (AppendHandoff projects before its transaction), changes how a workflow ended.
THEOREM EndsStay == Spec => EndedStays
  <1>1. IInv /\ IInv' /\ [Next]_vars =>
          [\A w \in Roots :
             \/ ~ Over(w)
             \/ \E c \in Callers : call[c].at = "appending" /\ call[c].wf = w
                                   /\ call[c].seen \notin Ended
             \/ reopens' # reopens
             \/ (Status(w))' = Status(w)]_vars
    BY EndStep DEF IInv
  <1>. QED
    BY <1>1, InvAlways, PTL DEF Spec, EndedStays
=============================================================================
