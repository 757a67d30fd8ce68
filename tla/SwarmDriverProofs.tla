------------------------- MODULE SwarmDriverProofs -------------------------
(***************************************************************************)
(* What the swarm driver keeps up for any number of daemons, handoffs and  *)
(* agents, whatever fails: its tables fit together, it never takes work    *)
(* for done that no agent has reported, and what it records is what the    *)
(* state machine accepts.                                                  *)
(***************************************************************************)
EXTENDS SwarmDriver, HandoffStateMachineProofs

Answers == [status : {"completed", "failed"}, artifacts : Nat, decision : Decisions]

Requests == [known : BOOLEAN, delivery : {"new", "sent", "waiting", "failed"},
             result : Answers \cup {NoReply}]

Daemons == [at : {"off", "resting", "working"} \cup Busy, todo : SUBSET Items,
            item : Items \cup {NoOne}, answer : Answers \cup {NoReply},
            outcome : {"none", "waiting", "sent", "failed", "error"}]

\* The columns of the tables.
Tables ==
  /\ row \in [Handoffs -> Rows]
  /\ \A h \in Handoffs : row[h].reviewer = Reviewer[h]
  /\ exec \in [Keys -> Requests]
  /\ verdict \in [Keys -> {"absent", "open", "sent", "failed"}]
  /\ delivered \in [Keys -> Nat]
  /\ said \in [Keys -> SUBSET Answers]
  /\ driver \in [Drivers -> Daemons]

\* A request is known before the sender hears of it; its result is what was
\* reported last; what counts as sent was delivered.
Posts ==
  \A k \in Keys :
    /\ exec[k].result \in Replies[k.phase] \cup {NoReply}
    /\ said[k] \subseteq Replies[k.phase]
    /\ exec[k].result # NoReply => exec[k].result \in said[k]
    /\ said[k] # {} => exec[k].result # NoReply
    /\ verdict[k] # "absent" => exec[k].known
    /\ verdict[k] = "sent" => delivered[k] > 0
    /\ exec[k].delivery = "sent" => delivered[k] > 0

\* A handoff that concerns one of the agents, as it was read.
Fit(i) ==
  /\ i \in Items
  /\ i.seen.reviewer = Reviewer[i.h]
  /\ Concerned(i.h, i.seen) # {}

\* What a daemon x has in hand agrees with the tables.
Sound(x) ==
  /\ x \in Daemons
  /\ \A i \in x.todo : Fit(i)
  /\ x.item # NoOne => Fit(x.item)
  /\ x.at \in Busy <=> x.item # NoOne
  /\ x.at = "marking" <=> x.outcome # "none"
  /\ x.at = "working" => x.todo # {}
  /\ x.at \in {"asking", "polling", "marking"} => exec[Key(x.item)].known
  /\ x.at = "marking" /\ x.outcome = "sent" => delivered[Key(x.item)] > 0
  /\ x.at = "recording" => /\ x.answer \in said[Key(x.item)]
                           /\ x.answer.status = "completed"
                           /\ NeedsAgent(x.item)

AllSound == \A d \in Drivers : Sound(driver[d])

IInv == Tables /\ Posts /\ AllSound

\* What is known, delivered or said stays so.
Grows ==
  \A k \in Keys : /\ exec[k].known => exec'[k].known
                  /\ delivered[k] > 0 => delivered'[k] > 0
                  /\ said[k] \subseteq said'[k]

----------------------------------------------------------------------------
\* Identities

\* The agent asked for work is a configured one it concerns (agentForWork).
LEMMA AgentFound ==
  ASSUME NEW h, NEW r, Concerned(h, r) # {}
  PROVE  AgentForWork(h, r) \in Agents
<1>1. Configured \in Seq(Agents) /\ Concerned(h, r) \subseteq DOMAIN Configured
  BY SwarmAssumption DEF Concerned
<1>2. Concerned(h, r) \subseteq Nat
  BY <1>1
<1>3. \E i \in Concerned(h, r) : \A j \in Concerned(h, r) : i <= j
  BY <1>2, Least
<1>4. (CHOOSE i \in Concerned(h, r) : \A j \in Concerned(h, r) : i <= j) \in DOMAIN Configured
  BY <1>1, <1>3
<1> QED BY <1>1, <1>4 DEF AgentForWork

\* Every item has a correlation id.
LEMMA FitKey ==
  ASSUME NEW i, Fit(i)
  PROVE  /\ Key(i) \in Keys
         /\ i.h \in Handoffs /\ i.seen \in Rows /\ Key(i).h = i.h
         /\ Key(i).phase = IF i.seen.state # "submitted" THEN "execute" ELSE "review"
<1>1. i.h \in Handoffs /\ i.seen \in Rows
  BY DEF Fit, Items
<1>2. AgentForWork(i.h, i.seen) \in Agents
  BY AgentFound DEF Fit
<1>3. i.seen.reviewer \in Agents \cup {NoActor}
  BY <1>1, SwarmAssumption DEF Fit
<1> QED BY <1>1, <1>2, <1>3 DEF Key, ExecutionKey, Keys, Phases

\* What a daemon has in hand stays right while the tables grow.
LEMMA StaysSound ==
  ASSUME NEW x, Sound(x), Grows
  PROVE  Sound(x)'
<1>1. x.item # NoOne => Key(x.item) \in Keys
  BY FitKey DEF Sound
<1>2. x.at \in {"asking", "polling", "marking", "recording"} => x.item # NoOne
  BY DEF Sound, Busy
<1> QED BY <1>1, <1>2 DEF Sound, Grows, Fit, Items, Concerned, Concerns, Key, ExecutionKey,
           AgentForWork, NeedsAgent

\* A daemon that goes on as x, with the others where they were.
LEMMA GoesOn ==
  ASSUME Tables, AllSound, Grows, NEW d \in Drivers, NEW x,
         driver' = [driver EXCEPT ![d] = x], Sound(x)'
  PROVE  driver' \in [Drivers -> Daemons] /\ AllSound'
<1>1. x \in Daemons
  BY DEF Sound
<1>2. driver' \in [Drivers -> Daemons]
  BY <1>1 DEF Tables
<1>3. ASSUME NEW c \in Drivers PROVE Sound(driver[c])'
  <2>1. CASE c = d
    <3>1. driver'[c] = x
      BY <2>1 DEF Tables
    <3> QED BY <3>1
  <2>2. CASE c # d
    <3>1. PICK y : y = driver[c]
      OBVIOUS
    <3>2. Sound(y)'
      BY <3>1, StaysSound DEF AllSound
    <3>3. driver'[c] = y
      BY <2>2, <3>1 DEF Tables
    <3> QED BY <3>2, <3>3
  <2> QED BY <2>1, <2>2
<1> QED BY <1>2, <1>3 DEF AllSound

\* The list a daemon is left with, and what it turns to when it has none.
LEMMA ListKept ==
  ASSUME Tables, AllSound, Grows, NEW d \in Drivers, NEW left \in SUBSET Items,
         \A i \in left : Fit(i), ToList(d, left)
  PROVE  driver' \in [Drivers -> Daemons] /\ AllSound'
<1> DEFINE x == IF left = {} THEN Resting
                ELSE [Resting EXCEPT !.at = "working", !.todo = left]
<1>1. x = [at |-> IF left = {} THEN "resting" ELSE "working", todo |-> left,
           item |-> NoOne, answer |-> NoReply, outcome |-> "none"]
  BY DEF Resting, Off
<1>2. driver' = [driver EXCEPT ![d] = x]
  BY DEF ToList
<1> HIDE DEF x
<1>3. x \in Daemons
  BY <1>1 DEF Daemons
<1>4. Sound(x)'
  BY <1>1, <1>3 DEF Sound, Busy, Fit
<1> QED BY <1>2, <1>4, GoesOn

\* A daemon at rest, or stopped, has nothing in hand.
LEMMA RestKept ==
  ASSUME Tables, AllSound, Grows, NEW d \in Drivers, Rest(d) \/ Quit(d)
  PROVE  driver' \in [Drivers -> Daemons] /\ AllSound'
<1>1. /\ Resting = [at |-> "resting", todo |-> {}, item |-> NoOne, answer |-> NoReply,
                    outcome |-> "none"]
      /\ Off = [at |-> "off", todo |-> {}, item |-> NoOne, answer |-> NoReply,
                outcome |-> "none"]
  BY DEF Resting, Off
<1>2. Resting \in Daemons /\ Off \in Daemons
  BY <1>1 DEF Daemons
<1>3. Sound(Resting)' /\ Sound(Off)'
  BY <1>1, <1>2 DEF Sound, Busy
<1> QED BY <1>3, GoesOn DEF Rest, Quit

----------------------------------------------------------------------------
\* Events

\* nextProgressDecision state by state.
LEMMA ProgressIs ==
  ASSUME NEW h, NEW r, NEW reply
  PROVE  LET e == NextProgress(h, r, reply)
             own(type) == By(type, Kind[h].receiver) IN
         /\ r.state \in {"created", "dispatched"} => e = own("received")
         /\ r.state = "received" => e = own("claimed")
         /\ r.state = "claimed"  => e = own("started")
         /\ r.state = "started"  => e = own("checkpointed")
         /\ r.state = "checkpointed" =>
              e = IF NeedsSubmission(Kind[h]) THEN Submission(h, reply) ELSE own("completed")
         /\ r.state = "submitted" => e = Review(r, reply)
         /\ r.state \notin WavedThrough \cup {"started", "checkpointed", "submitted"} =>
              e = IF InRevision(r) THEN own("checkpointed") ELSE own("completed")
<1>1. /\ DOMAIN FollowedBy = {"dispatched", "received", "claimed", "started"}
      /\ FollowedBy["dispatched"] = "received" /\ FollowedBy["received"] = "claimed"
      /\ FollowedBy["claimed"] = "started" /\ FollowedBy["started"] = "checkpointed"
  BY DEF FollowedBy
<1>2. r.state \in DOMAIN FollowedBy =>
        NextProgress(h, r, reply) = By(FollowedBy[r.state], Kind[h].receiver)
  BY <1>1 DEF NextProgress, InRevision
<1>3. r.state = "created" => NextProgress(h, r, reply) = By("received", Kind[h].receiver)
  BY <1>1 DEF NextProgress, InRevision
<1>4. r.state = "checkpointed" =>
        NextProgress(h, r, reply) = IF NeedsSubmission(Kind[h]) THEN Submission(h, reply)
                                    ELSE By("completed", Kind[h].receiver)
  BY <1>1 DEF NextProgress, InRevision
<1>5. r.state = "submitted" => NextProgress(h, r, reply) = Review(r, reply)
  BY <1>1 DEF NextProgress, InRevision
<1>6. r.state \notin WavedThrough \cup {"started", "checkpointed", "submitted"} =>
        NextProgress(h, r, reply) = IF InRevision(r) THEN By("checkpointed", Kind[h].receiver)
                                    ELSE By("completed", Kind[h].receiver)
  BY <1>1 DEF NextProgress, WavedThrough
<1> QED BY <1>1, <1>2, <1>3, <1>4, <1>5, <1>6

\* What a daemon makes of a handoff and a reply is an event.
LEMMA ProgressType ==
  ASSUME NEW i, Fit(i), NEW reply \in Answers
  PROVE  NextProgress(i.h, i.seen, reply) \in Events
<1>1. i.h \in Handoffs /\ i.seen \in Rows /\ Kind[i.h].receiver \in Agents
      /\ i.seen.reviewer \in Actors \cup {NoActor}
  BY FitKey, SwarmAssumption DEF Kinds, Rows
<1>2. \A type \in EventTypes, a \in Actors \cup {NoActor} :
        By(type, a) = [type |-> type, subject |-> a, producer |-> a, artifacts |-> 0,
                       decision |-> "none"]
        /\ By(type, a) \in Events
  BY DEF By, Events, Decisions
<1>3. {"received", "claimed", "started", "checkpointed", "submitted", "reviewed", "completed",
       "failed"} \subseteq EventTypes
  BY Places DEF EventTypes, Ended
<1>4. Kind[i.h].receiver \in Actors
  BY <1>1 DEF Actors
<1>5. Submission(i.h, reply) \in Events
  BY <1>2, <1>3, <1>4 DEF Submission, Answers, Events
<1>6. Review(i.seen, reply) \in Events
  BY <1>1, <1>2, <1>3 DEF Review, Events, Decisions
<1>7. \A type \in {"received", "claimed", "started", "checkpointed", "completed"} :
        By(type, Kind[i.h].receiver) \in Events
  BY <1>2, <1>3, <1>4
<1>8. CASE i.seen.state \in WavedThrough \cup {"started", "checkpointed", "submitted"}
  BY <1>5, <1>6, <1>7, <1>8, ProgressIs DEF WavedThrough
<1>9. CASE i.seen.state \notin WavedThrough \cup {"started", "checkpointed", "submitted"}
  BY <1>7, <1>9, ProgressIs
<1> QED BY <1>8, <1>9

\* A recorded event makes a row of a row and names no other reviewer.
LEMMA RowKept ==
  ASSUME Tables, NEW h \in Handoffs, NEW e \in Events,
         MayRecord(h, e), ApplyProtocolAction(h, e)
  PROVE  /\ row' \in [Handoffs -> Rows]
         /\ \A g \in Handoffs : row'[g].reviewer = Reviewer[g]
<1>1. Kind[h] \in Kinds /\ row[h] \in Rows
  BY SwarmAssumption DEF Tables
<1>2. PICK r : r = Apply(Kind[h], row[h], e)
  OBVIOUS
<1>3. r \in Rows /\ r.reviewer = row[h].reviewer
  BY <1>1, <1>2, TakeType DEF MayRecord, Take
<1>4. row' = [row EXCEPT ![h] = [r EXCEPT !.version = 0]]
  BY <1>2 DEF ApplyProtocolAction, Tables
<1>5. [r EXCEPT !.version = 0] \in Rows /\ [r EXCEPT !.version = 0].reviewer = r.reviewer
  BY <1>3 DEF Rows
<1> QED BY <1>3, <1>4, <1>5 DEF Tables

----------------------------------------------------------------------------
\* Steps of a daemon

Quiet == UNCHANGED <<exec, verdict, delivered, said>>

\* Where neither requests nor jobs change, rows and the daemons decide.
LEMMA QuietStep ==
  ASSUME IInv, Quiet,
         row' \in [Handoffs -> Rows], \A h \in Handoffs : row'[h].reviewer = Reviewer[h],
         driver' \in [Drivers -> Daemons], AllSound'
  PROVE  IInv'
BY DEF IInv, Tables, Posts, Quiet

\* Rows that stay keep their reviewers.
LEMMA RowsStay ==
  ASSUME IInv, UNCHANGED row
  PROVE  row' \in [Handoffs -> Rows] /\ \A h \in Handoffs : row'[h].reviewer = Reviewer[h]
BY DEF IInv, Tables

\* A step that leaves the executions, the sender and the agents alone takes nothing back.
LEMMA QuietGrows == Quiet => Grows
BY DEF Quiet, Grows

\* A poll reads the rows of the work on offer, and keeps what concerns an agent.
LEMMA NextWorkStep ==
  ASSUME IInv, NEW d \in Drivers, NextWork(d)
  PROVE  IInv'
<1>1. Quiet /\ Grows /\ UNCHANGED row
  BY QuietGrows DEF NextWork, Quiet, sender
<1>2. PICK left : left = {[h |-> h, seen |-> row[h]] : h \in {h \in Offered : Workable(h)}}
  OBVIOUS
<1>3. ToList(d, left)
  BY <1>2 DEF NextWork
<1>4. ASSUME NEW i \in left PROVE Fit(i)
  <2>1. PICK h \in Handoffs : i = [h |-> h, seen |-> row[h]] /\ Workable(h)
    BY <1>2 DEF Offered
  <2>2. row[h] \in Rows /\ row[h].reviewer = Reviewer[h]
    BY DEF IInv, Tables
  <2> QED BY <2>1, <2>2 DEF Fit, Items, Workable
<1>5. left \in SUBSET Items
  BY <1>4 DEF Fit
<1>6. driver' \in [Drivers -> Daemons] /\ AllSound'
  BY <1>1, <1>3, <1>4, <1>5, ListKept DEF IInv
<1> QED BY <1>1, <1>6, RowsStay, QuietStep

\* What is left of a daemon's list.
LEMMA RestOfList ==
  ASSUME IInv, Grows, NEW d \in Drivers, NEW i, ToList(d, driver[d].todo \ {i})
  PROVE  driver' \in [Drivers -> Daemons] /\ AllSound'
<1>1. PICK left : left = driver[d].todo \ {i}
  OBVIOUS
<1>2. Sound(driver[d])
  BY DEF IInv, AllSound
<1>3. left \in SUBSET Items /\ \A j \in left : Fit(j)
  BY <1>1, <1>2 DEF Sound, Fit
<1>4. ToList(d, left)
  BY <1>1
<1> QED BY <1>3, <1>4, ListKept DEF IInv

\* As RestOfList, when nothing is taken off the list.
LEMMA WholeList ==
  ASSUME IInv, Grows, NEW d \in Drivers, ToList(d, driver[d].todo)
  PROVE  driver' \in [Drivers -> Daemons] /\ AllSound'
<1>1. PICK left : left = driver[d].todo
  OBVIOUS
<1>2. Sound(driver[d])
  BY DEF IInv, AllSound
<1>3. left \in SUBSET Items /\ \A j \in left : Fit(j)
  BY <1>1, <1>2 DEF Sound, Fit
<1>4. ToList(d, left)
  BY <1>1
<1> QED BY <1>3, <1>4, ListKept DEF IInv

\* Recording progress, or being refused.
LEMMA ProgressStep ==
  ASSUME IInv, Quiet, NEW d \in Drivers, NEW i, Fit(i), NEW reply \in Answers,
         ProgressWork(d, i, reply)
  PROVE  IInv'
<1>1. Grows
  BY QuietGrows
<1>2. PICK e \in Events : e = NextProgress(i.h, i.seen, reply)
  BY ProgressType
<1>3. i.h \in Handoffs
  BY FitKey
<1>4. CASE MayRecord(i.h, e)
  <2>1. ApplyProtocolAction(i.h, e) /\ ToList(d, driver[d].todo \ {i})
    BY <1>2, <1>4 DEF ProgressWork
  <2>2. driver' \in [Drivers -> Daemons] /\ AllSound'
    BY <1>1, <2>1, RestOfList
  <2> QED BY <1>3, <1>4, <2>1, <2>2, RowKept, QuietStep DEF IInv
<1>5. CASE ~ MayRecord(i.h, e)
  <2>1. UNCHANGED row /\ (Quit(d) \/ ToList(d, driver[d].todo \ {i}))
    BY <1>2, <1>5 DEF ProgressWork
  <2>2. driver' \in [Drivers -> Daemons] /\ AllSound'
    BY <1>1, <2>1, RestOfList, RestKept DEF IInv
  <2> QED BY <2>1, <2>2, RowsStay, QuietStep
<1> QED BY <1>4, <1>5

\* Work that needs no agent is recorded or passed over.
LEMMA WaveThroughStep ==
  ASSUME IInv, NEW d \in Drivers, WaveThrough(d)
  PROVE  IInv'
<1>1. Quiet
  BY DEF WaveThrough, Quiet, sender
<1>2. PICK i \in driver[d].todo : ProgressWork(d, i, NothingDone)
  BY DEF WaveThrough
<1>3. Fit(i)
  BY DEF IInv, AllSound, Sound
<1>4. NothingDone \in Answers
  BY DEF NothingDone, Answers, Decisions
<1> QED BY <1>1, <1>2, <1>3, <1>4, ProgressStep

\* The reply of an agent is recorded; the rest of the list is kept.
LEMMA RecordReplyStep ==
  ASSUME IInv, NEW d \in Drivers, RecordReply(d)
  PROVE  IInv'
<1>1. Quiet
  BY DEF RecordReply, Quiet, sender
<1>2. PICK i, reply : i = driver[d].item /\ reply = driver[d].answer
  OBVIOUS
<1>3. ProgressWork(d, i, reply) /\ driver[d].at = "recording"
  BY <1>2 DEF RecordReply
<1>4. Fit(i) /\ reply \in Answers
  BY <1>2, <1>3, FitKey DEF IInv, AllSound, Sound, Busy, Tables
<1> QED BY <1>1, <1>3, <1>4, ProgressStep

\* What a daemon carries once it has taken item i up.
Carried(d, i, at) ==
  [at |-> at, todo |-> driver[d].todo \ {i}, item |-> i, answer |-> exec[Key(i)].result,
   outcome |-> "none"]

\* EnsureExecutionRequest: an item is taken off the list, or up to ask or record.
LEMMA EnsureParts ==
  ASSUME NEW d \in Drivers, EnsureExecutionRequest(d)
  PROVE  \E i \in driver[d].todo :
           /\ NeedsAgent(i)
           /\ exec' = [exec EXCEPT ![Key(i)].known = TRUE]
           /\ \/ ToList(d, driver[d].todo \ {i})
              \/ /\ exec[Key(i)].result = NoReply
                 /\ driver' = [driver EXCEPT ![d] = Carried(d, i, "asking")]
              \/ /\ exec[Key(i)].result # NoReply
                 /\ driver' = [driver EXCEPT ![d] =
                                 Carried(d, i, IF exec[Key(i)].result.status = "failed"
                                               THEN "failing" ELSE "recording")]
BY DEF EnsureExecutionRequest, Carried

\* A daemon takes item i up, with the request for it on record.
LEMMA EnsureStep ==
  ASSUME IInv, NEW d \in Drivers, EnsureExecutionRequest(d)
  PROVE  IInv'
<1>0. PICK i \in driver[d].todo :
        /\ NeedsAgent(i)
        /\ exec' = [exec EXCEPT ![Key(i)].known = TRUE]
        /\ \/ ToList(d, driver[d].todo \ {i})
           \/ /\ exec[Key(i)].result = NoReply
              /\ driver' = [driver EXCEPT ![d] = Carried(d, i, "asking")]
           \/ /\ exec[Key(i)].result # NoReply
              /\ driver' = [driver EXCEPT ![d] =
                              Carried(d, i, IF exec[Key(i)].result.status = "failed"
                                            THEN "failing" ELSE "recording")]
  BY EnsureParts
<1>1. PICK reply, k, x :
        /\ k = Key(i) /\ reply = exec[k].result /\ NeedsAgent(i)
        /\ exec' = [exec EXCEPT ![k].known = TRUE]
        /\ \/ ToList(d, driver[d].todo \ {i})
           \/ /\ driver' = [driver EXCEPT ![d] = x]
              /\ \/ reply = NoReply /\ x = Carried(d, i, "asking")
                 \/ /\ reply # NoReply
                    /\ x = Carried(d, i, IF reply.status = "failed" THEN "failing"
                                         ELSE "recording")
  BY <1>0
<1>2. /\ driver[d].at = "working" /\ Sound(driver[d]) /\ driver[d] \in Daemons
      /\ UNCHANGED <<row, verdict, delivered, said>>
  BY DEF EnsureExecutionRequest, IInv, AllSound, Tables, sender
<1>3. Fit(i) /\ k \in Keys /\ i \in Items /\ i # NoOne
  BY <1>1, <1>2, FitKey, SwarmAssumption DEF Sound, Fit
<1>4. exec' \in [Keys -> Requests]
  <2>1. exec \in [Keys -> Requests]
    BY DEF IInv, Tables
  <2>2. [exec[k] EXCEPT !.known = TRUE] \in Requests
    BY <1>3, <2>1 DEF Requests
  <2> QED BY <1>1, <1>3, <2>1, <2>2
<1>5. \A n \in Keys : /\ exec'[n].result = exec[n].result /\ exec'[n].delivery = exec[n].delivery
                      /\ exec[n].known => exec'[n].known
  BY <1>1, <1>3 DEF IInv, Tables, Requests
<1>6. exec'[k].known
  BY <1>1, <1>3 DEF IInv, Tables, Requests
<1>7. Grows
  BY <1>2, <1>5 DEF Grows
<1>8. driver' \in [Drivers -> Daemons] /\ AllSound'
  <2>1. CASE ToList(d, driver[d].todo \ {i})
    BY <1>7, <2>1, RestOfList
  <2>2. CASE /\ driver' = [driver EXCEPT ![d] = x]
             /\ reply = NoReply /\ x = Carried(d, i, "asking")
    <3>1. /\ x \in Daemons /\ x.at = "asking" /\ x.item = i /\ x.outcome = "none"
          /\ x.todo \subseteq driver[d].todo
      BY <1>1, <1>2, <1>3, <2>2 DEF Carried, Daemons, Busy
    <3>2. \A j \in x.todo \cup {i} : Fit(j)'
      BY <1>2, <1>3, <3>1 DEF Sound, Fit, Items, Concerned, Concerns
    <3>3. Key(i)' = k
      BY <1>1 DEF Key, ExecutionKey, AgentForWork, Concerned, Concerns
    <3>4. Sound(x)'
      BY <1>3, <1>6, <3>1, <3>2, <3>3 DEF Sound, Busy
    <3> QED BY <1>7, <2>2, <3>4, GoesOn DEF IInv
  <2>3. CASE /\ driver' = [driver EXCEPT ![d] = x]
             /\ reply # NoReply
             /\ x = Carried(d, i, IF reply.status = "failed" THEN "failing" ELSE "recording")
    <3>1. reply \in Answers /\ reply \in said[k]
      BY <1>1, <1>3, <2>3 DEF IInv, Tables, Requests, Posts
    <3>2. /\ x \in Daemons /\ x.item = i /\ x.outcome = "none" /\ x.answer = reply
          /\ x.todo \subseteq driver[d].todo
          /\ x.at = IF reply.status = "failed" THEN "failing" ELSE "recording"
      BY <1>1, <1>2, <1>3, <2>3, <3>1 DEF Carried, Daemons, Busy
    <3>3. reply.status # "failed" => reply.status = "completed"
      BY <3>1 DEF Answers
    <3>4. \A j \in x.todo \cup {i} : Fit(j)
      BY <1>2, <1>3, <3>2 DEF Sound
    <3>5. Sound(x)
      BY <1>1, <1>3, <3>1, <3>2, <3>3, <3>4 DEF Sound, Busy
    <3>6. Sound(x)'
      BY <1>7, <3>5, StaysSound
    <3> QED BY <1>7, <2>3, <3>6, GoesOn DEF IInv
  <2> QED BY <1>1, <2>1, <2>2, <2>3
<1>9. Posts'
  BY <1>2, <1>5 DEF IInv, Posts
<1> QED BY <1>2, <1>4, <1>8, <1>9, RowsStay DEF IInv, Tables

----------------------------------------------------------------------------
\* Asking an agent

\* Where requests and deliveries stay, accepting a job for a known request is fine.
LEMMA AcceptKept ==
  ASSUME IInv, UNCHANGED <<exec, said>>, NEW k \in Keys, exec[k].known,
         L!Accept(k) \/ UNCHANGED sender
  PROVE  /\ verdict' \in [Keys -> {"absent", "open", "sent", "failed"}]
         /\ UNCHANGED delivered /\ Posts' /\ Grows
<1>1. /\ verdict' \in [Keys -> {"absent", "open", "sent", "failed"}] /\ UNCHANGED delivered
      /\ \A n \in Keys : verdict'[n] = verdict[n] \/ (n = k /\ verdict'[n] = "open")
  BY DEF L!Accept, sender, IInv, Tables
<1> QED BY <1>1 DEF IInv, Posts, Grows

\* An answer is learnt: it says sent only of what was delivered.
LEMMA LearnKept ==
  ASSUME IInv, NEW d \in Drivers, driver[d].at \in {"asking", "polling"}, Grows,
         NEW o \in {"waiting", "sent", "failed", "error"},
         o = "sent" => delivered[KeyOf(d)] > 0, Learn(d, o)
  PROVE  driver' \in [Drivers -> Daemons] /\ AllSound'
<1>1. PICK x : x = [driver[d] EXCEPT !.at = "marking", !.outcome = o]
  OBVIOUS
<1>2. driver' = [driver EXCEPT ![d] = x]
  BY <1>1 DEF Learn, IInv, Tables, Daemons
<1>3. driver[d] \in Daemons /\ Sound(driver[d])
  BY DEF IInv, Tables, AllSound
<1>4. /\ x \in Daemons /\ x.item = driver[d].item /\ x.todo = driver[d].todo
      /\ x.at = "marking" /\ x.outcome = o
  BY <1>1, <1>3 DEF Daemons, Busy
<1>5. Sound(x)
  BY <1>3, <1>4 DEF Sound, Busy, KeyOf
<1> QED BY <1>2, <1>5, StaysSound, GoesOn DEF IInv

\* A daemon whose request is stored goes on to ask the sender.
LEMMA PollingKept ==
  ASSUME IInv, NEW d \in Drivers, driver[d].at = "asking", Grows, Go(d, "polling")
  PROVE  driver' \in [Drivers -> Daemons] /\ AllSound'
<1>1. PICK x : x = [driver[d] EXCEPT !.at = "polling"]
  OBVIOUS
<1>2. driver' = [driver EXCEPT ![d] = x]
  BY <1>1 DEF Go, IInv, Tables, Daemons
<1>3. driver[d] \in Daemons /\ Sound(driver[d])
  BY DEF IInv, Tables, AllSound
<1>4. /\ x \in Daemons /\ x.item = driver[d].item /\ x.todo = driver[d].todo
      /\ x.at = "polling" /\ x.outcome = driver[d].outcome
  BY <1>1, <1>3 DEF Daemons, Busy
<1>5. Sound(x)
  BY <1>3, <1>4 DEF Sound, Busy
<1> QED BY <1>2, <1>5, StaysSound, GoesOn DEF IInv

\* POST /send: the job is accepted, still open, or decided already.
LEMMA SendStep ==
  ASSUME IInv, NEW d \in Drivers, Send(d)
  PROVE  IInv'
<1>1. driver[d].at = "asking" /\ UNCHANGED <<row, exec, said>>
  BY DEF Send
<1>2. Sound(driver[d])
  BY DEF IInv, AllSound
<1>3. PICK k \in Keys : k = KeyOf(d) /\ exec[k].known
  BY <1>1, <1>2, FitKey DEF Sound, Busy, KeyOf
<1>4. \/ L!Accept(k) /\ Go(d, "polling")
      \/ Go(d, "polling") /\ UNCHANGED sender
      \/ verdict[k] \in {"sent", "failed"} /\ Learn(d, verdict[k]) /\ UNCHANGED sender
  BY <1>3 DEF Send
<1>5. /\ verdict' \in [Keys -> {"absent", "open", "sent", "failed"}]
      /\ UNCHANGED delivered /\ Posts' /\ Grows
  BY <1>1, <1>3, <1>4, AcceptKept
<1>6. driver' \in [Drivers -> Daemons] /\ AllSound'
  <2>1. CASE Go(d, "polling")
    BY <1>1, <1>5, <2>1, PollingKept
  <2>2. CASE verdict[k] \in {"sent", "failed"} /\ Learn(d, verdict[k])
    <3>1. PICK o \in {"sent", "failed"} : o = verdict[k] /\ Learn(d, o)
      BY <2>2
    <3>2. o = "sent" => delivered[KeyOf(d)] > 0
      BY <1>3, <3>1 DEF IInv, Posts
    <3> QED BY <1>1, <1>5, <3>1, <3>2, LearnKept
  <2> QED BY <1>4, <2>1, <2>2
<1> QED BY <1>1, <1>5, <1>6, RowsStay DEF IInv, Tables

\* A request that fails becomes an outcome that is still to be noted.
LEMMA RequestFailsStep ==
  ASSUME IInv, NEW d \in Drivers, RequestFails(d)
  PROVE  IInv'
<1>1. UNCHANGED <<row, exec, said>>
  BY DEF RequestFails
<1>2. Sound(driver[d])
  BY DEF IInv, AllSound
<1>3. PICK o \in {"failed", "error"} : driver[d].at \in {"asking", "polling"} /\ Learn(d, o)
  BY DEF RequestFails
<1>4. PICK k \in Keys : k = KeyOf(d) /\ exec[k].known
  BY <1>2, <1>3, FitKey DEF Sound, Busy, KeyOf
<1>5. L!Accept(k) \/ UNCHANGED sender
  BY <1>4 DEF RequestFails
<1>6. /\ verdict' \in [Keys -> {"absent", "open", "sent", "failed"}]
      /\ UNCHANGED delivered /\ Posts' /\ Grows
  BY <1>1, <1>4, <1>5, AcceptKept
<1>7. driver' \in [Drivers -> Daemons] /\ AllSound'
  BY <1>3, <1>6, LearnKept
<1> QED BY <1>1, <1>6, <1>7, RowsStay DEF IInv, Tables

\* What the sender says of the job is what the daemon goes by.
LEMMA PollJobStep ==
  ASSUME IInv, NEW d \in Drivers, PollJob(d)
  PROVE  IInv'
<1>1. driver[d].at = "polling" /\ Quiet /\ UNCHANGED row
  BY DEF PollJob, Quiet, sender
<1>2. Sound(driver[d])
  BY DEF IInv, AllSound
<1>3. PICK k \in Keys : k = KeyOf(d)
  BY <1>1, <1>2, FitKey DEF Sound, Busy, KeyOf
<1>4. PICK o \in {"waiting", "sent", "failed"} :
        (o = "sent" => verdict[k] = "sent") /\ Learn(d, o)
  BY <1>3 DEF PollJob
<1>5. o = "sent" => delivered[KeyOf(d)] > 0
  BY <1>3, <1>4 DEF IInv, Posts
<1>6. driver' \in [Drivers -> Daemons] /\ AllSound'
  BY <1>1, <1>4, <1>5, LearnKept, QuietGrows
<1> QED BY <1>1, <1>6, RowsStay, QuietStep

\* A daemon turns to failing the handoff in hand.
LEMMA GiveUpKept ==
  ASSUME IInv, NEW d \in Drivers, driver[d].at = "marking", Grows, GiveUp(d)
  PROVE  driver' \in [Drivers -> Daemons] /\ AllSound'
<1>1. PICK x : x = [driver[d] EXCEPT !.at = "failing", !.outcome = "none"]
  OBVIOUS
<1>2. driver' = [driver EXCEPT ![d] = x]
  BY <1>1 DEF GiveUp, IInv, Tables, Daemons
<1>3. driver[d] \in Daemons /\ Sound(driver[d])
  BY DEF IInv, Tables, AllSound
<1>4. /\ x \in Daemons /\ x.item = driver[d].item /\ x.todo = driver[d].todo
      /\ x.at = "failing" /\ x.outcome = "none"
  BY <1>1, <1>3 DEF Daemons, Busy
<1>5. Sound(x)
  BY <1>3, <1>4 DEF Sound, Busy
<1> QED BY <1>2, <1>5, StaysSound, GoesOn DEF IInv

\* MarkExecutionDelivered notes as sent what was delivered.
LEMMA MarkStep ==
  ASSUME IInv, NEW d \in Drivers, MarkExecutionDelivered(d)
  PROVE  IInv'
<1>1. /\ driver[d].at = "marking" /\ UNCHANGED <<row, verdict, delivered, said>>
      /\ Sound(driver[d]) /\ driver[d] \in Daemons
  BY DEF MarkExecutionDelivered, IInv, Tables, AllSound, sender
<1>2. PICK k \in Keys : k = KeyOf(d)
  BY <1>1, FitKey DEF Sound, Busy, KeyOf
<1>3. PICK o : o = IF driver[d].outcome \in NotDelivered THEN "failed" ELSE driver[d].outcome
  OBVIOUS
<1>4. exec' = [exec EXCEPT ![k].delivery = o] /\ (GiveUp(d) \/ ToList(d, driver[d].todo))
  BY <1>2, <1>3 DEF MarkExecutionDelivered
<1>5. o \in {"sent", "waiting", "failed"} /\ (o = "sent" => delivered[k] > 0)
  BY <1>1, <1>2, <1>3 DEF Sound, Daemons, NotDelivered, KeyOf
<1>6. exec \in [Keys -> Requests]
  BY DEF IInv, Tables
<1>7. [exec[k] EXCEPT !.delivery = o] \in Requests
  BY <1>5, <1>6 DEF Requests
<1>8. exec' \in [Keys -> Requests]
  BY <1>4, <1>6, <1>7
<1>9. \A n \in Keys : /\ exec'[n].result = exec[n].result /\ exec'[n].known = exec[n].known
                      /\ exec'[n].delivery = IF n = k THEN o ELSE exec[n].delivery
  BY <1>4, <1>6 DEF Requests
<1>10. Grows
  BY <1>1, <1>9 DEF Grows
<1>11. Posts'
  BY <1>1, <1>5, <1>9 DEF IInv, Posts
<1>12. driver' \in [Drivers -> Daemons] /\ AllSound'
  BY <1>1, <1>4, <1>10, GiveUpKept, WholeList
<1> QED BY <1>1, <1>8, <1>11, <1>12, RowsStay DEF IInv, Tables

\* A delivery that failed fails its handoff, or the daemon quits.
LEMMA FailHandoffStep ==
  ASSUME IInv, NEW d \in Drivers, FailHandoff(d)
  PROVE  IInv'
<1>1. driver[d].at = "failing" /\ Quiet /\ Grows
  BY QuietGrows DEF FailHandoff, Quiet, sender
<1>2. PICK h, e : h = driver[d].item.h /\ e = By("failed", Kind[h].receiver)
  OBVIOUS
<1>3. h \in Handoffs
  BY <1>1, <1>2, FitKey DEF IInv, AllSound, Sound, Busy
<1>4. e \in Events
  BY <1>2, <1>3, SwarmAssumption
     DEF By, Events, EventTypes, Ended, Decisions, Kinds, Actors
<1>5. \/ MayRecord(h, e) /\ ApplyProtocolAction(h, e) /\ ToList(d, driver[d].todo)
      \/ Quit(d) /\ UNCHANGED row
  BY <1>2 DEF FailHandoff
<1>6. row' \in [Handoffs -> Rows] /\ \A g \in Handoffs : row'[g].reviewer = Reviewer[g]
  BY <1>3, <1>4, <1>5, RowKept, RowsStay DEF IInv
<1>7. driver' \in [Drivers -> Daemons] /\ AllSound'
  BY <1>1, <1>5, WholeList, RestKept DEF IInv
<1> QED BY <1>1, <1>6, <1>7, QuietStep

----------------------------------------------------------------------------
\* Faults, and everybody else

\* An error of the store ends the poll, the item or the daemon, and changes no table.
LEMMA StoreErrorStep ==
  ASSUME IInv, NEW d \in Drivers, StoreError(d)
  PROVE  IInv'
<1>1. Quiet /\ Grows /\ UNCHANGED row
  BY QuietGrows DEF StoreError, Quiet, sender
<1>2. \/ Rest(d) \/ Quit(d)
      \/ \E i : ToList(d, driver[d].todo \ {i})
      \/ driver[d].at = "marking" /\ GiveUp(d)
  BY DEF StoreError
<1>3. driver' \in [Drivers -> Daemons] /\ AllSound'
  BY <1>1, <1>2, RestKept, RestOfList, GiveUpKept DEF IInv
<1> QED BY <1>1, <1>3, RowsStay, QuietStep

\* A daemon dies, or is started again.
LEMMA LifeStep ==
  ASSUME IInv, NEW d \in Drivers, Crash(d) \/ Restart(d)
  PROVE  IInv'
<1>1. Quiet /\ Grows /\ UNCHANGED row /\ (Rest(d) \/ Quit(d))
  BY QuietGrows DEF Crash, Restart, Quiet, sender
<1>2. driver' \in [Drivers -> Daemons] /\ AllSound'
  BY <1>1, RestKept DEF IInv
<1> QED BY <1>1, <1>2, RowsStay, QuietStep

\* Daemons that do nothing stay as they are.
LEMMA DaemonsStay ==
  ASSUME IInv, Grows, UNCHANGED driver
  PROVE  driver' \in [Drivers -> Daemons] /\ AllSound'
<1>1. ASSUME NEW d \in Drivers PROVE Sound(driver[d])'
  <2>1. PICK x : x = driver[d]
    OBVIOUS
  <2>2. Sound(x)'
    BY <2>1, StaysSound DEF IInv, AllSound
  <2> QED BY <2>1, <2>2
<1> QED BY <1>1 DEF IInv, Tables, AllSound

\* The sender delivers a message, or decides a job.
LEMMA SenderStep ==
  ASSUME IInv, NEW k \in Keys, DeliverTask(k) \/ DecideJob(k)
  PROVE  IInv'
<1>1. UNCHANGED <<row, exec, said, driver>>
  BY DEF DeliverTask, DecideJob
<1>2. \A n \in Keys : delivered[n] \in Nat
  BY DEF IInv, Tables
<1>3. /\ verdict' \in [Keys -> {"absent", "open", "sent", "failed"}]
      /\ delivered' \in [Keys -> Nat]
      /\ \A n \in Keys : delivered[n] > 0 => delivered'[n] > 0
      /\ \A n \in Keys : \/ verdict'[n] = verdict[n]
                         \/ verdict[n] = "open" /\ (verdict'[n] = "sent" => delivered'[n] > 0)
  BY <1>2 DEF DeliverTask, DecideJob, L!Deliver, L!Decide, IInv, Tables
<1>4. Grows
  BY <1>1, <1>3 DEF Grows
<1>5. Posts'
  BY <1>1, <1>3 DEF IInv, Posts
<1> QED BY <1>1, <1>3, <1>4, <1>5, RowsStay, DaemonsStay DEF IInv, Tables

\* An agent reports on a task it was sent.
LEMMA ReportStep ==
  ASSUME IInv, NEW k \in Keys, SaveExecutionResult(k)
  PROVE  IInv'
<1>1. UNCHANGED <<row, verdict, delivered, driver>>
  BY DEF SaveExecutionResult, sender
<1>2. PICK reply \in Replies[k.phase] : /\ exec' = [exec EXCEPT ![k].result = reply]
                                        /\ said' = [said EXCEPT ![k] = @ \cup {reply}]
  BY DEF SaveExecutionResult
<1>3. reply \in Answers /\ reply # NoReply
  BY SwarmAssumption DEF Keys, Answers
<1>4. exec \in [Keys -> Requests] /\ said \in [Keys -> SUBSET Answers]
  BY DEF IInv, Tables
<1>5. [exec[k] EXCEPT !.result = reply] \in Requests
  BY <1>3, <1>4 DEF Requests
<1>6. exec' \in [Keys -> Requests] /\ said' \in [Keys -> SUBSET Answers]
  BY <1>2, <1>3, <1>4, <1>5
<1>7. \A n \in Keys : /\ exec'[n].result = IF n = k THEN reply ELSE exec[n].result
                      /\ exec'[n].known = exec[n].known
                      /\ exec'[n].delivery = exec[n].delivery
                      /\ said'[n] = IF n = k THEN said[n] \cup {reply} ELSE said[n]
  BY <1>2, <1>4 DEF Requests
<1>8. Grows
  BY <1>1, <1>7 DEF Grows
<1>9. Posts'
  <2>1. ASSUME NEW n \in Keys
        PROVE  /\ exec'[n].result \in Replies[n.phase] \cup {NoReply}
               /\ said'[n] \subseteq Replies[n.phase]
               /\ exec'[n].result # NoReply => exec'[n].result \in said'[n]
               /\ said'[n] # {} => exec'[n].result # NoReply
    <3>1. /\ exec[n].result \in Replies[n.phase] \cup {NoReply} /\ said[n] \subseteq Replies[n.phase]
          /\ exec[n].result # NoReply => exec[n].result \in said[n]
          /\ said[n] # {} => exec[n].result # NoReply
      BY DEF IInv, Posts
    <3>2. CASE n = k
      BY <1>2, <1>3, <1>7, <3>1, <3>2
    <3>3. CASE n # k
      BY <1>7, <3>1, <3>3
    <3> QED BY <3>2, <3>3
  <2>2. \A n \in Keys : /\ verdict'[n] # "absent" => exec'[n].known
                        /\ verdict'[n] = "sent" => delivered'[n] > 0
                        /\ exec'[n].delivery = "sent" => delivered'[n] > 0
    BY <1>1, <1>7 DEF IInv, Posts
  <2> QED BY <2>1, <2>2 DEF Posts
<1> QED BY <1>1, <1>6, <1>8, <1>9, RowsStay, DaemonsStay DEF IInv, Tables

\* An event of somebody else changes one row and nothing a daemon has in hand.
LEMMA OthersStep ==
  ASSUME IInv, NEW h \in Handoffs, OthersAct(h)
  PROVE  IInv'
<1>1. Quiet /\ UNCHANGED driver
  BY DEF OthersAct, Quiet, sender
<1>2. PICK e \in Outside : MayRecord(h, e) /\ ApplyProtocolAction(h, e)
  BY DEF OthersAct
<1>3. e \in Events
  BY SwarmAssumption
<1> QED BY <1>1, <1>2, <1>3, RowKept, DaemonsStay, QuietGrows, QuietStep DEF IInv

----------------------------------------------------------------------------
\* The tables fit together

\* The tables are empty and the daemons are off.
LEMMA InitInv == Init => IInv
<1>1. SUFFICES ASSUME Init PROVE IInv
  OBVIOUS
<1>2. row \in [Handoffs -> Rows] /\ \A h \in Handoffs : row[h].reviewer = Reviewer[h]
  <2>1. \A h \in Handoffs : Kind[h].receiver \in Actors /\ Reviewer[h] \in Actors \cup {NoActor}
    BY SwarmAssumption DEF Kinds, Actors
  <2>2. "created" \in States /\ "none" \in Decisions
    BY DEF States, Decisions
  <2>3. \A h \in Handoffs :
          row[h] = [state |-> "created", version |-> 0, owner |-> Kind[h].receiver,
                    lease |-> NoActor, reviewer |-> Reviewer[h], target |-> h \in Addressed,
                    has |-> {}, artifacts |-> 0, decision |-> "none"]
    BY <1>1 DEF Init
  <2>4. ASSUME NEW h \in Handoffs PROVE row[h] \in Rows
    <3>1. [state |-> "created", version |-> 0, owner |-> Kind[h].receiver, lease |-> NoActor,
           reviewer |-> Reviewer[h], target |-> h \in Addressed, has |-> {}, artifacts |-> 0,
           decision |-> "none"] \in Rows
      BY <2>1, <2>2 DEF Rows
    <3> QED BY <2>3, <3>1
  <2>5. row = [h \in Handoffs |-> row[h]]
    BY <1>1 DEF Init
  <2> QED BY <2>3, <2>4, <2>5
<1>3. /\ exec = [k \in Keys |-> Unasked] /\ said = [k \in Keys |-> {}]
      /\ verdict = [k \in Keys |-> "absent"] /\ delivered = [k \in Keys |-> 0]
      /\ driver = [d \in Drivers |-> Resting]
  BY <1>1 DEF Init, L!Init
<1>4. Unasked \in Requests /\ Unasked.result = NoReply /\ Unasked.delivery = "new"
  BY DEF Unasked, Requests
<1>5. Resting = [at |-> "resting", todo |-> {}, item |-> NoOne, answer |-> NoReply,
                 outcome |-> "none"]
  BY DEF Resting, Off
<1>6. Resting \in Daemons
  BY <1>5 DEF Daemons
<1>7. Sound(Resting)
  BY <1>5, <1>6 DEF Sound, Busy
<1>8. Tables
  BY <1>2, <1>3, <1>4, <1>6 DEF Tables
<1>9. Posts
  BY <1>3, <1>4 DEF Posts
<1>10. AllSound
  BY <1>3, <1>7 DEF AllSound
<1> QED BY <1>8, <1>9, <1>10 DEF IInv

\* Every step, and stuttering, keeps the tables and the daemons in agreement.
LEMMA NextInv == IInv /\ [Next]_vars => IInv'
<1>1. SUFFICES ASSUME IInv, [Next]_vars PROVE IInv'
  OBVIOUS
<1>2. ASSUME NEW d \in Drivers, Step(d) PROVE IInv'
  BY <1>1, <1>2, NextWorkStep, WaveThroughStep, EnsureStep, SendStep, PollJobStep, MarkStep,
     RecordReplyStep, FailHandoffStep DEF Step
<1>3. ASSUME NEW d \in Drivers, RequestFails(d) \/ StoreError(d) \/ Crash(d) \/ Restart(d)
      PROVE  IInv'
  BY <1>1, <1>3, RequestFailsStep, StoreErrorStep, LifeStep
<1>4. ASSUME NEW k \in Keys, DeliverTask(k) \/ DecideJob(k) \/ SaveExecutionResult(k)
      PROVE  IInv'
  BY <1>1, <1>4, SenderStep, ReportStep
<1>5. ASSUME NEW h \in Handoffs, OthersAct(h) PROVE IInv'
  BY <1>1, <1>5, OthersStep
<1>6. CASE UNCHANGED vars
  <2>1. Quiet /\ UNCHANGED <<row, driver>>
    BY <1>6 DEF vars, Quiet, sender
  <2> QED BY <1>1, <2>1, QuietGrows, RowsStay, DaemonsStay, QuietStep
<1> QED BY <1>1, <1>2, <1>3, <1>4, <1>5, <1>6 DEF Next

\* The inductive invariant implies the type invariant that the runs check.
LEMMA InvTypeOK == IInv => TypeOK
<1>1. SUFFICES ASSUME IInv PROVE TypeOK
  OBVIOUS
<1>2. row \in [Handoffs -> Rows]
  BY <1>1 DEF IInv, Tables
<1>3. ASSUME NEW k \in Keys
      PROVE  /\ exec[k].known \in BOOLEAN
             /\ exec[k].delivery \in {"new", "sent", "waiting", "failed"}
             /\ exec[k].result \in Replies[k.phase] \cup {NoReply}
             /\ verdict[k] # "absent" => exec[k].known
             /\ said[k] \subseteq Replies[k.phase]
             /\ said[k] # {} <=> exec[k].result # NoReply
  <2>1. exec[k] \in Requests
    BY <1>1 DEF IInv, Tables
  <2> QED BY <1>1, <2>1 DEF IInv, Posts, Requests
<1>4. ASSUME NEW d \in Drivers
      PROVE  /\ driver[d].at \in {"off", "resting", "working"} \cup Busy
             /\ driver[d].at \in Busy <=> driver[d].item # NoOne
             /\ driver[d].at \in {"asking", "polling", "marking"} => exec[KeyOf(d)].known
             /\ driver[d].at = "marking" <=> driver[d].outcome # "none"
             /\ driver[d].at = "working" => driver[d].todo # {}
             /\ driver[d].at = "recording" => driver[d].answer # NoReply
  <2>1. Sound(driver[d]) /\ driver[d] \in Daemons
    BY <1>1 DEF IInv, AllSound, Tables
  <2>2. driver[d].at = "recording" => driver[d].answer # NoReply
    <3>1. SUFFICES ASSUME driver[d].at = "recording" PROVE driver[d].answer # NoReply
      OBVIOUS
    <3>2. PICK k \in Keys : k = Key(driver[d].item)
      BY <2>1, <3>1, FitKey DEF Sound, Busy
    <3>3. said[k] \subseteq Replies[k.phase] /\ k.phase \in Phases
      BY <1>1 DEF IInv, Posts, Keys
    <3> QED BY <2>1, <3>1, <3>2, <3>3, SwarmAssumption DEF Sound
  <2> QED BY <2>1, <2>2 DEF Sound, Daemons, KeyOf
<1> QED BY <1>2, <1>3, <1>4 DEF TypeOK

\* The tables of the truth plane, the driver and the sender fit together, and so
\* does what every daemon has in hand, through crashes, failed requests and store
\* errors (telegram_adapter.go, daemon.go), for any number of daemons.
THEOREM TypeCorrect == Spec => []TypeOK
<1>1. Spec => []IInv
  BY InitInv, NextInv, PTL DEF Spec
<1> QED BY <1>1, InvTypeOK, PTL

\* A request is never noted as sent before the sender has delivered its message
\* (MarkExecutionDelivered), whatever polls and failed requests say.
THEOREM NotedIsTrue == Spec => []DeliveredIsTrue
<1>1. IInv => DeliveredIsTrue
  BY DEF IInv, Posts, DeliveredIsTrue
<1>2. Spec => []IInv
  BY InitInv, NextInv, PTL DEF Spec
<1> QED BY <1>1, <1>2, PTL

----------------------------------------------------------------------------
\* Where recorded events come from

\* e is what a daemon makes of handoff h and either nothing, where nothing is asked
\* for, or a report that the work is done.
Derived(h, e) ==
  \E i \in Items, reply \in Answers :
    /\ Fit(i) /\ i.h = h /\ e = NextProgress(h, i.seen, reply)
    /\ NeedsAgent(i) => reply \in said[Key(i)] /\ reply.status = "completed"

Recorded(h, e) ==
  /\ MayRecord(h, e) /\ ApplyProtocolAction(h, e)
  /\ UNCHANGED said
  /\ e \in Outside \/ e.type = "failed" \/ Derived(h, e)

\* A step leaves the rows alone or records one such event.
LEMMA RowSteps ==
  ASSUME IInv, [Next]_vars
  PROVE  \/ UNCHANGED row /\ \A k \in Keys : said[k] \subseteq said'[k]
         \/ \E h \in Handoffs, e \in Events : Recorded(h, e)
<1>1. ASSUME NEW d \in Drivers, NEW i, NEW reply \in Answers, ProgressWork(d, i, reply), Fit(i),
             UNCHANGED said,
             NeedsAgent(i) => reply \in said[Key(i)] /\ reply.status = "completed"
      PROVE  UNCHANGED row \/ \E h \in Handoffs, e \in Events : Recorded(h, e)
  <2>1. PICK h \in Handoffs, e \in Events : h = i.h /\ e = NextProgress(i.h, i.seen, reply)
    BY <1>1, FitKey, ProgressType
  <2>2. i \in Items
    BY <1>1 DEF Fit
  <2>3. Derived(h, e)
    BY <1>1, <2>1, <2>2 DEF Derived
  <2>4. UNCHANGED row \/ (MayRecord(h, e) /\ ApplyProtocolAction(h, e))
    BY <1>1, <2>1 DEF ProgressWork
  <2> QED BY <1>1, <2>3, <2>4 DEF Recorded
<1>2. ASSUME NEW d \in Drivers, WaveThrough(d)
      PROVE  UNCHANGED row \/ \E h \in Handoffs, e \in Events : Recorded(h, e)
  <2>1. PICK i \in driver[d].todo : ~ NeedsAgent(i) /\ ProgressWork(d, i, NothingDone)
    BY <1>2 DEF WaveThrough
  <2>2. Fit(i) /\ NothingDone \in Answers /\ UNCHANGED said
    BY <1>2 DEF IInv, AllSound, Sound, NothingDone, Answers, Decisions, WaveThrough
  <2> QED BY <1>1, <2>1, <2>2
<1>3. ASSUME NEW d \in Drivers, RecordReply(d)
      PROVE  UNCHANGED row \/ \E h \in Handoffs, e \in Events : Recorded(h, e)
  <2>1. PICK i, reply : i = driver[d].item /\ reply = driver[d].answer
    OBVIOUS
  <2>2. ProgressWork(d, i, reply) /\ driver[d].at = "recording" /\ UNCHANGED said
    BY <1>3, <2>1 DEF RecordReply
  <2>3. Fit(i) /\ reply \in said[Key(i)] /\ reply.status = "completed"
    BY <2>1, <2>2 DEF IInv, AllSound, Sound, Busy
  <2>4. reply \in Answers
    BY <2>3, FitKey DEF IInv, Tables
  <2> QED BY <1>1, <2>2, <2>3, <2>4
<1>4. ASSUME NEW d \in Drivers, FailHandoff(d)
      PROVE  UNCHANGED row \/ \E h \in Handoffs, e \in Events : Recorded(h, e)
  <2>1. PICK h, e : h = driver[d].item.h /\ e = By("failed", Kind[h].receiver)
    OBVIOUS
  <2>2. h \in Handoffs
    BY <1>4, <2>1, FitKey DEF FailHandoff, IInv, AllSound, Sound, Busy
  <2>3. e \in Events /\ e.type = "failed"
    BY <2>1, <2>2, SwarmAssumption DEF By, Events, EventTypes, Ended, Decisions, Kinds, Actors
  <2>4. UNCHANGED row \/ (MayRecord(h, e) /\ ApplyProtocolAction(h, e))
    BY <1>4, <2>1 DEF FailHandoff
  <2>5. UNCHANGED said
    BY <1>4 DEF FailHandoff
  <2> QED BY <2>2, <2>3, <2>4, <2>5 DEF Recorded
<1>5. ASSUME NEW h \in Handoffs, OthersAct(h)
      PROVE  \E e \in Events : Recorded(h, e)
  <2>1. PICK e \in Outside : MayRecord(h, e) /\ ApplyProtocolAction(h, e)
    BY <1>5 DEF OthersAct
  <2>2. UNCHANGED said
    BY <1>5 DEF OthersAct
  <2> QED BY <2>1, <2>2, SwarmAssumption DEF Recorded
<1>6. ASSUME NEW d \in Drivers,
             \/ NextWork(d) \/ EnsureExecutionRequest(d) \/ Send(d) \/ PollJob(d)
             \/ MarkExecutionDelivered(d) \/ RequestFails(d) \/ StoreError(d) \/ Crash(d)
             \/ Restart(d)
      PROVE  UNCHANGED <<row, said>>
  BY <1>6 DEF NextWork, EnsureExecutionRequest, Send, PollJob, MarkExecutionDelivered,
              RequestFails, StoreError, Crash, Restart
<1>7. ASSUME NEW d \in Drivers, \/ WaveThrough(d) \/ RecordReply(d) \/ FailHandoff(d)
      PROVE  UNCHANGED said
  BY <1>7 DEF WaveThrough, RecordReply, FailHandoff
<1>8. ASSUME NEW k \in Keys, DeliverTask(k) \/ DecideJob(k) PROVE UNCHANGED <<row, said>>
  BY <1>8 DEF DeliverTask, DecideJob
<1>9. ASSUME NEW k \in Keys, SaveExecutionResult(k)
      PROVE  UNCHANGED row /\ \A n \in Keys : said[n] \subseteq said'[n]
  BY <1>9 DEF SaveExecutionResult, IInv, Tables
<1>10. CASE UNCHANGED vars
  BY <1>10 DEF vars
<1>11. CASE Next
  <2>1. CASE \E d \in Drivers : \/ Step(d) \/ RequestFails(d) \/ StoreError(d) \/ Crash(d)
                                \/ Restart(d)
    BY <1>2, <1>3, <1>4, <1>6, <1>7, <2>1 DEF Step
  <2>2. CASE \E k \in Keys : DeliverTask(k) \/ DecideJob(k) \/ SaveExecutionResult(k)
    BY <1>8, <1>9, <2>2
  <2>3. CASE \E h \in Handoffs : OthersAct(h)
    BY <1>5, <2>3
  <2> QED BY <1>11, <2>1, <2>2, <2>3 DEF Next
<1> QED BY <1>10, <1>11

----------------------------------------------------------------------------
\* Work is reported before it is taken for done

\* The first checkpoint, and an approval, come by the events of that name.
LEMMA FirstCheckpoint ==
  ASSUME NEW k \in Kinds, NEW r \in Rows, Hydrated(k, r), NEW e \in Events, Accepts(k, r, e)
  PROVE  /\ "checkpointed" \in Apply(k, r, e).has =>
              "checkpointed" \in r.has \/ e.type = "checkpointed"
         /\ Apply(k, r, e).decision = "approved" =>
              r.decision = "approved" \/ (e.type = "reviewed" /\ e.decision = "approved")
<1>1. CASE e.type \in Signals
  BY <1>1, TakeHydrated DEF Take
<1>2. CASE e.type \notin Signals
  <2>1. PICK g \in Rows : /\ g = HydrateFlags(k, r) /\ g.state = r.state
                          /\ g.has = r.has /\ Allows(k, g, e)
    BY HydrateType DEF HydrateFlags, Hydrated, Accepts, Rows
  <2>2. PICK a \in Rows : /\ a = Advance(g, e) /\ a.state = StateAfter(e)
                          /\ a.has = g.has \ Withdrawn(e)
                          /\ Apply(k, r, e) = HydrateFlags(k, a)
    <3>1. PICK a \in Rows : a = Advance(g, e) /\ Apply(k, r, e) = HydrateFlags(k, a)
      BY <1>2, <2>1, ApplyParts
    <3>2. a.state = StateAfter(e) /\ a.has = g.has \ Withdrawn(e)
      BY <3>1 DEF Advance, Rows
    <3> QED BY <3>1, <3>2
  <2>3. Apply(k, r, e).has = a.has \cup Implied(k, a)
    BY <2>2 DEF HydrateFlags, Rows
  <2>4. "checkpointed" \in Milestones /\ "checkpointed" \in UpTo(4)
    BY Places
  <2>5. ASSUME "checkpointed" \in Implied(k, a), e.type # "checkpointed"
        PROVE  "checkpointed" \in r.has
    <3>1. CASE a.state \in Milestones /\ Place("checkpointed") <= Place(a.state)
      <4>1. e.type \in Milestones /\ Place("checkpointed") < Place(e.type)
        BY <2>2, <2>5, <3>1, Places, PlaceValues DEF StateAfter
      <4>2. g.state \in Milestones /\ Place("checkpointed") <= Place(g.state)
        BY <2>1, <2>4, <4>1, Earlier
      <4>3. "checkpointed" \in Implied(k, r)
        BY <2>1, <2>4, <4>2 DEF Implied
      <4> QED BY <4>3 DEF Hydrated
    <3>2. CASE a.state = "completed"
      <4>1. e.type = "completed"
        BY <2>2, <3>2 DEF StateAfter
      <4>2. CompletionPrereqs(k, g)
        BY <2>1, <4>1, Places DEF Allows, Signals
      <4> QED BY <2>1, <2>4, <4>2 DEF CompletionPrereqs
    <3> QED BY <2>5, <3>1, <3>2 DEF Implied
  <2>6. "checkpointed" \in Apply(k, r, e).has =>
          "checkpointed" \in r.has \/ e.type = "checkpointed"
    BY <2>1, <2>2, <2>3, <2>5
  <2>7. Apply(k, r, e).decision = "approved" =>
          r.decision = "approved" \/ (e.type = "reviewed" /\ e.decision = "approved")
    BY <1>2, ApplyColumns
  <2> QED BY <2>6, <2>7
<1> QED BY <1>1, <1>2

\* What a daemon derives from a report is reported.
LEMMA DerivedIsReported ==
  ASSUME NEW h \in Handoffs, NEW e, Derived(h, e)
  PROVE  /\ e.type = "checkpointed" => Done(h, "execute") # {}
         /\ e.type = "reviewed" /\ e.decision = "approved" =>
              \E reply \in Done(h, "review") : reply.decision # "revision_required"
<1>1. PICK i \in Items, reply \in Answers :
        /\ Fit(i) /\ i.h = h /\ e = NextProgress(h, i.seen, reply)
        /\ NeedsAgent(i) => reply \in said[Key(i)] /\ reply.status = "completed"
  BY DEF Derived
<1>2. \A type : By(type, Kind[h].receiver).type = type
  BY DEF By
<1>3. CASE ~ NeedsAgent(i)
  <2>1. e.type \in {"received", "claimed", "started"}
    BY <1>1, <1>2, <1>3, ProgressIs DEF NeedsAgent, WavedThrough
  <2> QED BY <2>1
<1>4. CASE NeedsAgent(i)
  <2>1. PICK k \in Keys : k = Key(i) /\ k.h = h
          /\ k.phase = IF i.seen.state # "submitted" THEN "execute" ELSE "review"
    BY <1>1, FitKey
  <2>2. reply \in Done(h, k.phase)
    BY <1>1, <1>4, <2>1 DEF Done, Reported
  <2>3. CASE i.seen.state = "submitted"
    <3>1. e = Review(i.seen, reply)
      BY <1>1, <2>3, ProgressIs
    <3>2. e.type = "reviewed" /\ (e.decision = "approved" => reply.decision # "revision_required")
      BY <3>1 DEF Review, By
    <3> QED BY <2>1, <2>2, <2>3, <3>2
  <2>4. CASE i.seen.state # "submitted"
    <3>1. e.type # "reviewed"
      <4>1. Submission(h, reply).type = "submitted"
        BY DEF Submission, By
      <4>2. CASE i.seen.state \in {"started", "checkpointed"}
        BY <1>1, <1>2, <4>1, <4>2, ProgressIs
      <4>3. CASE i.seen.state \notin WavedThrough \cup {"started", "checkpointed", "submitted"}
        BY <1>1, <1>2, <4>3, ProgressIs
      <4> QED BY <1>4, <2>4, <4>2, <4>3 DEF NeedsAgent
    <3> QED BY <2>1, <2>2, <2>4, <3>1
  <2> QED BY <2>3, <2>4
<1> QED BY <1>3, <1>4

AllHydrated == \A h \in Handoffs : Hydrated(Kind[h], row[h])

ReportInv == IInv /\ AllHydrated /\ WorkIsReported

\* Nobody but the daemons checkpoints or approves: what others report of an
\* execution or a review is no report to the driver.
OthersLeaveReports ==
  \A e \in Outside : /\ e.type # "checkpointed"
                     /\ ~ (e.type = "reviewed" /\ e.decision = "approved")

\* More may be reported of a handoff, never less.
LEMMA DoneGrows ==
  ASSUME \A k \in Keys : said[k] \subseteq said'[k], NEW h, NEW phase
  PROVE  Done(h, phase) \subseteq Done(h, phase)'
BY DEF Done, Reported

\* Every step keeps recorded work reported.
LEMMA ReportInvStep ==
  ASSUME OthersLeaveReports, ReportInv, [Next]_vars
  PROVE  ReportInv'
<1>1. IInv'
  BY NextInv DEF ReportInv
<1>2. CASE UNCHANGED row /\ \A k \in Keys : said[k] \subseteq said'[k]
  <2>1. AllHydrated'
    BY <1>2 DEF ReportInv, AllHydrated
  <2>2. WorkIsReported'
    <3>1. ASSUME NEW h \in Handoffs
          PROVE  /\ "checkpointed" \in row'[h].has => Done(h, "execute")' # {}
                 /\ row'[h].decision = "approved" =>
                      \E reply \in Done(h, "review")' : reply.decision # "revision_required"
      <4>1. Done(h, "execute") \subseteq Done(h, "execute")'
            /\ Done(h, "review") \subseteq Done(h, "review")'
        BY <1>2, DoneGrows
      <4> QED BY <1>2, <4>1 DEF ReportInv, WorkIsReported
    <3> QED BY <3>1 DEF WorkIsReported
  <2> QED BY <1>1, <2>1, <2>2 DEF ReportInv
<1>3. ASSUME NEW h \in Handoffs, NEW e \in Events, Recorded(h, e)
      PROVE  ReportInv'
  <2>1. /\ Kind[h] \in Kinds /\ row[h] \in Rows /\ Hydrated(Kind[h], row[h])
        /\ Accepts(Kind[h], row[h], e)
    BY <1>3, SwarmAssumption DEF ReportInv, IInv, Tables, AllHydrated, Recorded, MayRecord
  <2>2. PICK r \in Rows : r = Apply(Kind[h], row[h], e) /\ Hydrated(Kind[h], r)
    BY <2>1, ApplyType, TakeHydrated DEF Take
  <2>3. \A g \in Handoffs : row'[g] = IF g = h THEN [r EXCEPT !.version = 0] ELSE row[g]
    BY <1>3, <2>2 DEF Recorded, ApplyProtocolAction, ReportInv, IInv, Tables
  <2>4. row'[h].has = r.has /\ row'[h].state = r.state /\ row'[h].decision = r.decision
    BY <2>3 DEF Rows
  <2>5. AllHydrated'
    <3>1. Implied(Kind[h], row'[h]) = Implied(Kind[h], r)
      BY <2>4 DEF Implied
    <3>2. Hydrated(Kind[h], row'[h])
      BY <2>2, <2>4, <3>1 DEF Hydrated
    <3>3. \A g \in Handoffs : Hydrated(Kind[g], row'[g])
      BY <2>3, <3>2 DEF ReportInv, AllHydrated
    <3> QED BY <3>3 DEF AllHydrated
  <2>6. /\ e.type = "checkpointed" => Done(h, "execute") # {}
        /\ e.type = "reviewed" /\ e.decision = "approved" =>
             \E reply \in Done(h, "review") : reply.decision # "revision_required"
    BY <1>3, DerivedIsReported DEF Recorded, OthersLeaveReports
  <2>7. /\ "checkpointed" \in r.has => "checkpointed" \in row[h].has \/ e.type = "checkpointed"
        /\ r.decision = "approved" =>
             row[h].decision = "approved" \/ (e.type = "reviewed" /\ e.decision = "approved")
    BY <2>1, <2>2, FirstCheckpoint
  <2>8. \A g \in Handoffs :
          /\ "checkpointed" \in row'[g].has => Done(g, "execute") # {}
          /\ row'[g].decision = "approved" =>
               \E reply \in Done(g, "review") : reply.decision # "revision_required"
    BY <2>3, <2>4, <2>6, <2>7 DEF ReportInv, WorkIsReported
  <2>9. \A g : Done(g, "execute")' = Done(g, "execute") /\ Done(g, "review")' = Done(g, "review")
    BY <1>3 DEF Recorded, Done, Reported
  <2>10. WorkIsReported'
    BY <2>8, <2>9 DEF WorkIsReported
  <2> QED BY <1>1, <2>5, <2>10 DEF ReportInv
<1> QED BY <1>2, <1>3, RowSteps DEF ReportInv

\* No work is recorded at the start.
LEMMA InitReportInv == Init => ReportInv
<1>1. SUFFICES ASSUME Init PROVE ReportInv
  OBVIOUS
<1>2. IInv
  BY <1>1, InitInv
<1>3. ASSUME NEW h \in Handoffs
      PROVE  /\ row[h] \in Rows /\ row[h].state = "created" /\ row[h].has = {}
             /\ row[h].decision = "none"
  BY <1>1, <1>2 DEF IInv, Tables, Init
<1>4. AllHydrated
  BY <1>3, NewHydrated, SwarmAssumption DEF AllHydrated
<1> QED BY <1>2, <1>3, <1>4 DEF ReportInv, WorkIsReported

\* No handoff is checkpointed before an agent has reported its execution, and
\* none approved before a reviewer has reported so, for any number of daemons that
\* crash, repeat requests and act on rows read before (nextProgressDecision), as
\* long as nobody else checkpoints or approves over MCP.
THEOREM ReportedFirst ==
  ASSUME OthersLeaveReports
  PROVE  Spec => []WorkIsReported
<1>1. ReportInv /\ [Next]_vars => ReportInv'
  BY ReportInvStep
<1>2. Spec => []ReportInv
  BY <1>1, InitReportInv, PTL DEF Spec
<1>3. ReportInv => WorkIsReported
  BY DEF ReportInv
<1> QED BY <1>2, <1>3, PTL

----------------------------------------------------------------------------
\* What a daemon has in hand was offered to it

\* y has nothing in hand that x had not.
Hands(y, x) ==
  /\ y.todo \subseteq x.todo
  /\ y.item = NoOne \/ y.item = x.item \/ y.item \in x.todo

\* The ways a daemon goes on, but for reading what is offered.
LEMMA HandsKept ==
  ASSUME Tables, NEW d \in Drivers,
         \/ ToList(d, driver[d].todo) \/ Rest(d) \/ Quit(d) \/ GiveUp(d)
         \/ \E i : ToList(d, driver[d].todo \ {i})
         \/ \E at : Go(d, at)
         \/ \E o : Learn(d, o),
         NEW c \in Drivers
  PROVE  Hands(driver'[c], driver[c])
<1>1. /\ Resting.todo = {} /\ Resting.item = NoOne /\ Off.todo = {} /\ Off.item = NoOne
      /\ \A left : /\ [Resting EXCEPT !.at = "working", !.todo = left].todo = left
                   /\ [Resting EXCEPT !.at = "working", !.todo = left].item = NoOne
  BY DEF Resting, Off
<1>2. driver[c] \in Daemons /\ driver[d] \in Daemons /\ driver \in [Drivers -> Daemons]
  BY DEF Tables
<1>3. CASE c # d
  <2>1. driver'[c] = driver[c]
    BY <1>2, <1>3 DEF ToList, Rest, Quit, GiveUp, Go, Learn
  <2> QED BY <2>1 DEF Hands
<1>4. ASSUME c = d, NEW left \in SUBSET driver[d].todo, ToList(d, left)
      PROVE  Hands(driver'[c], driver[c])
  <2>1. driver'[c] = IF left = {} THEN Resting
                     ELSE [Resting EXCEPT !.at = "working", !.todo = left]
    BY <1>2, <1>4 DEF ToList
  <2> QED BY <1>1, <1>4, <2>1 DEF Hands
<1>5. ASSUME c = d, Rest(d) \/ Quit(d) PROVE Hands(driver'[c], driver[c])
  <2>1. driver'[c] \in {Resting, Off}
    BY <1>2, <1>5 DEF Rest, Quit
  <2> QED BY <1>1, <2>1 DEF Hands
<1>6. ASSUME c = d, GiveUp(d) \/ (\E at : Go(d, at)) \/ (\E o : Learn(d, o))
      PROVE  Hands(driver'[c], driver[c])
  <2>1. driver'[c].todo = driver[c].todo /\ driver'[c].item = driver[c].item
    BY <1>2, <1>6 DEF GiveUp, Go, Learn, Daemons
  <2> QED BY <2>1 DEF Hands
<1>7. ASSUME c = d, NEW i, ToList(d, driver[d].todo \ {i})
      PROVE  Hands(driver'[c], driver[c])
  <2>1. PICK left \in SUBSET driver[d].todo : left = driver[d].todo \ {i}
    OBVIOUS
  <2>2. ToList(d, left)
    BY <1>7, <2>1
  <2> QED BY <1>4, <1>7, <2>2
<1>8. ASSUME c = d, ToList(d, driver[d].todo) PROVE Hands(driver'[c], driver[c])
  <2>1. PICK left \in SUBSET driver[d].todo : left = driver[d].todo
    OBVIOUS
  <2>2. ToList(d, left)
    BY <1>8, <2>1
  <2> QED BY <1>4, <1>8, <2>2
<1> QED BY <1>3, <1>5, <1>6, <1>7, <1>8

\* What is in hand after a step was in hand before it, or was just offered.
LEMMA HandsStep ==
  ASSUME IInv, [Next]_vars, NEW c \in Drivers
  PROVE  \/ Hands(driver'[c], driver[c])
         \/ /\ driver'[c].item = NoOne /\ UNCHANGED row
            /\ \A i \in driver'[c].todo :
                 \E h \in Offered : Workable(h) /\ i = [h |-> h, seen |-> row[h]]
<1>1. Tables /\ driver \in [Drivers -> Daemons]
  BY DEF IInv, Tables
<1>2. Hands(driver[c], driver[c])
  BY DEF Hands
<1>3. ASSUME NEW d \in Drivers, NextWork(d)
      PROVE  \/ Hands(driver'[c], driver[c])
             \/ /\ driver'[c].item = NoOne /\ UNCHANGED row
                /\ \A i \in driver'[c].todo :
                     \E h \in Offered : Workable(h) /\ i = [h |-> h, seen |-> row[h]]
  <2>1. PICK left : left = {[h |-> h, seen |-> row[h]] : h \in {h \in Offered : Workable(h)}}
    OBVIOUS
  <2>2. ToList(d, left) /\ UNCHANGED row
    BY <1>3, <2>1 DEF NextWork
  <2>3. CASE c = d
    <3>1. driver'[c].todo = left /\ driver'[c].item = NoOne
      BY <1>1, <2>2, <2>3 DEF ToList, Resting, Off
    <3> QED BY <2>1, <2>2, <3>1
  <2>4. CASE c # d
    <3>1. driver'[c] = driver[c]
      BY <1>1, <2>2, <2>4 DEF ToList
    <3> QED BY <1>2, <3>1
  <2> QED BY <2>3, <2>4
<1>4. ASSUME NEW d \in Drivers, EnsureExecutionRequest(d)
      PROVE  Hands(driver'[c], driver[c])
  <2>1. CASE \E i : ToList(d, driver[d].todo \ {i})
    BY <1>1, <2>1, HandsKept
  <2>2. ASSUME NEW i \in driver[d].todo, NEW at,
               driver' = [driver EXCEPT ![d] = Carried(d, i, at)]
        PROVE  Hands(driver'[c], driver[c])
    <3>1. CASE c = d
      BY <1>1, <2>2, <3>1 DEF Hands, Carried
    <3>2. CASE c # d
      BY <1>1, <1>2, <2>2, <3>2
    <3> QED BY <3>1, <3>2
  <2>3. PICK i \in driver[d].todo :
          \/ ToList(d, driver[d].todo \ {i})
          \/ \E at : driver' = [driver EXCEPT ![d] = Carried(d, i, at)]
    BY <1>4, EnsureParts
  <2> QED BY <2>1, <2>2, <2>3
<1>5. ASSUME NEW d \in Drivers, WaveThrough(d) \/ RecordReply(d) \/ FailHandoff(d)
      PROVE  Hands(driver'[c], driver[c])
  BY <1>1, <1>5, HandsKept DEF WaveThrough, RecordReply, FailHandoff, ProgressWork
<1>6. ASSUME NEW d \in Drivers, Send(d) \/ RequestFails(d) \/ PollJob(d)
      PROVE  Hands(driver'[c], driver[c])
  BY <1>1, <1>6, HandsKept DEF Send, RequestFails, PollJob
<1>7. ASSUME NEW d \in Drivers, MarkExecutionDelivered(d) \/ Crash(d) \/ Restart(d)
      PROVE  Hands(driver'[c], driver[c])
  BY <1>1, <1>7, HandsKept DEF MarkExecutionDelivered, Crash, Restart
<1>8. ASSUME NEW d \in Drivers, StoreError(d)
      PROVE  Hands(driver'[c], driver[c])
  BY <1>1, <1>8, HandsKept DEF StoreError
<1>9. CASE UNCHANGED driver
  BY <1>2, <1>9
<1>10. CASE \E d \in Drivers : Step(d) \/ RequestFails(d) \/ StoreError(d) \/ Crash(d) \/ Restart(d)
  BY <1>3, <1>4, <1>5, <1>6, <1>7, <1>8, <1>10 DEF Step
<1>11. CASE \/ \E k \in Keys : DeliverTask(k) \/ DecideJob(k) \/ SaveExecutionResult(k)
            \/ \E h \in Handoffs : OthersAct(h)
            \/ UNCHANGED vars
  BY <1>9, <1>11 DEF DeliverTask, DecideJob, SaveExecutionResult, OthersAct, vars
<1> QED BY <1>10, <1>11 DEF Next

----------------------------------------------------------------------------
\* What a daemon records is accepted

\* The driver serves handoffs that need a review or nothing, agents report what
\* artifacts are asked for, and nobody else submits or rejects.
Servable ==
  /\ \A h \in Handoffs : NeedsSubmission(Kind[h]) => Kind[h].review
  /\ \A h \in Handoffs, reply \in Replies["execute"] :
       reply.status = "completed" =>
         Kind[h].artifacts <= IF reply.artifacts = 0 THEN 1 ELSE reply.artifacts
  /\ \A e \in Outside : /\ e.type # "submitted"
                        /\ ~ (e.type = "reviewed" /\ e.decision = "rejected")

\* A row such handoffs come to: submitted only if a review is asked for and then
\* with the artifacts, and reviewed either way.
GoodRow(h, r) ==
  /\ r.state \in {"submitted", "reviewed"} =>
       Kind[h].review /\ r.artifacts >= Kind[h].artifacts
  /\ r.state = "reviewed" => r.decision \in {"approved", "revision_required"}

\* An item as it was offered: open, dispatched where it has to be, and with what it
\* depends on still completed.
OpenItem(i) ==
  /\ i.seen.state \notin Ended
  /\ ~ (i.seen.state = "created" /\ i.seen.target)
  /\ Kind[i.h].review => i.seen.reviewer # NoActor
  /\ DependenciesCompleted(i.h)

Ready(x) ==
  /\ \A i \in x.todo : OpenItem(i)
  /\ x.item # NoOne => OpenItem(x.item)

ServeInv ==
  /\ IInv
  /\ \A h \in Handoffs : GoodRow(h, row[h])
  /\ \A d \in Drivers : Ready(driver[d])

\* The receiver may report the work on a handoff.
LEMMA OwnPermitted ==
  ASSUME NEW k \in Kinds, NEW r, NEW e, e.subject = k.receiver, e.producer = k.receiver,
         e.type \in {"received", "claimed", "started", "checkpointed", "submitted", "completed"}
  PROVE  Permits(k, r, e)
<1>1. k.receiver # NoActor
  BY ActorAssumption DEF Kinds, Actors
<1>2. CASE e.type = "received"
  BY <1>2 DEF Permits, ByReceiver, Signals
<1>3. CASE e.type # "received"
  <2>1. ByWorker(k, r, e)
    BY <1>1 DEF ByWorker
  <2> QED BY <1>3, <2>1 DEF Permits, Signals
<1> QED BY <1>2, <1>3

\* nextProgressDecision and the state machine agree on an item that is up to date.
LEMMA Served ==
  ASSUME Servable, IInv, NEW i, Fit(i), OpenItem(i), GoodRow(i.h, i.seen), row[i.h] = i.seen,
         NEW reply \in Answers,
         NeedsAgent(i) => reply \in said[Key(i)] /\ reply.status = "completed"
  PROVE  MayRecord(i.h, NextProgress(i.h, i.seen, reply))
<1>0. PICK k \in Kinds, r \in Rows : i.h \in Handoffs /\ k = Kind[i.h] /\ r = i.seen
  BY FitKey, SwarmAssumption
<1>1. PICK e : /\ i.h \in Handoffs /\ k = Kind[i.h] /\ r = i.seen
               /\ e = NextProgress(i.h, i.seen, reply)
  BY <1>0
<1>2. PICK g \in Rows : /\ g = HydrateFlags(k, r) /\ g.state = r.state
                        /\ g.decision = r.decision /\ g.artifacts = r.artifacts
                        /\ g.target = r.target /\ Implied(k, r) \subseteq g.has
  <2>1. PICK f \in Rows : /\ f = HydrateFlags(k, r) /\ f.state = r.state
                         /\ f.decision = r.decision /\ f.artifacts = r.artifacts
    BY HydrateType
  <2>2. f.target = r.target /\ Implied(k, r) \subseteq f.has
    BY <2>1 DEF HydrateFlags, Rows
  <2> QED BY <2>1, <2>2
<1>3. SUFFICES Allows(k, g, e) /\ Permits(k, r, e)
  BY <1>1, <1>2 DEF MayRecord, Accepts, OpenItem
<1>4. r.state \notin Ended /\ ~ (r.state = "created" /\ r.target)
      /\ (k.review => r.reviewer # NoActor)
  BY <1>1 DEF OpenItem
<1>5. ASSUME NEW type \in {"received", "claimed", "started", "checkpointed", "completed"},
             e = By(type, k.receiver)
      PROVE  e.type = type /\ Permits(k, r, e)
  <2>1. e.type = type /\ e.subject = k.receiver /\ e.producer = k.receiver
    BY <1>5 DEF By
  <2> QED BY <2>1, OwnPermitted
<1>6. CASE r.state \in {"created", "dispatched"}
  <2>1. e = By("received", k.receiver)
    BY <1>1, <1>6, ProgressIs
  <2>2. e.type = "received" /\ Permits(k, r, e)
    BY <1>5, <2>1
  <2> QED BY <1>2, <1>4, <1>6, <2>2 DEF Allows
<1>7. CASE r.state \in {"received", "claimed", "started"}
  <2>1. /\ r.state = "received" => e = By("claimed", k.receiver)
        /\ r.state = "claimed" => e = By("started", k.receiver)
        /\ r.state = "started" => e = By("checkpointed", k.receiver)
    BY <1>1, ProgressIs
  <2>2. /\ r.state = "received" => e.type = "claimed"
        /\ r.state = "claimed" => e.type = "started"
        /\ r.state = "started" => e.type = "checkpointed"
        /\ Permits(k, r, e)
    BY <1>5, <1>7, <2>1
  <2> QED BY <1>2, <1>7, <2>2 DEF Allows
<1>8. CASE r.state = "checkpointed" /\ NeedsSubmission(k)
  <2>1. e = Submission(i.h, reply)
    BY <1>1, <1>8, ProgressIs
  <2>2. e.type = "submitted" /\ e.subject = k.receiver /\ e.producer = k.receiver
    BY <1>1, <2>1 DEF Submission, By
  <2> QED BY <1>2, <1>8, <2>2, OwnPermitted DEF Allows
<1>9. \A m \in UpTo(4) : m \in Milestones /\ Place(m) <= 4
  BY Places, PlaceValues
<1>10. CASE r.state = "checkpointed" /\ ~ NeedsSubmission(k)
  <2>1. e = By("completed", k.receiver)
    BY <1>1, <1>10, ProgressIs
  <2>2. UpTo(4) \subseteq g.has
    BY <1>2, <1>9, <1>10, Places, PlaceValues DEF Implied
  <2>3. CompletionPrereqs(k, g) /\ MayComplete(k, g)
    BY <1>2, <1>10, <2>2 DEF CompletionPrereqs, MayComplete, NeedsSubmission
  <2>4. e.type = "completed" /\ Permits(k, r, e)
    BY <1>5, <2>1
  <2> QED BY <2>3, <2>4 DEF Allows
<1>11. CASE r.state = "submitted"
  <2>1. e = Review(r, reply)
    BY <1>1, <1>11, ProgressIs
  <2>2. /\ e.type = "reviewed" /\ e.subject = r.reviewer /\ e.producer = r.reviewer
        /\ e.decision \in {"approved", "revision_required"}
    BY <2>1 DEF Review, By
  <2>3. r.reviewer # NoActor
    BY <1>1, <1>4, <1>11 DEF GoodRow
  <2>4. ByReviewer(r, e)
    BY <2>2, <2>3 DEF ByReviewer
  <2> QED BY <1>2, <1>11, <2>2, <2>4 DEF Allows, Permits, Signals
<1>12. CASE r.state = "reviewed" /\ InRevision(r)
  <2>1. e = By("checkpointed", k.receiver)
    BY <1>1, <1>12, ProgressIs DEF WavedThrough
  <2>2. InRevision(g)
    BY <1>2, <1>12 DEF InRevision
  <2>3. e.type = "checkpointed" /\ Permits(k, r, e)
    BY <1>5, <2>1
  <2> QED BY <2>2, <2>3 DEF Allows
<1>13. CASE r.state = "reviewed" /\ ~ InRevision(r)
  <2>1. e = By("completed", k.receiver)
    BY <1>1, <1>13, ProgressIs DEF WavedThrough
  <2>2. k.review /\ r.artifacts >= k.artifacts /\ r.decision = "approved"
    BY <1>1, <1>13 DEF GoodRow, InRevision
  <2>3. UpTo(4) \subseteq g.has /\ "submitted" \in g.has /\ "reviewed" \in g.has
    BY <1>2, <1>9, <1>13, Places, PlaceValues DEF Implied
  <2>4. CompletionPrereqs(k, g) /\ MayComplete(k, g)
    BY <1>2, <1>13, <2>2, <2>3 DEF CompletionPrereqs, MayComplete
  <2>5. e.type = "completed" /\ Permits(k, r, e)
    BY <1>5, <2>1
  <2> QED BY <2>4, <2>5 DEF Allows
<1>14. r.state \in {"created", "dispatched", "received", "claimed", "started", "checkpointed",
                    "submitted", "reviewed"}
  BY <1>4, Places DEF Rows, States
<1> QED BY <1>6, <1>7, <1>8, <1>10, <1>11, <1>12, <1>13, <1>14

\* What a daemon submits has the artifacts, what it reviews is judged.
LEMMA DerivedIsGood ==
  ASSUME Servable, IInv, NEW h \in Handoffs, NEW e, Derived(h, e)
  PROVE  /\ e.type = "submitted" =>
              /\ Kind[h].review
              /\ e.artifacts > 0 /\ e.artifacts >= Kind[h].artifacts
         /\ e.type = "reviewed" => e.decision \in {"approved", "revision_required"}
<1>1. PICK i \in Items, reply \in Answers :
        /\ Fit(i) /\ i.h = h /\ e = NextProgress(h, i.seen, reply)
        /\ NeedsAgent(i) => reply \in said[Key(i)] /\ reply.status = "completed"
  BY DEF Derived
<1>2. \A type : By(type, Kind[h].receiver).type = type
  BY DEF By
<1>3. CASE i.seen.state = "checkpointed" /\ NeedsSubmission(Kind[h])
  <2>1. e = Submission(h, reply)
    BY <1>1, <1>3, ProgressIs
  <2>2. e.type = "submitted" /\ e.artifacts = IF reply.artifacts = 0 THEN 1 ELSE reply.artifacts
    BY <1>3, <2>1 DEF Submission, By
  <2>3. reply \in Replies["execute"] /\ reply.status = "completed"
    <3>1. Key(i) \in Keys /\ Key(i).phase = "execute"
      BY <1>1, <1>3, FitKey
    <3>2. said[Key(i)] \subseteq Replies["execute"]
      BY <3>1 DEF IInv, Posts
    <3> QED BY <1>1, <1>3, <3>2 DEF NeedsAgent, WavedThrough
  <2>4. reply.artifacts \in Nat
    BY DEF Answers
  <2> QED BY <1>3, <2>2, <2>3, <2>4 DEF Servable
<1>4. CASE i.seen.state = "submitted"
  <2>1. e = Review(i.seen, reply)
    BY <1>1, <1>4, ProgressIs
  <2> QED BY <2>1 DEF Review, By
<1>5. CASE /\ ~ (i.seen.state = "checkpointed" /\ NeedsSubmission(Kind[h]))
           /\ i.seen.state # "submitted"
  <2>1. CASE i.seen.state \in WavedThrough \cup {"started", "checkpointed"}
    BY <1>1, <1>2, <1>5, <2>1, ProgressIs DEF WavedThrough
  <2>2. CASE i.seen.state \notin WavedThrough \cup {"started", "checkpointed", "submitted"}
    BY <1>1, <1>2, <2>2, ProgressIs
  <2> QED BY <1>5, <2>1, <2>2
<1> QED BY <1>3, <1>4, <1>5

\* A recorded event leaves a good row, and a completed one completed.
LEMMA GoodStep ==
  ASSUME Servable, IInv, NEW h \in Handoffs, NEW e \in Events, Recorded(h, e)
  PROVE  /\ \A g \in Handoffs : GoodRow(g, row[g]) => GoodRow(g, row[g])'
         /\ \A g \in Handoffs : row[g].state = "completed" => row'[g].state = "completed"
<1>1. /\ Kind[h] \in Kinds /\ row[h] \in Rows /\ Accepts(Kind[h], row[h], e)
  BY SwarmAssumption DEF IInv, Tables, Recorded, MayRecord
<1>2. PICK r \in Rows : r = Apply(Kind[h], row[h], e)
  BY <1>1, ApplyType
<1>3. \A g \in Handoffs : row'[g] = IF g = h THEN [r EXCEPT !.version = 0] ELSE row[g]
  BY <1>2 DEF Recorded, ApplyProtocolAction, IInv, Tables
<1>4. /\ row'[h].state = r.state /\ row'[h].artifacts = r.artifacts
      /\ row'[h].decision = r.decision
  BY <1>3 DEF Rows
<1>5. row[h].state = "completed" => r.state = "completed"
  BY <1>1, <1>2, EndedIsFinal DEF Ended
<1>6. ASSUME GoodRow(h, row[h]) PROVE GoodRow(h, r)
  <2>1. CASE e.type \in Signals
    <3>1. r = HydrateFlags(Kind[h], row[h])
      BY <1>2, <2>1 DEF Apply
    <3>2. r.state = row[h].state /\ r.decision = row[h].decision /\ r.artifacts = row[h].artifacts
      BY <1>1, <3>1, HydrateType
    <3> QED BY <1>6, <3>2 DEF GoodRow
  <2>2. CASE e.type \notin Signals
    <3>1. /\ r.state = StateAfter(e)
          /\ r.artifacts = IF e.type = "submitted" /\ e.artifacts > 0
                           THEN e.artifacts ELSE row[h].artifacts
          /\ e.type = "reviewed" => r.decision = e.decision
      BY <1>1, <1>2, <2>2, ApplyColumns
    <3>2. CASE e.type = "submitted"
      <4>1. Derived(h, e)
        BY <3>2 DEF Recorded, Servable
      <4>2. Kind[h].review /\ e.artifacts > 0 /\ e.artifacts >= Kind[h].artifacts
        BY <3>2, <4>1, DerivedIsGood
      <4> QED BY <3>1, <3>2, <4>2 DEF GoodRow, StateAfter
    <3>3. CASE e.type = "reviewed"
      <4>1. row[h].state = "submitted" /\ e.decision # "none"
        <5>1. Allows(Kind[h], HydrateFlags(Kind[h], row[h]), e)
          BY <1>1 DEF Accepts
        <5> QED BY <1>1, <3>3, <5>1, HydrateType DEF Allows, Signals
      <4>2. e.decision \in {"approved", "revision_required"}
        <5>1. CASE e \in Outside
          BY <3>3, <4>1, <5>1 DEF Servable, Events, Decisions
        <5>2. CASE Derived(h, e)
          BY <3>3, <5>2, DerivedIsGood
        <5> QED BY <3>3, <5>1, <5>2 DEF Recorded
      <4> QED BY <1>6, <3>1, <3>3, <4>1, <4>2 DEF GoodRow, StateAfter
    <3>4. CASE e.type \notin {"submitted", "reviewed"}
      BY <3>1, <3>4 DEF GoodRow, StateAfter
    <3> QED BY <3>2, <3>3, <3>4
  <2> QED BY <2>1, <2>2
<1>7. ASSUME NEW g \in Handoffs, GoodRow(g, row[g]) PROVE GoodRow(g, row[g])'
  <2>1. CASE g = h
    BY <1>4, <1>6, <1>7, <2>1 DEF GoodRow
  <2>2. CASE g # h
    BY <1>3, <1>7, <2>2 DEF GoodRow
  <2> QED BY <2>1, <2>2
<1> QED BY <1>3, <1>4, <1>5, <1>7

\* Every step keeps what the drivers are about to record acceptable.
LEMMA ServeInvStep ==
  ASSUME Servable, ServeInv, [Next]_vars
  PROVE  ServeInv'
<1>1. IInv /\ IInv'
  BY NextInv DEF ServeInv
<1>2. /\ \A g \in Handoffs : GoodRow(g, row[g]) => GoodRow(g, row[g])'
      /\ \A g \in Handoffs : row[g].state = "completed" => row'[g].state = "completed"
  <2>1. CASE UNCHANGED row
    BY <2>1 DEF GoodRow
  <2> QED BY <1>1, <2>1, RowSteps, GoodStep
<1>3. ASSUME NEW i, i.h \in Handoffs, OpenItem(i) PROVE OpenItem(i)'
  BY <1>2, <1>3, SwarmAssumption DEF OpenItem, DependenciesCompleted
<1>4. ASSUME NEW d \in Drivers PROVE Ready(driver[d])'
  <2>1. PICK x, y : x = driver[d] /\ y = driver'[d]
    OBVIOUS
  <2>2. Ready(x) /\ Sound(x)
    BY <2>1 DEF ServeInv, IInv, AllSound
  <2>3. Sound(y)'
    BY <1>1, <2>1 DEF IInv, AllSound
  <2>4. \A i \in x.todo : i.h \in Handoffs
    BY <2>2, FitKey DEF Sound
  <2>5. x.item # NoOne => x.item.h \in Handoffs
    BY <2>2, FitKey DEF Sound
  <2>6. CASE Hands(y, x)
    <3>1. ASSUME NEW i \in y.todo PROVE OpenItem(i)'
      BY <1>3, <2>2, <2>4, <2>6, <3>1 DEF Hands, Ready
    <3>2. ASSUME y.item # NoOne PROVE OpenItem(y.item)'
      BY <1>3, <2>2, <2>4, <2>5, <2>6, <3>2 DEF Hands, Ready
    <3> QED BY <2>1, <3>1, <3>2 DEF Ready
  <2>7. CASE /\ y.item = NoOne
             /\ \A i \in y.todo : \E h \in Offered : Workable(h) /\ i = [h |-> h, seen |-> row[h]]
    <3>1. ASSUME NEW i \in y.todo PROVE OpenItem(i)'
      <4>1. PICK h \in Offered : Workable(h) /\ i = [h |-> h, seen |-> row[h]]
        BY <2>7, <3>1
      <4>2. OpenItem(i) /\ i.h \in Handoffs
        BY <4>1 DEF OpenItem, Offered, Workable
      <4> QED BY <1>3, <4>2
    <3> QED BY <2>1, <2>7, <3>1 DEF Ready
  <2> QED BY <1>1, <2>1, <2>6, <2>7, HandsStep
<1> QED BY <1>1, <1>2, <1>4 DEF ServeInv

\* At the start nothing is in hand and nothing was refused.
LEMMA InitServeInv == Init => ServeInv
<1>1. SUFFICES ASSUME Init PROVE ServeInv
  OBVIOUS
<1>2. IInv
  BY <1>1, InitInv
<1>3. \A h \in Handoffs : row[h].state = "created"
  BY <1>1 DEF Init
<1>4. \A d \in Drivers : driver[d].todo = {} /\ driver[d].item = NoOne
  BY <1>1 DEF Init, Resting, Off
<1> QED BY <1>2, <1>3, <1>4 DEF ServeInv, GoodRow, Ready

\* What a daemon records of a handoff that has not changed since it read it is
\* accepted (nextProgressDecision, StateMachine.Apply), so a refusal, which ends a
\* targeted daemon, comes of a race: where every handoff needs a review or nothing,
\* agents report the artifacts asked for, and nobody else submits or rejects.
THEOREM ProgressAccepted ==
  ASSUME Servable
  PROVE  Spec => []NeverRefused
<1>1. ServeInv /\ [Next]_vars => ServeInv'
  BY ServeInvStep
<1>2. Spec => []ServeInv
  BY <1>1, InitServeInv, PTL DEF Spec
<1>3. ASSUME ServeInv PROVE NeverRefused
  <2>1. ASSUME NEW d \in Drivers
        PROVE  /\ \A i \in driver[d].todo : i.seen = row[i.h] /\ ~ NeedsAgent(i) =>
                    MayRecord(i.h, NextProgress(i.h, i.seen, NothingDone))
               /\ driver[d].at = "recording" /\ driver[d].item.seen = row[driver[d].item.h] =>
                    MayRecord(driver[d].item.h,
                              NextProgress(driver[d].item.h, driver[d].item.seen, driver[d].answer))
    <3>1. IInv /\ Sound(driver[d]) /\ Ready(driver[d])
      BY <1>3 DEF ServeInv, IInv, AllSound
    <3>2. ASSUME NEW i \in driver[d].todo, i.seen = row[i.h], ~ NeedsAgent(i)
          PROVE  MayRecord(i.h, NextProgress(i.h, i.seen, NothingDone))
      <4>1. NothingDone \in Answers
        BY DEF NothingDone, Answers, Decisions
      <4>2. Fit(i) /\ OpenItem(i)
        BY <3>1 DEF Sound, Ready
      <4>3. GoodRow(i.h, i.seen)
        BY <1>3, <3>2, <4>2, FitKey DEF ServeInv
      <4> QED BY <3>1, <3>2, <4>1, <4>2, <4>3, Served
    <3>3. ASSUME driver[d].at = "recording", driver[d].item.seen = row[driver[d].item.h]
          PROVE  MayRecord(driver[d].item.h,
                           NextProgress(driver[d].item.h, driver[d].item.seen, driver[d].answer))
      <4>1. PICK i, reply : i = driver[d].item /\ reply = driver[d].answer
        OBVIOUS
      <4>2. Fit(i) /\ OpenItem(i) /\ reply \in said[Key(i)] /\ reply.status = "completed"
        BY <3>1, <3>3, <4>1 DEF Sound, Ready, Busy
      <4>3. reply \in Answers
        BY <3>1, <4>2, FitKey DEF IInv, Tables
      <4>4. GoodRow(i.h, i.seen)
        BY <1>3, <3>3, <4>1, <4>2, FitKey DEF ServeInv
      <4>5. MayRecord(i.h, NextProgress(i.h, i.seen, reply))
        BY <3>1, <3>3, <4>1, <4>2, <4>3, <4>4, Served
      <4> QED BY <4>1, <4>5
    <3> QED BY <3>2, <3>3
  <2> QED BY <2>1 DEF NeverRefused
<1> QED BY <1>2, <1>3, PTL
============================================================================
