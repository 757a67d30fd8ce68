--------------------------- MODULE WatchdogProofs ---------------------------
(***************************************************************************)
(* Watches and reminders for any number of processes that run the watchdog, *)
(* of handoffs, events, edits, repairs and crashes.                         *)
(*                                                                         *)
(* What is owed to a watch is settled between three places: the row of the  *)
(* watch, the list a run made from it earlier, and the reminders that were  *)
(* sent (kept in a history variable). RunInv says how they relate. Why a    *)
(* blocked workflow is explained is independent of the runs, and rests on   *)
(* what a log holds of the state it leads to, also when a repair replays    *)
(* what is left of it: StoryInv.                                            *)
(***************************************************************************)
EXTENDS Watchdog, WellFoundedInduction, TLAPS

Places == {"received", "started", "submitted", "completed"}
Watch  == [gen : Nat, due : Int, active : BOOLEAN, last : Nat \cup {Never}]
Runs   == [at : {"rest", "next", "events", "send", "mark"}, now : Nat, left : SUBSET Handoffs,
           h : Handoffs \cup {"none"}, gen : Nat, due : SUBSET Places,
           watch : Places \cup {"none"}, crowded : BOOLEAN]

\* A table with an entry for every watch.
Table(t, S) ==
  /\ DOMAIN t = Handoffs
  /\ \A h \in Handoffs : t[h] \in [Watched(h) -> S]

Reading(d) == run[d].at \in {"events", "send", "mark"}

TypeInv ==
  /\ now \in Nat
  /\ Table(watches, Watch) /\ Table(sent, Nat \cup {Never})
  /\ run \in [Dogs -> Runs]

\* A run that has a handoff before it looks at its watches only, and has at hand
\* those it has not reminded of yet.
PlaceInv ==
  \A d \in Dogs : Reading(d) =>
    /\ run[d].h \in Handoffs
    /\ run[d].due \subseteq Watched(run[d].h)
    /\ run[d].at = "mark" => run[d].watch \in Watched(run[d].h) \ run[d].due

----------------------------------------------------------------------------
\* How the three places relate

\* The watches that a run has read are still there.
Known(d) == run[d].gen = watches[run[d].h]["received"].gen

\* A repair replaces all watches of a handoff at once, by newer ones.
GenInv ==
  /\ \A h \in Handoffs : \A e \in Watched(h) : watches[h][e].gen = watches[h]["received"].gen
  /\ \A d \in Dogs : Reading(d) => run[d].gen <= watches[run[d].h]["received"].gen

\* As long as no run overlaps with it, a run is alone.
AloneInv ==
  \A d, x \in Dogs : ~ Asleep(d) /\ ~ run[d].crowded /\ x # d => Asleep(x)

\* What a run that is alone has noted as due is due still.
DueInv ==
  \A d \in Dogs : Reading(d) /\ ~ run[d].crowded /\ Known(d) =>
    \A e \in run[d].due :
      LET last == watches[run[d].h][e].last IN last = Never \/ run[d].now - last >= Cooldown

\* Between a reminder and its mark the reminder has been sent, and no other since
\* unless runs overlap.
MarkInv ==
  \A d \in Dogs : run[d].at = "mark" /\ Known(d) =>
    LET h == run[d].h
        e == run[d].watch
    IN /\ sent[h][e] # Never
       /\ sent[h][e] = run[d].now \/ <<h, e>> \in excused

\* The row says when the last reminder was sent, unless its mark is to come.
SentInv ==
  \A h \in Handoffs : \A e \in Watched(h) :
    \/ <<h, e>> \in excused
    \/ sent[h][e] = watches[h][e].last
    \/ \E d \in Dogs : run[d].at = "mark" /\ Known(d) /\ run[d].h = h /\ run[d].watch = e

RunInv ==
  /\ GenInv /\ AloneInv /\ DueInv /\ MarkInv /\ SentInv
  /\ RepeatsExcused /\ WithheldForItsReminder

IInv == TypeInv /\ PlaceInv /\ RunInv

----------------------------------------------------------------------------
\* What holds of the tables and the runs by themselves

\* Every handoff is watched for being received.
LEMMA WatchedPlaces ==
  ASSUME NEW h
  PROVE  Watched(h) \subseteq Places /\ "received" \in Watched(h)
BY DEF Watched, Places

\* The run of a process that is asleep.
LEMMA RestType == Rest \in Runs /\ Rest.at = "rest"
BY DEF Rest, Runs, Places

\* The step of one run leaves the other runs alone.
LEMMA RunOf ==
  ASSUME TypeInv, NEW d \in Dogs, NEW r \in Runs, run' = [run EXCEPT ![d] = r]
  PROVE  /\ run' \in [Dogs -> Runs]
         /\ run'[d] = r
         /\ \A x \in Dogs : x # d => run'[x] = run[x]
BY DEF TypeInv

\* Where a run goes after a watch or after the events.
LEMMA OnwardType ==
  ASSUME NEW r \in Runs
  PROVE  /\ Onward(r) \in Runs
         /\ Onward(r).at \in {"send", "next", "rest"}
         /\ Onward(r).at = "send" =>
              Onward(r) = [r EXCEPT !.at = "send"]
         /\ Onward(r).at = "next" => Onward(r).crowded = r.crowded
<1>1. [r EXCEPT !.at = "send"] \in Runs /\ [r EXCEPT !.at = "send"].at = "send"
  BY DEF Runs
<1>2. /\ [r EXCEPT !.at = "next", !.h = "none", !.gen = 0] \in Runs
      /\ [r EXCEPT !.at = "next", !.h = "none", !.gen = 0].at = "next"
      /\ [r EXCEPT !.at = "next", !.h = "none", !.gen = 0].crowded = r.crowded
  BY DEF Runs
<1> QED BY <1>1, <1>2, RestType DEF Onward

\* The watches are new and nobody looks at them.
LEMMA InitInv == Init => IInv
<1> SUFFICES ASSUME Init PROVE IInv
  OBVIOUS
<1>1. \A h \in Handoffs : DefaultWatches(h, 0, 0) \in [Watched(h) -> Watch]
  BY DEF DefaultWatches, Watch, Deadline, Never
<1>2. TypeInv
  BY <1>1, RestType DEF Init, TypeInv, Table
<1>3. \A d \in Dogs : run[d].at = "rest"
  BY RestType DEF Init
<1>4. \A h \in Handoffs : \A e \in Watched(h) :
        watches[h][e].gen = 0 /\ watches[h][e].last = Never /\ sent[h][e] = Never
  BY DEF Init, DefaultWatches
<1>5. PlaceInv /\ AloneInv /\ DueInv /\ MarkInv
  BY <1>3 DEF PlaceInv, AloneInv, DueInv, MarkInv, Reading, Asleep
<1>6. GenInv /\ SentInv /\ WithheldForItsReminder
  BY <1>3, <1>4, WatchedPlaces DEF GenInv, SentInv, WithheldForItsReminder, Reading
<1> QED BY <1>2, <1>5, <1>6 DEF Init, IInv, RunInv, RepeatsExcused

\* A watch that no mark is to come for has to be in its row as it was sent.
LEMMA SentAfter ==
  ASSUME \A g \in Handoffs : \A f \in Watched(g) :
           <<g, f>> \notin excused' /\ sent'[g][f] # watches'[g][f].last =>
             \E x \in Dogs : run'[x].at = "mark" /\ Known(x)' /\ run'[x].h = g /\ run'[x].watch = f
  PROVE  SentInv'
BY DEF SentInv

----------------------------------------------------------------------------
\* The steps of a run

\* A run reads on: it sends nothing, and what it takes along is as the invariant
\* wants it.
LEMMA ReadingOn ==
  ASSUME IInv, NEW d \in Dogs, NEW r \in Runs, run' = [run EXCEPT ![d] = r],
         UNCHANGED <<now, watches, sent, repeated, excused>>,
         run[d].at # "mark", ~ Asleep(d), r.at # "mark",
         r.at # "rest" => r.crowded = run[d].crowded,
         r.at \in {"events", "send"} =>
           /\ r.h \in Handoffs /\ r.due \subseteq Watched(r.h)
           /\ r.gen <= watches[r.h]["received"].gen
           /\ (~ r.crowded /\ r.gen = watches[r.h]["received"].gen) =>
                \A e \in r.due : LET last == watches[r.h][e].last IN
                  last = Never \/ r.now - last >= Cooldown
  PROVE  IInv'
<1>1. /\ run' \in [Dogs -> Runs] /\ run'[d] = r
      /\ \A x \in Dogs : x # d => run'[x] = run[x]
  BY RunOf DEF IInv
<1>2. TypeInv'
  BY <1>1 DEF IInv, TypeInv, Table
<1>3. PlaceInv'
  BY <1>1 DEF IInv, PlaceInv, Reading
<1>4. GenInv'
  BY <1>1 DEF IInv, RunInv, GenInv, Reading
<1>5. AloneInv'
  BY <1>1 DEF IInv, RunInv, AloneInv, Asleep
<1>6. DueInv'
  BY <1>1 DEF IInv, RunInv, DueInv, Reading, Known
<1>7. MarkInv'
  BY <1>1 DEF IInv, RunInv, MarkInv, Known
<1>8. SentInv'
  <2> SUFFICES ASSUME NEW h \in Handoffs, NEW e \in Watched(h), <<h, e>> \notin excused,
                      sent[h][e] # watches[h][e].last
               PROVE  \E x \in Dogs : /\ run'[x].at = "mark" /\ Known(x)'
                                      /\ run'[x].h = h /\ run'[x].watch = e
    BY DEF SentInv
  <2>1. PICK x \in Dogs : /\ run[x].at = "mark" /\ Known(x)
                          /\ run[x].h = h /\ run[x].watch = e
    BY DEF IInv, RunInv, SentInv
  <2> QED BY <2>1, <1>1 DEF Known
<1>9. RepeatsExcused' /\ WithheldForItsReminder'
  BY DEF IInv, RunInv, RepeatsExcused, WithheldForItsReminder
<1> QED BY <1>2, <1>3, <1>4, <1>5, <1>6, <1>7, <1>8, <1>9 DEF IInv, RunInv

\* A run reads the watches of a handoff, and notes those that are due.
LEMMA ReadWatchesInv ==
  ASSUME IInv, NEW d \in Dogs, NEW h \in Handoffs, ReadWatches(d, h)
  PROVE  IInv'
<1> DEFINE r == [run[d] EXCEPT !.at = "events", !.h = h, !.left = @ \ {h},
                   !.gen = watches[h]["received"].gen,
                   !.due = {e \in Watched(h) : Due(h, e, run[d].now)}]
<1>1. run[d] \in Runs /\ watches[h]["received"].gen \in Nat
  BY WatchedPlaces DEF IInv, TypeInv, Table, Watch
<1>2. r \in Runs
  BY <1>1, WatchedPlaces DEF Runs
<1>3. /\ r.at = "events" /\ r.h = h /\ r.crowded = run[d].crowded /\ r.now = run[d].now
      /\ r.gen = watches[h]["received"].gen
      /\ r.due = {e \in Watched(h) : Due(h, e, run[d].now)}
  BY <1>1 DEF Runs
<1>4. run' = [run EXCEPT ![d] = r] /\ run[d].at = "next"
  BY DEF ReadWatches
<1> HIDE DEF r
<1>5. \A e \in r.due : LET last == watches[h][e].last IN last = Never \/ r.now - last >= Cooldown
  BY <1>3 DEF Due
<1>6. UNCHANGED <<now, watches, sent, repeated, excused>>
  BY DEF ReadWatches
<1>7. r.at \in {"events", "send"} =>
        /\ r.h \in Handoffs /\ r.due \subseteq Watched(r.h)
        /\ r.gen <= watches[r.h]["received"].gen
        /\ (~ r.crowded /\ r.gen = watches[r.h]["received"].gen) =>
             \A e \in r.due : LET last == watches[r.h][e].last IN
               last = Never \/ r.now - last >= Cooldown
  BY <1>1, <1>3, <1>5
<1> QED BY <1>2, <1>3, <1>4, <1>6, <1>7, ReadingOn DEF Asleep

\* It passes over those whose event has come.
LEMMA ReadEventsInv ==
  ASSUME IInv, NEW d \in Dogs, ReadEvents(d)
  PROVE  IInv'
<1> DEFINE q == [run[d] EXCEPT !.due = {e \in run[d].due : ~ Has(run[d].h, e)}]
<1>1. run[d] \in Runs
  BY DEF IInv, TypeInv
<1>2. /\ q \in Runs /\ q.h = run[d].h /\ q.gen = run[d].gen /\ q.now = run[d].now
      /\ q.crowded = run[d].crowded /\ q.due \subseteq run[d].due
  BY <1>1 DEF Runs
<1>3. run' = [run EXCEPT ![d] = Onward(q)] /\ run[d].at = "events"
  BY DEF ReadEvents
<1> HIDE DEF q
<1>4. /\ Onward(q) \in Runs /\ Onward(q).at \in {"send", "next", "rest"}
      /\ Onward(q).at = "next" => Onward(q).crowded = run[d].crowded
  BY <1>2, OnwardType
<1>5. ASSUME Onward(q).at = "send"
      PROVE  /\ Onward(q).h = run[d].h /\ Onward(q).gen = run[d].gen
             /\ Onward(q).now = run[d].now /\ Onward(q).crowded = run[d].crowded
             /\ Onward(q).due \subseteq run[d].due
  BY <1>2, <1>5, OnwardType DEF Runs
<1>6. /\ run[d].h \in Handoffs /\ run[d].due \subseteq Watched(run[d].h)
      /\ run[d].gen <= watches[run[d].h]["received"].gen
  BY <1>3 DEF IInv, PlaceInv, RunInv, GenInv, Reading
<1>7. (~ run[d].crowded /\ run[d].gen = watches[run[d].h]["received"].gen) =>
        \A e \in run[d].due : LET last == watches[run[d].h][e].last IN
          last = Never \/ run[d].now - last >= Cooldown
  BY <1>3 DEF IInv, RunInv, DueInv, Reading, Known
<1>8. UNCHANGED <<now, watches, sent, repeated, excused>>
  BY DEF ReadEvents
<1> DEFINE o == Onward(q)
<1>9. o \in Runs /\ run' = [run EXCEPT ![d] = o]
  BY <1>3, <1>4
<1>10. o.at # "mark" /\ (o.at # "rest" => o.crowded = run[d].crowded)
  BY <1>4, <1>5
<1>11. o.at \in {"events", "send"} =>
         /\ o.h \in Handoffs /\ o.due \subseteq Watched(o.h)
         /\ o.gen <= watches[o.h]["received"].gen
         /\ (~ o.crowded /\ o.gen = watches[o.h]["received"].gen) =>
              \A e \in o.due : LET last == watches[o.h][e].last IN
                last = Never \/ o.now - last >= Cooldown
  BY <1>4, <1>5, <1>6, <1>7
<1> HIDE DEF o
<1> QED BY <1>3, <1>8, <1>9, <1>10, <1>11, ReadingOn DEF Asleep

\* A run begins: whoever is awake is no longer alone, nor is the new run.
LEMMA StartInv ==
  ASSUME IInv, NEW d \in Dogs, Start(d)
  PROVE  IInv'
<1> DEFINE crowded == \E x \in Dogs : ~ Asleep(x)
           r == [Rest EXCEPT !.at = "next", !.now = now, !.left = Handoffs, !.crowded = crowded]
<1>1. r \in Runs /\ r.at = "next" /\ r.crowded = crowded
  BY RestType DEF Runs, Rest, IInv, TypeInv
<1>2. run' = [x \in Dogs |-> IF x = d THEN r
                ELSE IF Asleep(x) THEN run[x] ELSE [run[x] EXCEPT !.crowded = TRUE]]
  BY DEF Start
<1>3. run'[d] = r
  BY <1>2
<1> HIDE DEF r
<1>4. ASSUME NEW x \in Dogs, x # d
      PROVE  /\ run'[x] \in Runs
             /\ run'[x].at = run[x].at /\ run'[x].h = run[x].h /\ run'[x].gen = run[x].gen
             /\ run'[x].now = run[x].now /\ run'[x].due = run[x].due
             /\ run'[x].watch = run[x].watch
             /\ ~ Asleep(x) => run'[x].crowded
  <2>1. run[x] \in Runs
    BY DEF IInv, TypeInv
  <2> QED BY <1>2, <1>4, <2>1 DEF Runs
<1>5. run[d].at = "rest" /\ UNCHANGED <<now, watches, sent, repeated, excused>>
  BY DEF Start, Asleep
<1>6. run' \in [Dogs -> Runs]
  BY <1>1, <1>2, <1>3, <1>4
<1>7. TypeInv'
  BY <1>5, <1>6 DEF IInv, TypeInv, Table
<1>8. PlaceInv'
  BY <1>1, <1>3, <1>4 DEF IInv, PlaceInv, Reading
<1>9. GenInv'
  BY <1>1, <1>3, <1>4, <1>5 DEF IInv, RunInv, GenInv, Reading
<1>10. AloneInv'
  <2> SUFFICES ASSUME NEW y \in Dogs, NEW x \in Dogs, x # y, run'[y].at # "rest",
                      ~ run'[y].crowded
               PROVE  run'[x].at = "rest"
    BY DEF AloneInv, Asleep
  <2>1. y = d
    BY <1>4 DEF Asleep
  <2>2. ~ \E z \in Dogs : ~ Asleep(z)
    BY <2>1, <1>1, <1>3
  <2> QED BY <2>1, <2>2, <1>4 DEF Asleep
<1>11. DueInv'
  BY <1>1, <1>3, <1>4, <1>5 DEF IInv, RunInv, DueInv, Reading, Known, Asleep
<1>12. MarkInv'
  BY <1>1, <1>3, <1>4, <1>5 DEF IInv, RunInv, MarkInv, Known
<1>13. SentInv'
  <2> SUFFICES ASSUME NEW h \in Handoffs, NEW e \in Watched(h), <<h, e>> \notin excused,
                      sent[h][e] # watches[h][e].last
               PROVE  \E x \in Dogs : /\ run'[x].at = "mark" /\ Known(x)'
                                      /\ run'[x].h = h /\ run'[x].watch = e
    <3>1. watches' = watches /\ sent' = sent /\ excused' = excused
      BY <1>5
    <3> QED BY <3>1 DEF SentInv, Known
  <2>1. PICK x \in Dogs : /\ run[x].at = "mark" /\ Known(x)
                          /\ run[x].h = h /\ run[x].watch = e
    BY DEF IInv, RunInv, SentInv
  <2> QED BY <2>1, <1>4, <1>5 DEF Known
<1>14. RepeatsExcused' /\ WithheldForItsReminder'
  BY <1>5 DEF IInv, RunInv, RepeatsExcused, WithheldForItsReminder
<1> QED BY <1>7, <1>8, <1>9, <1>10, <1>11, <1>12, <1>13, <1>14 DEF IInv, RunInv

\* A reminder: the run is alone and the watch is due, or others have been told.
LEMMA SendReminderInv ==
  ASSUME IInv, NEW d \in Dogs, NEW e \in run[d].due, SendReminder(d, e)
  PROVE  IInv'
<1> DEFINE h == run[d].h
           r == [run[d] EXCEPT !.at = "mark", !.due = @ \ {e}, !.watch = e]
<1>1. /\ run[d] \in Runs /\ run[d].at = "send" /\ h \in Handoffs
      /\ run[d].due \subseteq Watched(h) /\ e \in Watched(h)
      /\ run[d].gen <= watches[h]["received"].gen
  BY DEF SendReminder, IInv, TypeInv, PlaceInv, RunInv, GenInv, Reading
<1>2. /\ r \in Runs /\ r.at = "mark" /\ r.h = h /\ r.gen = run[d].gen /\ r.now = run[d].now
      /\ r.crowded = run[d].crowded /\ r.due = run[d].due \ {e} /\ r.watch = e
  BY <1>1, WatchedPlaces DEF Runs
<1>3. run' = [run EXCEPT ![d] = r]
  BY DEF SendReminder
<1> HIDE DEF r
<1>4. /\ run' \in [Dogs -> Runs] /\ run'[d] = r
      /\ \A x \in Dogs : x # d => run'[x] = run[x]
  BY <1>2, <1>3, RunOf DEF IInv
<1>5. watches' = watches /\ now' = now
  BY DEF SendReminder
<1>6. watches[h][e].gen = watches[h]["received"].gen
  BY <1>1 DEF IInv, RunInv, GenInv
<1>7. r.now \in Nat /\ r.now # Never
  BY <1>2 DEF Runs, Never
\* What the histories become.
<1>8. CASE ~ Known(d)
  <2>1. sent' = sent /\ repeated' = repeated /\ excused' = excused
    BY <1>6, <1>8 DEF SendReminder, Known
  <2>2. TypeInv'
    BY <1>4, <1>5, <2>1 DEF IInv, TypeInv, Table
  <2>3. PlaceInv'
    BY <1>1, <1>2, <1>4 DEF IInv, PlaceInv, Reading
  <2>4. GenInv'
    BY <1>1, <1>2, <1>4, <1>5 DEF IInv, RunInv, GenInv, Reading
  <2>5. AloneInv'
    BY <1>1, <1>2, <1>4 DEF IInv, RunInv, AloneInv, Asleep
  <2>6. DueInv'
    BY <1>2, <1>4, <1>5, <1>8 DEF IInv, RunInv, DueInv, Reading, Known
  <2>7. MarkInv'
    BY <1>2, <1>4, <1>5, <1>8, <2>1 DEF IInv, RunInv, MarkInv, Known
  <2>8. SentInv'
    <3> SUFFICES ASSUME NEW g \in Handoffs, NEW f \in Watched(g), <<g, f>> \notin excused,
                        sent[g][f] # watches[g][f].last
                 PROVE  \E x \in Dogs : /\ run'[x].at = "mark" /\ Known(x)'
                                        /\ run'[x].h = g /\ run'[x].watch = f
      BY <1>5, <2>1 DEF SentInv, Known
    <3>1. PICK x \in Dogs : /\ run[x].at = "mark" /\ Known(x)
                            /\ run[x].h = g /\ run[x].watch = f
      BY DEF IInv, RunInv, SentInv
    <3> QED BY <3>1, <1>1, <1>4, <1>5 DEF Known
  <2>9. RepeatsExcused' /\ WithheldForItsReminder'
    BY <1>5, <2>1 DEF IInv, RunInv, RepeatsExcused, WithheldForItsReminder
  <2> QED BY <2>2, <2>3, <2>4, <2>5, <2>6, <2>7, <2>8, <2>9 DEF IInv, RunInv
<1>9. CASE Known(d)
  <2>1. /\ sent' = [sent EXCEPT ![h][e] = run[d].now]
        /\ repeated' = repeated \cup {w \in {<<h, e>>} : sent[h][e] # Never
                                                        /\ run[d].now - sent[h][e] < Cooldown}
        /\ excused'  = excused \cup {w \in {<<h, e>>} : run[d].crowded}
    BY <1>6, <1>9 DEF SendReminder, Known
  <2>2. /\ DOMAIN sent' = Handoffs
        /\ \A g \in Handoffs : sent'[g] \in [Watched(g) -> Nat \cup {Never}]
        /\ sent'[h][e] = r.now
        /\ \A g \in Handoffs : \A f \in Watched(g) : <<g, f>> # <<h, e>> => sent'[g][f] = sent[g][f]
    BY <1>1, <1>2, <1>7, <2>1 DEF IInv, TypeInv, Table
  <2>3. TypeInv'
    BY <1>4, <1>5, <2>2 DEF IInv, TypeInv, Table
  <2>4. PlaceInv'
    BY <1>1, <1>2, <1>4 DEF IInv, PlaceInv, Reading
  <2>5. GenInv'
    BY <1>1, <1>2, <1>4, <1>5 DEF IInv, RunInv, GenInv, Reading
  <2>6. AloneInv'
    BY <1>1, <1>2, <1>4 DEF IInv, RunInv, AloneInv, Asleep
  <2>7. DueInv'
    <3>1. ~ run[d].crowded => \A f \in run[d].due :
            LET last == watches[h][f].last IN last = Never \/ run[d].now - last >= Cooldown
      BY <1>1, <1>9 DEF IInv, RunInv, DueInv, Reading
    <3> QED BY <1>2, <1>4, <1>5, <3>1 DEF IInv, RunInv, DueInv, Reading, Known
  \* Another run that is about to mark the same watch is not alone, and so is this one.
  <2>8. MarkInv'
    <3> SUFFICES ASSUME NEW x \in Dogs, run'[x].at = "mark", Known(x)'
                 PROVE  /\ sent'[run'[x].h][run'[x].watch] # Never
                        /\ \/ sent'[run'[x].h][run'[x].watch] = run'[x].now
                           \/ <<run'[x].h, run'[x].watch>> \in excused'
      BY DEF MarkInv
    <3>1. CASE x = d
      BY <3>1, <1>2, <1>4, <1>7, <2>2
    <3>2. CASE x # d
      <4>1. /\ run'[x] = run[x] /\ run[x].at = "mark" /\ Known(x)
            /\ run[x].h \in Handoffs /\ run[x].watch \in Watched(run[x].h)
        BY <3>2, <1>4, <1>5 DEF Known, IInv, PlaceInv, Reading
      <4>2. /\ sent[run[x].h][run[x].watch] # Never
            /\ \/ sent[run[x].h][run[x].watch] = run[x].now
               \/ <<run[x].h, run[x].watch>> \in excused
        BY <4>1 DEF IInv, RunInv, MarkInv
      <4>3. CASE <<run[x].h, run[x].watch>> = <<h, e>>
        <5>1. run[d].crowded
          BY <3>2, <4>1, <1>1 DEF IInv, RunInv, AloneInv, Asleep
        <5> QED BY <5>1, <4>1, <4>3, <2>1, <2>2, <1>7
      <4>4. CASE <<run[x].h, run[x].watch>> # <<h, e>>
        BY <4>1, <4>2, <4>4, <2>1, <2>2
      <4> QED BY <4>3, <4>4
    <3> QED BY <3>1, <3>2
  <2>9. SentInv'
    <3> SUFFICES ASSUME NEW g \in Handoffs, NEW f \in Watched(g), <<g, f>> \notin excused',
                        sent'[g][f] # watches[g][f].last
                 PROVE  \E x \in Dogs : /\ run'[x].at = "mark" /\ Known(x)'
                                        /\ run'[x].h = g /\ run'[x].watch = f
      BY <1>5 DEF SentInv, Known
    <3>1. CASE <<g, f>> = <<h, e>>
      BY <3>1, <1>2, <1>4, <1>5, <1>9 DEF Known
    <3>2. CASE <<g, f>> # <<h, e>>
      <4>1. <<g, f>> \notin excused /\ sent[g][f] # watches[g][f].last
        BY <3>2, <2>1, <2>2
      <4>2. PICK x \in Dogs : /\ run[x].at = "mark" /\ Known(x)
                              /\ run[x].h = g /\ run[x].watch = f
        BY <4>1 DEF IInv, RunInv, SentInv
      <4> QED BY <4>2, <1>1, <1>4, <1>5 DEF Known
    <3> QED BY <3>1, <3>2
  \* A run that is alone finds the row of the watch as the last reminder left it.
  <2>10. RepeatsExcused'
    <3>1. ASSUME sent[h][e] # Never, run[d].now - sent[h][e] < Cooldown, ~ run[d].crowded
          PROVE  <<h, e>> \in excused
      <4>1. \A x \in Dogs : x # d => run[x].at = "rest"
        BY <3>1, <1>1 DEF IInv, RunInv, AloneInv, Asleep
      <4>2. <<h, e>> \in excused \/ sent[h][e] = watches[h][e].last
        BY <4>1, <1>1 DEF IInv, RunInv, SentInv
      <4>3. watches[h][e].last = Never \/ run[d].now - watches[h][e].last >= Cooldown
        BY <3>1, <1>1, <1>9 DEF IInv, RunInv, DueInv, Reading
      <4>4. sent[h][e] \in Nat \cup {Never} /\ run[d].now \in Nat
        BY <1>1 DEF IInv, TypeInv, Table, Runs
      <4> QED BY <3>1, <4>2, <4>3, <4>4 DEF Cooldown, Never
    <3> QED BY <2>1, <3>1 DEF IInv, RunInv, RepeatsExcused
  <2>11. WithheldForItsReminder'
    BY <1>5, <1>7, <2>2 DEF IInv, RunInv, WithheldForItsReminder
  <2> QED BY <2>3, <2>4, <2>5, <2>6, <2>7, <2>8, <2>9, <2>10, <2>11 DEF IInv, RunInv
<1> QED BY <1>8, <1>9

\* The mark: the row says now what the reminder was, if the watch is still there.
LEMMA MarkReminderInv ==
  ASSUME IInv, NEW d \in Dogs, MarkReminder(d)
  PROVE  IInv'
<1> DEFINE h == run[d].h
           e == run[d].watch
           q == [run[d] EXCEPT !.watch = "none"]
           r == Onward(q)
<1>1. /\ run[d] \in Runs /\ run[d].at = "mark" /\ h \in Handoffs
      /\ run[d].due \subseteq Watched(h) /\ e \in Watched(h) \ run[d].due
      /\ run[d].gen <= watches[h]["received"].gen
      /\ watches[h][e].gen = watches[h]["received"].gen
  BY DEF MarkReminder, IInv, TypeInv, PlaceInv, RunInv, GenInv, Reading
<1>2. /\ q \in Runs /\ q.h = h /\ q.gen = run[d].gen /\ q.now = run[d].now
      /\ q.crowded = run[d].crowded /\ q.due = run[d].due
  BY <1>1 DEF Runs
<1>3. run' = [run EXCEPT ![d] = r]
  BY DEF MarkReminder
<1> HIDE DEF q
<1>4. /\ r \in Runs /\ r.at \in {"send", "next", "rest"}
      /\ r.at = "next" => r.crowded = run[d].crowded
      /\ r.at = "send" => r = [q EXCEPT !.at = "send"]
  BY <1>2, OnwardType
<1>5. r.at = "send" => /\ r.h = h /\ r.gen = run[d].gen /\ r.now = run[d].now
                       /\ r.crowded = run[d].crowded /\ r.due = run[d].due
  BY <1>2, <1>4 DEF Runs
<1> HIDE DEF r
<1>6. /\ run' \in [Dogs -> Runs] /\ run'[d] = r
      /\ \A x \in Dogs : x # d => run'[x] = run[x]
  BY <1>3, <1>4, RunOf DEF IInv
<1>7. sent' = sent /\ excused' = excused /\ repeated' = repeated /\ now' = now
  BY DEF MarkReminder
<1>8. /\ DOMAIN watches' = Handoffs
      /\ \A g \in Handoffs : watches'[g] \in [Watched(g) -> Watch]
      /\ \A g \in Handoffs : \A f \in Watched(g) :
           /\ watches'[g][f].gen = watches[g][f].gen
           /\ watches'[g][f].last = IF Known(d) /\ <<g, f>> = <<h, e>>
                                    THEN run[d].now ELSE watches[g][f].last
  <2>1. CASE Known(d)
    <3>1. watches' = [watches EXCEPT ![h][e].last = run[d].now]
      BY <1>1, <2>1 DEF MarkReminder, Known
    <3> DEFINE w == [watches[h][e] EXCEPT !.last = run[d].now]
    <3>2. w \in Watch /\ w.gen = watches[h][e].gen /\ w.last = run[d].now
      BY <1>1 DEF IInv, TypeInv, Table, Watch, Runs
    <3>3. watches' = [watches EXCEPT ![h] = [watches[h] EXCEPT ![e] = w]]
      BY <3>1
    <3> HIDE DEF w
    <3>4. [watches[h] EXCEPT ![e] = w] \in [Watched(h) -> Watch]
      BY <1>1, <3>2 DEF IInv, TypeInv, Table
    <3>5. /\ DOMAIN watches' = Handoffs
          /\ \A g \in Handoffs : watches'[g] = IF g = h THEN [watches[h] EXCEPT ![e] = w]
                                                        ELSE watches[g]
      BY <3>3 DEF IInv, TypeInv, Table
    <3> QED BY <2>1, <1>1, <3>2, <3>4, <3>5 DEF IInv, TypeInv, Table
  <2>2. CASE ~ Known(d)
    <3>1. watches' = watches
      BY <1>1, <2>2 DEF MarkReminder, Known
    <3> QED BY <2>2, <3>1 DEF IInv, TypeInv, Table
  <2> QED BY <2>1, <2>2
<1>9. \A x \in Dogs : Reading(x) => watches'[run[x].h]["received"].gen = watches[run[x].h]["received"].gen
  BY <1>8, WatchedPlaces DEF IInv, PlaceInv
<1>10. TypeInv'
  BY <1>6, <1>7, <1>8 DEF IInv, TypeInv, Table
<1>11. PlaceInv'
  BY <1>1, <1>4, <1>5, <1>6 DEF IInv, PlaceInv, Reading
<1>12. GenInv'
  <2>1. \A x \in Dogs : Reading(x)' => run'[x].gen <= watches'[run'[x].h]["received"].gen
    BY <1>1, <1>4, <1>5, <1>6, <1>9 DEF IInv, RunInv, GenInv, Reading
  <2>2. \A g \in Handoffs : \A f \in Watched(g) : watches'[g][f].gen = watches'[g]["received"].gen
    BY <1>8, WatchedPlaces DEF IInv, RunInv, GenInv
  <2> QED BY <2>1, <2>2 DEF GenInv
<1>13. AloneInv'
  BY <1>1, <1>4, <1>5, <1>6 DEF IInv, RunInv, AloneInv, Asleep
\* A run that is alone has none beside it whose mark could spoil its list.
<1>14. DueInv'
  <2> SUFFICES ASSUME NEW x \in Dogs, Reading(x)', ~ run'[x].crowded, Known(x)',
                      NEW f \in run'[x].due
               PROVE  LET last == watches'[run'[x].h][f].last IN
                        last = Never \/ run'[x].now - last >= Cooldown
    BY DEF DueInv
  <2>1. x = d
    <3>1. ASSUME x # d PROVE FALSE
      <4>1. run'[x] = run[x]
        BY <3>1, <1>6
      <4> QED BY <3>1, <4>1, <1>1 DEF IInv, RunInv, AloneInv, Asleep, Reading
    <3> QED BY <3>1
  <2>2. /\ r.at = "send" /\ run'[x] = r /\ ~ run[d].crowded /\ f \in run[d].due
        /\ run[d].gen = watches[h]["received"].gen
    BY <2>1, <1>1, <1>4, <1>5, <1>6, <1>9 DEF Reading, Known
  <2>3. LET last == watches[h][f].last IN last = Never \/ run[d].now - last >= Cooldown
    BY <2>2, <1>1 DEF IInv, RunInv, DueInv, Reading, Known
  <2>4. f \in Watched(h) /\ f # e
    BY <2>2, <1>1
  <2>5. watches'[h][f].last = watches[h][f].last
    BY <2>4, <1>1, <1>8
  <2> QED BY <2>2, <2>3, <2>5, <1>5
<1>15. MarkInv'
  BY <1>4, <1>6, <1>7, <1>9 DEF IInv, RunInv, MarkInv, Known, Reading
<1>16. SentInv'
  <2> SUFFICES ASSUME NEW g \in Handoffs, NEW f \in Watched(g), <<g, f>> \notin excused',
                      sent'[g][f] # watches'[g][f].last
               PROVE  \E x \in Dogs : /\ run'[x].at = "mark" /\ Known(x)'
                                      /\ run'[x].h = g /\ run'[x].watch = f
    BY SentAfter
  <2>1. ~ (Known(d) /\ <<g, f>> = <<h, e>>)
    BY <1>1, <1>7, <1>8 DEF IInv, RunInv, MarkInv
  <2>2. sent[g][f] # watches[g][f].last /\ <<g, f>> \notin excused
    BY <2>1, <1>7, <1>8
  <2>3. PICK x \in Dogs : /\ run[x].at = "mark" /\ Known(x)
                          /\ run[x].h = g /\ run[x].watch = f
    BY <2>2 DEF IInv, RunInv, SentInv
  <2>4. x # d
    BY <2>1, <2>3
  <2> QED BY <2>3, <2>4, <1>6, <1>9 DEF Known, Reading
<1>17. RepeatsExcused'
  BY <1>7 DEF IInv, RunInv, RepeatsExcused
<1>18. WithheldForItsReminder'
  <2> SUFFICES ASSUME NEW g \in Handoffs, NEW f \in Watched(g), watches'[g][f].last # Never
               PROVE  sent[g][f] # Never
    BY <1>7 DEF WithheldForItsReminder
  <2>1. CASE Known(d) /\ <<g, f>> = <<h, e>>
    BY <2>1, <1>1 DEF IInv, RunInv, MarkInv
  <2>2. CASE ~ (Known(d) /\ <<g, f>> = <<h, e>>)
    BY <2>2, <1>8 DEF IInv, RunInv, WithheldForItsReminder
  <2> QED BY <2>1, <2>2
<1> QED BY <1>10, <1>11, <1>12, <1>13, <1>14, <1>15, <1>16, <1>17, <1>18 DEF IInv, RunInv

\* A run that ends between a reminder and its mark leaves an excuse behind.
LEMMA CrashInv ==
  ASSUME IInv, NEW d \in Dogs, Crash(d)
  PROVE  IInv'
<1>1. /\ run' \in [Dogs -> Runs] /\ run'[d].at = "rest"
      /\ \A x \in Dogs : x # d => run'[x] = run[x]
  BY RunOf, RestType DEF Crash, IInv
<1>2. /\ now' = now /\ watches' = watches /\ sent' = sent /\ repeated' = repeated
      /\ excused \subseteq excused'
      /\ run[d].at = "mark" => <<run[d].h, run[d].watch>> \in excused'
  BY DEF Crash
<1>3. TypeInv'
  BY <1>1, <1>2 DEF IInv, TypeInv, Table
<1>4. PlaceInv'
  BY <1>1 DEF IInv, PlaceInv, Reading
<1>5. GenInv' /\ AloneInv' /\ DueInv' /\ MarkInv'
  <2>1. GenInv' BY <1>1, <1>2 DEF IInv, RunInv, GenInv, Reading
  <2>2. AloneInv' BY <1>1 DEF IInv, RunInv, AloneInv, Asleep
  <2>3. DueInv' BY <1>1, <1>2 DEF IInv, RunInv, DueInv, Reading, Known
  <2>4. MarkInv' BY <1>1, <1>2 DEF IInv, RunInv, MarkInv, Known
  <2> QED BY <2>1, <2>2, <2>3, <2>4
<1>6. SentInv'
  <2> SUFFICES ASSUME NEW g \in Handoffs, NEW f \in Watched(g), <<g, f>> \notin excused',
                      sent[g][f] # watches[g][f].last
               PROVE  \E x \in Dogs : /\ run'[x].at = "mark" /\ Known(x)'
                                      /\ run'[x].h = g /\ run'[x].watch = f
    BY <1>2 DEF SentInv, Known
  <2>1. PICK x \in Dogs : /\ run[x].at = "mark" /\ Known(x)
                          /\ run[x].h = g /\ run[x].watch = f
    BY <1>2 DEF IInv, RunInv, SentInv
  <2> QED BY <2>1, <1>1, <1>2 DEF Known
<1>7. RepeatsExcused' /\ WithheldForItsReminder'
  BY <1>2 DEF IInv, RunInv, RepeatsExcused, WithheldForItsReminder
<1> QED BY <1>3, <1>4, <1>5, <1>6, <1>7 DEF IInv, RunInv

----------------------------------------------------------------------------
\* Repairs and edits

\* A repair: the runs that read the old watches know none of the new ones.
LEMMA ReplayHandoffInv ==
  ASSUME IInv, NEW h \in Handoffs, NEW events, ReplayHandoff(h, events)
  PROVE  IInv'
<1> DEFINE new == [e \in Watched(h) |-> [gen |-> watches[h][e].gen + 1, active |-> TRUE,
                                         due |-> now + Deadline(h)[e], last |-> Never]]
<1>1. /\ now' = now /\ run' = run
      /\ watches' = [watches EXCEPT ![h] = new]
      /\ sent' = [sent EXCEPT ![h] = [e \in Watched(h) |-> Never]]
      /\ repeated' = {w \in repeated : w[1] # h}
      /\ excused' = {w \in excused : w[1] # h}
  BY DEF ReplayHandoff
<1>2. new \in [Watched(h) -> Watch]
  <2>1. \A e \in Watched(h) : watches[h][e].gen \in Nat
    BY DEF IInv, TypeInv, Table, Watch
  <2>2. now \in Nat
    BY DEF IInv, TypeInv
  <2>3. \A e \in Watched(h) : Deadline(h)[e] \in Nat
    BY DEF Deadline
  <2>4. \A e \in Watched(h) :
          [gen |-> watches[h][e].gen + 1, active |-> TRUE,
           due |-> now + Deadline(h)[e], last |-> Never] \in Watch
    BY <2>1, <2>2, <2>3 DEF Watch
  <2> QED BY <2>4
<1>3. \A e \in Watched(h) : new[e].gen = watches[h][e].gen + 1 /\ new[e].last = Never
  OBVIOUS
<1> HIDE DEF new
<1>4. /\ DOMAIN watches' = Handoffs /\ DOMAIN sent' = Handoffs
      /\ watches'[h] = new
      /\ \A g \in Handoffs : g # h => watches'[g] = watches[g] /\ sent'[g] = sent[g]
      /\ sent'[h] = [e \in Watched(h) |-> Never]
  BY <1>1 DEF IInv, TypeInv, Table
<1>5. \A e \in Watched(h) : /\ watches'[h][e].gen = watches[h]["received"].gen + 1
                            /\ watches'[h][e].last = Never /\ sent'[h][e] = Never
  BY <1>3, <1>4 DEF IInv, RunInv, GenInv
<1>6. watches[h]["received"].gen \in Nat
  BY WatchedPlaces DEF IInv, TypeInv, Table, Watch
<1>7. ASSUME NEW x \in Dogs, Reading(x), run[x].gen = watches'[run[x].h]["received"].gen
      PROVE  run[x].h \in Handoffs /\ run[x].h # h /\ Known(x)
  <2>1. /\ run[x].h \in Handoffs /\ run[x].gen <= watches[run[x].h]["received"].gen
        /\ run[x].gen \in Nat
    BY <1>7 DEF IInv, PlaceInv, RunInv, GenInv, TypeInv, Runs
  <2>2. run[x].h # h
    BY <1>7, <2>1, <1>5, <1>6, WatchedPlaces
  <2> QED BY <2>1, <2>2, <1>4, <1>7 DEF Known
<1>8. TypeInv'
  BY <1>1, <1>2, <1>4 DEF IInv, TypeInv, Table
<1>9. PlaceInv' /\ AloneInv'
  BY <1>1 DEF IInv, RunInv, PlaceInv, AloneInv, Reading, Asleep
<1>10. GenInv'
  <2>1. \A g \in Handoffs : \A e \in Watched(g) : watches'[g][e].gen = watches'[g]["received"].gen
    BY <1>4, <1>5, WatchedPlaces DEF IInv, RunInv, GenInv
  <2>2. ASSUME NEW x \in Dogs, Reading(x)
        PROVE  run[x].gen <= watches'[run[x].h]["received"].gen
    <3>1. /\ run[x].h \in Handoffs /\ run[x].gen <= watches[run[x].h]["received"].gen
          /\ run[x].gen \in Nat
      BY <2>2 DEF IInv, PlaceInv, RunInv, GenInv, TypeInv, Runs
    <3> QED BY <3>1, <1>4, <1>5, <1>6, WatchedPlaces
  <2> QED BY <1>1, <2>1, <2>2 DEF GenInv, Reading
<1>11. DueInv'
  <2> SUFFICES ASSUME NEW x \in Dogs, Reading(x), ~ run[x].crowded,
                      run[x].gen = watches'[run[x].h]["received"].gen, NEW e \in run[x].due
               PROVE  LET last == watches'[run[x].h][e].last IN
                        last = Never \/ run[x].now - last >= Cooldown
    BY <1>1 DEF DueInv, Reading, Known
  <2> QED BY <1>4, <1>7 DEF IInv, RunInv, DueInv
<1>12. MarkInv'
  <2> SUFFICES ASSUME NEW x \in Dogs, run[x].at = "mark",
                      run[x].gen = watches'[run[x].h]["received"].gen
               PROVE  /\ sent'[run[x].h][run[x].watch] # Never
                      /\ \/ sent'[run[x].h][run[x].watch] = run[x].now
                         \/ <<run[x].h, run[x].watch>> \in excused'
    BY <1>1 DEF MarkInv, Known
  <2> QED BY <1>1, <1>4, <1>7 DEF IInv, RunInv, MarkInv, Reading
<1>13. SentInv'
  <2> SUFFICES ASSUME NEW g \in Handoffs, NEW e \in Watched(g), <<g, e>> \notin excused',
                      sent'[g][e] # watches'[g][e].last
               PROVE  \E x \in Dogs : /\ run'[x].at = "mark" /\ Known(x)'
                                      /\ run'[x].h = g /\ run'[x].watch = e
    BY SentAfter
  <2>1. g # h
    BY <1>5
  <2>2. <<g, e>> \notin excused /\ sent[g][e] # watches[g][e].last
    BY <2>1, <1>1, <1>4
  <2>3. PICK x \in Dogs : /\ run[x].at = "mark" /\ Known(x)
                          /\ run[x].h = g /\ run[x].watch = e
    BY <2>2 DEF IInv, RunInv, SentInv
  <2> QED BY <2>1, <2>3, <1>1, <1>4 DEF Known
<1>14. RepeatsExcused' /\ WithheldForItsReminder'
  BY <1>1, <1>4, <1>5 DEF IInv, RunInv, RepeatsExcused, WithheldForItsReminder
<1> QED BY <1>8, <1>9, <1>10, <1>11, <1>12, <1>13, <1>14 DEF IInv, RunInv

\* An edit touches neither the check columns nor the identity of a watch.
LEMMA UpdateWatchInv ==
  ASSUME IInv, NEW h \in Handoffs, NEW e \in Watched(h), UpdateWatch(h, e)
  PROVE  IInv'
<1>1. now' = now /\ run' = run /\ sent' = sent /\ repeated' = repeated /\ excused' = excused
  BY DEF UpdateWatch
<1>2. PICK w \in Watch : /\ w.gen = watches[h][e].gen /\ w.last = watches[h][e].last
                         /\ watches' = [watches EXCEPT ![h][e] = w]
  <2>1. watches[h][e] \in Watch /\ now \in Int
    BY DEF IInv, TypeInv, Table
  <2>2. CASE watches' = [watches EXCEPT ![h][e].active = ~ @]
    <3>1. watches' = [watches EXCEPT ![h][e] = [watches[h][e] EXCEPT !.active = ~ watches[h][e].active]]
      BY <2>2
    <3> DEFINE w == [watches[h][e] EXCEPT !.active = ~ watches[h][e].active]
    <3>2. w \in Watch /\ w.gen = watches[h][e].gen /\ w.last = watches[h][e].last
      BY <2>1 DEF Watch
    <3> QED BY <3>1, <3>2
  <2>3. CASE watches' = [watches EXCEPT ![h][e].due = now]
    <3>1. watches' = [watches EXCEPT ![h][e] = [watches[h][e] EXCEPT !.due = now]]
      BY <2>3
    <3> DEFINE w == [watches[h][e] EXCEPT !.due = now]
    <3>2. w \in Watch /\ w.gen = watches[h][e].gen /\ w.last = watches[h][e].last
      BY <2>1 DEF Watch
    <3> QED BY <3>1, <3>2
  <2> QED BY <2>2, <2>3 DEF UpdateWatch
<1>3. /\ DOMAIN watches' = Handoffs
      /\ \A g \in Handoffs : watches'[g] \in [Watched(g) -> Watch]
      /\ \A g \in Handoffs : \A f \in Watched(g) :
           watches'[g][f].gen = watches[g][f].gen /\ watches'[g][f].last = watches[g][f].last
  BY <1>2 DEF IInv, TypeInv, Table
<1>4. \A x \in Dogs : Reading(x) => watches'[run[x].h]["received"].gen = watches[run[x].h]["received"].gen
  BY <1>3, WatchedPlaces DEF IInv, PlaceInv
<1>5. TypeInv'
  BY <1>1, <1>3 DEF IInv, TypeInv, Table
<1>6. PlaceInv' /\ AloneInv'
  BY <1>1 DEF IInv, RunInv, PlaceInv, AloneInv, Reading, Asleep
<1>7. GenInv'
  <2>1. \A g \in Handoffs : \A f \in Watched(g) : watches'[g][f].gen = watches'[g]["received"].gen
    BY <1>3, WatchedPlaces DEF IInv, RunInv, GenInv
  <2> QED BY <1>1, <1>4, <2>1 DEF IInv, RunInv, GenInv, Reading
<1>8. DueInv'
  BY <1>1, <1>3, <1>4 DEF IInv, RunInv, DueInv, PlaceInv, Reading, Known
<1>9. MarkInv'
  BY <1>1, <1>4 DEF IInv, RunInv, MarkInv, Reading, Known
<1>10. SentInv'
  <2> SUFFICES ASSUME NEW g \in Handoffs, NEW f \in Watched(g), <<g, f>> \notin excused',
                      sent'[g][f] # watches'[g][f].last
               PROVE  \E x \in Dogs : /\ run'[x].at = "mark" /\ Known(x)'
                                      /\ run'[x].h = g /\ run'[x].watch = f
    BY SentAfter
  <2>1. PICK x \in Dogs : /\ run[x].at = "mark" /\ Known(x)
                          /\ run[x].h = g /\ run[x].watch = f
    BY <1>1, <1>3 DEF IInv, RunInv, SentInv
  <2> QED BY <2>1, <1>1, <1>4 DEF Known, Reading
<1>11. RepeatsExcused' /\ WithheldForItsReminder'
  BY <1>1, <1>3 DEF IInv, RunInv, RepeatsExcused, WithheldForItsReminder
<1> QED BY <1>5, <1>6, <1>7, <1>8, <1>9, <1>10, <1>11 DEF IInv, RunInv

----------------------------------------------------------------------------

\* Every step, and stuttering, keeps the invariant.
LEMMA NextInv == IInv /\ [Next]_vars => IInv'
<1> SUFFICES ASSUME IInv, [Next]_vars PROVE IInv'
  OBVIOUS
<1>1. CASE \E h \in Handoffs : InvalidateEvent(h) \/ ReopenHandoff(h)
  BY <1>1, ReplayHandoffInv DEF InvalidateEvent, ReopenHandoff
<1>2. CASE \E h \in Handoffs : \E e \in Watched(h) : UpdateWatch(h, e)
  BY <1>2, UpdateWatchInv
<1>3. CASE \E d \in Dogs : Start(d) \/ RunStep(d) \/ Crash(d)
  BY <1>3, StartInv, ReadWatchesInv, ReadEventsInv, SendReminderInv, MarkReminderInv, CrashInv
     DEF RunStep
\* The others touch neither a watch nor a run.
<1>4. ASSUME now' \in Nat, UNCHANGED <<watches, run, sent, repeated, excused>> PROVE IInv'
  <2>1. TypeInv' BY <1>4 DEF IInv, TypeInv, Table
  <2>2. PlaceInv' /\ GenInv' BY <1>4 DEF IInv, RunInv, PlaceInv, GenInv, Reading
  <2>3. AloneInv' BY <1>4 DEF IInv, RunInv, AloneInv, Asleep
  <2>4. DueInv' /\ MarkInv' BY <1>4 DEF IInv, RunInv, DueInv, MarkInv, Reading, Known
  <2>5. SentInv' BY <1>4 DEF IInv, RunInv, SentInv, Known
  <2>6. RepeatsExcused' /\ WithheldForItsReminder'
    BY <1>4 DEF IInv, RunInv, RepeatsExcused, WithheldForItsReminder
  <2> QED BY <2>1, <2>2, <2>3, <2>4, <2>5, <2>6 DEF IInv, RunInv
<1>5. CASE (\E h \in Handoffs, e \in Events : RecordEvent(h, e)) \/ Tick \/ UNCHANGED vars
  BY <1>4, <1>5 DEF RecordEvent, Tick, vars, IInv, TypeInv
<1> QED BY <1>1, <1>2, <1>3, <1>5 DEF Next

\* However many run the watchdog, and however long, a watch is reminded of twice
\* within the cooldown only by runs that overlap, or when one ended between the
\* reminder and its mark (RunWatchdog, UpdateWatchCheck).
THEOREM RepeatsHaveAnExcuse == Spec => []RepeatsExcused
<1>1. IInv => RepeatsExcused BY DEF IInv, RunInv
<1> QED BY <1>1, InitInv, NextInv, PTL DEF Spec

\* Work is withheld for a reminder of the watch that is there, never for one of a
\* watch that a repair has replaced (UpdateWatchCheck goes by the watch's id).
THEOREM WithheldForReminders == Spec => []WithheldForItsReminder
<1>1. IInv => WithheldForItsReminder BY DEF IInv, RunInv
<1> QED BY <1>1, InitInv, NextInv, PTL DEF Spec

----------------------------------------------------------------------------
\* A blocked workflow is explained

\* A set of numbers that holds 0, and n + 1 with n, holds every number.
LEMMA Induction ==
  ASSUME NEW T, 0 \in T, \A n \in Nat : n \in T => n + 1 \in T
  PROVE  \A n \in Nat : n \in T
<1>1. SUFFICES ASSUME Nat \ T # {} PROVE FALSE
  OBVIOUS
<1> DEFINE Less == {p \in Nat \X Nat : p[1] < p[2]}
<1>2. OpToRel(<, Nat) = Less
  BY DEF OpToRel
<1>3. IsWellFoundedOn(Less, Nat)
  BY <1>2, NatLessThanWellFounded
<1> HIDE DEF Less
<1>4. PICK n \in Nat \ T : \A i \in Nat \ T : ~ (<<i, n>> \in Less)
  BY <1>1, <1>3, WFMin
<1>5. n # 0 /\ n - 1 \in Nat
  BY <1>4
<1>6. <<n - 1, n>> \in Nat \X Nat /\ n - 1 < n
  BY <1>5
<1>7. n - 1 \in T
  BY <1>4, <1>5, <1>6 DEF Less
<1> QED BY <1>4, <1>5, <1>7

\* The events without which no log leads to state s.
Demands(h, s) ==
  CASE s = "received"  -> {"received"}
    [] s = "started"   -> {"received", "started"}
    [] s = "submitted" -> {"received", "started", "submitted"}
    [] s = "completed" -> Watched(h)
    [] OTHER           -> {}

StoryInv ==
  /\ log \in [Handoffs -> Seq(Events)]
  /\ state \in [Handoffs -> {"created"} \cup Events]
  /\ \A h \in Handoffs : \A e \in Demands(h, state[h]) : Has(h, e)

\* An accepted event adds itself and nothing else to what is demanded.
LEMMA AcceptedDemands ==
  ASSUME NEW h, NEW s, NEW e \in Events, Accepts(h, s, e)
  PROVE  Demands(h, e) \subseteq Demands(h, s) \cup {e}
<1>1. CASE h \in Submitting
  BY <1>1 DEF Accepts, Path, Demands, Watched, Events, Ended
<1>2. CASE h \notin Submitting
  BY <1>2 DEF Accepts, Path, Demands, Watched, Events, Ended
<1> QED BY <1>1, <1>2

\* after holds the state after every prefix of the events.
Follows(h, events, after, n) ==
  after = [i \in 0 .. n |-> IF i = 0 THEN "created"
                            ELSE IF Accepts(h, after[i - 1], events[i]) THEN events[i]
                            ELSE after[i - 1]]

\* The function that Replay is defined with exists.
LEMMA ReplayFollows ==
  ASSUME NEW h, NEW events \in Seq(Events)
  PROVE  \E after : Follows(h, events, after, Len(events)) /\ Replay(h, events) = after[Len(events)]
<1> DEFINE T == {n \in Nat : \E after : Follows(h, events, after, n)}
<1>1. 0 \in T
  <2>1. Follows(h, events, [i \in 0 .. 0 |-> "created"], 0)
    BY DEF Follows
  <2> QED BY <2>1
<1>2. ASSUME NEW n \in Nat, n \in T PROVE n + 1 \in T
  <2>1. PICK after : Follows(h, events, after, n)
    BY <1>2
  <2> DEFINE next == [i \in 0 .. n + 1 |->
                        IF i <= n THEN after[i]
                        ELSE IF Accepts(h, after[n], events[n + 1]) THEN events[n + 1] ELSE after[n]]
  <2>2. \A i \in 0 .. n + 1 :
          next[i] = IF i = 0 THEN "created"
                    ELSE IF Accepts(h, next[i - 1], events[i]) THEN events[i] ELSE next[i - 1]
    BY <2>1 DEF Follows
  <2>3. Follows(h, events, next, n + 1)
    BY <2>2 DEF Follows
  <2> QED BY <2>3
<1> HIDE DEF T
<1>3. Len(events) \in T
  BY <1>1, <1>2, Induction
<1>4. \E after : Follows(h, events, after, Len(events))
  BY <1>3 DEF T
<1> QED BY <1>4 DEF Replay, Follows

\* What a state demands is among the events that a replay took it from.
LEMMA ReplayStory ==
  ASSUME NEW h, NEW events \in Seq(Events)
  PROVE  /\ Replay(h, events) \in {"created"} \cup Events
         /\ \A e \in Demands(h, Replay(h, events)) : \E i \in DOMAIN events : events[i] = e
<1>1. PICK after : /\ Follows(h, events, after, Len(events))
                   /\ Replay(h, events) = after[Len(events)]
  BY ReplayFollows
<1> DEFINE Good(n) == /\ after[n] \in {"created"} \cup Events
                      /\ \A e \in Demands(h, after[n]) : \E i \in DOMAIN events : events[i] = e
           T == {n \in Nat : n <= Len(events) => Good(n)}
<1>2. 0 \in T
  BY <1>1 DEF Follows, Demands
<1>3. ASSUME NEW n \in Nat, n \in T PROVE n + 1 \in T
  <2> SUFFICES ASSUME n + 1 <= Len(events) PROVE Good(n + 1)
    OBVIOUS
  <2>1. Good(n) /\ n + 1 \in DOMAIN events /\ events[n + 1] \in Events
    BY <1>3
  <2>2. after[n + 1] = IF Accepts(h, after[n], events[n + 1]) THEN events[n + 1] ELSE after[n]
    BY <1>1 DEF Follows
  <2>3. CASE Accepts(h, after[n], events[n + 1])
    BY <2>1, <2>2, <2>3, AcceptedDemands
  <2>4. CASE ~ Accepts(h, after[n], events[n + 1])
    BY <2>1, <2>2, <2>4
  <2> QED BY <2>3, <2>4
<1> HIDE DEF T
<1>4. Len(events) \in T
  BY <1>2, <1>3, Induction
<1> QED BY <1>1, <1>4 DEF T

\* The first state demands nothing.
LEMMA InitStory == Init => StoryInv
BY DEF Init, StoryInv, Demands

\* Events and repairs keep to the story; the others change neither state nor log.
LEMMA NextStory == StoryInv /\ [Next]_vars => StoryInv'
<1> SUFFICES ASSUME StoryInv, [Next]_vars PROVE StoryInv'
  OBVIOUS
<1>1. ASSUME NEW h \in Handoffs, NEW e \in Events, RecordEvent(h, e) PROVE StoryInv'
  <2>1. /\ log' = [log EXCEPT ![h] = Append(log[h], e)] /\ state' = [state EXCEPT ![h] = e]
        /\ Accepts(h, state[h], e) /\ log[h] \in Seq(Events)
    BY <1>1 DEF RecordEvent, StoryInv
  <2>2. /\ \A i \in DOMAIN log[h] : i \in DOMAIN Append(log[h], e) /\ Append(log[h], e)[i] = log[h][i]
        /\ Len(log[h]) + 1 \in DOMAIN Append(log[h], e)
        /\ Append(log[h], e)[Len(log[h]) + 1] = e
        /\ Append(log[h], e) \in Seq(Events)
    BY <2>1
  <2>3. \A x \in Demands(h, e) : \E i \in DOMAIN Append(log[h], e) : Append(log[h], e)[i] = x
    <3>1. \A x \in Demands(h, state[h]) : \E i \in DOMAIN log[h] : log[h][i] = x
      BY DEF StoryInv, Has
    <3> QED BY <3>1, <2>1, <2>2, AcceptedDemands
  <2> QED BY <2>1, <2>2, <2>3 DEF StoryInv, Has
<1>2. ASSUME NEW h \in Handoffs, NEW events \in Seq(Events), ReplayHandoff(h, events)
      PROVE  StoryInv'
  <2>1. log' = [log EXCEPT ![h] = events] /\ state' = [state EXCEPT ![h] = Replay(h, events)]
    BY <1>2 DEF ReplayHandoff
  <2> QED BY <2>1, ReplayStory DEF StoryInv, Has
<1>3. ASSUME NEW h \in Handoffs, InvalidateEvent(h) PROVE StoryInv'
  <2>1. PICK i \in DOMAIN log[h] :
          ReplayHandoff(h, [k \in 1 .. Len(log[h]) - 1 |-> log[h][IF k < i THEN k ELSE k + 1]])
    BY <1>3 DEF InvalidateEvent
  <2>2. log[h] \in Seq(Events)
    BY DEF StoryInv
  <2>3. [k \in 1 .. Len(log[h]) - 1 |-> log[h][IF k < i THEN k ELSE k + 1]] \in Seq(Events)
    BY <2>2
  <2> QED BY <2>1, <2>3, <1>2
<1>4. ASSUME NEW h \in Handoffs, ReopenHandoff(h) PROVE StoryInv'
  <2>1. << >> \in Seq(Events)
    OBVIOUS
  <2> QED BY <2>1, <1>4, <1>2 DEF ReopenHandoff
<1>5. CASE UNCHANGED <<state, log>>
  BY <1>5 DEF StoryInv, Has
<1> QED BY <1>1, <1>3, <1>4, <1>5
        DEF Next, RunStep, UpdateWatch, Start, ReadWatches, ReadEvents, SendReminder,
            MarkReminder, Crash, Tick, vars

\* The templates make every handoff a required one, and have it depend on others
\* of the template (collaboration_template.go).
RequiredIsClosed == \A h \in Required : DependsOn[h] \subseteq Required

\* A workflow that is blocked, by what its handoffs wait for or by a reminder, has
\* blocked work that says why, or work on offer that completed work depends on
\* (WorkflowStatus, BlockedWork, NextWork).
THEOREM BlockedHasAReason ==
  ASSUME RequiredIsClosed
  PROVE  Spec => []BlockedIsExplained
<1>1. StoryInv => BlockedIsExplained
  <2> SUFFICES ASSUME StoryInv, WorkflowStatus = "blocked"
               PROVE  \/ BlockedWork \cap Required # {}
                      \/ NextWork # {} /\ \E h \in Required : state[h] = "completed" /\ Waits(h)
    BY DEF BlockedIsExplained
  <2>1. Required \subseteq Handoffs
    BY WatchdogAssumption
  <2>2. \A h \in Required : state[h] # "failed"
    BY DEF WorkflowStatus, ProjectWorkflow
  <2>3. \A h \in Required : state[h] \in Ended => state[h] = "completed"
    BY <2>2 DEF Ended
  <2>4. ASSUME NEW h \in Required, state[h] \notin Ended, Reasons(h) # {}
        PROVE  h \in BlockedWork \cap Required
    BY <2>1, <2>4 DEF BlockedWork
  <2>5. CASE \E h \in Required : Waits(h)
    <3>0. PICK h \in Required : Waits(h)
      BY <2>5
    <3>1. PICK d \in DependsOn[h] : state[d] # "completed"
      BY <3>0 DEF Waits
    <3>2. CASE state[h] \notin Ended
      BY <3>1, <3>2, <2>4 DEF Reasons
    <3>3. CASE state[h] = "completed"
      <4>1. d \in Required /\ d \in Handoffs /\ state[d] \notin Ended
        BY <3>1, <2>1, <2>3 DEF RequiredIsClosed
      <4>2. CASE Reasons(d) # {}
        BY <4>1, <4>2, <2>4
      <4>3. CASE Reasons(d) = {}
        BY <4>1, <4>3, <3>1, <3>3 DEF NextWork, Waits
      <4> QED BY <4>2, <4>3
    <3> QED BY <3>2, <3>3, <2>3
  <2>6. CASE ~ \E h \in Required : Waits(h)
    <3>1. PICK h \in Required : \E e \in Watched(h) : Outstanding(h, e)
      BY <2>6 DEF WorkflowStatus, ProjectWorkflow
    <3>2. state[h] # "completed"
      BY <3>1, <2>1 DEF StoryInv, Demands, Outstanding
    <3>3. Reasons(h) # {}
      BY <3>1 DEF Reasons
    <3> QED BY <3>2, <3>3, <2>3, <2>4
  <2> QED BY <2>5, <2>6
<1> QED BY <1>1, InitStory, NextStory, PTL DEF Spec
=============================================================================
