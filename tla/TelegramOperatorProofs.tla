----------------------- MODULE TelegramOperatorProofs -----------------------
(***************************************************************************)
(* What the Telegram operator owes its users, for any number of updates,    *)
(* lives, failed requests and submissions and any size of a batch: nothing  *)
(* is forgotten unhandled, reports are not overwritten by older ones,       *)
(* answers are true, and a life acts on updates in their order.             *)
(***************************************************************************)
EXTENDS TelegramOperator, Integers, TLAPS

\* The types of all variables.
Types ==
  /\ updates \in Seq(Kinds) /\ Len(updates) <= MaxUpdates
  /\ confirmed \in 0 .. Len(updates)
  /\ op \in [at : {"down", "polling", "backoff", "working", "replying"}, offset : Nat,
             batch : Seq(Nat), dead : BOOLEAN, reply : {"none", "ok", "failed"}]
  /\ op.offset <= Len(updates) + 1
  /\ life \in Nat /\ stored \in Nat
  /\ work \in [round : Nat, waits : BOOLEAN]
  /\ handled \in [Ids -> Nat]
  /\ outcome \in [Ids -> {"none", "done", "refused", "error"}]
  /\ approvals \subseteq [update : Ids, round : Nat, life : Nat]
  /\ told \subseteq [update : Ids, said : {"none", "ok", "failed"}, life : Nat]

\* Handled, and if it is a stored report, not overwritten by an earlier one.
Settled(i) ==
  /\ handled[i] > 0
  /\ updates[i] = "report" /\ outcome[i] = "done" => stored >= i

Alive == op.at # "down" /\ ~ op.dead

\* What is left of a batch: consecutive updates, none of them confirmed.
Consecutive ==
  \A k \in 1 .. Len(op.batch) :
    /\ op.batch[k] \in 1 .. Len(updates)
    /\ op.batch[k] = op.batch[1] + k - 1

Past == \* nothing of this life is from the future
  /\ op.at # "down" => life > 0
  /\ \A i \in Ids : handled[i] <= life
  /\ \A a \in approvals : a.life <= life /\ a.update <= Len(updates)
  /\ \A t \in told : t.life <= life /\ t.update <= Len(updates)

Behind == \* what the offset, or the rest of the batch, has left behind is settled
  /\ \A i \in 1 .. confirmed : Settled(i)
  /\ Alive => \A i \in Ids : i < op.offset => Settled(i)
  /\ Alive /\ op.batch # <<>> =>
       /\ \A i \in Ids : i < op.batch[1] => Settled(i)
       /\ op.batch[1] > confirmed /\ op.batch[1] >= op.offset

Fresh == \* this life has not touched what is at or past the offset
  Alive =>
    /\ \A i \in Ids : handled[i] = life => i < op.offset
    /\ \A a \in approvals : a.life = life => a.update < op.offset
    /\ \A t \in told : t.life = life => t.update < op.offset

Approved(i, l) == \E a \in approvals : a.update = i /\ a.life = l

Answering == \* the answer there is for the update taken last
  Alive /\ op.at = "replying" =>
    /\ op.offset - 1 \in 1 .. Len(updates)
    /\ updates[op.offset - 1] = "approve" => ((op.reply = "ok") <=> Approved(op.offset - 1, life))

Inv == Consecutive /\ Past /\ Behind /\ Fresh /\ Answering /\ AnswersAreTrue

Resting == op.at \in {"down", "polling", "backoff"} => op.batch = <<>>

IInv == Types /\ Resting /\ Inv
----------------------------------------------------------------------------
\* Maxima, minima and batches

\* The larger of two numbers is one of them, and no smaller than either.
LEMMA MaxOfTwo ==
  ASSUME NEW a \in Int, NEW b \in Int
  PROVE  /\ Max({a, b}) \in {a, b}
         /\ Max({a, b}) >= a /\ Max({a, b}) >= b
  <1>1. \E m \in {a, b} : \A y \in {a, b} : m >= y
    <2>1. CASE a >= b
      BY <2>1
    <2>2. CASE b >= a
      BY <2>2
    <2>. QED
      BY <2>1, <2>2
  <1>2. Max({a, b}) \in {a, b} /\ \A y \in {a, b} : Max({a, b}) >= y
    BY <1>1, Zenon DEF Max
  <1>. QED
    BY <1>2

\* The smaller of two numbers is one of them, and no larger than either.
LEMMA MinOfTwo ==
  ASSUME NEW a \in Int, NEW b \in Int
  PROVE  /\ Min({a, b}) \in {a, b}
         /\ Min({a, b}) <= a /\ Min({a, b}) <= b
  <1>1. \E m \in {a, b} : \A y \in {a, b} : m =< y
    <2>1. CASE a =< b
      BY <2>1
    <2>2. CASE b =< a
      BY <2>2
    <2>. QED
      BY <2>1, <2>2
  <1>2. Min({a, b}) \in {a, b} /\ \A y \in {a, b} : Min({a, b}) =< y
    BY <1>1, Zenon DEF Min
  <1>. QED
    BY <1>2

\* What Telegram sends is consecutive and starts after what is confirmed.
LEMMA PendingFacts ==
  ASSUME Types, NEW o \in Nat, o <= Len(updates)
  PROVE  /\ Pending(o) \in Seq(Nat)
         /\ \A k \in 1 .. Len(Pending(o)) :
              /\ Pending(o)[k] \in 1 .. Len(updates)
              /\ Pending(o)[k] = Max({o, confirmed + 1}) - 1 + k
         /\ Max({o, confirmed + 1}) \in Nat
         /\ Max({o, confirmed + 1}) >= o /\ Max({o, confirmed + 1}) >= confirmed + 1
         /\ Max({o, confirmed + 1}) \in {o, confirmed + 1}
  <1>. DEFINE first == Max({o, confirmed + 1})
              n == Min({Limit, Len(updates) + 1 - first})
  <1>1. confirmed \in Nat /\ Len(updates) \in Nat /\ confirmed <= Len(updates) /\ Limit \in Nat
    BY OperatorAssumption DEF Types
  <1>2. first \in {o, confirmed + 1} /\ first >= o /\ first >= confirmed + 1
    <2>1. o \in Int /\ confirmed + 1 \in Int
      BY <1>1
    <2>. QED
      BY <2>1, MaxOfTwo, Zenon
  <1>3. n \in {Limit, Len(updates) + 1 - first} /\ n <= Len(updates) + 1 - first
    <2>1. Limit \in Int /\ Len(updates) + 1 - first \in Int
      BY <1>1, <1>2
    <2>. QED
      BY <2>1, MinOfTwo, Zenon
  <1>. HIDE DEF first, n
  <1>4. n \in Nat /\ first \in Nat /\ first + n <= Len(updates) + 1 /\ first >= 1
    BY <1>1, <1>2, <1>3
  <1>5. Pending(o) = [i \in 1 .. n |-> first - 1 + i]
    BY DEF Pending, first, n
  <1>6. \A i \in 1 .. n : first - 1 + i \in Nat
    BY <1>4
  <1>7. Pending(o) \in Seq(Nat) /\ Len(Pending(o)) = n
    BY <1>4, <1>5, <1>6
  <1>8. \A k \in 1 .. n : Pending(o)[k] = first - 1 + k /\ Pending(o)[k] \in 1 .. Len(updates)
    BY <1>1, <1>4, <1>5
  <1>. QED
    BY <1>2, <1>4, <1>7, <1>8 DEF first

\* What is left of a batch without its first update.
LEMMA TailFacts ==
  ASSUME NEW s \in Seq(Nat), s # <<>>
  PROVE  /\ Len(s) \in Nat \ {0} /\ Head(s) = s[1] /\ s[1] \in Nat
         /\ Tail(s) \in Seq(Nat) /\ Len(Tail(s)) = Len(s) - 1
         /\ \A k \in 1 .. Len(s) - 1 : Tail(s)[k] = s[k + 1]
  OBVIOUS

----------------------------------------------------------------------------
\* Steps

Record(at, offset, batch, dead, reply) ==
  [at |-> at, offset |-> offset, batch |-> batch, dead |-> dead, reply |-> reply]

Loop == [at : {"down", "polling", "backoff", "working", "replying"}, offset : Nat,
         batch : Seq(Nat), dead : BOOLEAN, reply : {"none", "ok", "failed"}]

\* The operator's record is well typed if its fields are.
LEMMA RecordType ==
  ASSUME NEW at \in {"down", "polling", "backoff", "working", "replying"}, NEW offset \in Nat,
         NEW batch \in Seq(Nat), NEW dead \in BOOLEAN, NEW reply \in {"none", "ok", "failed"}
  PROVE  Record(at, offset, batch, dead, reply) \in Loop
  BY DEF Record, Loop

\* The empty batch is a batch.
LEMMA EmptySeqNat == <<>> \in Seq(Nat)
  OBVIOUS

\* To take an update off the batch.
LEMMA OnwardStep ==
  ASSUME Types, Consecutive, op.at = "working", op.batch # <<>>,
         NEW r \in {"none", "ok", "failed"}, NEW id \in Nat, id = NextId, Onward(id, r)
  PROVE  /\ id = op.batch[1] /\ id \in 1 .. Len(updates) /\ id \in Ids
         /\ op'.offset \in {op.offset, id + 1} /\ op'.offset >= id + 1
         /\ op'.offset >= op.offset
         /\ op'.dead = op.dead /\ op'.reply = r
         /\ op'.at = IF r # "none" THEN "replying" ELSE "working"
         /\ op'.batch \in Seq(Nat)
         /\ op' = Record(op'.at, op'.offset, op'.batch, op'.dead, op'.reply)
         /\ op'.batch # <<>> => op'.batch[1] = id + 1
         /\ \A k \in 1 .. Len(op'.batch) :
              op'.batch[k] \in 1 .. Len(updates) /\ op'.batch[k] = op'.batch[1] + k - 1
  <1>1. op.batch \in Seq(Nat) /\ op.offset \in Nat /\ Len(updates) \in Nat
        /\ Len(updates) <= MaxUpdates /\ MaxUpdates \in Nat
    BY OperatorAssumption DEF Types
  <1>. DEFINE t == Tail(op.batch)
  <1>2. /\ Len(op.batch) \in Nat \ {0} /\ id = op.batch[1]
        /\ t \in Seq(Nat) /\ Len(t) = Len(op.batch) - 1
        /\ \A k \in 1 .. Len(op.batch) - 1 : t[k] = op.batch[k + 1]
    BY <1>1, TailFacts DEF NextId
  <1>3. id \in 1 .. Len(updates) /\ id \in Ids
    BY <1>1, <1>2 DEF Consecutive, Ids
  <1>4. Took(id) \in {op.offset, id + 1} /\ Took(id) >= id + 1
        /\ Took(id) >= op.offset
    <2>1. op.offset \in Int /\ id + 1 \in Int
      BY <1>1, <1>3
    <2>. QED
      BY <2>1, MaxOfTwo, Zenon DEF Took
  <1>5. op' = Record(IF r # "none" THEN "replying" ELSE "working", Took(id), t, op.dead, r)
    BY DEF Onward, Record, Types
  <1>. HIDE DEF t
  <1>6. /\ op'.at = (IF r # "none" THEN "replying" ELSE "working")
        /\ op'.offset = Took(id) /\ op'.batch = t /\ op'.dead = op.dead /\ op'.reply = r
    BY <1>5 DEF Record
  <1>7. op' = Record(op'.at, op'.offset, op'.batch, op'.dead, op'.reply)
    BY <1>5, <1>6
  <1>8. \A k \in 1 .. Len(t) : t[k] = op.batch[k + 1] /\ t[k] \in 1 .. Len(updates)
                               /\ t[k] = id + k
    <2>. SUFFICES ASSUME NEW k \in 1 .. Len(t)
                  PROVE  t[k] = op.batch[k + 1] /\ t[k] \in 1 .. Len(updates) /\ t[k] = id + k
      OBVIOUS
    <2>1. k + 1 \in 1 .. Len(op.batch) /\ k \in 1 .. Len(op.batch) - 1
      BY <1>2
    <2>2. op.batch[k + 1] \in 1 .. Len(updates) /\ op.batch[k + 1] = op.batch[1] + (k + 1) - 1
      BY <2>1 DEF Consecutive
    <2>. QED
      BY <1>2, <1>3, <2>1, <2>2
  <1>9. t # <<>> => t[1] = id + 1
    <2>1. ASSUME t # <<>> PROVE 1 \in 1 .. Len(t)
      BY <1>2, <2>1
    <2>. QED
      BY <1>3, <1>8, <2>1
  <1>10. \A k \in 1 .. Len(t) : t[k] = t[1] + k - 1
    <2>1. ASSUME NEW k \in 1 .. Len(t) PROVE t # <<>>
      BY <1>2, <2>1
    <2>. QED
      BY <1>3, <1>8, <1>9, <2>1
  <1>. QED
    BY <1>2, <1>3, <1>4, <1>6, <1>7, <1>8, <1>9, <1>10

\* Steps that leave the users' side and the history alone.
Frame == UNCHANGED <<updates, stored, work, approvals, handled, outcome, told>>

\* A process that is down owes nothing but the past.
LEMMA DownStep ==
  ASSUME IInv, op' = Down, Frame, UNCHANGED <<confirmed, life>>
  PROVE  IInv'
  <1>1. op' = Record("down", 0, <<>>, FALSE, "none")
    BY DEF Down, Record
  <1>2. op'.at = "down" /\ op'.batch = <<>> /\ op'.offset = 0
    BY <1>1 DEF Record
  <1>3. Types' /\ Resting'
    BY <1>1, <1>2 DEF IInv, Types, Resting, Frame, Record, Ids
  <1>4. Inv'
    BY <1>2 DEF IInv, Inv, Consecutive, Past, Behind, Fresh, Answering, AnswersAreTrue, Alive,
                Settled, Frame
  <1>. QED
    BY <1>3, <1>4 DEF IInv

\* A step of the loop that takes nothing off the batch and tells nobody anything.
LEMMA LoopStep ==
  ASSUME IInv, Frame, UNCHANGED <<confirmed, life>>,
         op' = Record(op'.at, op.offset, op'.batch, op'.dead, op'.reply),
         op'.at \in {"down", "polling", "backoff", "working", "replying"},
         op'.dead \in BOOLEAN, op.dead => op'.dead, op'.reply \in {"none", "ok", "failed"},
         op.at # "down", op'.at = "replying" => op.at = "replying" /\ op'.reply = op.reply,
         op'.batch = op.batch,
         op'.at \in {"down", "polling", "backoff"} => op.batch = <<>>
  PROVE  IInv'
  <1>1. op'.offset = op.offset
    BY DEF Record
  <1>2. Types' /\ Resting'
    BY <1>1 DEF IInv, Types, Resting, Frame, Record, Ids
  <1>3. Inv'
    BY <1>1 DEF IInv, Inv, Consecutive, Past, Behind, Fresh, Answering, AnswersAreTrue, Alive,
                Settled, Approved, Frame
  <1>. QED
    BY <1>2, <1>3 DEF IInv

\* An update is acted on: the heart of the matter.
LEMMA TakeStep ==
  ASSUME IInv, op.at = "working", op.batch # <<>>, ~ op.dead,
         NEW id \in Nat, id = NextId,
         NEW o \in {"none", "done", "refused", "error"}, Outcome(id, o),
         UNCHANGED <<updates, confirmed, life, told>>,
         \/ stored' = id
         \/ stored' = stored /\ (updates[id] = "report" => o # "done"),
         \/ /\ approvals' = approvals \cup {[update |-> id, round |-> work.round, life |-> life]}
            /\ o = "done"
         \/ approvals' = approvals /\ (updates[id] = "approve" => o # "done"),
         work' \in [round : Nat, waits : BOOLEAN]
  PROVE  IInv'
  <1>1. Reply[o] \in {"none", "ok", "failed"} /\ (Reply[o] = "ok" <=> o = "done")
    BY DEF Reply
  <1>2. Onward(id, Reply[o]) /\ Types /\ Consecutive
    BY DEF Outcome, IInv, Inv
  <1>3. /\ id = op.batch[1] /\ id \in 1 .. Len(updates) /\ id \in Ids
        /\ op'.offset \in {op.offset, id + 1} /\ op'.offset >= id + 1 /\ op'.offset >= op.offset
        /\ op'.dead = op.dead /\ op'.reply = Reply[o]
        /\ op'.at \in {"working", "replying"}
        /\ op'.batch \in Seq(Nat)
        /\ op' = Record(op'.at, op'.offset, op'.batch, op'.dead, op'.reply)
        /\ op'.batch # <<>> => op'.batch[1] = id + 1
        /\ \A k \in 1 .. Len(op'.batch) :
             op'.batch[k] \in 1 .. Len(updates) /\ op'.batch[k] = op'.batch[1] + k - 1
    BY <1>1, <1>2, OnwardStep
  <1>4. /\ Alive /\ Alive' /\ op.offset \in Nat /\ confirmed \in Nat /\ life \in Nat
        /\ id > confirmed /\ id >= op.offset /\ op'.offset = id + 1
    BY <1>3 DEF Alive, IInv, Inv, Behind, Types
  <1>5. /\ handled' = [handled EXCEPT ![id] = life] /\ outcome' = [outcome EXCEPT ![id] = o]
        /\ handled \in [Ids -> Nat] /\ outcome \in [Ids -> {"none", "done", "refused", "error"}]
    BY DEF Outcome, IInv, Types
  <1>6. life > 0
    BY <1>4 DEF IInv, Inv, Past, Alive
  <1>. DEFINE new == [update |-> id, round |-> work.round, life |-> life]
  <1>0. new \in [update : Ids, round : Nat, life : Nat] /\ new.update = id /\ new.life = life
    BY <1>3, <1>4 DEF IInv, Types
  <1>7. /\ stored' \in Nat
        /\ \/ approvals' = approvals \cup {new} /\ o = "done"
           \/ approvals' = approvals /\ (updates[id] = "approve" => o # "done")
    BY DEF IInv, Types
  <1>. HIDE DEF new
  <1>18. /\ approvals \subseteq approvals'
         /\ \A a \in approvals' : a \in approvals \/ (a.update = id /\ a.life = life)
         /\ approvals' \subseteq [update : Ids, round : Nat, life : Nat]
         /\ updates[id] = "approve" /\ o = "done" => new \in approvals'
    <2>1. approvals \subseteq [update : Ids, round : Nat, life : Nat]
      BY DEF IInv, Types
    <2>. QED
      BY <1>0, <1>7, <2>1
  <1>8. Types' /\ Resting' /\ Consecutive'
    <2>1. op' \in Loop
      <3>1. op'.offset \in Nat /\ op'.dead \in BOOLEAN /\ op'.reply \in {"none", "ok", "failed"}
        BY <1>1, <1>3, <1>4 DEF IInv, Types
      <3>2. op'.at \in {"down", "polling", "backoff", "working", "replying"}
        BY <1>3
      <3>3. op'.batch \in Seq(Nat)
        BY <1>3
      <3>4. Record(op'.at, op'.offset, op'.batch, op'.dead, op'.reply) \in Loop
        BY <3>1, <3>2, <3>3, RecordType
      <3>5. op' = Record(op'.at, op'.offset, op'.batch, op'.dead, op'.reply)
        BY <1>3
      <3>. QED
        BY <3>4, <3>5
    <2>2. op'.offset <= Len(updates') + 1
      BY <1>3, <1>4 DEF IInv, Types
    <2>3. handled' \in [Ids -> Nat] /\ outcome' \in [Ids -> {"none", "done", "refused", "error"}]
      BY <1>4, <1>5
    <2>4. Types'
      BY <1>7, <1>18, <2>1, <2>2, <2>3 DEF IInv, Types, Loop
    <2>. QED
      BY <1>3, <2>4 DEF Resting, Consecutive
  <1>9. Settled(id)'
    BY <1>3, <1>4, <1>5, <1>6 DEF Settled
  <1>10. ASSUME NEW i \in Ids, i < id, Settled(i) PROVE Settled(i)'
    <2>1. i \in Nat /\ handled'[i] = handled[i] /\ outcome'[i] = outcome[i] /\ updates' = updates
      BY <1>5, <1>10 DEF Ids
    <2>2. stored' = id \/ stored' = stored
      OBVIOUS
    <2>. QED
      BY <1>10, <2>1, <2>2 DEF Settled
  <1>11. \A i \in Ids : i < id => Settled(i)
    BY <1>3, <1>4 DEF IInv, Inv, Behind
  <1>12. confirmed <= Len(updates) /\ Len(updates) <= MaxUpdates /\ Len(updates) \in Nat
         /\ MaxUpdates \in Nat
    BY OperatorAssumption DEF IInv, Types
  <1>13. Behind'
    <2>1. \A i \in 1 .. confirmed' : Settled(i)'
      BY <1>4, <1>10, <1>11, <1>12 DEF Ids
    <2>2. \A i \in Ids : i < id + 1 => Settled(i)'
      BY <1>3, <1>9, <1>10, <1>11 DEF Ids
    <2>3. op'.batch # <<>> => op'.batch[1] > confirmed' /\ op'.batch[1] >= op'.offset
      BY <1>3, <1>4
    <2>. QED
      BY <1>3, <1>4, <2>1, <2>2, <2>3 DEF Behind
  <1>14. Past' /\ Fresh'
    <2>1. \A i \in Ids : handled'[i] <= life' /\ (handled'[i] = life' => i < op'.offset)
      BY <1>3, <1>4, <1>5 DEF IInv, Inv, Past, Fresh, Ids
    <2>2. \A a \in approvals' : /\ a.life <= life' /\ a.update <= Len(updates')
                                /\ a.life = life' => a.update < op'.offset
      <3>1. \A a \in approvals : /\ a.life <= life /\ a.update <= Len(updates) /\ a.update \in Int
                                 /\ a.life = life => a.update < op.offset
        BY <1>4 DEF IInv, Inv, Past, Fresh, Types, Ids
      <3>2. id <= Len(updates) /\ life <= life /\ id < op'.offset
        BY <1>3, <1>4
      <3>3. UNCHANGED <<updates, life>>
        OBVIOUS
      <3>. QED
        BY <1>4, <1>18, <3>1, <3>2, <3>3
    <2>3. \A t \in told' : /\ t.life <= life' /\ t.update <= Len(updates')
                           /\ t.life = life' => t.update < op'.offset
      BY <1>3, <1>4, <1>12 DEF IInv, Inv, Past, Fresh, Types, Ids
    <2>. QED
      BY <1>3, <1>6, <2>1, <2>2, <2>3 DEF Past, Fresh
  <1>15. \A a \in approvals : a.life = life => a.update < id
    <2>1. \A a \in approvals : a.update \in Int /\ (a.life = life => a.update < op.offset)
      BY <1>4 DEF IInv, Inv, Fresh, Types, Ids
    <2>. QED
      BY <1>4, <2>1
  <1>16. Answering'
    <2>1. op'.offset - 1 = id
      BY <1>3, <1>4
    <2>2. updates[id] = "approve" => (o = "done" <=> Approved(id, life)')
      <3>1. ASSUME approvals' = approvals PROVE ~ Approved(id, life)'
        BY <1>15, <3>1 DEF Approved
      <3>2. ASSUME new \in approvals' PROVE Approved(id, life)'
        BY <1>0, <3>2 DEF Approved
      <3>. QED
        BY <1>7, <1>18, <3>1, <3>2
    <2>. QED
      BY <1>1, <1>3, <2>1, <2>2 DEF Answering
  <1>17. AnswersAreTrue'
    <2>. SUFFICES ASSUME NEW t \in told, updates[t.update] = "approve"
                  PROVE  (t.said = "ok") <=> \E a \in approvals' : a.update = t.update /\ a.life = t.life
      BY DEF AnswersAreTrue
    <2>1. (t.said = "ok") <=> \E a \in approvals : a.update = t.update /\ a.life = t.life
      BY DEF AnswersAreTrue, IInv, Inv
    <2>2. ~ (t.update = id /\ t.life = life)
      <3>1. t.update \in Int
        BY DEF IInv, Types, Ids
      <3>2. t.life = life => t.update < op.offset
        BY <1>4 DEF IInv, Inv, Fresh
      <3>. QED
        BY <1>4, <3>1, <3>2
    <2>. QED
      BY <1>18, <2>1, <2>2
  <1>. QED
    BY <1>8, <1>13, <1>14, <1>16, <1>17 DEF IInv, Inv

\* The operator is down and has nothing in hand.
LEMMA InitInv == Init => IInv
  <1>. SUFFICES ASSUME Init PROVE IInv
    OBVIOUS
  <1>1. op = Record("down", 0, <<>>, FALSE, "none")
    BY DEF Init, Down, Record
  <1>2. /\ op.at = "down" /\ op.batch = <<>> /\ op.offset = 0
    BY <1>1 DEF Record
  <1>3. Types
    <2>1. op \in Loop
      BY <1>1, EmptySeqNat DEF Record, Loop
    <2>. QED
      BY <1>2, <2>1, OperatorAssumption DEF Init, Types, Loop, Ids, Kinds
  <1>. QED
    BY <1>2, <1>3 DEF Init, IInv, Resting, Inv, Consecutive, Past, Behind, Fresh, Answering,
                      AnswersAreTrue, Alive

\* Every step, and stuttering, keeps the invariant.
LEMMA NextInv == IInv /\ [Next]_vars => IInv'
  <1>. SUFFICES ASSUME IInv, [Next]_vars PROVE IInv'
    OBVIOUS
  <1>. USE DEF IInv
  <1>1. CASE UNCHANGED vars
    BY <1>1 DEF vars, Types, Resting, Inv, Consecutive, Past, Behind, Fresh, Answering,
                AnswersAreTrue, Alive, Settled, Approved
  <1>2. CASE Write
    <2>1. PICK k \in Kinds : updates' = Append(updates, k)
      BY <1>2 DEF Write
    <2>2. /\ Len(updates') = Len(updates) + 1 /\ updates' \in Seq(Kinds) /\ Len(updates) \in Nat
          /\ Len(updates') <= MaxUpdates
          /\ \A i \in 1 .. Len(updates) : updates'[i] = updates[i]
      BY <1>2, <2>1, OperatorAssumption DEF Write, Types
    <2>3. UNCHANGED <<confirmed, op, life, stored, work, approvals, handled, outcome, told>>
      BY <1>2 DEF Write
    <2>4. Types' /\ Resting'
      BY <2>2, <2>3 DEF Types, Resting, Ids
    <2>5. \A i \in 1 .. Len(updates) : Settled(i) => Settled(i)'
      BY <2>2, <2>3 DEF Settled
    <2>6. Behind'
      BY <2>2, <2>3, <2>5 DEF Inv, Types, Behind, Consecutive, Alive, Ids
    <2>7. Consecutive'
      BY <2>2, <2>3 DEF Inv, Consecutive
    <2>8. \A a \in approvals \cup told : a.update \in 1 .. Len(updates) /\ a.update <= Len(updates')
      BY <2>2 DEF Inv, Types, Past, Ids
    <2>9. Past' /\ Fresh'
      BY <2>3, <2>8 DEF Inv, Past, Fresh, Alive
    <2>10. Answering'
      BY <2>2, <2>3 DEF Inv, Answering, Approved, Alive
    <2>11. AnswersAreTrue'
      BY <2>2, <2>3, <2>8 DEF Inv, AnswersAreTrue
    <2>. QED
      BY <2>4, <2>6, <2>7, <2>9, <2>10, <2>11 DEF Inv
  <1>3. CASE Resubmit
    BY <1>3 DEF Resubmit, Types, Resting, Inv, Consecutive, Past, Behind, Fresh, Answering,
                AnswersAreTrue, Alive, Settled, Approved
  <1>4. CASE Start
    <2>1. op' = Record("polling", 0, <<>>, FALSE, "none") /\ op.at = "down"
      BY <1>4 DEF Start, Down, Record
    <2>2. op'.at = "polling" /\ op'.offset = 0 /\ op'.batch = <<>>
      BY <2>1 DEF Record
    <2>3. op' \in Loop
      BY <2>1, EmptySeqNat DEF Record, Loop
    <2>4. life' = life + 1
          /\ UNCHANGED <<updates, confirmed, stored, work, approvals, handled, outcome, told>>
      BY <1>4 DEF Start
    <2>5. Types' /\ Resting'
      BY <2>2, <2>3, <2>4 DEF Types, Resting, Loop, Ids
    <2>6. Consecutive' /\ Behind' /\ Answering' /\ AnswersAreTrue'
      BY <2>2, <2>4 DEF Inv, Types, Consecutive, Behind, Answering, AnswersAreTrue, Alive, Settled, Ids
    <2>7. Past' /\ Fresh'
      BY <2>2, <2>4 DEF Inv, Types, Past, Fresh, Alive, Ids
    <2>. QED
      BY <2>5, <2>6, <2>7 DEF Inv
  <1>5. CASE GetUpdates
    <2>. DEFINE o == op.offset
                first == Max({o, confirmed + 1})
    <2>1. /\ o \in Nat /\ o <= Len(updates) /\ confirmed \in Nat /\ op.at = "polling" /\ ~ op.dead
          /\ Len(updates) \in Nat /\ op.batch = <<>>
      BY <1>5 DEF GetUpdates, Types, Resting
    <2>2. confirmed' \in Nat /\ confirmed' \in {confirmed, o - 1} /\ confirmed' >= confirmed
      <3>1. ASSUME o > 0
            PROVE  Max({confirmed, o - 1}) \in {confirmed, o - 1} /\ Max({confirmed, o - 1}) >= confirmed
        <4>1. confirmed \in Int /\ o - 1 \in Int
          BY <2>1
        <4>. QED
          BY <4>1, MaxOfTwo, Zenon
      <3>. QED
        BY <1>5, <2>1, <3>1 DEF GetUpdates
    <2>3. UNCHANGED <<updates, life, stored, work, approvals, handled, outcome, told>>
      BY <1>5 DEF GetUpdates
    <2>4. \A i \in 1 .. confirmed' : Settled(i)'
      <3>1. ASSUME NEW i \in Int, Settled(i) PROVE Settled(i)'
        BY <2>3, <3>1 DEF Settled
      <3>2. \A i \in 1 .. confirmed : Settled(i)
        BY DEF Inv, Behind
      <3>3. \A i \in 1 .. o - 1 : i \in Ids /\ i < o
        BY <2>1, OperatorAssumption DEF Types, Ids
      <3>4. \A i \in 1 .. o - 1 : Settled(i)
        BY <2>1, <3>3 DEF Inv, Behind, Alive
      <3>. QED
        BY <2>2, <3>1, <3>2, <3>4
    <2>5. ASSUME op'.offset = o PROVE Past' /\ Fresh' /\ AnswersAreTrue'
      BY <2>1, <2>3, <2>5 DEF Inv, Past, Fresh, AnswersAreTrue, Alive
    <2>6. CASE op' = [op EXCEPT !.at = "backoff"]
      <3>1. op' = Record("backoff", o, <<>>, op.dead, op.reply)
        BY <2>1, <2>6 DEF Types, Record
      <3>2. op'.at = "backoff" /\ op'.offset = o /\ op'.batch = <<>> /\ op'.dead = op.dead
        BY <3>1 DEF Record
      <3>3. op' \in Loop
        BY <2>1, <2>6 DEF Types, Loop
      <3>4. Types' /\ Resting'
        BY <2>1, <2>2, <2>3, <3>2, <3>3 DEF Types, Resting, Loop, Ids
      <3>5. Consecutive' /\ Answering'
        BY <3>2 DEF Consecutive, Answering
      <3>6. Behind'
        BY <2>1, <2>3, <2>4, <3>2 DEF Inv, Behind, Alive, Settled
      <3>. QED
        BY <2>5, <3>2, <3>4, <3>5, <3>6 DEF Inv
    <2>7. CASE op' = [op EXCEPT !.at = "working", !.batch = Pending(o)]
      <3>. DEFINE b == Pending(o)
      <3>1. /\ b \in Seq(Nat) /\ first \in Nat /\ first >= o /\ first >= confirmed + 1
            /\ first \in {o, confirmed + 1}
            /\ \A k \in 1 .. Len(b) : b[k] \in 1 .. Len(updates) /\ b[k] = first - 1 + k
        BY <2>1, PendingFacts
      <3>. HIDE DEF b, first
      <3>2. op' = Record("working", o, b, op.dead, op.reply)
        BY <2>1, <2>7 DEF Types, Record, b
      <3>3. op'.at = "working" /\ op'.offset = o /\ op'.batch = b /\ op'.dead = op.dead
        BY <3>2 DEF Record
      <3>4. op' \in Loop
        <4>1. op.dead \in BOOLEAN /\ op.reply \in {"none", "ok", "failed"}
          BY DEF Types
        <4>. QED
          BY <2>1, <3>1, <3>2, <4>1, RecordType
      <3>5. Types' /\ Resting'
        BY <2>1, <2>2, <2>3, <3>3, <3>4 DEF Types, Resting, Loop, Ids
      <3>6. b # <<>> => b[1] = first
        <4>1. ASSUME b # <<>> PROVE 1 \in 1 .. Len(b)
          BY <3>1, <4>1
        <4>. QED
          BY <3>1, <4>1
      <3>7. Consecutive'
        <4>1. ASSUME NEW k \in 1 .. Len(b) PROVE b # <<>>
          BY <3>1, <4>1
        <4>. QED
          BY <2>3, <3>1, <3>3, <3>6, <4>1 DEF Consecutive
      <3>8. Behind'
        <4>1. \A i \in Ids : i < first => Settled(i)'
          BY <2>1, <2>3, <3>1 DEF Inv, Behind, Alive, Settled, Ids
        <4>2. \A i \in Ids : i < o => Settled(i)'
          BY <2>1, <2>3 DEF Inv, Behind, Alive, Settled, Ids
        <4>3. first > confirmed'
          BY <2>1, <2>2, <3>1
        <4>. QED
          BY <2>4, <3>1, <3>3, <3>6, <4>1, <4>2, <4>3 DEF Behind
      <3>. QED
        BY <2>5, <3>3, <3>5, <3>7, <3>8 DEF Inv, Answering
    <2>. QED
      BY <1>5, <2>6, <2>7 DEF GetUpdates
  <1>6. CASE EmptyPoll
    <2>1. /\ op.offset \in Nat /\ confirmed \in Nat /\ op.at = "polling" /\ ~ op.dead
          /\ op.offset <= Len(updates) + 1 /\ Len(updates) \in Nat /\ op.offset > confirmed + 1
          /\ op.batch = <<>> /\ Len(updates) <= MaxUpdates /\ MaxUpdates \in Nat
      BY <1>6, OperatorAssumption DEF EmptyPoll, Types, Resting
    <2>2. confirmed' = op.offset - 1
          /\ UNCHANGED <<updates, op, life, stored, work, approvals, handled, outcome, told>>
      BY <1>6 DEF EmptyPoll
    <2>3. Types' /\ Resting'
      <3>1. confirmed' \in 0 .. Len(updates)
        BY <2>1, <2>2
      <3>. QED
        BY <2>2, <3>1 DEF Types, Resting
    <2>4. Behind'
      BY <2>1, <2>2 DEF Inv, Behind, Alive, Settled, Ids
    <2>5. Consecutive' /\ Past' /\ Fresh' /\ Answering' /\ AnswersAreTrue'
      BY <2>2 DEF Inv, Consecutive, Past, Fresh, Answering, AnswersAreTrue, Alive, Approved
    <2>. QED
      BY <2>3, <2>4, <2>5 DEF Inv
  <1>7. CASE EndBackoff \/ EndBatch \/ Terminate
    <2>1. Frame /\ UNCHANGED <<confirmed, life>> /\ op.at # "down"
      BY <1>7 DEF EndBackoff, EndBatch, Terminate, Frame
    <2>2. \E at \in {"polling", op.at}, dead \in BOOLEAN :
            /\ op' = Record(at, op.offset, op.batch, dead, op.reply)
            /\ op.dead => dead
            /\ at # op.at => at = "polling" /\ op.batch = <<>>
      <3>1. op = Record(op.at, op.offset, op.batch, op.dead, op.reply) /\ op.dead \in BOOLEAN
        BY DEF Types, Record
      <3>2. CASE EndBackoff \/ EndBatch
        <4>1. op' = Record("polling", op.offset, op.batch, op.dead, op.reply) /\ op.batch = <<>>
          BY <3>1, <3>2 DEF EndBackoff, EndBatch, Types, Record, Resting
        <4>. QED
          BY <3>1, <4>1
      <3>3. CASE Terminate
        <4>1. op' = Record(op.at, op.offset, op.batch, TRUE, op.reply)
          BY <3>1, <3>3 DEF Terminate, Types, Record
        <4>. QED
          BY <3>1, <4>1
      <3>. QED
        BY <1>7, <3>2, <3>3
    <2>3. PICK at \in {"polling", op.at}, dead \in BOOLEAN :
            /\ op' = Record(at, op.offset, op.batch, dead, op.reply)
            /\ op.dead => dead
            /\ at # op.at => at = "polling" /\ op.batch = <<>>
      BY <2>2
    <2>4. op'.at = at /\ op'.batch = op.batch /\ op'.dead = dead /\ op'.reply = op.reply
      BY <2>3 DEF Record
    <2>5. /\ at \in {"down", "polling", "backoff", "working", "replying"}
          /\ op.reply \in {"none", "ok", "failed"}
          /\ at \in {"down", "polling", "backoff"} => op.batch = <<>>
      BY <2>3 DEF Types, Resting
    <2>. QED
      BY <2>1, <2>3, <2>4, <2>5, LoopStep
  <1>8. CASE Crash
    BY <1>8, DownStep DEF Crash, Frame
  <1>9. CASE WindDown
    <2>1. Frame /\ UNCHANGED <<confirmed, life>> /\ op.dead
      BY <1>9 DEF WindDown, Frame
    <2>2. CASE op.at = "working" /\ op.batch # <<>> /\ Onward(NextId, "failed")
      <3>1. NextId \in Nat
        BY <2>2, TailFacts DEF NextId, Types
      <3>2. PICK id \in Nat : id = NextId
        BY <3>1
      <3>3. /\ id \in 1 .. Len(updates) /\ op'.offset \in {op.offset, id + 1}
            /\ op'.dead = op.dead /\ op'.reply = "failed" /\ op'.at = "replying"
            /\ op'.batch \in Seq(Nat)
            /\ op' = Record(op'.at, op'.offset, op'.batch, op'.dead, op'.reply)
            /\ \A k \in 1 .. Len(op'.batch) :
                 op'.batch[k] \in 1 .. Len(updates) /\ op'.batch[k] = op'.batch[1] + k - 1
        BY <2>2, <3>2, OnwardStep DEF Inv
      <3>4. op'.offset \in Nat /\ op'.offset <= Len(updates) + 1 /\ op.dead \in BOOLEAN
        BY <3>3 DEF Types
      <3>5. op' \in Loop
        BY <3>3, <3>4 DEF Record, Loop
      <3>6. Types' /\ Resting' /\ Consecutive'
        BY <2>1, <3>3, <3>4, <3>5 DEF Types, Resting, Consecutive, Loop, Frame, Ids
      <3>7. ~ Alive' /\ op.at # "down"
        BY <2>1, <2>2, <3>3 DEF Alive
      <3>8. Past' /\ AnswersAreTrue'
        BY <2>1, <3>7 DEF Inv, Past, AnswersAreTrue, Frame
      <3>9. Behind' /\ Fresh' /\ Answering'
        BY <2>1, <3>7 DEF Inv, Behind, Fresh, Answering, Settled, Frame
      <3>. QED
        BY <3>6, <3>8, <3>9 DEF Inv
    <2>. QED
      BY <1>9, <2>1, <2>2, DownStep DEF WindDown
  <1>10. CASE ProcessUpdate
    <2>1. /\ op.at = "working" /\ op.batch # <<>> /\ ~ op.dead
          /\ UNCHANGED <<updates, confirmed, life, told>>
      BY <1>10 DEF ProcessUpdate
    <2>2. NextId \in Nat
      BY <2>1, TailFacts DEF NextId, Types
    <2>3. PICK id \in Nat : id = NextId
      BY <2>2
    <2>4. CASE updates[id] = "report" /\ SaveExecutionResult(id) /\ Outcome(id, "done")
               /\ UNCHANGED <<work, approvals>>
      BY <2>1, <2>3, <2>4, TakeStep DEF SaveExecutionResult, Types
    <2>5. CASE /\ updates[id] = "approve" /\ UNCHANGED stored
               /\ \/ work.waits /\ Approve(id) /\ Outcome(id, "done")
                  \/ ~ work.waits /\ Outcome(id, "refused") /\ UNCHANGED <<work, approvals>>
      <3>1. CASE work.waits /\ Approve(id) /\ Outcome(id, "done")
        <4>1. work' \in [round : Nat, waits : BOOLEAN]
          BY <3>1 DEF Approve, Types
        <4>. QED
          BY <2>1, <2>3, <2>5, <3>1, <4>1, TakeStep DEF Approve
      <3>2. CASE ~ work.waits /\ Outcome(id, "refused") /\ UNCHANGED <<work, approvals>>
        BY <2>1, <2>3, <2>5, <3>2, TakeStep DEF Types
      <3>. QED
        BY <2>5, <3>1, <3>2
    <2>6. CASE updates[id] = "ask" /\ Outcome(id, "done") /\ UNCHANGED <<stored, work, approvals>>
      BY <2>1, <2>3, <2>6, TakeStep DEF Types
    <2>7. CASE updates[id] = "ignored" /\ Outcome(id, "none") /\ UNCHANGED <<stored, work, approvals>>
      BY <2>1, <2>3, <2>7, TakeStep DEF Types
    <2>. QED
      BY <1>10, <2>3, <2>4, <2>5, <2>6, <2>7 DEF ProcessUpdate
  <1>11. CASE ActFails
    <2>1. /\ op.at = "working" /\ op.batch # <<>> /\ ~ op.dead /\ Outcome(NextId, "error")
          /\ UNCHANGED <<updates, confirmed, life, stored, work, approvals, told>>
      BY <1>11 DEF ActFails
    <2>2. NextId \in Nat
      BY <2>1, TailFacts DEF NextId, Types
    <2>3. PICK id \in Nat : id = NextId
      BY <2>2
    <2>. QED
      BY <2>1, <2>3, TakeStep DEF Types
  <1>12. CASE SendReply
    <2>1. /\ UNCHANGED <<updates, confirmed, life, stored, work, approvals, handled, outcome>>
          /\ op.at = "replying"
      BY <1>12 DEF SendReply
    <2>2. op' = Record("working", op.offset, op.batch, op.dead, "none")
      BY <1>12 DEF SendReply, Types, Record
    <2>3. op'.at = "working" /\ op'.offset = op.offset /\ op'.batch = op.batch /\ op'.dead = op.dead
      BY <2>2 DEF Record
    <2>4. op' \in Loop
      <3>1. op.offset \in Nat /\ op.batch \in Seq(Nat) /\ op.dead \in BOOLEAN
        BY DEF Types
      <3>. QED
        BY <2>2, <3>1 DEF Record, Loop
    <2>5. Consecutive' /\ Behind' /\ Answering'
      BY <2>1, <2>3 DEF Inv, Consecutive, Behind, Answering, Alive, Settled
    <2>6. CASE told' = told
      <3>1. Types' /\ Resting'
        BY <2>1, <2>3, <2>4, <2>6 DEF Types, Resting, Loop
      <3>. QED
        BY <2>1, <2>3, <2>5, <2>6, <3>1 DEF Inv, Past, Fresh, AnswersAreTrue, Alive
    <2>7. CASE ~ op.dead /\ told' = told \cup
                              {[update |-> op.offset - 1, said |-> op.reply, life |-> life]}
      <3>. DEFINE new == [update |-> op.offset - 1, said |-> op.reply, life |-> life]
      <3>1. /\ op.offset - 1 \in 1 .. Len(updates) /\ op.offset \in Nat /\ life \in Nat
            /\ updates[op.offset - 1] = "approve" =>
                 ((op.reply = "ok") <=> Approved(op.offset - 1, life))
        BY <2>1, <2>7 DEF Inv, Answering, Alive, Types
      <3>2. /\ new \in [update : Ids, said : {"none", "ok", "failed"}, life : Nat]
            /\ new.update = op.offset - 1 /\ new.life = life /\ new.said = op.reply
        BY <3>1, OperatorAssumption DEF Types, Ids
      <3>3. told' = told \cup {new}
        BY <2>7
      <3>. HIDE DEF new
      <3>4. Types' /\ Resting'
        BY <2>1, <2>3, <2>4, <3>2, <3>3 DEF Types, Resting, Loop
      <3>5. Past' /\ Fresh'
        BY <2>1, <2>3, <3>1, <3>2, <3>3 DEF Inv, Past, Fresh, Alive
      <3>6. AnswersAreTrue'
        BY <2>1, <3>1, <3>2, <3>3 DEF Inv, AnswersAreTrue, Approved
      <3>. QED
        BY <2>5, <3>4, <3>5, <3>6 DEF Inv
    <2>. QED
      BY <1>12, <2>6, <2>7 DEF SendReply
  <1>. QED
    BY <1>1, <1>2, <1>3, <1>4, <1>5, <1>6, <1>7, <1>8, <1>9, <1>10, <1>11, <1>12 DEF Next, Run

\* The invariant holds in every reachable state.
LEMMA InvAlways == Spec => []IInv
  <1>. QED
    BY InitInv, NextInv, PTL DEF Spec

----------------------------------------------------------------------------
\* Theorems

(* Telegram is never told to forget an update the operator has not dealt    *)
(* with: runOperatorLoop sends an offset only when everything below it is    *)
(* behind it, in whatever life, and a shutdown fetches nothing any more.     *)
THEOREM NothingForgotten == Spec => []ConfirmedIsHandled
  <1>1. IInv => ConfirmedIsHandled
    BY DEF IInv, Inv, Behind, Settled, ConfirmedIsHandled
  <1>. QED
    BY <1>1, InvAlways, PTL

(* Of the reports Telegram has forgotten, SaveExecutionResult leaves the     *)
(* latest or a later one in the store, although a batch may be repeated.     *)
THEOREM ReportsStand == Spec => []LatestReportStands
  <1>1. IInv => LatestReportStands
    BY DEF IInv, Inv, Behind, Settled, LatestReportStands
  <1>. QED
    BY <1>1, InvAlways, PTL

(* A user is told that an approval was carried out exactly if it was, in     *)
(* the life that answers (handleCommand).                                    *)
THEOREM Truthful == Spec => []AnswersAreTrue
  <1>1. IInv => AnswersAreTrue
    BY DEF IInv, Inv
  <1>. QED
    BY <1>1, InvAlways, PTL

(* Within a life no update is acted on again, or after a later one: the      *)
(* offset of runOperatorLoop runs ahead of what is handled.                  *)
THEOREM OrderKept == Spec => InOrder
  <1>. DEFINE Step == \A i \in Ids : handled'[i] # handled[i] \/ outcome'[i] # outcome[i] =>
                        \A j \in Ids : j >= i => handled[j] # life
  <1>1. ASSUME IInv, NEW o, op.at = "working", op.batch # <<>>, ~ op.dead, Outcome(NextId, o)
        PROVE  Step
    <2>1. Alive /\ NextId = op.batch[1] /\ NextId >= op.offset /\ op.offset \in Nat /\ NextId \in Nat
      BY <1>1, TailFacts DEF IInv, Inv, Types, Behind, Alive, NextId
    <2>2. \A i \in Ids : handled'[i] # handled[i] \/ outcome'[i] # outcome[i] => i = NextId
      BY <1>1 DEF Outcome, IInv, Types
    <2>3. \A j \in Ids : j >= NextId => handled[j] # life
      <3>1. \A j \in Ids : handled[j] = life => j < op.offset
        BY <1>1, <2>1 DEF IInv, Inv, Fresh
      <3>2. \A j \in Ids : j \in Int
        BY DEF Ids
      <3>. QED
        BY <2>1, <3>1, <3>2
    <2>. QED
      BY <2>2, <2>3
  <1>2. ASSUME UNCHANGED <<handled, outcome>> PROVE Step
    BY <1>2
  <1>. HIDE DEF Step
  <1>3. IInv /\ [Next]_vars => [Step]_vars
    <2>. SUFFICES ASSUME IInv, Next PROVE Step
      OBVIOUS
    <2>1. CASE ProcessUpdate
      BY <1>1, <2>1 DEF ProcessUpdate
    <2>2. CASE ActFails
      BY <1>1, <2>2 DEF ActFails
    <2>3. CASE ~ ProcessUpdate /\ ~ ActFails
      BY <1>2, <2>3 DEF Next, Run, Write, Resubmit, Start, GetUpdates, EmptyPoll, EndBackoff,
                        SendReply, EndBatch, WindDown, Terminate, Crash
    <2>. QED
      BY <2>1, <2>2, <2>3
  <1>4. Spec => [][Step]_vars
    BY <1>3, InvAlways, PTL DEF Spec
  <1>. QED
    BY <1>4, PTL DEF InOrder, Step
=============================================================================
