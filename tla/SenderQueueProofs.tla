------------------------- MODULE SenderQueueProofs -------------------------
(***************************************************************************)
(* What holds of SenderQueue for every number of processes, callers, jobs, *)
(* leases and delays: its types; what is decided, what is called sent,     *)
(* whose job a caller is given, and who may be sending it; and, as long as *)
(* workers keep within their leases, how often a message may be sent and   *)
(* that the service implements DeliveryLedger.                             *)
(***************************************************************************)
EXTENDS SenderQueue, TLAPS

----------------------------------------------------------------------------
\* Types

\* Some request always fills a row or a caller that has none yet.
LEMMA SomeRequest == (CHOOSE r \in Requests : TRUE) \in Requests
  <1>1. PICK x \in Payloads : TRUE
    BY SenderAssumption
  <1>2. [key |-> NoKey, payload |-> x] \in Requests
    BY DEF Requests
  <1>. QED
    BY <1>2, Zenon

\* retryDelay answers with a number of ticks for every attempt that was made.
LEMMA RetryDelayType ==
  ASSUME NEW n \in Nat \ {0}, NEW ra \in RetryAfters
  PROVE  RetryDelay(n, ra) \in Nat
  <1>1. Len(Backoff) \in Nat \ {0} /\ DOMAIN Backoff = 1 .. Len(Backoff)
    BY SenderAssumption
  <1>2. \A i \in DOMAIN Backoff : Backoff[i] \in Nat
    BY SenderAssumption
  <1>. QED
    BY <1>1, <1>2, SenderAssumption DEF RetryDelay

\* An empty table and idle instances are well typed.
LEMMA InitTypeOK == Init => TypeOK
  <1>. SUFFICES ASSUME Init PROVE TypeOK
    OBVIOUS
  <1>. DEFINE someReq == CHOOSE r \in Requests : TRUE
  <1>1. someReq \in Requests
    BY SomeRequest
  <1>. HIDE DEF someReq
  <1>2. /\ row = [j \in JobIds |-> someReq]
        /\ call = [c \in Clients |-> [at |-> "idle", req |-> someReq]]
    BY DEF Init, Idle, someReq
  <1>. QED
    BY <1>1, <1>2, SenderAssumption
    DEF Init, TypeOK, Statuses, Busy, NoClaim, NoAnswer

\* A client at rest is well typed.
LEMMA IdleType == Idle \in [at : {"idle", "lookup", "insert"}, req : Requests]
  BY SomeRequest, Zenon DEF Idle

\* What the steps need to know of the constants.
LEMMA ConstantTypes ==
  /\ NoOne \notin JobIds /\ NoOne \notin Instances
  /\ MaxJobs \in Nat /\ LeaseTicks \in Nat /\ MaxAge \in Nat /\ MaxFaults \in Nat
  /\ 0 \in RetryAfters /\ Configs \subseteq SUBSET Payloads
  BY SenderAssumption

\* What Max0 gives is a natural number.
LEMMA Max0Type == \A n \in Int : Max0(n) \in Nat
  BY DEF Max0

Calls == [at : {"idle", "lookup", "insert"}, req : Requests]

\* The row a key is held by is a row of the table.
LEMMA KeyHoldersType ==
  ASSUME TypeOK, NEW k, NEW j \in KeyHolders(k)
  PROVE  j \in JobIds /\ j <= jobCount
  BY ConstantTypes DEF TypeOK, KeyHolders, JobIds

\* An answered client is idle again, and what was accepted is a request and a row.
LEMMA AnswerType ==
  ASSUME TypeOK, NEW c \in Clients, NEW r \in Requests, NEW j \in JobIds,
         NEW held \in Requests, Answer(c, r, j, held)
  PROVE  call' \in [Clients -> Calls] /\ accepted' \subseteq Requests \X JobIds
  <1>1. call' \in [Clients -> Calls]
    BY IdleType DEF TypeOK, Answer, Calls
  <1>2. <<r, j>> \in Requests \X JobIds
    OBVIOUS
  <1>3. accepted' = accepted \/ accepted' = accepted \cup {<<r, j>>}
    BY DEF Answer
  <1>. QED
    BY <1>1, <1>2, <1>3 DEF TypeOK

RowTypes ==
  /\ status   \in [JobIds -> Statuses]
  /\ attempts \in [JobIds -> Nat]
  /\ retryIn  \in [JobIds -> Nat]
  /\ leaseIn  \in [JobIds -> Nat]

\* A settlement writes a row of the right types.
LEMMA MarkTypes ==
  ASSUME RowTypes, NEW j \in JobIds, NEW n \in Nat, NEW d \in Nat,
         \/ UNCHANGED <<status, attempts, retryIn, leaseIn>>
         \/ MarkSent(j, n) \/ MarkFailed(j, n) \/ MarkRetry(j, n, d)
  PROVE  RowTypes'
  <1>1. CASE UNCHANGED <<status, attempts, retryIn, leaseIn>>
    BY <1>1 DEF RowTypes
  <1>2. CASE MarkSent(j, n)
    BY <1>2 DEF RowTypes, MarkSent, MarkDone, Statuses
  <1>3. CASE MarkFailed(j, n)
    BY <1>3 DEF RowTypes, MarkFailed, MarkDone, Statuses
  <1>4. CASE MarkRetry(j, n, d)
    BY <1>4 DEF RowTypes, MarkRetry, Statuses
  <1>. QED
    BY <1>1, <1>2, <1>3, <1>4

----------------------------------------------------------------------------
\* Type correctness: one step per action.
LEMMA NextTypeOK == TypeOK /\ [Next]_vars => TypeOK'
  <1>. SUFFICES ASSUME TypeOK, [Next]_vars PROVE TypeOK'
    OBVIOUS
  <1>. USE ConstantTypes DEF TypeOK, Busy, NoClaim, NoAnswer
  <1>1. ASSUME NEW c \in Clients, NEW r \in Requests, BeginSubmit(c, r) PROVE TypeOK'
    BY <1>1 DEF BeginSubmit, jobVars, procVars, histVars
  <1>2. ASSUME NEW c \in Clients, LookupKey(c) PROVE TypeOK'
    <2>1. call[c].req \in Requests
      OBVIOUS
    <2>2. CASE call' = [call EXCEPT ![c].at = "insert"] /\ UNCHANGED accepted
      BY <1>2, <2>2 DEF LookupKey, jobVars, procVars
    <2>3. CASE \E j \in KeyHolders(call[c].req.key) : Answer(c, call[c].req, j, row[j])
      <3>1. /\ call' \in [Clients -> Calls]
            /\ accepted' \subseteq Requests \X JobIds
        BY <2>1, <2>3, KeyHoldersType, AnswerType
      <3>. QED
        BY <1>2, <3>1 DEF LookupKey, jobVars, procVars, Calls
    <2>. QED
      BY <1>2, <2>2, <2>3 DEF LookupKey
  <1>3. ASSUME NEW c \in Clients, Enqueue(c) PROVE TypeOK'
    <2>1. call[c].req \in Requests
      OBVIOUS
    <2>2. CASE InsertRow(c)
      <3>1. jobCount + 1 \in JobIds
        BY <2>2 DEF InsertRow, JobIds
      <3>2. /\ call' \in [Clients -> Calls]
            /\ accepted' \subseteq Requests \X JobIds
        BY <2>1, <2>2, <3>1, AnswerType DEF InsertRow
      <3>3. /\ jobCount' \in 0 .. MaxJobs
            /\ row' \in [JobIds -> Requests]
            /\ status' \in [JobIds -> Statuses]
        BY <2>1, <2>2, <3>1 DEF InsertRow, Statuses
      <3>. QED
        BY <1>3, <2>2, <3>2, <3>3 DEF Enqueue, InsertRow, procVars, Calls
    <2>3. CASE /\ \E j \in KeyHolders(call[c].req.key) : Answer(c, call[c].req, j, row[j])
               /\ UNCHANGED jobVars
      <3>1. /\ call' \in [Clients -> Calls]
            /\ accepted' \subseteq Requests \X JobIds
        BY <2>1, <2>3, KeyHoldersType, AnswerType
      <3>. QED
        BY <1>3, <2>3, <3>1 DEF Enqueue, jobVars, procVars, Calls
    <2>. QED
      BY <1>3, <2>2, <2>3 DEF Enqueue
  <1>4. ASSUME NEW p \in Instances, Start(p) PROVE TypeOK'
    BY <1>4 DEF Start, jobVars, histVars
  <1>5. ASSUME NEW p \in Instances, RecoverExpiredSendingJobs(p) PROVE TypeOK'
    BY <1>5 DEF RecoverExpiredSendingJobs, Statuses
  <1>6. ASSUME NEW p \in Instances, Listen(p) PROVE TypeOK'
    BY <1>6 DEF Listen, jobVars, histVars
  <1>7. ASSUME NEW p \in Instances, Exit(p), faults' \in 0 .. MaxFaults,
               UNCHANGED <<accepted, delivered, claims, recovered>>
        PROVE  TypeOK'
    <2>1. call' \in [Clients -> [at : {"idle", "lookup", "insert"}, req : Requests]]
      BY <1>7, IdleType DEF Exit
    <2>. QED
      BY <1>7, <2>1 DEF Exit, jobVars
  <1>8. ASSUME NEW p \in Instances, Crash(p) \/ AddressInUse(p) PROVE TypeOK'
    <2>1. faults' \in 0 .. MaxFaults
      BY <1>8 DEF Crash, AddressInUse
    <2>. QED
      BY <1>7, <1>8, <2>1 DEF Crash, AddressInUse
  <1>9. ASSUME NEW p \in Instances, ClaimNextReady(p) PROVE TypeOK'
    BY <1>9 DEF ClaimNextReady, Statuses
  <1>10. ASSUME NEW p \in Instances, Release(p),
                RowTypes',
                UNCHANGED <<jobCount, row, tokens, port, call>>,
                UNCHANGED <<accepted, delivered, claims, recovered>>,
                faults' \in 0 .. MaxFaults
         PROVE  TypeOK'
    BY <1>10 DEF Release, RowTypes
  <1>11. ASSUME NEW p \in Instances, FailUnconfigured(p) PROVE TypeOK'
    <2>1. claim[p].job \in JobIds /\ claim[p].attempt \in Nat
      BY <1>11 DEF FailUnconfigured
    <2>2. \/ MarkFailed(claim[p].job, claim[p].attempt)
          \/ UNCHANGED <<status, attempts, retryIn, leaseIn>>
      BY <1>11 DEF FailUnconfigured
    <2>3. RowTypes'
      BY <2>1, <2>2, MarkTypes DEF RowTypes
    <2>. QED
      BY <1>10, <1>11, <2>3 DEF FailUnconfigured, histVars
  <1>12. ASSUME NEW p \in Instances, TelegramAccepts(p) PROVE TypeOK'
    BY <1>12 DEF TelegramAccepts, jobVars
  <1>13. ASSUME NEW p \in Instances, SendMessage(p) PROVE TypeOK'
    BY <1>13 DEF SendMessage, jobVars, histVars
  <1>14. ASSUME NEW p \in Instances, Settle(p) PROVE TypeOK'
    <2>. DEFINE j == claim[p].job
                n == claim[p].attempt + 1
    <2>1. j \in JobIds /\ n \in Nat \ {0} /\ answer[p].retryAfter \in RetryAfters
      BY <1>14 DEF Settle
    <2>2. RetryDelay(n, answer[p].retryAfter) \in Nat /\ age[p] \in Nat
      BY <2>1, RetryDelayType
    <2>3. Max0(RetryDelay(n, answer[p].retryAfter) - age[p]) \in Nat
      BY <2>2, Max0Type
    <2>4. \/ UNCHANGED <<status, attempts, retryIn, leaseIn>>
          \/ MarkSent(j, n) \/ MarkFailed(j, n)
          \/ MarkRetry(j, n, Max0(RetryDelay(n, answer[p].retryAfter) - age[p]))
      BY <1>14 DEF Settle
    <2>5. RowTypes'
      BY <2>1, <2>3, <2>4, MarkTypes DEF RowTypes
    <2>. QED
      BY <1>10, <1>14, <2>5 DEF Settle, histVars
  <1>15. ASSUME NEW p \in Instances, SettleError(p) PROVE TypeOK'
    BY <1>10, <1>15 DEF SettleError, jobVars, RowTypes
  <1>16. CASE Tick
    <2>1. /\ retryIn' \in [JobIds -> Nat] /\ leaseIn' \in [JobIds -> Nat]
          /\ age' \in [Instances -> Nat]
      BY <1>16, Max0Type DEF Tick, CapAge
    <2>. QED
      BY <1>16, <2>1 DEF Tick, histVars
  <1>17. CASE UNCHANGED vars
    BY <1>17 DEF vars, jobVars, procVars, histVars
  <1>. QED
    BY <1>1, <1>2, <1>3, <1>4, <1>5, <1>6, <1>8, <1>9, <1>11, <1>12, <1>13, <1>14,
       <1>15, <1>16, <1>17
    DEF Next, Run, Submit

\* Every reachable state has the types the code's columns and variables have.
THEOREM TypeCorrect == Spec => []TypeOK
  <1>. QED
    BY InitTypeOK, NextTypeOK, PTL DEF Spec

----------------------------------------------------------------------------
\* A verdict is final.

\* Only the rows that were inserted have a status.
RowsExist == \A j \in JobIds : status[j] # "none" => j <= jobCount

\* What a step may do to a row: insert it, or leave a decided one alone.
RowStep(j) ==
  /\ status[j] \in Terminal => status'[j] = status[j] /\ attempts'[j] = attempts[j]
  /\ status'[j] # "none" => status[j] # "none" \/ j <= jobCount'
  /\ jobCount' >= jobCount

\* A settlement keeps to a row in 'sending' (its WHERE clause).
LEMMA SettlementStep ==
  ASSUME TypeOK, NEW i \in JobIds, NEW n \in Nat, NEW d \in Nat, NEW j \in JobIds,
         \/ UNCHANGED <<status, attempts, retryIn, leaseIn>>
         \/ Settleable(i) /\ (MarkSent(i, n) \/ MarkFailed(i, n) \/ MarkRetry(i, n, d)),
         UNCHANGED jobCount
  PROVE  RowStep(j)
  <1>. USE DEF RowStep, TypeOK, Settleable, Terminal
  <1>1. CASE UNCHANGED <<status, attempts, retryIn, leaseIn>>
    BY <1>1
  <1>2. CASE Settleable(i) /\ MarkSent(i, n)
    BY <1>2 DEF MarkSent, MarkDone
  <1>3. CASE Settleable(i) /\ MarkFailed(i, n)
    BY <1>3 DEF MarkFailed, MarkDone
  <1>4. CASE Settleable(i) /\ MarkRetry(i, n, d)
    BY <1>4 DEF MarkRetry
  <1>. QED
    BY <1>1, <1>2, <1>3, <1>4

\* Every step changes the row of a job as RowStep allows.
LEMMA NextRowStep ==
  ASSUME TypeOK, RowsExist, [Next]_vars, NEW j \in JobIds
  PROVE  RowStep(j)
  <1>0. jobCount \in Nat
    BY ConstantTypes DEF TypeOK
  <1>1. ASSUME UNCHANGED <<status, attempts, jobCount>> PROVE RowStep(j)
    BY <1>0, <1>1 DEF RowStep
  <1>2. ASSUME NEW c \in Clients, NEW r \in Requests, BeginSubmit(c, r) PROVE RowStep(j)
    BY <1>1, <1>2 DEF BeginSubmit, jobVars
  <1>3. ASSUME NEW c \in Clients, LookupKey(c) PROVE RowStep(j)
    BY <1>1, <1>3 DEF LookupKey, jobVars
  <1>4. ASSUME NEW c \in Clients, Enqueue(c) PROVE RowStep(j)
    <2>1. CASE InsertRow(c)
      BY <1>0, <2>1 DEF InsertRow, RowStep, RowsExist, TypeOK, Terminal, JobIds
    <2>2. CASE UNCHANGED jobVars
      BY <1>1, <2>2 DEF jobVars
    <2>. QED
      BY <1>4, <2>1, <2>2 DEF Enqueue
  <1>5. ASSUME NEW p \in Instances, Start(p) \/ Listen(p) PROVE RowStep(j)
    BY <1>1, <1>5 DEF Start, Listen, jobVars
  <1>6. ASSUME NEW p \in Instances, RecoverExpiredSendingJobs(p) PROVE RowStep(j)
    BY <1>0, <1>6
    DEF RecoverExpiredSendingJobs, LeaseOver, RowStep, TypeOK, Terminal
  <1>7. ASSUME NEW p \in Instances, Crash(p) \/ AddressInUse(p) PROVE RowStep(j)
    BY <1>1, <1>7 DEF Crash, AddressInUse, Exit, jobVars
  <1>8. ASSUME NEW p \in Instances, ClaimNextReady(p) PROVE RowStep(j)
    BY <1>0, <1>8 DEF ClaimNextReady, Ready, RowStep, TypeOK, Terminal
  <1>9. ASSUME NEW p \in Instances, FailUnconfigured(p) PROVE RowStep(j)
    <2>1. claim[p].job \in JobIds /\ claim[p].attempt \in Nat
      BY <1>9 DEF FailUnconfigured, TypeOK, Busy
    <2>. QED
      BY <1>9, <2>1, SettlementStep DEF FailUnconfigured
  <1>10. ASSUME NEW p \in Instances, TelegramAccepts(p) \/ SendMessage(p) PROVE RowStep(j)
    BY <1>1, <1>10 DEF TelegramAccepts, SendMessage, jobVars
  <1>11. ASSUME NEW p \in Instances, Settle(p) PROVE RowStep(j)
    <2>. DEFINE i == claim[p].job
                n == claim[p].attempt + 1
                d == Max0(RetryDelay(n, answer[p].retryAfter) - age[p])
    <2>1. i \in JobIds /\ n \in Nat \ {0} /\ answer[p].retryAfter \in RetryAfters
      BY <1>11 DEF Settle, TypeOK, Busy
    <2>2. d \in Nat
      BY <2>1, RetryDelayType, Max0Type DEF TypeOK
    <2>3. \/ UNCHANGED <<status, attempts, retryIn, leaseIn>>
          \/ Settleable(i) /\ (MarkSent(i, n) \/ MarkFailed(i, n) \/ MarkRetry(i, n, d))
      BY <1>11 DEF Settle
    <2>4. UNCHANGED jobCount
      BY <1>11 DEF Settle
    <2>. HIDE DEF i, n, d
    <2>. QED
      BY <2>1, <2>2, <2>3, <2>4, SettlementStep
  <1>12. ASSUME NEW p \in Instances, SettleError(p) PROVE RowStep(j)
    BY <1>1, <1>12 DEF SettleError, jobVars
  <1>13. CASE Tick
    BY <1>1, <1>13 DEF Tick
  <1>14. CASE UNCHANGED vars
    BY <1>1, <1>14 DEF vars, jobVars
  <1>. QED
    BY <1>2, <1>3, <1>4, <1>5, <1>6, <1>7, <1>8, <1>9, <1>10, <1>11, <1>12, <1>13, <1>14
    DEF Next, Run, Submit

\* Rows are never deleted and never appear but by an insert.
LEMMA RowsExistInvariant == Spec => [](TypeOK /\ RowsExist)
  <1>1. Init => TypeOK /\ RowsExist
    BY InitTypeOK DEF Init, RowsExist
  <1>2. TypeOK /\ RowsExist /\ [Next]_vars => TypeOK' /\ RowsExist'
    <2>. SUFFICES ASSUME TypeOK, RowsExist, [Next]_vars PROVE TypeOK' /\ RowsExist'
      OBVIOUS
    <2>1. \A j \in JobIds : RowStep(j)
      BY NextRowStep
    <2>2. TypeOK'
      BY NextTypeOK
    <2>3. RowsExist'
      BY <2>1, <2>2, ConstantTypes DEF RowStep, RowsExist, TypeOK, JobIds
    <2>. QED
      BY <2>2, <2>3
  <1>. QED
    BY <1>1, <1>2, PTL DEF Spec

\* Whatever workers, recoveries and late settlements do, a decided job keeps
\* its verdict and its attempt_count.
THEOREM VerdictStays == Spec => VerdictIsFinal
  <1>1. TypeOK /\ RowsExist /\ [Next]_vars =>
          [\A j \in JobIds : status[j] \in Terminal =>
             status'[j] = status[j] /\ attempts'[j] = attempts[j]]_vars
    BY NextRowStep DEF RowStep
  <1>. QED
    BY <1>1, RowsExistInvariant, PTL DEF Spec, VerdictIsFinal

----------------------------------------------------------------------------
\* What is called sent was delivered.

\* A worker that has an accepted message on the wire, or Telegram's word for
\* it, holds a job that was delivered.
WordIsTrue ==
  \A p \in Instances :
    pc[p] = "onWire" \/ answer[p].kind = "ok" => delivered[claim[p].job] > 0

DeliveryInv == SentWasDelivered /\ WordIsTrue

\* Every step keeps what relates the rows to what was delivered.
LEMMA NextDelivery == TypeOK /\ RowsExist /\ DeliveryInv /\ [Next]_vars => DeliveryInv'
  <1>. SUFFICES ASSUME TypeOK, RowsExist, DeliveryInv, [Next]_vars PROVE DeliveryInv'
    OBVIOUS
  <1>. USE DEF DeliveryInv, SentWasDelivered, WordIsTrue, NoClaim, NoAnswer
  <1>1. ASSUME UNCHANGED <<status, delivered, pc, answer, claim>> PROVE DeliveryInv'
    BY <1>1
  <1>2. ASSUME NEW c \in Clients, NEW r \in Requests, BeginSubmit(c, r) PROVE DeliveryInv'
    BY <1>1, <1>2 DEF BeginSubmit, jobVars, procVars, histVars
  <1>3. ASSUME NEW c \in Clients, LookupKey(c) PROVE DeliveryInv'
    BY <1>1, <1>3 DEF LookupKey, jobVars, procVars
  <1>4. ASSUME NEW c \in Clients, Enqueue(c) PROVE DeliveryInv'
    <2>1. CASE InsertRow(c)
      BY <1>4, <2>1 DEF Enqueue, InsertRow, TypeOK, procVars
    <2>2. CASE UNCHANGED jobVars
      BY <1>1, <1>4, <2>2 DEF Enqueue, jobVars, procVars
    <2>. QED
      BY <1>4, <2>1, <2>2 DEF Enqueue
  <1>5. ASSUME NEW p \in Instances, Start(p) PROVE DeliveryInv'
    BY <1>5 DEF Start, TypeOK, jobVars, histVars
  <1>6. ASSUME NEW p \in Instances, RecoverExpiredSendingJobs(p) PROVE DeliveryInv'
    BY <1>6 DEF RecoverExpiredSendingJobs, TypeOK
  <1>7. ASSUME NEW p \in Instances, Listen(p) PROVE DeliveryInv'
    BY <1>1, <1>7 DEF Listen, jobVars, histVars
  <1>8. ASSUME NEW p \in Instances, Crash(p) \/ AddressInUse(p) PROVE DeliveryInv'
    BY <1>8 DEF Crash, AddressInUse, Exit, TypeOK, jobVars
  <1>9. ASSUME NEW p \in Instances, ClaimNextReady(p) PROVE DeliveryInv'
    <2>1. answer[p].kind = "none"
      BY <1>9 DEF ClaimNextReady, TypeOK
    <2>. QED
      BY <1>9, <2>1 DEF ClaimNextReady, TypeOK
  <1>10. ASSUME NEW p \in Instances, FailUnconfigured(p) PROVE DeliveryInv'
    <2>1. SentWasDelivered'
      BY <1>10
      DEF FailUnconfigured, MarkFailed, MarkDone, TypeOK, histVars
    <2>2. WordIsTrue'
      BY <1>10 DEF FailUnconfigured, Release, TypeOK, histVars
    <2>. QED
      BY <2>1, <2>2
  <1>11. ASSUME NEW p \in Instances, TelegramAccepts(p) PROVE DeliveryInv'
    <2>1. claim[p].job \in JobIds
      BY <1>11 DEF TelegramAccepts, TypeOK, Busy
    <2>2. \A j \in JobIds : delivered'[j] >= delivered[j]
      BY <1>11, <2>1 DEF TelegramAccepts, TypeOK
    <2>3. delivered'[claim[p].job] > 0
      BY <1>11, <2>1 DEF TelegramAccepts, TypeOK
    <2>4. \A q \in Instances : pc[q] = "onWire" \/ answer[q].kind = "ok" =>
                                 claim[q].job \in JobIds
      BY DEF TypeOK, Busy
    <2>5. SentWasDelivered'
      BY <1>11, <2>2 DEF TelegramAccepts, TypeOK, jobVars
    <2>6. WordIsTrue'
      BY <1>11, <2>1, <2>2, <2>3, <2>4 DEF TelegramAccepts, TypeOK
    <2>. QED
      BY <2>5, <2>6
  <1>12. ASSUME NEW p \in Instances, SendMessage(p) PROVE DeliveryInv'
    BY <1>12 DEF SendMessage, TypeOK, jobVars, histVars
  <1>13. ASSUME NEW p \in Instances, Settle(p) PROVE DeliveryInv'
    <2>1. claim[p].job \in JobIds
      BY <1>13 DEF Settle, TypeOK, Busy
    <2>2. SentWasDelivered'
      BY <1>13, <2>1
      DEF Settle, MarkSent, MarkFailed, MarkRetry, MarkDone, TypeOK, histVars
    <2>3. WordIsTrue'
      BY <1>13 DEF Settle, Release, TypeOK, histVars
    <2>. QED
      BY <2>2, <2>3
  <1>14. ASSUME NEW p \in Instances, SettleError(p) PROVE DeliveryInv'
    BY <1>14 DEF SettleError, Release, TypeOK, jobVars
  <1>15. CASE Tick
    BY <1>1, <1>15 DEF Tick, histVars
  <1>16. CASE UNCHANGED vars
    BY <1>1, <1>16 DEF vars, jobVars, procVars, histVars
  <1>. QED
    BY <1>2, <1>3, <1>4, <1>5, <1>6, <1>7, <1>8, <1>9, <1>10, <1>11, <1>12, <1>13,
       <1>14, <1>15, <1>16
    DEF Next, Run, Submit

\* No job is marked sent that Telegram never accepted, however often its lease
\* was lost and whoever settles it.
THEOREM SentIsTrue == Spec => []SentWasDelivered
  <1>1. Init => DeliveryInv
    BY DEF Init, DeliveryInv, SentWasDelivered, WordIsTrue, NoAnswer
  <1>2. DeliveryInv => SentWasDelivered
    BY DEF DeliveryInv
  <1>. QED
    BY <1>1, <1>2, NextDelivery, RowsExistInvariant, PTL DEF Spec

----------------------------------------------------------------------------
\* Callers are given the jobs they asked for.

\* The unique index on idempotency_key.
UniqueKeys ==
  \A i, j \in 1 .. jobCount : row[i].key = row[j].key /\ row[i].key # NoKey => i = j

SubmitInv == AcceptedIsStored /\ UniqueKeys

\* The caller of a request is answered with a job of the table that holds it.
LEMMA AnswerStep ==
  ASSUME TypeOK, SubmitInv, NEW c \in Clients, NEW r \in Requests,
         NEW j \in KeyHolders(r.key), Answer(c, r, j, row[j]),
         UNCHANGED <<jobCount, row>>
  PROVE  SubmitInv'
  <1>1. j \in JobIds /\ j <= jobCount /\ row[j].key = r.key /\ r.key # NoKey
    BY KeyHoldersType DEF KeyHolders
  <1>2. row[j] \in Requests
    BY <1>1 DEF TypeOK
  <1>3. row[j].payload = r.payload => row[j] = r
    BY <1>1, <1>2 DEF Requests
  <1>4. accepted' = accepted \/ (accepted' = accepted \cup {<<r, j>>} /\ row[j] = r)
    BY <1>1, <1>3 DEF Answer
  <1>5. AcceptedIsStored'
    BY <1>1, <1>4 DEF SubmitInv, AcceptedIsStored
  <1>. QED
    BY <1>5 DEF SubmitInv, UniqueKeys

\* The insert adds a row whose key no other row holds.
LEMMA InsertStep ==
  ASSUME TypeOK, SubmitInv, NEW c \in Clients, call[c].req \in Requests, InsertRow(c)
  PROVE  SubmitInv'
  <1>. DEFINE r   == call[c].req
              new == jobCount + 1
  <1>1. jobCount \in Nat /\ new \in JobIds /\ KeyHolders(r.key) = {}
    BY ConstantTypes DEF InsertRow, TypeOK, JobIds
  <1>2. jobCount' = new /\ row' = [row EXCEPT ![new] = r]
    BY DEF InsertRow
  <1>3. row'[new] = r /\ \A j \in 1 .. jobCount : row'[j] = row[j]
    BY <1>1, <1>2, ConstantTypes DEF TypeOK, JobIds
  <1>4. accepted' = accepted \/ accepted' = accepted \cup {<<r, new>>}
    BY DEF InsertRow, Answer
  <1>5. \A a \in accepted : a[2] \in 1 .. jobCount
    BY DEF TypeOK, SubmitInv, AcceptedIsStored, JobIds
  <1>6. AcceptedIsStored'
    BY <1>1, <1>2, <1>3, <1>4, <1>5 DEF SubmitInv, AcceptedIsStored
  <1>7. UniqueKeys'
    BY <1>1, <1>2, <1>3 DEF SubmitInv, UniqueKeys, KeyHolders
  <1>. QED
    BY <1>6, <1>7 DEF SubmitInv

\* Every step keeps accepted requests stored and keys unique.
LEMMA NextSubmit == TypeOK /\ SubmitInv /\ [Next]_vars => SubmitInv'
  <1>. SUFFICES ASSUME TypeOK, SubmitInv, [Next]_vars PROVE SubmitInv'
    OBVIOUS
  <1>1. ASSUME UNCHANGED <<jobCount, row, accepted>> PROVE SubmitInv'
    BY <1>1 DEF SubmitInv, AcceptedIsStored, UniqueKeys
  <1>2. ASSUME NEW c \in Clients, NEW r \in Requests, BeginSubmit(c, r) PROVE SubmitInv'
    BY <1>1, <1>2 DEF BeginSubmit, jobVars, histVars
  <1>3. ASSUME NEW c \in Clients PROVE call[c].req \in Requests
    BY DEF TypeOK
  <1>4. ASSUME NEW c \in Clients, LookupKey(c) PROVE SubmitInv'
    BY <1>1, <1>3, <1>4, AnswerStep DEF LookupKey, jobVars
  <1>5. ASSUME NEW c \in Clients, Enqueue(c) PROVE SubmitInv'
    <2>1. CASE InsertRow(c)
      BY <1>3, <2>1, InsertStep
    <2>2. CASE /\ \E j \in KeyHolders(call[c].req.key) : Answer(c, call[c].req, j, row[j])
               /\ UNCHANGED jobVars
      BY <1>3, <2>2, AnswerStep DEF jobVars
    <2>. QED
      BY <1>5, <2>1, <2>2 DEF Enqueue
  <1>6. ASSUME NEW p \in Instances, Start(p) \/ Run(p) \/ TelegramAccepts(p)
        PROVE  SubmitInv'
    BY <1>1, <1>6
    DEF Start, Run, TelegramAccepts, RecoverExpiredSendingJobs, Listen, ClaimNextReady,
        FailUnconfigured, SendMessage, Settle, jobVars, histVars
  <1>7. ASSUME NEW p \in Instances, Crash(p) \/ AddressInUse(p) \/ SettleError(p)
        PROVE  SubmitInv'
    BY <1>1, <1>7 DEF Crash, AddressInUse, SettleError, Exit, jobVars
  <1>8. CASE Tick
    BY <1>1, <1>8 DEF Tick, histVars
  <1>9. CASE UNCHANGED vars
    BY <1>1, <1>9 DEF vars, jobVars, histVars
  <1>. QED
    BY <1>2, <1>4, <1>5, <1>6, <1>7, <1>8, <1>9 DEF Next, Submit

\* The submission invariant holds in every reachable state.
LEMMA SubmitInvariant == Spec => [](TypeOK /\ SubmitInv)
  <1>1. Init => SubmitInv
    BY DEF Init, SubmitInv, AcceptedIsStored, UniqueKeys
  <1>. QED
    BY <1>1, InitTypeOK, NextTypeOK, NextSubmit, PTL DEF Spec

\* A caller is only ever given a job that holds its own request.
THEOREM AcceptedStored == Spec => []AcceptedIsStored
  <1>1. SubmitInv => AcceptedIsStored
    BY DEF SubmitInv
  <1>. QED
    BY <1>1, SubmitInvariant, PTL

\* One idempotency key, one job, whatever the interleaving of the callers.
THEOREM OneJob == Spec => []OneJobPerKey
  <1>1. TypeOK /\ SubmitInv => OneJobPerKey
    <2>. SUFFICES ASSUME TypeOK, SubmitInv, NEW a \in accepted, NEW b \in accepted,
                         a[1].key = b[1].key, a[1].key # NoKey
                  PROVE  a[2] = b[2]
      BY DEF OneJobPerKey
    <2>1. a[2] \in JobIds /\ b[2] \in JobIds
      BY DEF TypeOK
    <2>2. a[2] \in 1 .. jobCount /\ b[2] \in 1 .. jobCount
      BY <2>1 DEF SubmitInv, AcceptedIsStored, JobIds
    <2>3. row[a[2]] = a[1] /\ row[b[2]] = b[1]
      BY DEF SubmitInv, AcceptedIsStored
    <2>. QED
      BY <2>2, <2>3 DEF SubmitInv, UniqueKeys
  <1>. QED
    BY <1>1, SubmitInvariant, PTL

----------------------------------------------------------------------------
\* One sender per job, when no worker outlives its lease.

\* Whoever holds a job holds it alone, in 'sending', with time left.
Held(p) ==
  /\ status[claim[p].job] = "sending"
  /\ leaseIn[claim[p].job] > 0

LeaseInv ==
  \A p \in Instances : pc[p] \in Busy =>
    /\ Held(p)
    /\ \A q \in Instances \ {p} : pc[q] \in Busy => claim[q].job # claim[p].job

\* A settlement touches the settling worker's row only.
LEMMA ReleaseStep ==
  ASSUME TypeOK, LeaseInv, NEW p \in Instances, pc[p] \in Busy, Release(p),
         NEW n \in Nat, NEW d \in Nat,
         \/ UNCHANGED <<status, attempts, retryIn, leaseIn>>
         \/ MarkSent(claim[p].job, n) \/ MarkFailed(claim[p].job, n)
         \/ MarkRetry(claim[p].job, n, d)
  PROVE  LeaseInv'
  <1>1. \A q \in Instances : pc'[q] \in Busy =>
          q # p /\ pc[q] \in Busy /\ claim'[q] = claim[q] /\ claim[q].job \in JobIds
                /\ claim[q].job # claim[p].job
    BY DEF Release, TypeOK, Busy, LeaseInv
  <1>2. \A j \in JobIds \ {claim[p].job} : status'[j] = status[j] /\ leaseIn'[j] = leaseIn[j]
    BY DEF MarkSent, MarkFailed, MarkRetry, MarkDone, TypeOK
  <1>3. \A q \in Instances : pc'[q] \in Busy => Held(q)'
    BY <1>1, <1>2 DEF LeaseInv, Held
  <1>. QED
    BY <1>1, <1>3 DEF LeaseInv

\* A step that takes no row from its holder and makes nobody busy.
LEMMA QuietStep ==
  ASSUME TypeOK, LeaseInv,
         \A q \in Instances : pc'[q] \in Busy => pc[q] \in Busy /\ claim'[q] = claim[q],
         \A q \in Instances : pc[q] \in Busy /\ Held(q) => Held(q)' \/ pc'[q] \notin Busy
  PROVE  LeaseInv'
  BY DEF LeaseInv

\* As long as no send outlasts its lease, every step keeps the claims apart.
LEMMA NextLease ==
  ASSUME ~ Overrun
  PROVE  TypeOK /\ RowsExist /\ LeaseInv /\ [Next]_vars => LeaseInv'
  <1>. SUFFICES ASSUME TypeOK, RowsExist, LeaseInv, [Next]_vars PROVE LeaseInv'
    OBVIOUS
  <1>0. ASSUME NEW p \in Instances, pc[p] \in Busy
        PROVE  claim[p].job \in JobIds /\ claim[p].attempt \in Nat /\ Held(p)
    BY <1>0 DEF TypeOK, LeaseInv
  <1>1. ASSUME UNCHANGED <<status, leaseIn, pc, claim>> PROVE LeaseInv'
    BY <1>1 DEF LeaseInv, Held
  <1>2. ASSUME NEW c \in Clients, NEW r \in Requests, BeginSubmit(c, r) PROVE LeaseInv'
    BY <1>1, <1>2 DEF BeginSubmit, jobVars, procVars
  <1>3. ASSUME NEW c \in Clients, LookupKey(c) PROVE LeaseInv'
    BY <1>1, <1>3 DEF LookupKey, jobVars, procVars
  <1>4. ASSUME NEW c \in Clients, Enqueue(c) PROVE LeaseInv'
    <2>1. CASE InsertRow(c)
      <3>1. \A p \in Instances : pc[p] \in Busy => claim[p].job <= jobCount
        BY <1>0 DEF Held, RowsExist
      <3>2. UNCHANGED <<leaseIn, pc, claim>>
        BY <1>4, <2>1 DEF Enqueue, InsertRow, procVars
      <3>3. jobCount \in Nat /\ status' = [status EXCEPT ![jobCount + 1] = "pending"]
        BY <2>1, ConstantTypes DEF InsertRow, TypeOK
      <3>4. \A p \in Instances : pc[p] \in Busy => Held(p)'
        BY <1>0, <3>1, <3>2, <3>3 DEF Held, TypeOK, JobIds
      <3>. QED
        BY <3>2, <3>4 DEF LeaseInv
    <2>2. CASE UNCHANGED jobVars
      BY <1>1, <1>4, <2>2 DEF Enqueue, jobVars, procVars
    <2>. QED
      BY <1>4, <2>1, <2>2 DEF Enqueue
  <1>5. ASSUME NEW p \in Instances, Start(p) PROVE LeaseInv'
    BY <1>5, QuietStep DEF Start, Held, Busy, TypeOK, jobVars
  <1>6. ASSUME NEW p \in Instances, RecoverExpiredSendingJobs(p) PROVE LeaseInv'
    <2>1. \A q \in Instances : pc'[q] \in Busy => pc[q] \in Busy
      BY <1>6 DEF RecoverExpiredSendingJobs, Busy, TypeOK
    <2>2. \A q \in Instances : pc[q] \in Busy => Held(q)'
      BY <1>0, <1>6 DEF RecoverExpiredSendingJobs, LeaseOver, Held
    <2>3. UNCHANGED claim
      BY <1>6 DEF RecoverExpiredSendingJobs
    <2>. QED
      BY <2>1, <2>2, <2>3 DEF LeaseInv
  <1>7. ASSUME NEW p \in Instances, Listen(p) PROVE LeaseInv'
    BY <1>1, <1>7 DEF Listen, jobVars
  <1>8. ASSUME NEW p \in Instances, Crash(p) \/ AddressInUse(p) PROVE LeaseInv'
    <2>1. Exit(p)
      BY <1>8 DEF Crash, AddressInUse
    <2>2. \A q \in Instances : pc'[q] \in Busy => pc[q] \in Busy /\ claim'[q] = claim[q]
      BY <2>1 DEF Exit, Busy, TypeOK
    <2>3. UNCHANGED <<status, leaseIn>>
      BY <2>1 DEF Exit, jobVars
    <2>. QED
      BY <2>2, <2>3 DEF LeaseInv, Held
  <1>9. ASSUME NEW p \in Instances, ClaimNextReady(p) PROVE LeaseInv'
    <2>1. PICK j \in JobIds :
            /\ Ready(j)
            /\ status'  = [status EXCEPT ![j] = "sending"]
            /\ leaseIn' = [leaseIn EXCEPT ![j] = LeaseTicks]
            /\ claim'   = [claim EXCEPT ![p] = [job |-> j, attempt |-> attempts[j],
                                                nth |-> claims[j] + 1]]
      BY <1>9 DEF ClaimNextReady
    <2>2. LeaseTicks > 0
      BY SenderAssumption
    <2>3. \A q \in Instances : pc[q] \in Busy => claim[q].job # j
      BY <1>0, <2>1 DEF Ready, Held
    <2>4. \A q \in Instances \ {p} : pc'[q] = pc[q] /\ claim'[q] = claim[q]
      BY <1>9, <2>1 DEF ClaimNextReady, TypeOK
    <2>5. claim'[p].job = j /\ status'[j] = "sending" /\ leaseIn'[j] > 0
      BY <2>1, <2>2 DEF TypeOK
    <2>6. \A i \in JobIds \ {j} : status'[i] = status[i] /\ leaseIn'[i] = leaseIn[i]
      BY <2>1 DEF TypeOK
    <2>7. \A q \in Instances : pc'[q] \in Busy => Held(q)'
      BY <1>0, <2>3, <2>4, <2>5, <2>6 DEF Held
    <2>8. \A q, o \in Instances : q # o /\ pc'[q] \in Busy /\ pc'[o] \in Busy
                                  => claim'[q].job # claim'[o].job
      BY <2>3, <2>4, <2>5 DEF LeaseInv
    <2>. QED
      BY <2>7, <2>8 DEF LeaseInv
  <1>10. ASSUME NEW p \in Instances, FailUnconfigured(p) PROVE LeaseInv'
    <2>1. pc[p] \in Busy
      BY <1>10 DEF FailUnconfigured, Busy
    <2>2. \/ UNCHANGED <<status, attempts, retryIn, leaseIn>>
          \/ MarkFailed(claim[p].job, claim[p].attempt)
      BY <1>10 DEF FailUnconfigured
    <2>3. Release(p)
      BY <1>10 DEF FailUnconfigured
    <2>. QED
      BY <1>0, <2>1, <2>2, <2>3, ReleaseStep
  <1>11. ASSUME NEW p \in Instances, TelegramAccepts(p) \/ SendMessage(p) PROVE LeaseInv'
    <2>1. /\ UNCHANGED <<status, leaseIn, claim>>
          /\ pc[p] \in Busy
          /\ \A q \in Instances \ {p} : pc'[q] = pc[q]
      BY <1>11 DEF TelegramAccepts, SendMessage, jobVars, Busy, TypeOK
    <2>. QED
      BY <2>1 DEF LeaseInv, Held
  <1>12. ASSUME NEW p \in Instances, Settle(p) PROVE LeaseInv'
    <2>. DEFINE n == claim[p].attempt + 1
                d == Max0(RetryDelay(n, answer[p].retryAfter) - age[p])
    <2>1. pc[p] \in Busy /\ Release(p)
      BY <1>12 DEF Settle, Busy
    <2>2. n \in Nat \ {0} /\ answer[p].retryAfter \in RetryAfters /\ age[p] \in Nat
      BY <1>0, <2>1 DEF TypeOK
    <2>3. d \in Nat
      BY <2>2, RetryDelayType, Max0Type
    <2>4. \/ UNCHANGED <<status, attempts, retryIn, leaseIn>>
          \/ MarkSent(claim[p].job, n) \/ MarkFailed(claim[p].job, n)
          \/ MarkRetry(claim[p].job, n, d)
      BY <1>12 DEF Settle
    <2>. HIDE DEF n, d
    <2>. QED
      BY <2>1, <2>2, <2>3, <2>4, ReleaseStep
  <1>13. ASSUME NEW p \in Instances, SettleError(p) PROVE LeaseInv'
    <2>1. pc[p] \in Busy /\ Release(p) /\ UNCHANGED <<status, attempts, retryIn, leaseIn>>
      BY <1>13 DEF SettleError, Busy, jobVars
    <2>. QED
      BY <1>0, <2>1, ReleaseStep
  <1>14. CASE Tick
    <2>1. \A p \in Instances : pc[p] \in Busy => leaseIn[claim[p].job] > 1
      BY <1>14 DEF Tick
    <2>2. \A p \in Instances : pc[p] \in Busy => leaseIn'[claim[p].job] > 0
      BY <1>0, <1>14, <2>1 DEF Tick, Max0, TypeOK
    <2>. QED
      BY <1>14, <2>2 DEF Tick, LeaseInv, Held
  <1>15. CASE UNCHANGED vars
    BY <1>1, <1>15 DEF vars, jobVars, procVars
  <1>. QED
    BY <1>2, <1>3, <1>4, <1>5, <1>6, <1>7, <1>8, <1>9, <1>10, <1>11, <1>12, <1>13,
       <1>14, <1>15
    DEF Next, Run, Submit

\* Two workers never send the same job as long as no worker is held up past
\* its lease (the timing sendTimeout and leaseBuffer are chosen for).
THEOREM OneSender ==
  ASSUME ~ Overrun
  PROVE  Spec => []OneSenderPerJob
  <1>1. Init => LeaseInv
    BY DEF Init, LeaseInv, Busy
  <1>2. LeaseInv => OneSenderPerJob
    BY DEF LeaseInv, Held, OneSenderPerJob
  <1>3. TypeOK /\ RowsExist /\ LeaseInv /\ [Next]_vars => LeaseInv'
    BY NextLease
  <1>. QED
    BY <1>1, <1>2, <1>3, RowsExistInvariant, PTL DEF Spec

----------------------------------------------------------------------------
\* The bound on sends

\* Every claim has been counted as an attempt, taken back by a recovery, or is the
\* one under way; what may be claimed has an attempt left.
Count(j) ==
  /\ status[j] = "none" => attempts[j] = 0
  /\ status[j] \in {"none", "pending", "retry"} => claims[j] = attempts[j] + recovered[j]
  /\ status[j] = "sending" => claims[j] = attempts[j] + recovered[j] + 1
  /\ status[j] \in {"pending", "retry", "sending"} => attempts[j] < MaxAttempts[row[j].payload]
  /\ claims[j] <= MaxAttempts[row[j].payload] + recovered[j]

Counted == \A j \in JobIds : Count(j)

\* A worker's copy of attempt_count is the row's, and a send it has not begun is
\* a claim not used.
Unused ==
  \A p \in Instances :
    /\ pc[p] \in Busy => claim[p].attempt = attempts[claim[p].job]
    /\ pc[p] = "sending" => delivered[claim[p].job] < claims[claim[p].job]

Sends == \A j \in JobIds : delivered[j] <= claims[j]

CountInv == Counted /\ Unused /\ Sends
Base     == TypeOK /\ RowsExist /\ LeaseInv

\* A request's max_attempts is between one and the limit of config.go, five.
LEMMA AttemptsLeft ==
  ASSUME TypeOK, NEW j \in JobIds
  PROVE  MaxAttempts[row[j].payload] \in 1 .. 5
  BY SenderAssumption DEF TypeOK, Requests

\* The rows of a step that settles nothing and claims nothing.
LEMMA SameCount ==
  ASSUME TypeOK, CountInv, UNCHANGED <<status, attempts, row, claims, recovered, delivered>>,
         \A q \in Instances : pc'[q] \in Busy => pc[q] \in Busy /\ claim'[q] = claim[q],
         \A q \in Instances : pc'[q] = "sending" => pc[q] = "sending"
  PROVE  CountInv'
  BY DEF CountInv, Counted, Count, Unused, Sends, Busy

\* A settlement uses up the claim it ends: the attempt is stored, or the worker
\* no longer holds the row and nothing is stored.
LEMMA SettleCount ==
  ASSUME Base, CountInv, NEW p \in Instances, pc[p] \in Busy, Release(p),
         UNCHANGED <<row, claims, recovered, delivered>>, NEW n \in Nat, NEW d \in Nat,
         \/ UNCHANGED <<status, attempts>>
         \/ /\ n \in {claim[p].attempt, claim[p].attempt + 1}
            /\ \/ MarkSent(claim[p].job, n) \/ MarkFailed(claim[p].job, n)
               \/ /\ MarkRetry(claim[p].job, n, d)
                  /\ n = claim[p].attempt + 1 /\ MayRetry(claim[p].job, n)
  PROVE  CountInv'
  <1>0. PICK i \in JobIds : i = claim[p].job
    BY DEF Base, TypeOK
  <1>1. /\ i \in JobIds /\ status[i] = "sending" /\ claim[p].attempt = attempts[i]
        /\ attempts[i] \in Nat /\ claims[i] \in Nat /\ recovered[i] \in Nat
        /\ MaxAttempts[row[i].payload] \in 1 .. 5
    BY <1>0, AttemptsLeft DEF Base, TypeOK, LeaseInv, Held, CountInv, Unused
  <1>2. \A q \in Instances : pc'[q] \in Busy =>
          q # p /\ pc'[q] = pc[q] /\ claim'[q] = claim[q] /\ claim[q].job \in JobIds /\ claim[q].job # i
    BY <1>0 DEF Release, Base, TypeOK, Busy, LeaseInv
  <1>3. \A j \in JobIds : j # i => status'[j] = status[j] /\ attempts'[j] = attempts[j]
    BY <1>0, <1>1 DEF MarkSent, MarkFailed, MarkRetry, MarkDone, Base, TypeOK
  <1>4. \A j \in JobIds : j # i => Count(j)'
    BY <1>3 DEF CountInv, Counted, Count
  <1>5. Count(i)'
    <2>0. Count(i)
      BY <1>1 DEF CountInv, Counted
    <2>1. CASE UNCHANGED <<status, attempts>>
      BY <2>0, <2>1 DEF Count
    <2>2. CASE MarkSent(i, n) \/ MarkFailed(i, n)
      <3>1. status'[i] \in {"sent", "failed"}
        BY <1>1, <2>2 DEF MarkSent, MarkFailed, MarkDone, Base, TypeOK
      <3>. QED
        BY <2>0, <3>1 DEF Count
    <2>3. CASE MarkRetry(i, n, d) /\ n = claim[p].attempt + 1 /\ MayRetry(i, n)
      <3>1. status'[i] = "retry" /\ attempts'[i] = attempts[i] + 1
        BY <1>1, <2>3 DEF MarkRetry, Base, TypeOK
      <3>2. attempts[i] + 1 < MaxAttempts[row[i].payload]
        BY <1>1, <2>3 DEF MayRetry
      <3>. QED
        BY <1>1, <2>0, <3>1, <3>2 DEF Count
    <2>. QED
      BY <1>0, <2>1, <2>2, <2>3
  <1>6. Unused'
    BY <1>2, <1>3 DEF CountInv, Unused, Busy
  <1>. QED
    BY <1>4, <1>5, <1>6 DEF CountInv, Counted, Sends

\* Every step keeps the count, for workers within their leases.
LEMMA NextCount ==
  ASSUME ~ Overrun
  PROVE  Base /\ CountInv /\ [Next]_vars => CountInv'
  <1>. SUFFICES ASSUME Base, CountInv, [Next]_vars PROVE CountInv'
    OBVIOUS
  <1>. USE DEF Base
  <1>1. ASSUME UNCHANGED <<status, attempts, row, claims, recovered, delivered, pc, claim>>
        PROVE  CountInv'
    BY <1>1, SameCount
  <1>2. ASSUME NEW c \in Clients, NEW r \in Requests, BeginSubmit(c, r) PROVE CountInv'
    BY <1>1, <1>2 DEF BeginSubmit, jobVars, procVars, histVars
  <1>3. ASSUME NEW c \in Clients, LookupKey(c) PROVE CountInv'
    BY <1>1, <1>3 DEF LookupKey, jobVars, procVars
  <1>4. ASSUME NEW c \in Clients, Enqueue(c) PROVE CountInv'
    <2>1. CASE InsertRow(c)
      <3>1. PICK new \in JobIds : new = jobCount + 1
        BY <2>1, ConstantTypes DEF InsertRow, TypeOK, JobIds
      <3>2. /\ status[new] = "none" /\ status'[new] = "pending" /\ row' = [row EXCEPT ![new] = call[c].req]
            /\ call[c].req \in Requests
            /\ status' = [status EXCEPT ![new] = "pending"]
            /\ UNCHANGED <<attempts, claims, recovered, delivered, pc, claim>>
        BY <1>4, <2>1, <3>1, ConstantTypes DEF Enqueue, InsertRow, TypeOK, JobIds, RowsExist, procVars
      <3>3. MaxAttempts[row'[new].payload] \in 1 .. 5
        BY <3>2, SenderAssumption DEF TypeOK, Requests
      <3>4. \A j \in JobIds : j # new => row'[j] = row[j] /\ status'[j] = status[j]
        BY <3>2 DEF TypeOK
      <3>5. Count(new) /\ attempts[new] \in Nat /\ claims[new] \in Nat /\ recovered[new] \in Nat
        BY DEF CountInv, Counted, TypeOK
      <3>6. Count(new)'
        BY <3>2, <3>3, <3>5 DEF Count
      <3>7. \A j \in JobIds : Count(j)'
        BY <3>2, <3>4, <3>6 DEF CountInv, Counted, Count
      <3>. QED
        BY <3>2, <3>7 DEF CountInv, Counted, Unused, Sends
    <2>2. CASE UNCHANGED jobVars
      BY <1>1, <1>4, <2>2 DEF Enqueue, jobVars, procVars
    <2>. QED
      BY <1>4, <2>1, <2>2 DEF Enqueue
  <1>5. ASSUME NEW p \in Instances, Start(p) PROVE CountInv'
    <2>1. \A q \in Instances : pc'[q] # pc[q] => pc'[q] = "starting"
      BY <1>5 DEF Start, TypeOK
    <2>. QED
      BY <1>5, <2>1, SameCount DEF Start, jobVars, histVars, Busy
  <1>6. ASSUME NEW p \in Instances, RecoverExpiredSendingJobs(p) PROVE CountInv'
    <2>1. \A j \in JobIds : IF LeaseOver(j)
            THEN status[j] = "sending" /\ status'[j] = "retry" /\ recovered'[j] = recovered[j] + 1
            ELSE status'[j] = status[j] /\ recovered'[j] = recovered[j]
      BY <1>6 DEF RecoverExpiredSendingJobs, LeaseOver, TypeOK
    <2>2. /\ UNCHANGED <<attempts, row, claims, delivered, claim>>
          /\ \A q \in Instances : pc'[q] # pc[q] => pc'[q] = "polling"
      BY <1>6 DEF RecoverExpiredSendingJobs, TypeOK
    <2>3. ASSUME NEW j \in JobIds PROVE Count(j)'
      <3>1. Count(j) /\ attempts[j] \in Nat /\ claims[j] \in Nat /\ recovered[j] \in Nat
            /\ MaxAttempts[row[j].payload] \in 1 .. 5
        BY AttemptsLeft DEF CountInv, Counted, TypeOK
      <3>. QED
        BY <2>1, <2>2, <3>1 DEF Count
    <2>4. Unused'
      BY <2>2 DEF CountInv, Unused, Busy
    <2>. QED
      BY <2>2, <2>3, <2>4 DEF CountInv, Counted, Sends
  <1>7. ASSUME NEW p \in Instances, Listen(p) PROVE CountInv'
    BY <1>1, <1>7 DEF Listen, jobVars, histVars
  <1>8. ASSUME NEW p \in Instances, Crash(p) \/ AddressInUse(p) PROVE CountInv'
    <2>1. Exit(p) /\ UNCHANGED <<claims, recovered, delivered>>
      BY <1>8 DEF Crash, AddressInUse
    <2>2. \A q \in Instances : pc'[q] # "down" => pc'[q] = pc[q] /\ claim'[q] = claim[q]
      BY <2>1 DEF Exit, TypeOK
    <2>. QED
      BY <2>1, <2>2, SameCount DEF Exit, jobVars, Busy
  <1>9. ASSUME NEW p \in Instances, ClaimNextReady(p) PROVE CountInv'
    <2>1. PICK j \in JobIds :
            /\ Ready(j)
            /\ status' = [status EXCEPT ![j] = "sending"]
            /\ claims' = [claims EXCEPT ![j] = @ + 1]
            /\ claim'  = [claim EXCEPT ![p] = [job |-> j, attempt |-> attempts[j],
                                               nth |-> claims[j] + 1]]
      BY <1>9 DEF ClaimNextReady
    <2>2. /\ UNCHANGED <<attempts, row, recovered, delivered>>
          /\ pc' = [pc EXCEPT ![p] = "sending"]
      BY <1>9 DEF ClaimNextReady
    <2>3. \A i \in JobIds : i # j => status'[i] = status[i] /\ claims'[i] = claims[i]
      BY <2>1 DEF TypeOK
    <2>4. /\ status[j] \in {"pending", "retry"} /\ status'[j] = "sending" /\ claims'[j] = claims[j] + 1
          /\ attempts[j] \in Nat /\ claims[j] \in Nat /\ recovered[j] \in Nat /\ delivered[j] \in Nat
          /\ MaxAttempts[row[j].payload] \in 1 .. 5 /\ Count(j) /\ delivered[j] <= claims[j]
      BY <2>1, AttemptsLeft DEF Ready, TypeOK, CountInv, Counted, Sends
    <2>5. \A q \in Instances : pc[q] \in Busy => claim[q].job # j /\ claim[q].job \in JobIds
      BY <2>4 DEF LeaseInv, Held, TypeOK
    <2>6. \A i \in JobIds : Count(i)'
      <3>1. Count(j)'
        BY <2>2, <2>4 DEF Count
      <3>. QED
        BY <2>2, <2>3, <3>1 DEF CountInv, Counted, Count
    <2>7. \A i \in JobIds : delivered'[i] <= claims'[i]
      BY <2>2, <2>3, <2>4 DEF CountInv, Sends
    <2>8. /\ claim'[p].job = j /\ claim'[p].attempt = attempts[j]
          /\ \A q \in Instances : q # p => pc'[q] = pc[q] /\ claim'[q] = claim[q]
      BY <2>1, <2>2 DEF TypeOK
    <2>9. Unused'
      <3>. SUFFICES ASSUME NEW q \in Instances
                    PROVE  /\ pc'[q] \in Busy => claim'[q].attempt = attempts'[claim'[q].job]
                           /\ pc'[q] = "sending" => delivered'[claim'[q].job] < claims'[claim'[q].job]
        BY DEF Unused
      <3>1. CASE q = p
        BY <2>2, <2>4, <2>8, <3>1
      <3>2. CASE q # p
        BY <2>2, <2>3, <2>5, <2>8, <3>2 DEF CountInv, Unused, Busy
      <3>. QED
        BY <3>1, <3>2
    <2>. QED
      BY <2>6, <2>7, <2>9 DEF CountInv, Counted, Sends
  <1>10. ASSUME NEW p \in Instances, FailUnconfigured(p) PROVE CountInv'
    <2>1. /\ pc[p] \in Busy /\ Release(p) /\ claim[p].attempt \in Nat
          /\ UNCHANGED <<row, claims, recovered, delivered>>
      BY <1>10 DEF FailUnconfigured, Busy, TypeOK, histVars
    <2>2. UNCHANGED <<status, attempts>> \/ MarkFailed(claim[p].job, claim[p].attempt)
      BY <1>10 DEF FailUnconfigured
    <2>. QED
      BY <2>1, <2>2, SettleCount
  <1>11. ASSUME NEW p \in Instances, TelegramAccepts(p) PROVE CountInv'
    <2>1. PICK i \in JobIds : i = claim[p].job
      BY <1>11 DEF TelegramAccepts, TypeOK, Busy
    <2>2. /\ pc[p] = "sending" /\ pc' = [pc EXCEPT ![p] = "onWire"]
          /\ delivered' = [delivered EXCEPT ![i] = @ + 1]
          /\ UNCHANGED <<status, attempts, row, claims, recovered, claim>>
      BY <1>11, <2>1 DEF TelegramAccepts, jobVars
    <2>3. /\ delivered[i] < claims[i] /\ delivered'[i] = delivered[i] + 1
          /\ delivered[i] \in Nat /\ claims[i] \in Nat
          /\ \A j \in JobIds : j # i => delivered'[j] = delivered[j]
      BY <2>1, <2>2 DEF CountInv, Unused, TypeOK
    <2>4. Sends'
      BY <2>2, <2>3 DEF CountInv, Sends
    <2>5. Counted'
      BY <2>2 DEF CountInv, Counted, Count
    <2>6. \A q \in Instances : q # p => pc'[q] = pc[q]
      BY <2>2 DEF TypeOK
    <2>7. \A q \in Instances : q # p /\ pc[q] \in Busy => claim[q].job # i /\ claim[q].job \in JobIds
      BY <2>1, <2>2 DEF LeaseInv, Busy, TypeOK
    <2>8. Unused'
      <3>1. pc'[p] # "sending" /\ pc[p] \in Busy
        BY <2>2 DEF TypeOK, Busy
      <3>. QED
        BY <2>2, <2>3, <2>6, <2>7, <3>1 DEF CountInv, Unused, Busy
    <2>. QED
      BY <2>4, <2>5, <2>8 DEF CountInv
  <1>12. ASSUME NEW p \in Instances, SendMessage(p) PROVE CountInv'
    <2>1. /\ pc[p] \in Busy /\ UNCHANGED <<claim, status, attempts, row, claims, recovered, delivered>>
          /\ \A q \in Instances : pc'[q] # pc[q] => q = p /\ pc'[q] = "settling"
      BY <1>12 DEF SendMessage, TypeOK, Busy, jobVars, histVars
    <2>. QED
      BY <2>1, SameCount DEF Busy
  <1>13. ASSUME NEW p \in Instances, Settle(p) PROVE CountInv'
    <2>. DEFINE n == claim[p].attempt + 1
                d == Max0(RetryDelay(n, answer[p].retryAfter) - age[p])
    <2>1. /\ pc[p] \in Busy /\ Release(p) /\ UNCHANGED <<row, claims, recovered, delivered>>
          /\ claim[p].attempt \in Nat /\ answer[p].retryAfter \in RetryAfters /\ age[p] \in Nat
      BY <1>13 DEF Settle, Busy, TypeOK, histVars
    <2>2. n \in Nat \ {0}
      BY <2>1
    <2>3. d \in Nat
      BY <2>1, <2>2, RetryDelayType, Max0Type
    <2>4. \/ UNCHANGED <<status, attempts>>
          \/ MarkSent(claim[p].job, n) \/ MarkFailed(claim[p].job, n)
          \/ MarkRetry(claim[p].job, n, d) /\ MayRetry(claim[p].job, n)
      BY <1>13 DEF Settle
    <2>5. n = claim[p].attempt + 1
      OBVIOUS
    <2>. HIDE DEF n, d
    <2>. QED
      BY <2>1, <2>2, <2>3, <2>4, <2>5, SettleCount
  <1>14. ASSUME NEW p \in Instances, SettleError(p) PROVE CountInv'
    <2>1. /\ pc[p] \in Busy /\ Release(p) /\ claim[p].attempt \in Nat
          /\ UNCHANGED <<status, attempts, row, claims, recovered, delivered>>
      BY <1>14 DEF SettleError, Busy, TypeOK, jobVars
    <2>. QED
      BY <2>1, SettleCount
  <1>15. CASE Tick
    BY <1>1, <1>15 DEF Tick, histVars
  <1>16. CASE UNCHANGED vars
    BY <1>1, <1>16 DEF vars, jobVars, procVars, histVars
  <1>. QED
    BY <1>2, <1>3, <1>4, <1>5, <1>6, <1>7, <1>8, <1>9, <1>10, <1>11, <1>12, <1>13, <1>14,
       <1>15, <1>16
    DEF Next, Run, Submit

\* The invariants of the other proof modules that the count and the ledger need.
LEMMA BaseAlways ==
  ASSUME ~ Overrun
  PROVE  Spec => []Base
  <1>1. Init => LeaseInv
    BY DEF Init, LeaseInv, Busy
  <1>2. TypeOK /\ RowsExist /\ LeaseInv /\ [Next]_vars => LeaseInv'
    BY NextLease
  <1>. QED
    BY <1>1, <1>2, RowsExistInvariant, PTL DEF Spec, Base

\* While no worker outlives its lease, Telegram is given a message at most
\* max_attempts times, and once more for every recovery at a start
\* (ClaimNextReady, MayRetry's comparison, RecoverExpiredSendingJobs).
THEOREM BoundedSends ==
  ASSUME ~ Overrun
  PROVE  Spec => []SendsBounded
  <1>1. Init => CountInv
    <2>. SUFFICES ASSUME Init PROVE CountInv
      OBVIOUS
    <2>1. \A j \in JobIds : MaxAttempts[row[j].payload] \in 1 .. 5
      BY InitTypeOK, AttemptsLeft
    <2>2. \A j \in JobIds : Count(j)
      BY <2>1 DEF Init, Count
    <2>. QED
      BY <2>2 DEF Init, CountInv, Counted, Unused, Sends, Busy
  <1>2. TypeOK /\ CountInv => SendsBounded
    BY DEF CountInv, Counted, Count, Sends, SendsBounded
  <1>3. Base /\ CountInv /\ [Next]_vars => CountInv'
    BY NextCount
  <1>. QED
    BY <1>1, <1>2, <1>3, BaseAlways, PTL DEF Spec, Base
----------------------------------------------------------------------------
\* The ledger

\* What the ledger sees of the rows
See(s)  == CASE s = "none" -> "absent" [] s \in Terminal -> s [] OTHER -> "open"
Verdict == [j \in JobIds |-> See(status[j])]

\* The ledger's verdict, status by status.
LEMMA VerdictAt ==
  ASSUME NEW j \in JobIds
  PROVE  /\ status[j] = "none" => Verdict[j] = "absent"
         /\ status[j] \in Terminal => Verdict[j] = status[j]
         /\ status[j] \in {"pending", "sending", "retry"} => Verdict[j] = "open"
  BY DEF Verdict, See, Terminal

\* A job is no more and no less decided than before.
Alike(j) == \/ status'[j] = status[j]
            \/ {status[j], status'[j]} \subseteq {"pending", "sending", "retry"}

\* If that is so of every job, the ledger sees nothing.
LEMMA AlikeStep ==
  ASSUME \A j \in JobIds : Alike(j)
  PROVE  Verdict' = Verdict
  <1>1. \A j \in JobIds : See(status'[j]) = See(status[j])
    BY DEF Alike, See, Terminal
  <1>. QED
    BY <1>1 DEF Verdict

\* One job is inserted or decided, and the others are not touched.
LEMMA OneStep ==
  ASSUME TypeOK, TypeOK', NEW i \in JobIds, \A j \in JobIds : j # i => status'[j] = status[j]
  PROVE  Verdict' = [Verdict EXCEPT ![i] = See(status'[i])]
  <1>1. \A j \in JobIds : j # i => See(status'[j]) = See(status[j])
    OBVIOUS
  <1>. QED
    BY <1>1 DEF Verdict

\* Every step of the service is a step of the ledger, or one that it does not see:
\* a row is inserted, a message accepted, or a claimed row decided.
LEMMA LedgerStep ==
  ASSUME ~ Overrun, Base, TypeOK', DeliveryInv, [Next]_vars
  PROVE  \/ Verdict' = Verdict /\ delivered' = delivered
         \/ \E i \in JobIds :
              \/ /\ Verdict[i] = "absent" /\ Verdict' = [Verdict EXCEPT ![i] = "open"]
                 /\ delivered' = delivered
              \/ /\ Verdict[i] = "open" /\ delivered' = [delivered EXCEPT ![i] = @ + 1]
                 /\ Verdict' = Verdict
              \/ \E v \in {"sent", "failed"} :
                   /\ Verdict[i] = "open" /\ (v = "sent" => delivered[i] > 0)
                   /\ Verdict' = [Verdict EXCEPT ![i] = v] /\ delivered' = delivered
  <1>. USE DEF Base
  <1>1. ASSUME delivered' = delivered, \A j \in JobIds : Alike(j)
        PROVE  Verdict' = Verdict /\ delivered' = delivered
    BY <1>1, AlikeStep
  <1>2. ASSUME UNCHANGED <<status, delivered>> PROVE Verdict' = Verdict /\ delivered' = delivered
    BY <1>2, <1>1 DEF Alike
  <1>3. ASSUME NEW c \in Clients, Submit(c), UNCHANGED jobVars
        PROVE  Verdict' = Verdict /\ delivered' = delivered
    BY <1>2, <1>3 DEF Submit, BeginSubmit, LookupKey, Enqueue, jobVars, histVars
  <1>4. ASSUME NEW c \in Clients, Enqueue(c), InsertRow(c)
        PROVE  \E i \in JobIds : /\ Verdict[i] = "absent" /\ Verdict' = [Verdict EXCEPT ![i] = "open"]
                                 /\ delivered' = delivered
    <2>1. PICK i \in JobIds : i = jobCount + 1
      BY <1>4, ConstantTypes DEF InsertRow, TypeOK, JobIds
    <2>2. /\ status[i] = "none" /\ status'[i] = "pending" /\ delivered' = delivered
          /\ \A j \in JobIds : j # i => status'[j] = status[j]
      BY <1>4, <2>1, ConstantTypes DEF Enqueue, InsertRow, TypeOK, JobIds, RowsExist
    <2>3. Verdict' = [Verdict EXCEPT ![i] = "open"]
      BY <2>2, OneStep DEF See, Terminal
    <2>. QED
      BY <2>2, <2>3, VerdictAt
  <1>5. ASSUME NEW p \in Instances, TelegramAccepts(p)
        PROVE  \E i \in JobIds : /\ Verdict[i] = "open" /\ delivered' = [delivered EXCEPT ![i] = @ + 1]
                                 /\ Verdict' = Verdict
    <2>1. /\ claim[p].job \in JobIds /\ status[claim[p].job] = "sending" /\ UNCHANGED status
          /\ delivered' = [delivered EXCEPT ![claim[p].job] = @ + 1]
      BY <1>5 DEF TelegramAccepts, TypeOK, Busy, LeaseInv, Held, jobVars
    <2>. QED
      BY <2>1, VerdictAt DEF Verdict
  <1>6. ASSUME NEW p \in Instances, ClaimNextReady(p) PROVE Verdict' = Verdict /\ delivered' = delivered
    <2>1. PICK i \in JobIds : Ready(i) /\ status' = [status EXCEPT ![i] = "sending"]
      BY <1>6 DEF ClaimNextReady
    <2>. QED
      BY <1>1, <1>6, <2>1 DEF ClaimNextReady, Ready, Alike, TypeOK
  <1>7. ASSUME NEW p \in Instances, RecoverExpiredSendingJobs(p)
        PROVE  Verdict' = Verdict /\ delivered' = delivered
    BY <1>1, <1>7 DEF RecoverExpiredSendingJobs, LeaseOver, Alike, TypeOK
  <1>8. ASSUME NEW i \in JobIds, status[i] = "sending", NEW v \in {"sent", "failed"},
               status' = [status EXCEPT ![i] = v], v = "sent" => delivered[i] > 0,
               delivered' = delivered
        PROVE  /\ Verdict[i] = "open" /\ (v = "sent" => delivered[i] > 0)
               /\ Verdict' = [Verdict EXCEPT ![i] = v] /\ delivered' = delivered
    <2>1. status'[i] = v /\ \A j \in JobIds : j # i => status'[j] = status[j]
      BY <1>8 DEF TypeOK
    <2>2. Verdict' = [Verdict EXCEPT ![i] = v]
      BY <2>1, OneStep DEF See, Terminal
    <2>. QED
      BY <1>8, <2>2, VerdictAt
  <1>9. ASSUME NEW p \in Instances, FailUnconfigured(p)
        PROVE  \/ Verdict' = Verdict /\ delivered' = delivered
               \/ \E i \in JobIds : \E v \in {"sent", "failed"} :
                    /\ Verdict[i] = "open" /\ (v = "sent" => delivered[i] > 0)
                    /\ Verdict' = [Verdict EXCEPT ![i] = v] /\ delivered' = delivered
    <2>1. claim[p].job \in JobIds /\ delivered' = delivered
      BY <1>9 DEF FailUnconfigured, TypeOK, Busy, histVars
    <2>2. CASE UNCHANGED status
      BY <1>2, <2>1, <2>2
    <2>3. CASE Settleable(claim[p].job) /\ status' = [status EXCEPT ![claim[p].job] = "failed"]
      BY <1>8, <2>1, <2>3 DEF Settleable
    <2>. QED
      BY <1>9, <2>2, <2>3 DEF FailUnconfigured, MarkFailed, MarkDone
  <1>10. ASSUME NEW p \in Instances, Settle(p)
         PROVE  \/ Verdict' = Verdict /\ delivered' = delivered
                \/ \E i \in JobIds : \E v \in {"sent", "failed"} :
                     /\ Verdict[i] = "open" /\ (v = "sent" => delivered[i] > 0)
                     /\ Verdict' = [Verdict EXCEPT ![i] = v] /\ delivered' = delivered
    <2>1. claim[p].job \in JobIds /\ delivered' = delivered
      BY <1>10 DEF Settle, TypeOK, Busy, histVars
    <2>2. CASE UNCHANGED status
      BY <1>2, <2>1, <2>2
    <2>3. CASE Settleable(claim[p].job) /\ status' = [status EXCEPT ![claim[p].job] = "failed"]
      BY <1>8, <2>1, <2>3 DEF Settleable
    <2>4. CASE /\ Settleable(claim[p].job) /\ answer[p].kind = "ok"
               /\ status' = [status EXCEPT ![claim[p].job] = "sent"]
      <3>1. delivered[claim[p].job] > 0
        BY <2>4 DEF DeliveryInv, WordIsTrue
      <3>. QED
        BY <1>8, <2>1, <2>4, <3>1 DEF Settleable
    <2>5. CASE Settleable(claim[p].job) /\ status' = [status EXCEPT ![claim[p].job] = "retry"]
      BY <1>1, <2>1, <2>5 DEF Settleable, Alike, TypeOK
    <2>. QED
      BY <1>10, <2>2, <2>3, <2>4, <2>5
      DEF Settle, MarkSent, MarkFailed, MarkRetry, MarkDone
  <1>11. ASSUME NEW p \in Instances,
                Start(p) \/ Listen(p) \/ SendMessage(p) \/ Crash(p) \/ AddressInUse(p) \/ SettleError(p)
         PROVE  Verdict' = Verdict /\ delivered' = delivered
    BY <1>2, <1>11 DEF Start, Listen, SendMessage, Crash, AddressInUse, SettleError, Exit,
                       jobVars, histVars
  <1>12. CASE Tick \/ UNCHANGED vars
    BY <1>2, <1>12 DEF Tick, vars, jobVars, histVars
  <1>13. ASSUME NEW c \in Clients, Submit(c) PROVE (Enqueue(c) /\ InsertRow(c)) \/ UNCHANGED jobVars
    BY <1>13 DEF Submit, BeginSubmit, LookupKey, Enqueue
  <1>. QED
    BY <1>3, <1>4, <1>5, <1>6, <1>7, <1>9, <1>10, <1>11, <1>12, <1>13 DEF Next, Run

\* The service implements the ledger while no worker outlives its lease: a message
\* reaches Telegram only while its job is open, and a job is decided once
\* (ClaimNextReady to the settlements of store.go, whatever crashes in between).
THEOREM LedgerKept ==
  ASSUME ~ Overrun
  PROVE  Spec => ImplementsLedger
  <1>. USE DEF Ledger!Init, Ledger!Next, Ledger!vars, Ledger!Accept, Ledger!Deliver, Ledger!Decide
  <1>1. Init => Ledger!Init
    <2>. SUFFICES ASSUME Init PROVE Ledger!Init
      OBVIOUS
    <2>1. \A j \in JobIds : See(status[j]) = "absent"
      BY DEF Init, See, Terminal
    <2>2. Verdict = [j \in JobIds |-> "absent"]
      BY <2>1 DEF Verdict
    <2>3. delivered = [j \in JobIds |-> 0]
      BY DEF Init
    <2>. QED
      BY <2>2, <2>3 DEF Verdict, See
  <1>2. Base /\ Base' /\ DeliveryInv /\ [Next]_vars => [Ledger!Next]_(Ledger!vars)
    BY LedgerStep DEF Base, Verdict, See
  <1>3. Spec => []DeliveryInv
    <2>1. Init => DeliveryInv
      BY DEF Init, DeliveryInv, SentWasDelivered, WordIsTrue, NoAnswer
    <2>. QED
      BY <2>1, NextDelivery, RowsExistInvariant, PTL DEF Spec
  <1>. QED
    BY <1>1, <1>2, <1>3, BaseAlways, PTL DEF Spec, ImplementsLedger, Ledger!Spec
=============================================================================
