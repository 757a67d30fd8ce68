---------------------------- MODULE SenderQueue ----------------------------
(***************************************************************************)
(* The sender service: a SQLite table of jobs that HTTP requests fill and  *)
(* one worker per process drains into Telegram.                            *)
(*                                                                         *)
(* The database handle is limited to one connection and every operation of *)
(* store.go is one SQL statement, so a statement is one action; whatever   *)
(* happens between two statements of the same goroutine is a gap other     *)
(* requests, other processes and crashes can fall into.                    *)
(*                                                                         *)
(* Time is kept as what is left of each deadline: leaseIn[j] and           *)
(* retryIn[j] count down to 0 as Tick passes, so "lease_expires_at <= now" *)
(* reads leaseIn[j] = 0 and no clock value has to be bounded.              *)
(***************************************************************************)
EXTENDS Integers, Sequences

CONSTANTS
  Instances,    \* sender processes started on one database file
  Clients,      \* HTTP callers of POST /send
  Keys,         \* idempotency keys
  NoKey,        \* the empty idempotency key
  Payloads,     \* bot, chat, text, reply_to, notification flag and max_attempts
  MaxAttempts,  \* [Payloads -> Nat]: the max_attempts of a payload
  Configs,      \* sets of payloads whose bot has a token in some config.toml
  LeaseTicks,   \* sendTimeout + leaseBuffer
  Backoff,      \* a sequence: the delay after attempt n, its last entry for the rest
  RetryAfters,  \* retry_after values Telegram answers with; 0 when it has none
  MaxAge,       \* bound: what a worker remembers of the time since its claim
  MaxJobs,      \* bound: rows of the table
  MaxFaults,    \* bound: crashes, taken addresses and failed settlements
  Overrun,      \* TRUE: a worker may be held up past its own lease
  NoOne         \* no process, no job

JobIds   == 1 .. MaxJobs
Requests == [key : Keys \cup {NoKey}, payload : Payloads]
Delays   == {Backoff[n] : n \in DOMAIN Backoff} \cup RetryAfters

ASSUME SenderAssumption ==
  /\ Payloads # {}
  /\ MaxAttempts \in [Payloads -> 1 .. 5]
  /\ Configs \subseteq SUBSET Payloads
  /\ LeaseTicks \in Nat \ {0}
  /\ Backoff \in Seq(Nat \ {0}) /\ Backoff # << >>
  /\ RetryAfters \subseteq Nat /\ 0 \in RetryAfters
  /\ MaxAge \in Nat /\ \A d \in Delays : d <= MaxAge
  /\ MaxJobs \in Nat /\ MaxFaults \in Nat
  /\ Overrun \in BOOLEAN
  /\ NoKey \notin Keys
  /\ NoOne \notin Instances /\ NoOne \notin JobIds

VARIABLES
  \* The jobs table: one function per column the transitions read or write.
  jobCount,   \* rows inserted; ids are 1 .. jobCount
  row,        \* [JobIds -> Requests]: the immutable columns
  status,     \* pending, sending, sent, retry, failed; "none": no such row
  attempts,   \* attempt_count
  retryIn,    \* ticks until next_retry_at
  leaseIn,    \* ticks until lease_expires_at
  \* The processes.
  pc,         \* where main and the worker goroutine of a process are
  tokens,     \* the payloads the process' configuration has a bot token for
  claim,      \* the worker's copy of the claimed row: its id and attempt_count
              \* (and, for the properties, which of the job's claims it is)
  age,        \* ticks since "now" was read for the claim (up to MaxAge)
  answer,     \* what SendMessage returned
  port,       \* the process that listens on the configured address
  \* The HTTP callers.
  call,       \* where a Submit is, for which request, in which process
  \* History, read by the properties only.
  accepted,   \* <<request, job>> for every job a caller was given
  delivered,  \* how often Telegram accepted the job's message
  claims,     \* how often the job was claimed
  recovered,  \* how often the job was taken back by startup recovery
  faults      \* faults so far

jobVars  == <<jobCount, row, status, attempts, retryIn, leaseIn>>
procVars == <<pc, tokens, claim, age, answer, port>>
histVars == <<accepted, delivered, claims, recovered, faults>>
vars     == <<jobVars, procVars, call, histVars>>

Statuses == {"none", "pending", "sending", "sent", "retry", "failed"}
Terminal == {"sent", "failed"}
Busy     == {"sending", "onWire", "settling"}
Idle     == [at |-> "idle", req |-> CHOOSE r \in Requests : TRUE]
NoClaim  == [job |-> NoOne, attempt |-> 0, nth |-> 0]
NoAnswer == [kind |-> "none", retryAfter |-> 0]

Max0(n)   == IF n > 0 THEN n ELSE 0
CapAge(n) == IF n > MaxAge THEN MaxAge ELSE n

----------------------------------------------------------------------------
\* store.go: the statements

\* The row a request with this key would collide with, if any.
KeyHolders(k) == {j \in 1 .. jobCount : k # NoKey /\ row[j].key = k}

\* Slip: a claim that forgets the rows waiting for a retry.
Slip_Ready(j) == status[j] = "pending"

\* A row ClaimNextReady may take.
Ready(j) == \/ status[j] = "pending"
            \/ status[j] = "retry" /\ retryIn[j] = 0

\* Slips: recovery that does not look at the lease, that only knows rows of the
\* time before leases, that also takes failed jobs.
Slip_LeaseIgnored(j) == status[j] = "sending"
Slip_LegacyOnly(j)   == status[j] = "sending" /\ leaseIn[j] < 0
Slip_FailedToo(j)    == status[j] \in {"sending", "failed"} /\ leaseIn[j] = 0

\* A row RecoverExpiredSendingJobs takes back.
LeaseOver(j) == status[j] = "sending" /\ leaseIn[j] = 0

\* UPDATE ... WHERE id = j AND status = 'sending': what a settlement does to
\* the row. It names neither the lease nor the claim it settles.
MarkRetry(j, n, delay) ==
  /\ status'   = [status EXCEPT ![j] = "retry"]
  /\ attempts' = [attempts EXCEPT ![j] = n]
  /\ retryIn'  = [retryIn EXCEPT ![j] = delay]
  /\ leaseIn'  = [leaseIn EXCEPT ![j] = 0]

MarkDone(j, n, verdict) ==
  /\ status'   = [status EXCEPT ![j] = verdict]
  /\ attempts' = [attempts EXCEPT ![j] = n]
  /\ retryIn'  = [retryIn EXCEPT ![j] = 0]
  /\ leaseIn'  = [leaseIn EXCEPT ![j] = 0]

MarkSent(j, n)   == MarkDone(j, n, "sent")
MarkFailed(j, n) == MarkDone(j, n, "failed")

\* The guard of the three settlements; on a row that has left 'sending' they
\* change nothing and the worker ignores the state conflict.
Settleable(j) == status[j] = "sending"

----------------------------------------------------------------------------
\* send_service.go: Submit, a lookup and an insert with a gap between them

\* The request passed validation in the listening process: its bot has a token.
BeginSubmit(c, r) ==
  /\ call[c].at = "idle"
  /\ port # NoOne
  /\ r.payload \in tokens[port]
  /\ call' = [call EXCEPT ![c] = [at |-> IF r.key = NoKey THEN "insert" ELSE "lookup",
                                  req |-> r]]
  /\ UNCHANGED <<jobVars, procVars, histVars>>

\* Slip: the row Enqueue returns is taken for the caller's own.
Slip_Answer(c, r, j, held) ==
  /\ call' = [call EXCEPT ![c] = Idle]
  /\ accepted' = accepted \cup {<<r, j>>}

\* A caller is answered with job j, whose row holds the request "held": the job
\* itself if the payloads are the same, otherwise ErrIdempotencyKeyConflict.
Answer(c, r, j, held) ==
  /\ call' = [call EXCEPT ![c] = Idle]
  /\ accepted' = IF r.key = NoKey \/ held.payload = r.payload
                 THEN accepted \cup {<<r, j>>}
                 ELSE accepted

LookupKey(c) ==
  /\ call[c].at = "lookup"
  /\ LET r == call[c].req IN
       \/ /\ KeyHolders(r.key) = {}
          /\ call' = [call EXCEPT ![c].at = "insert"]
          /\ UNCHANGED accepted
       \/ \E j \in KeyHolders(r.key) : Answer(c, r, j, row[j])
  /\ UNCHANGED <<jobVars, procVars, delivered, claims, recovered, faults>>

\* Slip: a table without the unique index on idempotency_key.
Slip_InsertRow(c) ==
  LET r   == call[c].req
      new == jobCount + 1
  IN /\ jobCount < MaxJobs
     /\ jobCount' = new
     /\ row'      = [row EXCEPT ![new] = r]
     /\ status'   = [status EXCEPT ![new] = "pending"]
     /\ Answer(c, r, new, r)
     /\ UNCHANGED <<attempts, retryIn, leaseIn>>

\* The insert succeeds: a new pending row.
InsertRow(c) ==
  LET r   == call[c].req
      new == jobCount + 1
  IN /\ KeyHolders(r.key) = {}
     /\ jobCount < MaxJobs
     /\ jobCount' = new
     /\ row'      = [row EXCEPT ![new] = r]
     /\ status'   = [status EXCEPT ![new] = "pending"]
     /\ Answer(c, r, new, r)
     /\ UNCHANGED <<attempts, retryIn, leaseIn>>

\* Enqueue: the insert, or the row that already holds the key when the unique
\* index refuses it (rows are never deleted, so the second lookup finds it).
Enqueue(c) ==
  /\ call[c].at = "insert"
  /\ \/ InsertRow(c)
     \/ /\ \E j \in KeyHolders(call[c].req.key) : Answer(c, call[c].req, j, row[j])
        /\ UNCHANGED jobVars
  /\ UNCHANGED <<procVars, delivered, claims, recovered, faults>>

Submit(c) == (\E r \in Requests : BeginSubmit(c, r)) \/ LookupKey(c) \/ Enqueue(c)

----------------------------------------------------------------------------
\* main.go: a process starts, recovers, starts its worker, then listens

Start(p) ==
  /\ pc[p] = "down"
  /\ \E cfg \in Configs : tokens' = [tokens EXCEPT ![p] = cfg]
  /\ pc' = [pc EXCEPT ![p] = "starting"]
  /\ UNCHANGED <<jobVars, claim, age, answer, port, call, histVars>>

\* Expired leases go back to the queue with their attempt_count unchanged.
\* The only call of RecoverExpiredSendingJobs is this one, at startup.
RecoverExpiredSendingJobs(p) ==
  /\ pc[p] = "starting"
  /\ LET expired == {j \in JobIds : LeaseOver(j)} IN
       /\ status'    = [j \in JobIds |-> IF j \in expired THEN "retry" ELSE status[j]]
       /\ retryIn'   = [j \in JobIds |-> IF j \in expired THEN 0 ELSE retryIn[j]]
       /\ recovered' = [j \in JobIds |-> IF j \in expired THEN recovered[j] + 1
                                                          ELSE recovered[j]]
  /\ pc' = [pc EXCEPT ![p] = "polling"]
  /\ UNCHANGED <<jobCount, row, attempts, leaseIn, tokens, claim, age, answer, port,
                 call, accepted, delivered, claims, faults>>

\* What a process leaves behind when it ends: the row it had claimed stays in
\* 'sending', the requests it was serving get no answer.
Exit(p) ==
  /\ pc'     = [pc EXCEPT ![p] = "down"]
  /\ tokens' = [tokens EXCEPT ![p] = {}]
  /\ claim'  = [claim EXCEPT ![p] = NoClaim]
  /\ age'    = [age EXCEPT ![p] = 0]
  /\ answer' = [answer EXCEPT ![p] = NoAnswer]
  /\ port'   = IF port = p THEN NoOne ELSE port
  /\ call'   = IF port = p THEN [c \in Clients |-> Idle] ELSE call
  /\ UNCHANGED jobVars

\* ListenAndServe runs beside the worker.
Listen(p) ==
  /\ pc[p] \in {"polling"} \cup Busy
  /\ port = NoOne
  /\ port' = p
  /\ UNCHANGED <<jobVars, pc, tokens, claim, age, answer, call, histVars>>

\* A taken address ends the process, and its worker with it wherever that is.
AddressInUse(p) ==
  /\ pc[p] \in {"polling"} \cup Busy
  /\ port \notin {p, NoOne}
  /\ faults < MaxFaults
  /\ faults' = faults + 1
  /\ Exit(p)
  /\ UNCHANGED <<accepted, delivered, claims, recovered>>

\* A crash, a kill, or a shutdown signal: the cancelled context fails the send
\* and the settlement alike, so the worker leaves as a crash would leave it.
Crash(p) ==
  /\ pc[p] # "down"
  /\ faults < MaxFaults
  /\ faults' = faults + 1
  /\ Exit(p)
  /\ UNCHANGED <<accepted, delivered, claims, recovered>>

----------------------------------------------------------------------------
\* worker.go: ProcessNextAt

\* The ready row with the lowest id becomes this worker's.
ClaimNextReady(p) ==
  /\ pc[p] = "polling"
  /\ \E j \in JobIds :
       /\ Ready(j)
       /\ \A i \in JobIds : Ready(i) => j <= i
       /\ status'  = [status EXCEPT ![j] = "sending"]
       /\ leaseIn' = [leaseIn EXCEPT ![j] = LeaseTicks]
       /\ claims'  = [claims EXCEPT ![j] = @ + 1]
       /\ claim'   = [claim EXCEPT ![p] = [job |-> j, attempt |-> attempts[j],
                                           nth |-> claims[j] + 1]]
  /\ pc'  = [pc EXCEPT ![p] = "sending"]
  /\ age' = [age EXCEPT ![p] = 0]
  /\ UNCHANGED <<jobCount, row, attempts, retryIn, tokens, answer, port, call,
                 accepted, delivered, recovered, faults>>

HasToken(p) == row[claim[p].job].payload \in tokens[p]

\* Slip: the error of one job is still there when the next one is claimed.
Slip_Release(p) ==
  /\ pc'    = [pc EXCEPT ![p] = "polling"]
  /\ claim' = [claim EXCEPT ![p] = NoClaim]
  /\ age'   = [age EXCEPT ![p] = 0]
  /\ UNCHANGED answer

\* The worker is back at the top of its loop.
Release(p) ==
  /\ pc'     = [pc EXCEPT ![p] = "polling"]
  /\ claim'  = [claim EXCEPT ![p] = NoClaim]
  /\ age'    = [age EXCEPT ![p] = 0]
  /\ answer' = [answer EXCEPT ![p] = NoAnswer]

\* The bot lost its token since the job was accepted: failed without a send,
\* and without counting an attempt.
FailUnconfigured(p) ==
  /\ pc[p] = "sending"
  /\ ~ HasToken(p)
  /\ IF Settleable(claim[p].job)
     THEN MarkFailed(claim[p].job, claim[p].attempt)
     ELSE UNCHANGED <<status, attempts, retryIn, leaseIn>>
  /\ Release(p)
  /\ UNCHANGED <<jobCount, row, tokens, port, call, histVars>>

\* Telegram accepts the message. Its answer is still to come.
TelegramAccepts(p) ==
  /\ pc[p] = "sending"
  /\ HasToken(p)
  /\ delivered' = [delivered EXCEPT ![claim[p].job] = @ + 1]
  /\ pc' = [pc EXCEPT ![p] = "onWire"]
  /\ UNCHANGED <<jobVars, tokens, claim, age, answer, port, call, accepted, claims,
                 recovered, faults>>

\* Slip: a 200 whose body says ok = false passes for a success.
Slip_SendMessage(p) ==
  /\ pc[p] \in {"sending", "onWire"}
  /\ HasToken(p)
  /\ \E kind \in {"ok", "retryable"}, ra \in RetryAfters :
       /\ kind = "ok" => ra = 0
       /\ answer' = [answer EXCEPT ![p] = [kind |-> kind, retryAfter |-> ra]]
  /\ pc' = [pc EXCEPT ![p] = "settling"]
  /\ UNCHANGED <<jobVars, tokens, claim, age, port, call, histVars>>

\* SendMessage returns. An accepted message is usually confirmed, but a 5xx
\* (retryable), a timeout, a dropped connection or a garbled body (neither of
\* them retryable) can take the place of the confirmation.
SendMessage(p) ==
  /\ pc[p] \in {"sending", "onWire"}
  /\ HasToken(p)
  /\ \E kind \in {"ok", "retryable", "fatal"}, ra \in RetryAfters :
       /\ kind = "ok" => pc[p] = "onWire"
       /\ kind # "retryable" => ra = 0
       /\ answer' = [answer EXCEPT ![p] = [kind |-> kind, retryAfter |-> ra]]
  /\ pc' = [pc EXCEPT ![p] = "settling"]
  /\ UNCHANGED <<jobVars, tokens, claim, age, port, call, histVars>>

\* retry_policy.go
RetryDelay(n, ra) ==
  IF ra > 0 THEN ra ELSE Backoff[IF n <= Len(Backoff) THEN n ELSE Len(Backoff)]

\* Slip: one attempt too many.
Slip_MayRetry(j, n) == n <= MaxAttempts[row[j].payload]

\* Whether a job has attempts left after its n-th.
MayRetry(j, n) == n < MaxAttempts[row[j].payload]

\* The settlement: "now" is the moment of the claim, so the retry delay has
\* been running since then.
Settle(p) ==
  /\ pc[p] = "settling"
  /\ LET j == claim[p].job
         n == claim[p].attempt + 1
         a == answer[p]
     IN IF ~ Settleable(j)
        THEN UNCHANGED <<status, attempts, retryIn, leaseIn>>
        ELSE \/ a.kind = "ok" /\ MarkSent(j, n)
             \/ /\ a.kind = "retryable" /\ MayRetry(j, n)
                /\ MarkRetry(j, n, Max0(RetryDelay(n, a.retryAfter) - age[p]))
             \/ /\ a.kind = "fatal" \/ (a.kind = "retryable" /\ ~ MayRetry(j, n))
                /\ MarkFailed(j, n)
  /\ Release(p)
  /\ UNCHANGED <<jobCount, row, tokens, port, call, histVars>>

\* The settlement statement fails (a database busy for longer than
\* busy_timeout, a full disk): the error is logged, the row stays in 'sending'.
SettleError(p) ==
  /\ pc[p] = "settling"
  /\ faults < MaxFaults
  /\ faults' = faults + 1
  /\ Release(p)
  /\ UNCHANGED <<jobVars, tokens, port, call, accepted, delivered, claims, recovered>>

----------------------------------------------------------------------------
\* Time. Unless Overrun, a worker is done with a row before the row's lease
\* ends: the send is cut off after sendTimeout and leaseBuffer covers the rest.

Tick ==
  /\ \A p \in Instances : pc[p] \in Busy /\ ~ Overrun => leaseIn[claim[p].job] > 1
  /\ retryIn' = [j \in JobIds |-> Max0(retryIn[j] - 1)]
  /\ leaseIn' = [j \in JobIds |-> Max0(leaseIn[j] - 1)]
  /\ age'     = [p \in Instances |-> IF pc[p] \in Busy THEN CapAge(age[p] + 1) ELSE 0]
  /\ UNCHANGED <<jobCount, row, status, attempts, pc, tokens, claim, answer, port, call,
                 histVars>>

----------------------------------------------------------------------------
Init ==
  /\ jobCount  = 0
  /\ row       = [j \in JobIds |-> CHOOSE r \in Requests : TRUE]
  /\ status    = [j \in JobIds |-> "none"]
  /\ attempts  = [j \in JobIds |-> 0]
  /\ retryIn   = [j \in JobIds |-> 0]
  /\ leaseIn   = [j \in JobIds |-> 0]
  /\ pc        = [p \in Instances |-> "down"]
  /\ tokens    = [p \in Instances |-> {}]
  /\ claim     = [p \in Instances |-> NoClaim]
  /\ age       = [p \in Instances |-> 0]
  /\ answer    = [p \in Instances |-> NoAnswer]
  /\ port      = NoOne
  /\ call      = [c \in Clients |-> Idle]
  /\ accepted  = {}
  /\ delivered = [j \in JobIds |-> 0]
  /\ claims    = [j \in JobIds |-> 0]
  /\ recovered = [j \in JobIds |-> 0]
  /\ faults    = 0

\* The steps of the worker goroutine and of main that need no outside event.
Run(p) ==
  \/ RecoverExpiredSendingJobs(p)
  \/ Listen(p)
  \/ ClaimNextReady(p)
  \/ FailUnconfigured(p)
  \/ SendMessage(p)
  \/ Settle(p)

Next ==
  \/ \E c \in Clients : Submit(c)
  \/ \E p \in Instances : Start(p) \/ Run(p) \/ TelegramAccepts(p)
  \/ \E p \in Instances : Crash(p) \/ AddressInUse(p) \/ SettleError(p)
  \/ Tick

Spec == Init /\ [][Next]_vars

\* Goroutines run, statements return and time passes; an operator restarts a
\* process that is down. Callers, faults and Telegram's goodwill are not fair.
Fairness ==
  /\ WF_vars(Tick)
  /\ \A p \in Instances :
       /\ WF_vars(Start(p))
       /\ WF_vars(RecoverExpiredSendingJobs(p))
       /\ WF_vars(Listen(p))
       /\ WF_vars(ClaimNextReady(p))
       /\ WF_vars(FailUnconfigured(p))
       /\ WF_vars(SendMessage(p))
       /\ WF_vars(Settle(p))

FairSpec == Spec /\ Fairness

----------------------------------------------------------------------------
\* Properties

\* Every variable has its type: the columns, the processes' control state and
\* the histories range over what the code can store in them.
TypeOK ==
  /\ jobCount  \in 0 .. MaxJobs
  /\ row       \in [JobIds -> Requests]
  /\ status    \in [JobIds -> Statuses]
  /\ attempts  \in [JobIds -> Nat]
  /\ retryIn   \in [JobIds -> Nat]
  /\ leaseIn   \in [JobIds -> Nat]
  /\ pc        \in [Instances -> {"down", "starting", "polling"} \cup Busy]
  /\ tokens    \in [Instances -> SUBSET Payloads]
  /\ claim     \in [Instances -> [job : JobIds \cup {NoOne}, attempt : Nat, nth : Nat]]
  /\ \A p \in Instances : pc[p] \in Busy <=> claim[p].job \in JobIds
  /\ age       \in [Instances -> Nat]
  /\ answer    \in [Instances -> [kind : {"none", "ok", "retryable", "fatal"},
                                  retryAfter : RetryAfters]]
  /\ \A p \in Instances : pc[p] = "settling" <=> answer[p].kind # "none"
  /\ port      \in Instances \cup {NoOne}
  /\ call      \in [Clients -> [at : {"idle", "lookup", "insert"}, req : Requests]]
  /\ accepted  \subseteq Requests \X JobIds
  /\ delivered \in [JobIds -> Nat]
  /\ claims    \in [JobIds -> Nat]
  /\ recovered \in [JobIds -> Nat]
  /\ faults    \in 0 .. MaxFaults

\* A caller that was given a job was given a job that says what it asked for,
\* however its lookup and its insert interleave with other callers' (Submit
\* re-checks the payload of the row Enqueue returns).
AcceptedIsStored ==
  \A a \in accepted : a[2] <= jobCount /\ row[a[2]] = a[1]

\* Callers that present the same idempotency key are given the same job,
\* across concurrent submissions and restarts (the unique index and the
\* lookup after its violation).
OneJobPerKey ==
  \A a, b \in accepted : a[1].key = b[1].key /\ a[1].key # NoKey => a[2] = b[2]

\* At most one live worker is sending a given job, and the job's row says so:
\* startup recovery and the claim never hand out a row somebody still holds.
\* It needs every worker to be done within its lease.
OneSenderPerJob ==
  \A p \in Instances : pc[p] \in Busy =>
    /\ status[claim[p].job] = "sending"
    /\ \A q \in Instances \ {p} : pc[q] \in Busy => claim[q].job # claim[p].job

\* Telegram gets a message at most max_attempts times, plus once for every time
\* startup recovery took the job back: recovery leaves attempt_count alone.
SendsBounded ==
  \A j \in JobIds :
    /\ delivered[j] <= claims[j]
    /\ claims[j] <= MaxAttempts[row[j].payload] + recovered[j]

\* A job that is marked sent reached Telegram, even if the worker that marks it
\* lost its lease and another one has failed in the meantime.
SentWasDelivered == \A j \in JobIds : status[j] = "sent" => delivered[j] > 0

\* A decided job stays as it was decided: no late settlement, recovery or claim
\* reopens it or changes its attempt_count, whoever held it and for how long.
VerdictIsFinal ==
  [][\A j \in JobIds : status[j] \in Terminal =>
       status'[j] = status[j] /\ attempts'[j] = attempts[j]]_vars

\* A row in 'sending' that no live worker holds.
Orphaned(j) ==
  status[j] = "sending" /\ \A p \in Instances : claim[p].job # j

\* Every job is decided, unless a crash or a failed settlement statement leaves
\* it in 'sending': the worker retries within max_attempts and then gives up.
DecidedOrOrphaned ==
  \A j \in JobIds :
    status[j] # "none" ~> status[j] \in Terminal \/ (faults > 0 /\ Orphaned(j))

\* An orphaned row whose lease is over when a process starts goes back to the
\* queue and is decided, unless a later fault orphans it again.
ExpiredOrphanIsDecided ==
  \A j \in JobIds :
    (Orphaned(j) /\ leaseIn[j] = 0 /\ \E p \in Instances : pc[p] = "starting"
       /\ faults = MaxFaults)
    ~> status[j] \in Terminal

\* What a job is to somebody who only sees what was accepted, delivered and
\* decided: the claims, leases and retries are internal.
Ledger == INSTANCE DeliveryLedger WITH
  Jobs    <- JobIds,
  verdict <- [j \in JobIds |-> CASE status[j] = "none" -> "absent"
                                 [] status[j] \in Terminal -> status[j]
                                 [] OTHER -> "open"]

\* The service implements the ledger: a job is decided once, nothing is
\* delivered before it is accepted or after it is decided, and it is only
\* called sent when something was delivered.
ImplementsLedger == Ledger!Spec
============================================================================
