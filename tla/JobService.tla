----------------------------- MODULE JobService -----------------------------
(***************************************************************************)
(* The job engine of compute-orchestration-service: SubmitJob, RetryJob    *)
(* and CancelJob run on the goroutines of their callers, a pool of workers *)
(* takes job ids from a bounded in-memory channel and executes them, a     *)
(* failed execution arms a timer that puts the job back on the channel.    *)
(* All of them share the rows of the Postgres store, read and written one  *)
(* statement (or one short transaction) at a time: a goroutine that loads  *)
(* a row works on its own copy until it writes the whole row back.         *)
(*                                                                         *)
(* Every store call is a step.  The store may fail a call (MaxFaults) and  *)
(* the process may crash (MaxCrashes), which loses the channel, the timers *)
(* and all goroutines and keeps the rows: nothing reads them back at start.*)
(***************************************************************************)
EXTENDS Naturals, Sequences, FiniteSets

CONSTANTS Jobs,          \* the job ids uuid.NewString can return
          Keys,          \* idempotency keys, already scoped by project
          Clients,       \* goroutines serving API calls
          Workers,       \* goroutines of workerLoop
          Timers,        \* timers of time.AfterFunc that can be pending at once
          NoJob, NoKey,
          QueueBuffer,   \* capacity of the jobQueue channel
          LimitArgs,     \* max_attempts arguments of SubmitJob, 0 for "not given"
          MaxRetries,    \* bound: accepted RetryJob calls per job, before it stops being called
          MaxFaults,     \* bound: store calls that fail
          MaxCrashes,    \* bound: crashes of the process
          MayStop        \* whether Service.Stop is ever called

ASSUME JobServiceAssumption ==
    /\ NoJob \notin Jobs
    /\ NoKey \notin Keys
    /\ QueueBuffer \in Nat \ {0}
    /\ LimitArgs \subseteq Nat
    /\ MaxRetries \in Nat /\ MaxFaults \in Nat /\ MaxCrashes \in Nat
    /\ MayStop \in BOOLEAN

VARIABLES
    row,          \* orchestration_jobs: the row of each job
    idem,         \* orchestration_idempotency_keys: the job of each key
    attemptLog,   \* orchestration_job_attempts: (job, attempt_no, status)
    deadLetters,  \* orchestration_dead_letters: number of rows per job
    queue,        \* the jobQueue channel
    cpc, cjob, ckey, crow,   \* API goroutines: step, job, key, loaded copy
    wpc, wjob, wrow,         \* workers: step, job, loaded copy
    tpc, tjob, trow,         \* timers: step, job, loaded copy
    stopping,     \* the stop channel is closed
    faults, crashes,
    retried,      \* RetryJob calls accepted, per job
    lost,         \* jobs that lost a hand-over: full channel, store error or crash
    returned      \* (key, job) of every keyed SubmitJob that returned a job

store  == <<row, idem, attemptLog, deadLetters>>
client == <<cpc, cjob, ckey, crow>>
worker == <<wpc, wjob, wrow>>
timer  == <<tpc, tjob, trow>>
ghosts == <<retried, returned>>
vars   == <<store, queue, client, worker, timer, stopping, faults, crashes, lost, ghosts>>

-----------------------------------------------------------------------------
(* Rows *)

Settled == {"SUCCEEDED", "FAILED", "CANCELED"}
Pending == {"QUEUED", "RUNNING", "RETRY_PENDING"}
Status  == {"ABSENT"} \cup Settled \cup Pending

JobRow == [status : Status, attempts : Nat, limit : Nat]
NoRow  == [status |-> "ABSENT", attempts |-> 0, limit |-> 0]

EffectiveLimit(arg) == IF arg = 0 THEN 3 ELSE arg

WithStatus(r, s) == [r EXCEPT !.status = s]
(* Mutant: the attempt is not counted. *)
StartedUncounted(r) == [r EXCEPT !.status = "RUNNING"]

Started(r) == [status |-> "RUNNING", attempts |-> r.attempts + 1, limit |-> r.limit]

(* Mutant: one attempt too many. *)
ExhaustedLate(r) == r.attempts > r.limit

Exhausted(r) == r.attempts >= r.limit

(* Mutant: ON CONFLICT DO NOTHING, the first status of an attempt stays. *)
RecordedFirst(log, j, n, s) ==
    IF \E e \in log : e[1] = j /\ e[2] = n THEN log ELSE log \cup {<<j, n, s>>}

(* RecordAttempt is an upsert on (job_id, attempt_no). *)
Recorded(log, j, n, s) == {e \in log : ~(e[1] = j /\ e[2] = n)} \cup {<<j, n, s>>}

-----------------------------------------------------------------------------
(* Shared pieces of the handlers *)

(* A store call that errors.  The store is as it was, or the write is done *)
(* and only its answer lost; where the code does not look at the error,    *)
(* that is a write like any other.                                         *)
StoreFault == faults < MaxFaults /\ faults' = faults + 1

(* UpdateJob: the whole row is overwritten by the caller's copy. *)
UpdateJob(j, r) ==
    \/ row' = [row EXCEPT ![j] = r] /\ UNCHANGED faults
    \/ StoreFault /\ UNCHANGED row

(* Mutant: the send does not look at the capacity. *)
EnqueueBlind(j) == queue' = Append(queue, j) /\ UNCHANGED lost

(* select { case jobQueue <- id: default: } *)
Enqueue(j) ==
    IF Len(queue) < QueueBuffer
    THEN queue' = Append(queue, j) /\ UNCHANGED lost
    ELSE lost' = lost \cup {j} /\ UNCHANGED queue

ClientStep(c, from, to) == cpc[c] = from /\ cpc' = [cpc EXCEPT ![c] = to]
WorkerStep(w, from, to) == wpc[w] = from /\ wpc' = [wpc EXCEPT ![w] = to]

ClientDone(c) ==
    /\ cpc'  = [cpc EXCEPT ![c] = "idle"]
    /\ cjob' = [cjob EXCEPT ![c] = NoJob]
    /\ ckey' = [ckey EXCEPT ![c] = NoKey]
    /\ crow' = [crow EXCEPT ![c] = NoRow]

WorkerDone(w) ==
    /\ wpc'  = [wpc EXCEPT ![w] = "idle"]
    /\ wjob' = [wjob EXCEPT ![w] = NoJob]
    /\ wrow' = [wrow EXCEPT ![w] = NoRow]

TimerDone(t) ==
    /\ tpc'  = [tpc EXCEPT ![t] = "idle"]
    /\ tjob' = [tjob EXCEPT ![t] = NoJob]
    /\ trow' = [trow EXCEPT ![t] = NoRow]

Init ==
    /\ row = [j \in Jobs |-> NoRow]
    /\ idem = [k \in Keys |-> NoJob]
    /\ attemptLog = {}
    /\ deadLetters = [j \in Jobs |-> 0]
    /\ queue = <<>>
    /\ cpc = [c \in Clients |-> "idle"] /\ cjob = [c \in Clients |-> NoJob]
    /\ ckey = [c \in Clients |-> NoKey] /\ crow = [c \in Clients |-> NoRow]
    /\ wpc = [w \in Workers |-> "idle"] /\ wjob = [w \in Workers |-> NoJob]
    /\ wrow = [w \in Workers |-> NoRow]
    /\ tpc = [t \in Timers |-> "idle"] /\ tjob = [t \in Timers |-> NoJob]
    /\ trow = [t \in Timers |-> NoRow]
    /\ stopping = FALSE
    /\ faults = 0 /\ crashes = 0
    /\ retried = [j \in Jobs |-> 0]
    /\ lost = {}
    /\ returned = {}

-----------------------------------------------------------------------------
(* SubmitJob *)

(* FindByIdempotencyKey: a hit returns the job of the key. *)
SubmitHit(c, k) ==
    /\ cpc[c] = "idle"
    /\ idem[k] # NoJob
    /\ returned' = returned \cup {<<k, idem[k]>>}
    /\ UNCHANGED <<store, queue, client, worker, timer, stopping, faults, crashes, lost, retried>>

Unused == {j \in Jobs : row[j].status = "ABSENT"}

(* No key, or no job under the key.  Bound: an unused id is left for every *)
(* call that goes on to create a job.                                      *)
SubmitMiss(c, k) ==
    /\ k # NoKey => idem[k] = NoJob
    /\ Cardinality({d \in Clients : cpc[d] = "create"}) < Cardinality(Unused)
    /\ ClientStep(c, "idle", "create")
    /\ ckey' = [ckey EXCEPT ![c] = k]
    /\ UNCHANGED <<store, queue, cjob, crow, worker, timer, stopping, faults, crashes, lost, ghosts>>

(* CreateJob inserts the row under a fresh id; an error ends the call, also *)
(* when the row was inserted and only the answer is lost.                   *)
Insert(j, m) ==
    /\ j \in Unused
    /\ row' = [row EXCEPT ![j] = [status   |-> "QUEUED",
                                  attempts |-> 0,
                                  limit    |-> EffectiveLimit(m)]]

SubmitCreate(c) ==
    /\ \/ \E j \in Jobs, m \in LimitArgs :
            /\ Insert(j, m)
            /\ ClientStep(c, "create", IF ckey[c] = NoKey THEN "enqueue" ELSE "saveKey")
            /\ cjob' = [cjob EXCEPT ![c] = j]
            /\ UNCHANGED <<ckey, crow, faults, lost>>
       \/ cpc[c] = "create" /\ StoreFault /\ ClientDone(c) /\ UNCHANGED <<row, lost>>
       \/ /\ cpc[c] = "create" /\ StoreFault /\ ClientDone(c)
          /\ \E j \in Jobs, m \in LimitArgs : Insert(j, m) /\ lost' = lost \cup {j}
    /\ UNCHANGED <<idem, attemptLog, deadLetters, queue, worker, timer, stopping, crashes, ghosts>>

(* Mutant: the job is taken back when its key cannot be saved. *)
SubmitSaveKeyOrUndo(c) ==
    /\ \/ /\ ClientStep(c, "saveKey", "enqueue")
          /\ idem' = IF idem[ckey[c]] = NoJob
                     THEN [idem EXCEPT ![ckey[c]] = cjob[c]] ELSE idem
          /\ UNCHANGED <<row, cjob, ckey, crow, faults>>
       \/ /\ cpc[c] = "saveKey"
          /\ StoreFault
          /\ row' = [row EXCEPT ![cjob[c]] = NoRow]
          /\ ClientDone(c)
          /\ UNCHANGED idem
    /\ UNCHANGED <<attemptLog, deadLetters, queue, worker, timer, stopping, crashes, lost, ghosts>>

(* SaveIdempotencyKey: INSERT ... ON CONFLICT DO NOTHING; an error ends the *)
(* call with the job created and not handed over, and its key perhaps bound. *)
BindKey(c) ==
    idem' = IF idem[ckey[c]] = NoJob THEN [idem EXCEPT ![ckey[c]] = cjob[c]] ELSE idem

SubmitSaveKey(c) ==
    /\ \/ /\ ClientStep(c, "saveKey", "enqueue")
          /\ BindKey(c)
          /\ UNCHANGED <<cjob, ckey, crow, faults, lost>>
       \/ /\ cpc[c] = "saveKey"
          /\ StoreFault
          /\ lost' = lost \cup {cjob[c]}
          /\ ClientDone(c)
          /\ BindKey(c) \/ UNCHANGED idem
    /\ UNCHANGED <<row, attemptLog, deadLetters, queue, worker, timer, stopping, crashes, ghosts>>

(* The hand-over; on a full channel the call fails and the row stays QUEUED. *)
SubmitEnqueue(c) ==
    /\ cpc[c] = "enqueue"
    /\ Enqueue(cjob[c])
    /\ returned' = IF Len(queue) < QueueBuffer /\ ckey[c] # NoKey
                   THEN returned \cup {<<ckey[c], cjob[c]>>} ELSE returned
    /\ ClientDone(c)
    /\ UNCHANGED <<store, worker, timer, stopping, faults, crashes, retried>>

-----------------------------------------------------------------------------
(* RetryJob *)

RetryLoad(c, j) ==
    /\ retried[j] < MaxRetries
    /\ row[j].status \in {"FAILED", "CANCELED"}
    /\ ClientStep(c, "idle", "retryUpdate")
    /\ cjob' = [cjob EXCEPT ![c] = j]
    /\ crow' = [crow EXCEPT ![c] = row[j]]
    /\ UNCHANGED <<store, queue, ckey, worker, timer, stopping, faults, crashes, lost, ghosts>>

(* When the write is done and its answer lost, the job is queued for nobody. *)
RetryUpdate(c) ==
    LET j == cjob[c]
        Requeue == /\ row' = [row EXCEPT ![j] = WithStatus(crow[c], "QUEUED")]
                   /\ retried' = [retried EXCEPT ![j] = @ + 1]
    IN /\ \/ /\ ClientStep(c, "retryUpdate", "retryEnqueue")
             /\ Requeue
             /\ UNCHANGED <<cjob, ckey, crow, faults, lost>>
          \/ /\ cpc[c] = "retryUpdate"
             /\ StoreFault
             /\ ClientDone(c)
             /\ \/ UNCHANGED <<row, retried, lost>>
                \/ Requeue /\ lost' = lost \cup {j}
       /\ UNCHANGED <<idem, attemptLog, deadLetters, queue, worker, timer, stopping, crashes,
                      returned>>

RetryEnqueue(c) ==
    /\ cpc[c] = "retryEnqueue"
    /\ Enqueue(cjob[c])
    /\ ClientDone(c)
    /\ UNCHANGED <<store, worker, timer, stopping, faults, crashes, ghosts>>

-----------------------------------------------------------------------------
(* CancelJob *)

CancelLoad(c, j) ==
    /\ row[j].status \in Pending
    /\ ClientStep(c, "idle", "cancelUpdate")
    /\ cjob' = [cjob EXCEPT ![c] = j]
    /\ crow' = [crow EXCEPT ![c] = row[j]]
    /\ UNCHANGED <<store, queue, ckey, worker, timer, stopping, faults, crashes, lost, ghosts>>

CancelUpdate(c) ==
    /\ cpc[c] = "cancelUpdate"
    /\ UpdateJob(cjob[c], WithStatus(crow[c], "CANCELED"))
    /\ ClientDone(c)
    /\ UNCHANGED <<idem, attemptLog, deadLetters, queue, worker, timer, stopping, crashes, lost, ghosts>>

-----------------------------------------------------------------------------
(* workerLoop, processJob and handleFailure *)

(* case id := <-jobQueue.  A closed stop channel does not take precedence. *)
Dequeue(w) ==
    /\ queue # <<>>
    /\ WorkerStep(w, "idle", "load")
    /\ wjob' = [wjob EXCEPT ![w] = Head(queue)]
    /\ queue' = Tail(queue)
    /\ UNCHANGED <<store, client, wrow, timer, stopping, faults, crashes, lost, ghosts>>

(* GetJob; a canceled job, or a store error, ends the processing. *)
WorkerLoad(w) ==
    /\ wpc[w] = "load"
    /\ LET j == wjob[w]
       IN \/ /\ row[j].status # "CANCELED"
             /\ wpc'  = [wpc EXCEPT ![w] = "start"]
             /\ wrow' = [wrow EXCEPT ![w] = row[j]]
             /\ UNCHANGED <<wjob, faults, lost>>
          \/ /\ row[j].status = "CANCELED"
             /\ WorkerDone(w)
             /\ UNCHANGED <<faults, lost>>
          \/ /\ StoreFault
             /\ lost' = lost \cup {j}
             /\ WorkerDone(w)
    /\ UNCHANGED <<store, queue, client, timer, stopping, crashes, ghosts>>

(* status RUNNING, attempts + 1; the error of UpdateJob is discarded. *)
WorkerStart(w) ==
    /\ WorkerStep(w, "start", "logStart")
    /\ wrow' = [wrow EXCEPT ![w] = Started(@)]
    /\ UpdateJob(wjob[w], Started(wrow[w]))
    /\ UNCHANGED <<idem, attemptLog, deadLetters, queue, client, wjob, timer, stopping, crashes,
                   lost, ghosts>>

(* RecordAttempt; its error is discarded or logged. *)
RecordAttempt(w, s) ==
    \/ /\ attemptLog' = Recorded(attemptLog, wjob[w], wrow[w].attempts, s)
       /\ UNCHANGED faults
    \/ StoreFault /\ UNCHANGED attemptLog

WorkerLogStart(w) ==
    /\ WorkerStep(w, "logStart", "exec")
    /\ RecordAttempt(w, "RUNNING")
    /\ UNCHANGED <<row, idem, deadLetters, queue, client, wjob, wrow, timer, stopping, crashes,
                   lost, ghosts>>

(* executor.Execute returns artifacts or an error. *)
Execute(w) ==
    /\ \E outcome \in {"commit", "fail"} : WorkerStep(w, "exec", outcome)
    /\ UNCHANGED <<store, queue, client, wjob, wrow, timer, stopping, faults, crashes, lost, ghosts>>

(* Mutant: the error of the final UpdateJob is discarded. *)
WorkerCommitUnchecked(w) ==
    /\ wrow' = [wrow EXCEPT ![w] = WithStatus(@, "SUCCEEDED")]
    /\ WorkerStep(w, "commit", "logSuccess")
    /\ UpdateJob(wjob[w], WithStatus(wrow[w], "SUCCEEDED"))
    /\ UNCHANGED <<idem, attemptLog, deadLetters, queue, client, wjob, timer, stopping, crashes,
                   lost, ghosts>>

(* status SUCCEEDED with its artifacts; a store error is handled as a        *)
(* failure, also when the row was written and only the answer of the commit *)
(* is lost: the job that has succeeded is run again.                        *)
WorkerCommit(w) ==
    /\ wrow' = [wrow EXCEPT ![w] = WithStatus(@, "SUCCEEDED")]
    /\ \/ /\ WorkerStep(w, "commit", "logSuccess")
          /\ row' = [row EXCEPT ![wjob[w]] = WithStatus(wrow[w], "SUCCEEDED")]
          /\ UNCHANGED faults
       \/ /\ WorkerStep(w, "commit", "fail") /\ StoreFault
          /\ \/ UNCHANGED row
             \/ row' = [row EXCEPT ![wjob[w]] = WithStatus(wrow[w], "SUCCEEDED")]
    /\ UNCHANGED <<idem, attemptLog, deadLetters, queue, client, wjob, timer, stopping, crashes,
                   lost, ghosts>>

WorkerLogSuccess(w) ==
    /\ wpc[w] = "logSuccess"
    /\ RecordAttempt(w, "SUCCEEDED")
    /\ WorkerDone(w)
    /\ UNCHANGED <<row, idem, deadLetters, queue, client, timer, stopping, crashes, lost, ghosts>>

(* handleFailure, no attempt left: status FAILED.  A store error is only *)
(* logged, and nothing will ever pick the job up again.                  *)
WorkerGiveUp(w) ==
    /\ Exhausted(wrow[w])
    /\ WorkerStep(w, "fail", "logGiveUp")
    /\ wrow' = [wrow EXCEPT ![w] = WithStatus(@, "FAILED")]
    /\ UpdateJob(wjob[w], WithStatus(wrow[w], "FAILED"))
    /\ lost' = IF faults' = faults THEN lost ELSE lost \cup {wjob[w]}
    /\ UNCHANGED <<idem, attemptLog, deadLetters, queue, client, wjob, timer, stopping, crashes, ghosts>>

(* Mutant: a job given up is not dead-lettered. *)
WorkerLogGiveUpOnly(w) ==
    /\ wpc[w] = "logGiveUp"
    /\ RecordAttempt(w, "FAILED")
    /\ WorkerDone(w)
    /\ UNCHANGED <<row, idem, deadLetters, queue, client, timer, stopping, crashes, lost, ghosts>>

WorkerLogGiveUp(w) ==
    /\ WorkerStep(w, "logGiveUp", "deadLetter")
    /\ RecordAttempt(w, "FAILED")
    /\ UNCHANGED <<row, idem, deadLetters, queue, client, wjob, wrow, timer, stopping, crashes,
                   lost, ghosts>>

(* RecordDeadLetter: a plain INSERT. *)
WorkerDeadLetter(w) ==
    /\ wpc[w] = "deadLetter"
    /\ \/ /\ deadLetters' = [deadLetters EXCEPT ![wjob[w]] = @ + 1]
          /\ UNCHANGED <<faults, lost>>
       \/ /\ StoreFault
          /\ lost' = lost \cup {wjob[w]}
          /\ UNCHANGED deadLetters
    /\ WorkerDone(w)
    /\ UNCHANGED <<row, idem, attemptLog, queue, client, timer, stopping, crashes, ghosts>>

(* handleFailure, attempts left: record the failed attempt ... *)
WorkerLogFailure(w) ==
    /\ ~Exhausted(wrow[w])
    /\ WorkerStep(w, "fail", "markRetry")
    /\ RecordAttempt(w, "FAILED")
    /\ UNCHANGED <<row, idem, deadLetters, queue, client, wjob, wrow, timer, stopping, crashes,
                   lost, ghosts>>

(* Mutant: the retry is queued at once as well as timed. *)
WorkerMarkRetryTwice(w) ==
    LET j == wjob[w]
    IN /\ wpc[w] = "markRetry"
       /\ row' = [row EXCEPT ![j] = WithStatus(@, "RETRY_PENDING")]
       /\ \E t \in Timers :
            /\ tpc[t] = "idle"
            /\ tpc'  = [tpc EXCEPT ![t] = "armed"]
            /\ tjob' = [tjob EXCEPT ![t] = j]
       /\ Enqueue(j)
       /\ WorkerDone(w)
       /\ UNCHANGED <<idem, attemptLog, deadLetters, client, trow, stopping, faults, crashes, ghosts>>

(* ... MarkRetryPending, which sets the status of the row whatever it is *)
(* now, and time.AfterFunc.                                              *)
WorkerMarkRetry(w) ==
    LET j == wjob[w]
    IN /\ wpc[w] = "markRetry"
       /\ UpdateJob(j, WithStatus(row[j], "RETRY_PENDING"))
       /\ \E t \in Timers :
            /\ tpc[t] = "idle"
            /\ tpc'  = [tpc EXCEPT ![t] = "armed"]
            /\ tjob' = [tjob EXCEPT ![t] = j]
       /\ WorkerDone(w)
       /\ UNCHANGED <<idem, attemptLog, deadLetters, queue, client, trow, stopping, crashes, lost, ghosts>>

-----------------------------------------------------------------------------
(* The callback of time.AfterFunc *)

(* Mutant: the timer does not look at the status. *)
TimerLoadBlind(t) ==
    /\ tpc[t] = "armed"
    /\ tpc'  = [tpc EXCEPT ![t] = "update"]
    /\ trow' = [trow EXCEPT ![t] = row[tjob[t]]]
    /\ UNCHANGED <<store, queue, client, worker, tjob, stopping, faults, crashes, lost, ghosts>>

TimerLoad(t) ==
    /\ tpc[t] = "armed"
    /\ LET j == tjob[t]
       IN \/ /\ row[j].status \notin {"CANCELED", "SUCCEEDED"}
             /\ tpc'  = [tpc EXCEPT ![t] = "update"]
             /\ trow' = [trow EXCEPT ![t] = row[j]]
             /\ UNCHANGED <<tjob, faults, lost>>
          \/ /\ row[j].status \in {"CANCELED", "SUCCEEDED"}
             /\ TimerDone(t)
             /\ UNCHANGED <<faults, lost>>
          \/ /\ StoreFault
             /\ lost' = lost \cup {j}
             /\ TimerDone(t)
    /\ UNCHANGED <<store, queue, client, worker, stopping, crashes, ghosts>>

(* status QUEUED; the error of UpdateJob is discarded. *)
TimerUpdate(t) ==
    /\ tpc[t] = "update"
    /\ tpc' = [tpc EXCEPT ![t] = "enqueue"]
    /\ UpdateJob(tjob[t], WithStatus(trow[t], "QUEUED"))
    /\ UNCHANGED <<idem, attemptLog, deadLetters, queue, client, worker, tjob, trow, stopping,
                   crashes, lost, ghosts>>

(* A full channel drops the job without a trace. *)
TimerEnqueue(t) ==
    /\ tpc[t] = "enqueue"
    /\ Enqueue(tjob[t])
    /\ TimerDone(t)
    /\ UNCHANGED <<store, client, worker, stopping, faults, crashes, ghosts>>

-----------------------------------------------------------------------------
(* Stop, and the crash of the process *)

Stop ==
    /\ MayStop /\ ~stopping
    /\ stopping' = TRUE
    /\ UNCHANGED <<store, queue, client, worker, timer, faults, crashes, lost, ghosts>>

WorkerExit(w) ==
    /\ stopping
    /\ WorkerStep(w, "idle", "exited")
    /\ UNCHANGED <<store, queue, client, wjob, wrow, timer, stopping, faults, crashes, lost, ghosts>>

(* Jobs that some goroutine, timer or the channel holds. *)
InMemory ==
    {queue[i] : i \in DOMAIN queue} \cup {cjob[c] : c \in Clients}
        \cup {wjob[w] : w \in Workers} \cup {tjob[t] : t \in Timers}

(* The next process starts with New and Start: no row is looked at. *)
Crash ==
    /\ crashes < MaxCrashes
    /\ crashes' = crashes + 1
    /\ lost' = lost \cup (InMemory \ {NoJob})
    /\ queue' = <<>>
    /\ cpc' = [c \in Clients |-> "idle"] /\ cjob' = [c \in Clients |-> NoJob]
    /\ ckey' = [c \in Clients |-> NoKey] /\ crow' = [c \in Clients |-> NoRow]
    /\ wpc' = [w \in Workers |-> "idle"] /\ wjob' = [w \in Workers |-> NoJob]
    /\ wrow' = [w \in Workers |-> NoRow]
    /\ tpc' = [t \in Timers |-> "idle"] /\ tjob' = [t \in Timers |-> NoJob]
    /\ trow' = [t \in Timers |-> NoRow]
    /\ stopping' = FALSE
    /\ UNCHANGED <<store, faults, ghosts>>

-----------------------------------------------------------------------------

ClientNext(c) ==
    \/ \E k \in Keys : SubmitHit(c, k)
    \/ \E k \in Keys \cup {NoKey} : SubmitMiss(c, k)
    \/ SubmitCreate(c) \/ SubmitSaveKey(c) \/ SubmitEnqueue(c)
    \/ \E j \in Jobs : RetryLoad(c, j) \/ CancelLoad(c, j)
    \/ RetryUpdate(c) \/ RetryEnqueue(c) \/ CancelUpdate(c)

WorkerNext(w) ==
    \/ Dequeue(w) \/ WorkerLoad(w) \/ WorkerStart(w) \/ WorkerLogStart(w) \/ Execute(w)
    \/ WorkerCommit(w) \/ WorkerLogSuccess(w)
    \/ WorkerGiveUp(w) \/ WorkerLogGiveUp(w) \/ WorkerDeadLetter(w)
    \/ WorkerLogFailure(w) \/ WorkerMarkRetry(w)
    \/ WorkerExit(w)

TimerNext(t) == TimerLoad(t) \/ TimerUpdate(t) \/ TimerEnqueue(t)

Next ==
    \/ \E c \in Clients : ClientNext(c)
    \/ \E w \in Workers : WorkerNext(w)
    \/ \E t \in Timers : TimerNext(t)
    \/ Stop
    \/ Crash

Spec == Init /\ [][Next]_vars

(* A call in progress, a worker and a timer are scheduled; Execute returns *)
(* because its HTTP client has a timeout.  Nobody has to call the API.     *)
Fairness ==
    /\ \A c \in Clients : WF_vars(cpc[c] # "idle" /\ ClientNext(c))
    /\ \A w \in Workers : WF_vars(WorkerNext(w))
    /\ \A t \in Timers  : WF_vars(TimerNext(t))

FairSpec == Spec /\ Fairness

-----------------------------------------------------------------------------
(* Properties *)

(* Type correctness of the store, the channel and every goroutine. *)
StoreTypeOK ==
    /\ row \in [Jobs -> JobRow]
    /\ idem \in [Keys -> Jobs \cup {NoJob}]
    /\ attemptLog \subseteq Jobs \X Nat \X {"RUNNING", "SUCCEEDED", "FAILED"}
    /\ deadLetters \in [Jobs -> Nat]

QueueTypeOK == queue \in Seq(Jobs) /\ Len(queue) <= QueueBuffer

ClientTypeOK ==
    /\ cpc \in [Clients -> {"idle", "create", "saveKey", "enqueue",
                            "retryUpdate", "retryEnqueue", "cancelUpdate"}]
    /\ cjob \in [Clients -> Jobs \cup {NoJob}]
    /\ ckey \in [Clients -> Keys \cup {NoKey}]
    /\ crow \in [Clients -> JobRow]

WorkerTypeOK ==
    /\ wpc \in [Workers -> {"idle", "load", "start", "logStart", "exec", "commit", "fail",
                            "logSuccess", "logGiveUp", "deadLetter", "markRetry", "exited"}]
    /\ wjob \in [Workers -> Jobs \cup {NoJob}]
    /\ wrow \in [Workers -> JobRow]

TimerTypeOK ==
    /\ tpc \in [Timers -> {"idle", "armed", "update", "enqueue"}]
    /\ tjob \in [Timers -> Jobs \cup {NoJob}]
    /\ trow \in [Timers -> JobRow]

CounterTypeOK ==
    /\ stopping \in BOOLEAN
    /\ faults \in Nat /\ crashes \in Nat
    /\ retried \in [Jobs -> Nat]
    /\ lost \subseteq Jobs
    /\ returned \subseteq Keys \X Jobs

TypeOK ==
    /\ StoreTypeOK /\ QueueTypeOK
    /\ ClientTypeOK /\ WorkerTypeOK /\ TimerTypeOK
    /\ CounterTypeOK

(* Who may still bring job j forward: an activation of the job. *)
Handing(c, j) == cjob[c] = j /\ cpc[c] \in {"saveKey", "enqueue", "retryEnqueue"}
Driving(w, j) == wjob[w] = j /\ wpc[w] \in {"load", "start", "logStart", "exec", "commit", "fail",
                                            "markRetry"}
Timing(t, j)  == tjob[t] = j
Waiting(j)    == \E i \in DOMAIN queue : queue[i] = j

Active(j) ==
    \/ Waiting(j)
    \/ \E c \in Clients : Handing(c, j)
    \/ \E w \in Workers : Driving(w, j)
    \/ \E t \in Timers : Timing(t, j)

(* A job whose row says it is queued, running or waiting for a retry is    *)
(* still held by the channel, a worker, a timer or the call that is about  *)
(* to hand it over, unless a hand-over of it was lost: refused by the full *)
(* channel, cut by a store error or by a crash.  No interleaving of        *)
(* cancel, retry, timer and worker loses a job in any other way.           *)
NoJobForgotten == \A j \in Jobs : row[j].status \in Pending => Active(j) \/ j \in lost

(* At most one activation of j in all: in one place of the channel, or     *)
(* with one worker, or one timer, or one submitting call.                  *)
WaitingOnce(j) == \A i, k \in DOMAIN queue : queue[i] = j /\ queue[k] = j => i = k

OneActivation(j) ==
    /\ WaitingOnce(j)
    /\ \A c, d \in Clients : Handing(c, j) /\ Handing(d, j) => c = d
    /\ \A w, v \in Workers : wjob[w] = j /\ wjob[v] = j => w = v
    /\ \A t, u \in Timers : Timing(t, j) /\ Timing(u, j) => t = u
    /\ \A c \in Clients : Handing(c, j) =>
         /\ ~Waiting(j)
         /\ \A w \in Workers : wjob[w] # j
         /\ \A t \in Timers : tjob[t] # j
    /\ Waiting(j) => /\ \A w \in Workers : wjob[w] # j
                     /\ \A t \in Timers : tjob[t] # j
    /\ \A w \in Workers, t \in Timers : ~(wjob[w] = j /\ tjob[t] = j)

(* Until RetryJob is accepted for a job, the job has at most one activation. *)
SingleActivation == \A j \in Jobs : retried[j] = 0 => OneActivation(j)

(* Held and Fresh complete the inductive invariant: which steps of a        *)
(* goroutine come with a job, and that an unused id is held by nobody.      *)
Held ==
    /\ \A c \in Clients : cjob[c] = NoJob <=> cpc[c] \in {"idle", "create"}
    /\ \A c \in Clients : cpc[c] = "saveKey" => ckey[c] # NoKey
    /\ \A w \in Workers : wjob[w] = NoJob <=> wpc[w] \in {"idle", "exited"}
    /\ \A t \in Timers : tjob[t] = NoJob <=> tpc[t] = "idle"

Fresh ==
    \A j \in Jobs : row[j].status = "ABSENT" =>
        /\ ~Waiting(j)
        /\ \A c \in Clients : cjob[c] # j
        /\ \A w \in Workers : wjob[w] # j
        /\ \A t \in Timers : tjob[t] # j

(* Consequence: until RetryJob is accepted, a job that has been given up has *)
(* no activation left, so it cannot run again; nor has one that succeeded,   *)
(* while no store call fails.                                                *)
SettledIsOver ==
    \A j \in Jobs :
        /\ retried[j] = 0
        /\ row[j].status = "FAILED" \/ (row[j].status = "SUCCEEDED" /\ faults = 0)
        => ~Active(j)

(* The attempt counter stays within the limit, and every accepted RetryJob  *)
(* allows one attempt more, although cancel and the timer write back rows   *)
(* they loaded earlier and a retried job may be in two places.              *)
AttemptsWithinLimit == \A j \in Jobs : row[j].attempts <= row[j].limit + retried[j]

(* A job given up is dead-lettered once: the record exists, or the worker  *)
(* that gave up is about to write it, or the write was lost; and no second *)
(* record appears before RetryJob is accepted.                             *)
GivingUp(w, j) == wjob[w] = j /\ wpc[w] \in {"logGiveUp", "deadLetter"}

DeadLetteredOnce ==
    \A j \in Jobs : retried[j] = 0 =>
        /\ deadLetters[j] <= 1
        /\ deadLetters[j] = 1 => ~Active(j) /\ \A w \in Workers : ~GivingUp(w, j)
        /\ row[j].status = "FAILED" => \/ deadLetters[j] = 1 \/ j \in lost
                                       \/ \E w \in Workers : GivingUp(w, j)

(* The attempt ledger agrees with the row of a succeeded job, unless the   *)
(* job was retried or a store call was lost on the way.                    *)
LedgerAgrees ==
    \A j \in Jobs : row[j].status = "SUCCEEDED" /\ retried[j] = 0 /\ j \notin lost /\ faults = 0 =>
        \/ <<j, row[j].attempts, "SUCCEEDED">> \in attemptLog
        \/ \E w \in Workers : wjob[w] = j /\ wpc[w] = "logSuccess"

(* A canceled job of which no worker, timer or RetryJob call has a copy    *)
(* stays so until RetryJob loads it: a cancel is only ever undone by a     *)
(* goroutine that had loaded the row before.                               *)
CanceledAndUnheld(j) ==
    /\ row[j].status = "CANCELED"
    /\ \A w \in Workers : wjob[w] = j => wpc[w] = "load"
    /\ \A t \in Timers : tjob[t] = j => tpc[t] # "update"
    /\ \A c \in Clients : cjob[c] = j => cpc[c] # "retryUpdate"

CancelSticks ==
    [][\A j \in Jobs : CanceledAndUnheld(j) =>
          \/ CanceledAndUnheld(j)'
          \/ \E c \in Clients : cpc'[c] = "retryUpdate" /\ cjob'[c] = j]_vars

(* Two keyed submissions that both return a job under one key return the   *)
(* same job.                                                               *)
IdempotentSubmit == \A p, q \in returned : p[1] = q[1] => p[2] = q[2]

(* Every submitted job ends SUCCEEDED, FAILED or CANCELED, after its       *)
(* retries and whatever statement fails, unless a hand-over of it was lost *)
(* or the service is stopped.                                              *)
JobsSettle ==
    \A j \in Jobs : row[j].status # "ABSENT" ~> row[j].status \in Settled \/ j \in lost \/ stopping

(* To those who submit under keys the engine is the one KeyedIntake          *)
(* describes, whatever statement fails and wherever it crashes: jobs are not *)
(* taken back, and a key is bound once, to a job that exists.                *)
Intake == INSTANCE KeyedIntake WITH created <- {j \in Jobs : row[j].status # "ABSENT"},
                                    binding <- idem
RefinesIntake == Intake!Spec
=============================================================================
