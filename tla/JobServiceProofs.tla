-------------------------- MODULE JobServiceProofs --------------------------
(***************************************************************************)
(* What holds of JobService for every set of jobs, keys, callers, workers  *)
(* and timers, every channel capacity and every bound: the types; a job in *)
(* a pending status is not forgotten; before RetryJob is accepted it is    *)
(* held only once, and once settled by nobody; a cancel sticks.            *)
(***************************************************************************)
EXTENDS JobService, TLAPS

(* A status change keeps a row a row and sets its status. *)
LEMMA WithStatusType ==
    ASSUME NEW r \in JobRow, NEW s \in Settled \cup Pending
    PROVE  /\ WithStatus(r, s) \in JobRow
           /\ WithStatus(r, s).status = s
BY DEF WithStatus, JobRow, Status

(* MarkRunning keeps a row a row and sets it RUNNING. *)
LEMMA StartedType ==
    ASSUME NEW r \in JobRow
    PROVE  Started(r) \in JobRow /\ Started(r).status = "RUNNING"
BY DEF Started, JobRow, Status, Pending

(* A row that is not there is a row without a status. *)
LEMMA NoRowType == NoRow \in JobRow /\ NoRow.status = "ABSENT"
BY DEF NoRow, JobRow, Status

(* A created job is queued with a positive attempt limit. *)
LEMMA EffectiveLimitType ==
    ASSUME NEW m \in Nat
    PROVE  /\ EffectiveLimit(m) \in Nat \ {0}
           /\ [status |-> "QUEUED", attempts |-> 0, limit |-> EffectiveLimit(m)] \in JobRow
BY DEF EffectiveLimit, JobRow, Status, Pending

(* The upsert keeps the ledger a set of attempts. *)
LEMMA RecordedType ==
    ASSUME NEW log, log \subseteq Jobs \X Nat \X {"RUNNING", "SUCCEEDED", "FAILED"},
           NEW j \in Jobs, NEW n \in Nat, NEW s \in {"RUNNING", "SUCCEEDED", "FAILED"}
    PROVE  Recorded(log, j, n, s) \subseteq Jobs \X Nat \X {"RUNNING", "SUCCEEDED", "FAILED"}
BY DEF Recorded

-----------------------------------------------------------------------------
(* Type correctness, with the steps at which a goroutine holds a job. *)

(* An empty service satisfies the invariant. *)
LEMMA TypeInit == Init => TypeOK /\ Held
<1>. SUFFICES ASSUME Init PROVE TypeOK /\ Held
  OBVIOUS
<1>1. TypeOK
  <2>. USE JobServiceAssumption, NoRowType DEF Init
  <2>1. StoreTypeOK
    BY DEF StoreTypeOK
  <2>2. QueueTypeOK
    BY DEF QueueTypeOK
  <2>4. CounterTypeOK
    BY DEF CounterTypeOK
  <2>3. ClientTypeOK /\ WorkerTypeOK /\ TimerTypeOK
    BY DEF ClientTypeOK, WorkerTypeOK, TimerTypeOK
  <2>. QED
    BY <2>1, <2>2, <2>3, <2>4 DEF TypeOK
<1>2. Held
  BY JobServiceAssumption DEF Init, Held
<1>. QED
  BY <1>1, <1>2

(* What the shared pieces of the handlers do to the types. *)
LEMMA EnqueueType ==
    ASSUME QueueTypeOK, lost \subseteq Jobs, NEW j \in Jobs, Enqueue(j)
    PROVE  QueueTypeOK' /\ lost' \subseteq Jobs
<1>1. CASE Len(queue) < QueueBuffer
  <2>1. queue' = Append(queue, j) /\ lost' = lost
    BY <1>1 DEF Enqueue
  <2>2. queue' \in Seq(Jobs) /\ Len(queue') = Len(queue) + 1
    BY <2>1 DEF QueueTypeOK
  <2>3. Len(queue) \in Nat
    BY DEF QueueTypeOK
  <2>. QED
    BY <1>1, <2>1, <2>2, <2>3, JobServiceAssumption DEF QueueTypeOK
<1>2. CASE ~(Len(queue) < QueueBuffer)
  BY <1>2 DEF Enqueue, QueueTypeOK
<1>. QED
  BY <1>1, <1>2

(* Writing an attempt keeps the ledger's type, also when the write fails. *)
LEMMA RecordAttemptType ==
    ASSUME TypeOK, NEW w \in Workers, wjob[w] # NoJob,
           NEW s \in {"RUNNING", "SUCCEEDED", "FAILED"}, RecordAttempt(w, s)
    PROVE  /\ attemptLog' \subseteq Jobs \X Nat \X {"RUNNING", "SUCCEEDED", "FAILED"}
           /\ faults' \in Nat
<1>1. wjob[w] \in Jobs /\ wrow[w].attempts \in Nat
  BY DEF TypeOK, WorkerTypeOK, JobRow
<1>2. Recorded(attemptLog, wjob[w], wrow[w].attempts, s)
        \subseteq Jobs \X Nat \X {"RUNNING", "SUCCEEDED", "FAILED"}
  BY <1>1, RecordedType DEF TypeOK, StoreTypeOK
<1>. QED
  BY <1>2 DEF RecordAttempt, StoreFault, TypeOK, StoreTypeOK, CounterTypeOK

(* Every handler keeps the types. *)
LEMMA TypeStep ==
    ASSUME TypeOK, Held, [Next]_vars
    PROVE  TypeOK'
<1>. USE JobServiceAssumption, NoRowType DEF Held
<1>1. ASSUME NEW c \in Clients, NEW k \in Keys, SubmitHit(c, k) PROVE TypeOK'
  <2>1. CounterTypeOK'
    BY <1>1
       DEF TypeOK, StoreTypeOK, QueueTypeOK, CounterTypeOK, ClientTypeOK, WorkerTypeOK,
           TimerTypeOK, SubmitHit, store, client, worker, timer, ghosts, Settled, Pending
  <2>. QED
    BY <1>1, <2>1
       DEF TypeOK, StoreTypeOK, QueueTypeOK, ClientTypeOK, WorkerTypeOK, TimerTypeOK,
           SubmitHit, store, client, worker, timer, ghosts
<1>2. ASSUME NEW c \in Clients, NEW k \in Keys \cup {NoKey}, SubmitMiss(c, k)
      PROVE  TypeOK'
  <2>1. ClientTypeOK'
    BY <1>2
       DEF TypeOK, StoreTypeOK, ClientTypeOK, SubmitMiss, ClientStep, store, client,
           worker, timer, ghosts, Settled, Pending
  <2>. QED
    BY <1>2, <2>1
       DEF TypeOK, StoreTypeOK, QueueTypeOK, WorkerTypeOK, TimerTypeOK, CounterTypeOK,
           SubmitMiss, store, client, worker, timer, ghosts
<1>3. ASSUME NEW c \in Clients, SubmitCreate(c) PROVE TypeOK'
  <2>1. StoreTypeOK'
    BY <1>3, EffectiveLimitType
       DEF TypeOK, StoreTypeOK, ClientTypeOK, WorkerTypeOK, TimerTypeOK, SubmitCreate, Insert,
           ClientStep, ClientDone, StoreFault, Unused, store, client, worker, timer,
           ghosts, Settled, Pending
  <2>2. ClientTypeOK'
    BY <1>3, EffectiveLimitType
       DEF TypeOK, StoreTypeOK, ClientTypeOK, SubmitCreate, Insert, ClientStep, ClientDone,
           StoreFault, Unused, store, client, worker, timer, ghosts, Settled, Pending
  <2>3. CounterTypeOK'
    BY <1>3, EffectiveLimitType
       DEF TypeOK, StoreTypeOK, QueueTypeOK, CounterTypeOK, ClientTypeOK, WorkerTypeOK,
           TimerTypeOK, SubmitCreate, Insert, ClientStep, ClientDone, StoreFault, Unused, store,
           client, worker, timer, ghosts, Settled, Pending
  <2>. QED
    BY <1>3, <2>1, <2>2, <2>3
       DEF TypeOK, QueueTypeOK, WorkerTypeOK, TimerTypeOK, SubmitCreate, Insert, store, client,
           worker, timer, ghosts
<1>4. ASSUME NEW c \in Clients, SubmitSaveKey(c) PROVE TypeOK'
  <2>1. StoreTypeOK'
    BY <1>4
       DEF TypeOK, StoreTypeOK, ClientTypeOK, WorkerTypeOK, TimerTypeOK, SubmitSaveKey, BindKey,
           ClientStep, ClientDone, StoreFault, store, client, worker, timer, ghosts,
           Settled, Pending
  <2>2. ClientTypeOK'
    BY <1>4
       DEF TypeOK, StoreTypeOK, ClientTypeOK, SubmitSaveKey, BindKey, ClientStep, ClientDone,
           StoreFault, store, client, worker, timer, ghosts, Settled, Pending
  <2>3. CounterTypeOK'
    BY <1>4
       DEF TypeOK, StoreTypeOK, QueueTypeOK, CounterTypeOK, ClientTypeOK, WorkerTypeOK,
           TimerTypeOK, SubmitSaveKey, BindKey, ClientStep, ClientDone, StoreFault, store, client,
           worker, timer, ghosts, Settled, Pending
  <2>. QED
    BY <1>4, <2>1, <2>2, <2>3
       DEF TypeOK, QueueTypeOK, WorkerTypeOK, TimerTypeOK, SubmitSaveKey, BindKey, store, client,
           worker, timer, ghosts
<1>5. ASSUME NEW c \in Clients, SubmitEnqueue(c) PROVE TypeOK'
  <2>1. QueueTypeOK'
    BY <1>5, EnqueueType DEF SubmitEnqueue, TypeOK, ClientTypeOK, CounterTypeOK
  <2>2. ClientTypeOK'
    BY <1>5
       DEF TypeOK, StoreTypeOK, ClientTypeOK, SubmitEnqueue, Enqueue, ClientDone, store,
           client, worker, timer, ghosts, Settled, Pending
  <2>3. CounterTypeOK'
    <3>1. cjob[c] \in Jobs
      BY <1>5 DEF SubmitEnqueue, TypeOK, ClientTypeOK
    <3>2. lost' \subseteq Jobs
      BY <1>5, <3>1, EnqueueType DEF SubmitEnqueue, TypeOK, CounterTypeOK
    <3>. QED
      BY <1>5, <3>1, <3>2 DEF SubmitEnqueue, TypeOK, CounterTypeOK, ClientTypeOK, ghosts
  <2>. QED
    BY <1>5, <2>1, <2>2, <2>3
       DEF TypeOK, StoreTypeOK, WorkerTypeOK, TimerTypeOK, SubmitEnqueue, store, client,
           worker, timer, ghosts
<1>6. ASSUME NEW c \in Clients, NEW j \in Jobs, RetryLoad(c, j) PROVE TypeOK'
  <2>1. ClientTypeOK'
    BY <1>6
       DEF TypeOK, StoreTypeOK, ClientTypeOK, RetryLoad, ClientStep, store, client,
           worker, timer, ghosts, Settled, Pending
  <2>. QED
    BY <1>6, <2>1
       DEF TypeOK, StoreTypeOK, QueueTypeOK, WorkerTypeOK, TimerTypeOK, CounterTypeOK,
           RetryLoad, store, client, worker, timer, ghosts
<1>7. ASSUME NEW c \in Clients, NEW j \in Jobs, CancelLoad(c, j) PROVE TypeOK'
  <2>1. ClientTypeOK'
    BY <1>7
       DEF TypeOK, StoreTypeOK, ClientTypeOK, CancelLoad, ClientStep, store, client,
           worker, timer, ghosts, Settled, Pending
  <2>. QED
    BY <1>7, <2>1
       DEF TypeOK, StoreTypeOK, QueueTypeOK, WorkerTypeOK, TimerTypeOK, CounterTypeOK,
           CancelLoad, store, client, worker, timer, ghosts
<1>8. ASSUME NEW c \in Clients, RetryUpdate(c) PROVE TypeOK'
  <2>1. StoreTypeOK'
    BY <1>8, WithStatusType
       DEF TypeOK, StoreTypeOK, ClientTypeOK, WorkerTypeOK, TimerTypeOK, RetryUpdate,
           ClientStep, ClientDone, StoreFault, store, client, worker, timer, ghosts,
           Settled, Pending
  <2>2. ClientTypeOK'
    BY <1>8, WithStatusType
       DEF TypeOK, StoreTypeOK, ClientTypeOK, RetryUpdate, ClientStep, ClientDone,
           StoreFault, store, client, worker, timer, ghosts, Settled, Pending
  <2>3. CounterTypeOK'
    <3>1. cjob[c] \in Jobs
      BY <1>8 DEF RetryUpdate, ClientStep, TypeOK, ClientTypeOK
    <3>2. retried' \in [Jobs -> Nat]
      BY <1>8, <3>1 DEF RetryUpdate, TypeOK, CounterTypeOK
    <3>. QED
      BY <1>8, <3>1, <3>2 DEF RetryUpdate, StoreFault, TypeOK, CounterTypeOK, ghosts
  <2>. QED
    BY <1>8, <2>1, <2>2, <2>3
       DEF TypeOK, QueueTypeOK, WorkerTypeOK, TimerTypeOK, RetryUpdate, store, client,
           worker, timer, ghosts
<1>9. ASSUME NEW c \in Clients, RetryEnqueue(c) PROVE TypeOK'
  <2>1. QueueTypeOK'
    BY <1>9, EnqueueType DEF RetryEnqueue, TypeOK, ClientTypeOK, CounterTypeOK
  <2>2. ClientTypeOK'
    BY <1>9
       DEF TypeOK, StoreTypeOK, ClientTypeOK, RetryEnqueue, Enqueue, ClientDone, store,
           client, worker, timer, ghosts, Settled, Pending
  <2>3. CounterTypeOK'
    <3>1. cjob[c] \in Jobs
      BY <1>9 DEF RetryEnqueue, TypeOK, ClientTypeOK
    <3>2. lost' \subseteq Jobs
      BY <1>9, <3>1, EnqueueType DEF RetryEnqueue, TypeOK, CounterTypeOK
    <3>. QED
      BY <1>9, <3>1, <3>2 DEF RetryEnqueue, TypeOK, CounterTypeOK, ClientTypeOK, ghosts
  <2>. QED
    BY <1>9, <2>1, <2>2, <2>3
       DEF TypeOK, StoreTypeOK, WorkerTypeOK, TimerTypeOK, RetryEnqueue, store, client,
           worker, timer, ghosts
<1>10. ASSUME NEW c \in Clients, CancelUpdate(c) PROVE TypeOK'
  <2>1. StoreTypeOK'
    BY <1>10, WithStatusType
       DEF TypeOK, StoreTypeOK, ClientTypeOK, WorkerTypeOK, TimerTypeOK, CancelUpdate,
           UpdateJob, ClientDone, StoreFault, store, client, worker, timer, ghosts,
           Settled, Pending
  <2>2. ClientTypeOK'
    BY <1>10, WithStatusType
       DEF TypeOK, StoreTypeOK, ClientTypeOK, CancelUpdate, UpdateJob, ClientDone,
           StoreFault, store, client, worker, timer, ghosts, Settled, Pending
  <2>3. CounterTypeOK'
    BY <1>10, WithStatusType
       DEF TypeOK, StoreTypeOK, QueueTypeOK, CounterTypeOK, ClientTypeOK, WorkerTypeOK,
           TimerTypeOK, CancelUpdate, UpdateJob, ClientDone, StoreFault, store, client,
           worker, timer, ghosts, Settled, Pending
  <2>. QED
    BY <1>10, <2>1, <2>2, <2>3
       DEF TypeOK, QueueTypeOK, WorkerTypeOK, TimerTypeOK, CancelUpdate, store, client,
           worker, timer, ghosts
<1>11. ASSUME NEW w \in Workers, Dequeue(w) PROVE TypeOK'
  <2>1. QueueTypeOK'
    BY <1>11
       DEF TypeOK, QueueTypeOK, ClientTypeOK, TimerTypeOK, Dequeue, WorkerStep, store,
           client, worker, timer, ghosts, Settled, Pending
  <2>2. WorkerTypeOK'
    BY <1>11
       DEF TypeOK, StoreTypeOK, QueueTypeOK, WorkerTypeOK, Dequeue, WorkerStep, store,
           client, worker, timer, ghosts, Settled, Pending
  <2>. QED
    BY <1>11, <2>1, <2>2
       DEF TypeOK, StoreTypeOK, ClientTypeOK, TimerTypeOK, CounterTypeOK, Dequeue, store,
           client, worker, timer, ghosts
<1>12. ASSUME NEW w \in Workers, WorkerLoad(w) PROVE TypeOK'
  <2>1. WorkerTypeOK'
    BY <1>12, ZenonT(60)
       DEF TypeOK, StoreTypeOK, QueueTypeOK, WorkerTypeOK, WorkerLoad, WorkerDone,
           StoreFault, store, client, worker, timer, ghosts, Settled, Pending
  <2>2. CounterTypeOK'
    BY <1>12
       DEF TypeOK, StoreTypeOK, QueueTypeOK, CounterTypeOK, ClientTypeOK, WorkerTypeOK,
           TimerTypeOK, WorkerLoad, WorkerDone, StoreFault, store, client, worker, timer,
           ghosts, Settled, Pending
  <2>. QED
    BY <1>12, <2>1, <2>2
       DEF TypeOK, StoreTypeOK, QueueTypeOK, ClientTypeOK, TimerTypeOK, WorkerLoad, store,
           client, worker, timer, ghosts
<1>13. ASSUME NEW w \in Workers, WorkerStart(w) PROVE TypeOK'
  <2>1. StoreTypeOK'
    BY <1>13, StartedType
       DEF TypeOK, StoreTypeOK, ClientTypeOK, WorkerTypeOK, TimerTypeOK, WorkerStart,
           WorkerStep, UpdateJob, StoreFault, store, client, worker, timer, ghosts,
           Settled, Pending
  <2>2. WorkerTypeOK'
    BY <1>13, StartedType
       DEF TypeOK, StoreTypeOK, QueueTypeOK, WorkerTypeOK, WorkerStart, WorkerStep,
           UpdateJob, StoreFault, store, client, worker, timer, ghosts, Settled, Pending
  <2>3. CounterTypeOK'
    BY <1>13, StartedType
       DEF TypeOK, StoreTypeOK, QueueTypeOK, CounterTypeOK, ClientTypeOK, WorkerTypeOK,
           TimerTypeOK, WorkerStart, WorkerStep, UpdateJob, StoreFault, store, client,
           worker, timer, ghosts, Settled, Pending
  <2>. QED
    BY <1>13, <2>1, <2>2, <2>3
       DEF TypeOK, QueueTypeOK, ClientTypeOK, TimerTypeOK, WorkerStart, store, client,
           worker, timer, ghosts
<1>14. ASSUME NEW w \in Workers, WorkerLogStart(w) PROVE TypeOK'
  <2>1. StoreTypeOK'
    <3>1. wjob[w] # NoJob
      BY <1>14 DEF WorkerLogStart, WorkerStep
    <3>2. attemptLog' \subseteq Jobs \X Nat \X {"RUNNING", "SUCCEEDED", "FAILED"}
      BY <1>14, <3>1, RecordAttemptType DEF WorkerLogStart
    <3>. QED
      BY <1>14, <3>2 DEF WorkerLogStart, TypeOK, StoreTypeOK
  <2>2. WorkerTypeOK'
    BY <1>14, RecordedType
       DEF TypeOK, StoreTypeOK, QueueTypeOK, WorkerTypeOK, WorkerLogStart, WorkerStep,
           RecordAttempt, StoreFault, store, client, worker, timer, ghosts, Settled,
           Pending
  <2>3. CounterTypeOK'
    BY <1>14, RecordedType
       DEF TypeOK, StoreTypeOK, QueueTypeOK, CounterTypeOK, ClientTypeOK, WorkerTypeOK,
           TimerTypeOK, WorkerLogStart, WorkerStep, RecordAttempt, StoreFault, store,
           client, worker, timer, ghosts, Settled, Pending
  <2>. QED
    BY <1>14, <2>1, <2>2, <2>3
       DEF TypeOK, QueueTypeOK, ClientTypeOK, TimerTypeOK, WorkerLogStart, store, client,
           worker, timer, ghosts
<1>15. ASSUME NEW w \in Workers, Execute(w) PROVE TypeOK'
  <2>1. WorkerTypeOK'
    BY <1>15
       DEF TypeOK, StoreTypeOK, QueueTypeOK, WorkerTypeOK, Execute, WorkerStep, store,
           client, worker, timer, ghosts, Settled, Pending
  <2>. QED
    BY <1>15, <2>1
       DEF TypeOK, StoreTypeOK, QueueTypeOK, ClientTypeOK, TimerTypeOK, CounterTypeOK,
           Execute, store, client, worker, timer, ghosts
<1>16. ASSUME NEW w \in Workers, WorkerCommit(w) PROVE TypeOK'
  <2>1. StoreTypeOK'
    BY <1>16, WithStatusType
       DEF TypeOK, StoreTypeOK, ClientTypeOK, WorkerTypeOK, TimerTypeOK, WorkerCommit,
           WorkerStep, StoreFault, store, client, worker, timer, ghosts, Settled, Pending
  <2>2. WorkerTypeOK'
    BY <1>16, WithStatusType
       DEF TypeOK, StoreTypeOK, QueueTypeOK, WorkerTypeOK, WorkerCommit, WorkerStep,
           StoreFault, store, client, worker, timer, ghosts, Settled, Pending
  <2>3. CounterTypeOK'
    BY <1>16, WithStatusType
       DEF TypeOK, StoreTypeOK, QueueTypeOK, CounterTypeOK, ClientTypeOK, WorkerTypeOK,
           TimerTypeOK, WorkerCommit, WorkerStep, StoreFault, store, client, worker,
           timer, ghosts, Settled, Pending
  <2>. QED
    BY <1>16, <2>1, <2>2, <2>3
       DEF TypeOK, QueueTypeOK, ClientTypeOK, TimerTypeOK, WorkerCommit, store, client,
           worker, timer, ghosts
<1>17. ASSUME NEW w \in Workers, WorkerLogSuccess(w) PROVE TypeOK'
  <2>1. StoreTypeOK'
    <3>1. wjob[w] # NoJob
      BY <1>17 DEF WorkerLogSuccess, WorkerStep
    <3>2. attemptLog' \subseteq Jobs \X Nat \X {"RUNNING", "SUCCEEDED", "FAILED"}
      BY <1>17, <3>1, RecordAttemptType DEF WorkerLogSuccess
    <3>. QED
      BY <1>17, <3>2 DEF WorkerLogSuccess, TypeOK, StoreTypeOK
  <2>2. WorkerTypeOK'
    BY <1>17, RecordedType
       DEF TypeOK, StoreTypeOK, QueueTypeOK, WorkerTypeOK, WorkerLogSuccess, WorkerDone,
           RecordAttempt, StoreFault, store, client, worker, timer, ghosts, Settled,
           Pending
  <2>3. CounterTypeOK'
    BY <1>17, RecordedType
       DEF TypeOK, StoreTypeOK, QueueTypeOK, CounterTypeOK, ClientTypeOK, WorkerTypeOK,
           TimerTypeOK, WorkerLogSuccess, WorkerDone, RecordAttempt, StoreFault, store,
           client, worker, timer, ghosts, Settled, Pending
  <2>. QED
    BY <1>17, <2>1, <2>2, <2>3
       DEF TypeOK, QueueTypeOK, ClientTypeOK, TimerTypeOK, WorkerLogSuccess, store,
           client, worker, timer, ghosts
<1>18. ASSUME NEW w \in Workers, WorkerGiveUp(w) PROVE TypeOK'
  <2>1. StoreTypeOK'
    BY <1>18, WithStatusType
       DEF TypeOK, StoreTypeOK, ClientTypeOK, WorkerTypeOK, TimerTypeOK, WorkerGiveUp,
           WorkerStep, UpdateJob, StoreFault, store, client, worker, timer, ghosts,
           Settled, Pending
  <2>2. WorkerTypeOK'
    BY <1>18, WithStatusType
       DEF TypeOK, StoreTypeOK, QueueTypeOK, WorkerTypeOK, WorkerGiveUp, WorkerStep,
           UpdateJob, StoreFault, store, client, worker, timer, ghosts, Settled, Pending
  <2>3. CounterTypeOK'
    <3>1. wjob[w] \in Jobs /\ faults' \in Nat
      BY <1>18
         DEF WorkerGiveUp, WorkerStep, UpdateJob, StoreFault, TypeOK, WorkerTypeOK,
             CounterTypeOK
    <3>. QED
      BY <1>18, <3>1 DEF WorkerGiveUp, TypeOK, CounterTypeOK, ghosts
  <2>. QED
    BY <1>18, <2>1, <2>2, <2>3
       DEF TypeOK, QueueTypeOK, ClientTypeOK, TimerTypeOK, WorkerGiveUp, store, client,
           worker, timer, ghosts
<1>19. ASSUME NEW w \in Workers, WorkerLogGiveUp(w) PROVE TypeOK'
  <2>1. StoreTypeOK'
    <3>1. wjob[w] # NoJob
      BY <1>19 DEF WorkerLogGiveUp, WorkerStep
    <3>2. attemptLog' \subseteq Jobs \X Nat \X {"RUNNING", "SUCCEEDED", "FAILED"}
      BY <1>19, <3>1, RecordAttemptType DEF WorkerLogGiveUp
    <3>. QED
      BY <1>19, <3>2 DEF WorkerLogGiveUp, TypeOK, StoreTypeOK
  <2>2. WorkerTypeOK'
    BY <1>19, RecordedType
       DEF TypeOK, StoreTypeOK, QueueTypeOK, WorkerTypeOK, WorkerLogGiveUp, WorkerStep,
           RecordAttempt, StoreFault, store, client, worker, timer, ghosts, Settled,
           Pending
  <2>3. CounterTypeOK'
    BY <1>19, RecordedType
       DEF TypeOK, StoreTypeOK, QueueTypeOK, CounterTypeOK, ClientTypeOK, WorkerTypeOK,
           TimerTypeOK, WorkerLogGiveUp, WorkerStep, RecordAttempt, StoreFault, store,
           client, worker, timer, ghosts, Settled, Pending
  <2>. QED
    BY <1>19, <2>1, <2>2, <2>3
       DEF TypeOK, QueueTypeOK, ClientTypeOK, TimerTypeOK, WorkerLogGiveUp, store, client,
           worker, timer, ghosts
<1>20. ASSUME NEW w \in Workers, WorkerDeadLetter(w) PROVE TypeOK'
  <2>1. StoreTypeOK'
    BY <1>20
       DEF TypeOK, StoreTypeOK, ClientTypeOK, WorkerTypeOK, TimerTypeOK, WorkerDeadLetter,
           WorkerDone, StoreFault, store, client, worker, timer, ghosts, Settled, Pending
  <2>2. WorkerTypeOK'
    BY <1>20
       DEF TypeOK, StoreTypeOK, QueueTypeOK, WorkerTypeOK, WorkerDeadLetter, WorkerDone,
           StoreFault, store, client, worker, timer, ghosts, Settled, Pending
  <2>3. CounterTypeOK'
    <3>1. wjob[w] \in Jobs
      BY <1>20 DEF WorkerDeadLetter, TypeOK, WorkerTypeOK
    <3>. QED
      BY <1>20, <3>1 DEF WorkerDeadLetter, StoreFault, TypeOK, CounterTypeOK, ghosts
  <2>. QED
    BY <1>20, <2>1, <2>2, <2>3
       DEF TypeOK, QueueTypeOK, ClientTypeOK, TimerTypeOK, WorkerDeadLetter, store,
           client, worker, timer, ghosts
<1>21. ASSUME NEW w \in Workers, WorkerLogFailure(w) PROVE TypeOK'
  <2>1. StoreTypeOK'
    <3>1. wjob[w] # NoJob
      BY <1>21 DEF WorkerLogFailure, WorkerStep
    <3>2. attemptLog' \subseteq Jobs \X Nat \X {"RUNNING", "SUCCEEDED", "FAILED"}
      BY <1>21, <3>1, RecordAttemptType DEF WorkerLogFailure
    <3>. QED
      BY <1>21, <3>2 DEF WorkerLogFailure, TypeOK, StoreTypeOK
  <2>2. WorkerTypeOK'
    BY <1>21, RecordedType
       DEF TypeOK, StoreTypeOK, QueueTypeOK, WorkerTypeOK, WorkerLogFailure, WorkerStep,
           RecordAttempt, StoreFault, store, client, worker, timer, ghosts, Settled,
           Pending
  <2>3. CounterTypeOK'
    BY <1>21, RecordedType
       DEF TypeOK, StoreTypeOK, QueueTypeOK, CounterTypeOK, ClientTypeOK, WorkerTypeOK,
           TimerTypeOK, WorkerLogFailure, WorkerStep, RecordAttempt, StoreFault, store,
           client, worker, timer, ghosts, Settled, Pending
  <2>. QED
    BY <1>21, <2>1, <2>2, <2>3
       DEF TypeOK, QueueTypeOK, ClientTypeOK, TimerTypeOK, WorkerLogFailure, store,
           client, worker, timer, ghosts
<1>22. ASSUME NEW w \in Workers, WorkerMarkRetry(w) PROVE TypeOK'
  <2>1. StoreTypeOK'
    BY <1>22, WithStatusType
       DEF TypeOK, StoreTypeOK, ClientTypeOK, WorkerTypeOK, TimerTypeOK, WorkerMarkRetry,
           UpdateJob, WorkerDone, StoreFault, store, client, worker, timer, ghosts,
           Settled, Pending
  <2>2. WorkerTypeOK'
    BY <1>22, WithStatusType
       DEF TypeOK, StoreTypeOK, QueueTypeOK, WorkerTypeOK, WorkerMarkRetry, UpdateJob,
           WorkerDone, StoreFault, store, client, worker, timer, ghosts, Settled, Pending
  <2>3. TimerTypeOK'
    BY <1>22, WithStatusType
       DEF TypeOK, StoreTypeOK, TimerTypeOK, WorkerTypeOK, WorkerMarkRetry, UpdateJob,
           WorkerDone, StoreFault, store, client, worker, timer, ghosts, Settled, Pending
  <2>4. CounterTypeOK'
    BY <1>22, WithStatusType
       DEF TypeOK, StoreTypeOK, QueueTypeOK, CounterTypeOK, ClientTypeOK, WorkerTypeOK,
           TimerTypeOK, WorkerMarkRetry, UpdateJob, WorkerDone, StoreFault, store, client,
           worker, timer, ghosts, Settled, Pending
  <2>. QED
    BY <1>22, <2>1, <2>2, <2>3, <2>4
       DEF TypeOK, QueueTypeOK, ClientTypeOK, WorkerMarkRetry, store, client, worker,
           timer, ghosts
<1>23. ASSUME NEW w \in Workers, WorkerExit(w) PROVE TypeOK'
  <2>1. WorkerTypeOK'
    BY <1>23
       DEF TypeOK, StoreTypeOK, QueueTypeOK, WorkerTypeOK, WorkerExit, WorkerStep, store,
           client, worker, timer, ghosts, Settled, Pending
  <2>. QED
    BY <1>23, <2>1
       DEF TypeOK, StoreTypeOK, QueueTypeOK, ClientTypeOK, TimerTypeOK, CounterTypeOK,
           WorkerExit, store, client, worker, timer, ghosts
<1>24. ASSUME NEW t \in Timers, TimerLoad(t) PROVE TypeOK'
  <2>1. TimerTypeOK'
    BY <1>24
       DEF TypeOK, StoreTypeOK, TimerTypeOK, WorkerTypeOK, TimerLoad, TimerDone,
           StoreFault, store, client, worker, timer, ghosts, Settled, Pending
  <2>2. CounterTypeOK'
    BY <1>24
       DEF TypeOK, StoreTypeOK, QueueTypeOK, CounterTypeOK, ClientTypeOK, WorkerTypeOK,
           TimerTypeOK, TimerLoad, TimerDone, StoreFault, store, client, worker, timer,
           ghosts, Settled, Pending
  <2>. QED
    BY <1>24, <2>1, <2>2
       DEF TypeOK, StoreTypeOK, QueueTypeOK, ClientTypeOK, WorkerTypeOK, TimerLoad, store,
           client, worker, timer, ghosts
<1>25. ASSUME NEW t \in Timers, TimerUpdate(t) PROVE TypeOK'
  <2>1. StoreTypeOK'
    BY <1>25, WithStatusType
       DEF TypeOK, StoreTypeOK, ClientTypeOK, WorkerTypeOK, TimerTypeOK, TimerUpdate,
           UpdateJob, StoreFault, store, client, worker, timer, ghosts, Settled, Pending
  <2>2. TimerTypeOK'
    BY <1>25, WithStatusType
       DEF TypeOK, StoreTypeOK, TimerTypeOK, WorkerTypeOK, TimerUpdate, UpdateJob,
           StoreFault, store, client, worker, timer, ghosts, Settled, Pending
  <2>3. CounterTypeOK'
    BY <1>25, WithStatusType
       DEF TypeOK, StoreTypeOK, QueueTypeOK, CounterTypeOK, ClientTypeOK, WorkerTypeOK,
           TimerTypeOK, TimerUpdate, UpdateJob, StoreFault, store, client, worker, timer,
           ghosts, Settled, Pending
  <2>. QED
    BY <1>25, <2>1, <2>2, <2>3
       DEF TypeOK, QueueTypeOK, ClientTypeOK, WorkerTypeOK, TimerUpdate, store, client,
           worker, timer, ghosts
<1>26. ASSUME NEW t \in Timers, TimerEnqueue(t) PROVE TypeOK'
  <2>1. QueueTypeOK'
    BY <1>26, EnqueueType DEF TimerEnqueue, TypeOK, TimerTypeOK, CounterTypeOK
  <2>2. TimerTypeOK'
    BY <1>26
       DEF TypeOK, StoreTypeOK, TimerTypeOK, WorkerTypeOK, TimerEnqueue, Enqueue,
           TimerDone, store, client, worker, timer, ghosts, Settled, Pending
  <2>3. CounterTypeOK'
    BY <1>26
       DEF TypeOK, StoreTypeOK, QueueTypeOK, CounterTypeOK, ClientTypeOK, WorkerTypeOK,
           TimerTypeOK, TimerEnqueue, Enqueue, TimerDone, store, client, worker, timer,
           ghosts, Settled, Pending
  <2>. QED
    BY <1>26, <2>1, <2>2, <2>3
       DEF TypeOK, StoreTypeOK, ClientTypeOK, WorkerTypeOK, TimerEnqueue, store, client,
           worker, timer, ghosts
<1>27. CASE Stop
  <2>1. CounterTypeOK'
    BY <1>27
       DEF TypeOK, StoreTypeOK, QueueTypeOK, CounterTypeOK, ClientTypeOK, WorkerTypeOK,
           TimerTypeOK, Stop, store, client, worker, timer, ghosts, Settled, Pending
  <2>. QED
    BY <1>27, <2>1
       DEF TypeOK, StoreTypeOK, QueueTypeOK, ClientTypeOK, WorkerTypeOK, TimerTypeOK,
           Stop, store, client, worker, timer, ghosts
<1>28. CASE Crash
  <2>1. QueueTypeOK'
    BY <1>28
       DEF TypeOK, QueueTypeOK, ClientTypeOK, TimerTypeOK, Crash, InMemory, store, client,
           worker, timer, ghosts, Settled, Pending
  <2>2. ClientTypeOK'
    BY <1>28
       DEF TypeOK, StoreTypeOK, ClientTypeOK, Crash, InMemory, store, client, worker,
           timer, ghosts, Settled, Pending
  <2>3. WorkerTypeOK'
    BY <1>28
       DEF TypeOK, StoreTypeOK, QueueTypeOK, WorkerTypeOK, Crash, InMemory, store, client,
           worker, timer, ghosts, Settled, Pending
  <2>4. TimerTypeOK'
    BY <1>28
       DEF TypeOK, StoreTypeOK, TimerTypeOK, WorkerTypeOK, Crash, InMemory, store, client,
           worker, timer, ghosts, Settled, Pending
  <2>5. CounterTypeOK'
    <3>1. InMemory \ {NoJob} \subseteq Jobs
      BY DEF InMemory, TypeOK, QueueTypeOK, ClientTypeOK, WorkerTypeOK, TimerTypeOK
    <3>2. /\ lost' = lost \cup (InMemory \ {NoJob})
          /\ stopping' = FALSE /\ crashes' = crashes + 1
          /\ faults' = faults /\ retried' = retried /\ returned' = returned
      BY <1>28 DEF Crash, ghosts
    <3>3. lost' \subseteq Jobs
      BY <3>1, <3>2 DEF TypeOK, CounterTypeOK
    <3>4. faults' \in Nat /\ crashes' \in Nat
      BY <3>2 DEF TypeOK, CounterTypeOK
    <3>6. stopping' \in BOOLEAN
      BY <3>2
    <3>5. retried' \in [Jobs -> Nat] /\ returned' \subseteq Keys \X Jobs
      BY <3>2 DEF TypeOK, CounterTypeOK
    <3>. QED
      BY <3>3, <3>4, <3>5, <3>6 DEF CounterTypeOK
  <2>. QED
    BY <1>28, <2>1, <2>2, <2>3, <2>4, <2>5
       DEF TypeOK, StoreTypeOK, Crash, store, client, worker, timer, ghosts
<1>29. CASE UNCHANGED vars
  BY <1>29
     DEF vars, store, client, worker, timer, ghosts, TypeOK, StoreTypeOK, QueueTypeOK,
         ClientTypeOK, WorkerTypeOK, TimerTypeOK, CounterTypeOK
<1>. QED
  BY <1>1, <1>2, <1>3, <1>4, <1>5, <1>6, <1>7, <1>8, <1>9, <1>10, <1>11, <1>12, <1>13,
     <1>14, <1>15, <1>16, <1>17, <1>18, <1>19, <1>20, <1>21, <1>22, <1>23, <1>24, <1>25,
     <1>26, <1>27, <1>28, <1>29
     DEF Next, ClientNext, WorkerNext, TimerNext

(* Every handler keeps to the steps at which a goroutine holds a job. *)
LEMMA HeldStep ==
    ASSUME TypeOK, Held, [Next]_vars
    PROVE  Held'
<1>. USE JobServiceAssumption DEF TypeOK, StoreTypeOK, QueueTypeOK, ClientTypeOK, WorkerTypeOK, TimerTypeOK, Held
<1>1. ASSUME NEW c \in Clients, NEW k \in Keys, SubmitHit(c, k) PROVE Held'
  BY <1>1 DEF SubmitHit, store, client, worker, timer, ghosts
<1>2. ASSUME NEW c \in Clients, NEW k \in Keys \cup {NoKey}, SubmitMiss(c, k) PROVE Held'
  BY <1>2 DEF SubmitMiss, ClientStep, store, client, worker, timer, ghosts
<1>3. ASSUME NEW c \in Clients, SubmitCreate(c) PROVE Held'
  <2>1. \/ \E j \in Jobs : /\ cpc' = [cpc EXCEPT ![c] = IF ckey[c] = NoKey THEN "enqueue" ELSE "saveKey"]
                           /\ cjob' = [cjob EXCEPT ![c] = j] /\ ckey' = ckey
        \/ /\ cpc' = [cpc EXCEPT ![c] = "idle"] /\ cjob' = [cjob EXCEPT ![c] = NoJob]
           /\ ckey' = [ckey EXCEPT ![c] = NoKey]
    BY <1>3 DEF SubmitCreate, Insert, ClientStep, ClientDone
  <2>2. UNCHANGED <<worker, timer>>
    BY <1>3 DEF SubmitCreate, Insert, worker, timer
  <2>3. CASE /\ cpc' = [cpc EXCEPT ![c] = "idle"] /\ cjob' = [cjob EXCEPT ![c] = NoJob]
             /\ ckey' = [ckey EXCEPT ![c] = NoKey]
    BY <2>2, <2>3 DEF worker, timer
  <2>4. ASSUME NEW j \in Jobs,
               cpc' = [cpc EXCEPT ![c] = IF ckey[c] = NoKey THEN "enqueue" ELSE "saveKey"],
               cjob' = [cjob EXCEPT ![c] = j], ckey' = ckey
        PROVE  Held'
    <3>1. \A d \in Clients : d # c => cpc'[d] = cpc[d] /\ cjob'[d] = cjob[d] /\ ckey'[d] = ckey[d]
      BY <2>4
    <3>2. cpc'[c] \in {"enqueue", "saveKey"} /\ cjob'[c] = j /\ j # NoJob
      BY <2>4
    <3>3. cpc'[c] = "saveKey" => ckey'[c] # NoKey
      BY <2>4
    <3>4. \A d \in Clients : cjob'[d] = NoJob <=> cpc'[d] \in {"idle", "create"}
      BY <3>1, <3>2
    <3>5. \A d \in Clients : cpc'[d] = "saveKey" => ckey'[d] # NoKey
      BY <3>1, <3>3
    <3>. QED
      BY <2>2, <3>4, <3>5 DEF worker, timer
  <2>. QED
    BY <2>1, <2>3, <2>4
<1>4. ASSUME NEW c \in Clients, SubmitSaveKey(c) PROVE Held'
  BY <1>4, ZenonT(60)
     DEF SubmitSaveKey, BindKey, ClientStep, ClientDone, StoreFault, store, client, worker, timer,
         ghosts
<1>5. ASSUME NEW c \in Clients, SubmitEnqueue(c) PROVE Held'
  BY <1>5 DEF SubmitEnqueue, Enqueue, ClientDone, store, client, worker, timer, ghosts
<1>6. ASSUME NEW c \in Clients, NEW j \in Jobs, RetryLoad(c, j) PROVE Held'
  BY <1>6 DEF RetryLoad, ClientStep, store, client, worker, timer, ghosts
<1>7. ASSUME NEW c \in Clients, NEW j \in Jobs, CancelLoad(c, j) PROVE Held'
  BY <1>7 DEF CancelLoad, ClientStep, store, client, worker, timer, ghosts
<1>8. ASSUME NEW c \in Clients, RetryUpdate(c) PROVE Held'
  <2>1. \/ /\ cpc[c] = "retryUpdate" /\ cpc' = [cpc EXCEPT ![c] = "retryEnqueue"]
           /\ cjob' = cjob /\ ckey' = ckey
        \/ /\ cpc' = [cpc EXCEPT ![c] = "idle"] /\ cjob' = [cjob EXCEPT ![c] = NoJob]
           /\ ckey' = [ckey EXCEPT ![c] = NoKey]
    BY <1>8 DEF RetryUpdate, ClientStep, ClientDone
  <2>. QED
    BY <1>8, <2>1, ZenonT(60) DEF RetryUpdate, worker, timer
<1>9. ASSUME NEW c \in Clients, RetryEnqueue(c) PROVE Held'
  BY <1>9 DEF RetryEnqueue, Enqueue, ClientDone, store, client, worker, timer, ghosts
<1>10. ASSUME NEW c \in Clients, CancelUpdate(c) PROVE Held'
  BY <1>10, WithStatusType
     DEF CancelUpdate, UpdateJob, ClientDone, StoreFault, store, client, worker, timer,
         ghosts
<1>11. ASSUME NEW w \in Workers, Dequeue(w) PROVE Held'
  BY <1>11 DEF Dequeue, WorkerStep, store, client, worker, timer, ghosts
<1>12. ASSUME NEW w \in Workers, WorkerLoad(w) PROVE Held'
  BY <1>12 DEF WorkerLoad, WorkerDone, StoreFault, store, client, worker, timer, ghosts
<1>13. ASSUME NEW w \in Workers, WorkerStart(w) PROVE Held'
  BY <1>13, StartedType
     DEF WorkerStart, WorkerStep, UpdateJob, StoreFault, store, client, worker, timer,
         ghosts
<1>14. ASSUME NEW w \in Workers, WorkerLogStart(w) PROVE Held'
  BY <1>14, RecordedType
     DEF WorkerLogStart, WorkerStep, RecordAttempt, StoreFault, store, client, worker,
         timer, ghosts
<1>15. ASSUME NEW w \in Workers, Execute(w) PROVE Held'
  BY <1>15 DEF Execute, WorkerStep, store, client, worker, timer, ghosts
<1>16. ASSUME NEW w \in Workers, WorkerCommit(w) PROVE Held'
  BY <1>16, WithStatusType, ZenonT(60)
     DEF WorkerCommit, WorkerStep, StoreFault, store, client, worker, timer, ghosts
<1>17. ASSUME NEW w \in Workers, WorkerLogSuccess(w) PROVE Held'
  BY <1>17, RecordedType
     DEF WorkerLogSuccess, WorkerDone, RecordAttempt, StoreFault, store, client, worker,
         timer, ghosts
<1>18. ASSUME NEW w \in Workers, WorkerGiveUp(w) PROVE Held'
  BY <1>18, WithStatusType
     DEF WorkerGiveUp, WorkerStep, UpdateJob, StoreFault, store, client, worker, timer,
         ghosts
<1>19. ASSUME NEW w \in Workers, WorkerLogGiveUp(w) PROVE Held'
  BY <1>19, RecordedType
     DEF WorkerLogGiveUp, WorkerStep, RecordAttempt, StoreFault, store, client, worker,
         timer, ghosts
<1>20. ASSUME NEW w \in Workers, WorkerDeadLetter(w) PROVE Held'
  BY <1>20
     DEF WorkerDeadLetter, WorkerDone, StoreFault, store, client, worker, timer, ghosts
<1>21. ASSUME NEW w \in Workers, WorkerLogFailure(w) PROVE Held'
  BY <1>21, RecordedType
     DEF WorkerLogFailure, WorkerStep, RecordAttempt, StoreFault, store, client, worker,
         timer, ghosts
<1>22. ASSUME NEW w \in Workers, WorkerMarkRetry(w) PROVE Held'
  BY <1>22, WithStatusType
     DEF WorkerMarkRetry, UpdateJob, WorkerDone, StoreFault, store, client, worker, timer,
         ghosts
<1>23. ASSUME NEW w \in Workers, WorkerExit(w) PROVE Held'
  BY <1>23 DEF WorkerExit, WorkerStep, store, client, worker, timer, ghosts
<1>24. ASSUME NEW t \in Timers, TimerLoad(t) PROVE Held'
  BY <1>24 DEF TimerLoad, TimerDone, StoreFault, store, client, worker, timer, ghosts
<1>25. ASSUME NEW t \in Timers, TimerUpdate(t) PROVE Held'
  BY <1>25, WithStatusType
     DEF TimerUpdate, UpdateJob, StoreFault, store, client, worker, timer, ghosts
<1>26. ASSUME NEW t \in Timers, TimerEnqueue(t) PROVE Held'
  BY <1>26 DEF TimerEnqueue, Enqueue, TimerDone, store, client, worker, timer, ghosts
<1>27. CASE Stop
  BY <1>27 DEF Stop, store, client, worker, timer, ghosts
<1>28. CASE Crash
  BY <1>28 DEF Crash, InMemory, store, client, worker, timer, ghosts
<1>29. CASE UNCHANGED vars
  BY <1>29 DEF vars, store, client, worker, timer, ghosts
<1>. QED
  BY <1>1, <1>2, <1>3, <1>4, <1>5, <1>6, <1>7, <1>8, <1>9, <1>10, <1>11, <1>12, <1>13,
     <1>14, <1>15, <1>16, <1>17, <1>18, <1>19, <1>20, <1>21, <1>22, <1>23, <1>24, <1>25,
     <1>26, <1>27, <1>28, <1>29
     DEF Next, ClientNext, WorkerNext, TimerNext

(* Rows, channel, goroutines and ledgers have the types of the code's      *)
(* structures in every reachable state.                                    *)
THEOREM TypeCorrect == Spec => []TypeOK
<1>1. TypeOK /\ Held /\ [Next]_vars => (TypeOK /\ Held)'
  BY TypeStep, HeldStep
<1>. QED
  BY TypeInit, <1>1, PTL DEF Spec

-----------------------------------------------------------------------------
(* The channel after a hand-over and after a receive. *)
LEMMA EnqueueWaiting ==
    ASSUME QueueTypeOK, NEW j \in Jobs, Enqueue(j), NEW i \in Jobs
    PROVE  /\ Waiting(i) => Waiting(i)'
           /\ Waiting(i)' => Waiting(i) \/ i = j
           /\ j \notin lost' => Waiting(j)'
           /\ lost \subseteq lost'
<1>1. CASE Len(queue) < QueueBuffer
  <2>1. queue' = Append(queue, j) /\ lost' = lost
    BY <1>1 DEF Enqueue
  <2>2. /\ DOMAIN queue' = 1..(Len(queue) + 1) /\ DOMAIN queue = 1..Len(queue)
        /\ Len(queue) \in Nat
        /\ \A n \in 1..Len(queue) : queue'[n] = queue[n]
        /\ queue'[Len(queue) + 1] = j
    BY <2>1 DEF QueueTypeOK
  <2>. QED
    BY <2>1, <2>2 DEF Waiting
<1>2. CASE ~(Len(queue) < QueueBuffer)
  BY <1>2 DEF Enqueue, Waiting
<1>. QED
  BY <1>1, <1>2

(* A receive takes one job off the channel and leaves the others waiting. *)
LEMMA TailWaiting ==
    ASSUME QueueTypeOK, queue # <<>>, queue' = Tail(queue), NEW i \in Jobs
    PROVE  /\ Waiting(i) => Waiting(i)' \/ i = Head(queue)
           /\ Waiting(i)' => Waiting(i)
<1>1. /\ DOMAIN queue' = 1..(Len(queue) - 1) /\ DOMAIN queue = 1..Len(queue)
      /\ Len(queue) \in Nat \ {0}
      /\ \A n \in 1..(Len(queue) - 1) : queue'[n] = queue[n + 1]
      /\ Head(queue) = queue[1]
  BY DEF QueueTypeOK
<1>2. ASSUME Waiting(i), i # Head(queue) PROVE Waiting(i)'
  <2>1. PICK n \in 1..Len(queue) : queue[n] = i
    BY <1>1, <1>2 DEF Waiting
  <2>2. n - 1 \in 1..(Len(queue) - 1) /\ queue'[n - 1] = i
    BY <1>1, <1>2, <2>1
  <2>. QED
    BY <1>1, <2>2 DEF Waiting
<1>3. ASSUME Waiting(i)' PROVE Waiting(i)
  <2>1. PICK n \in 1..(Len(queue) - 1) : queue'[n] = i
    BY <1>1, <1>3 DEF Waiting
  <2>2. n + 1 \in 1..Len(queue) /\ queue[n + 1] = i
    BY <1>1, <2>1
  <2>. QED
    BY <1>1, <2>2 DEF Waiting
<1>. QED
  BY <1>2, <1>3

(* Handing over a job that is not waiting puts it in the channel once. *)
LEMMA EnqueueOnce ==
    ASSUME QueueTypeOK, NEW j \in Jobs, Enqueue(j), NEW i \in Jobs,
           WaitingOnce(i), i = j => ~Waiting(i)
    PROVE  WaitingOnce(i)'
<1>1. CASE Len(queue) < QueueBuffer
  <2>1. queue' = Append(queue, j)
    BY <1>1 DEF Enqueue
  <2>2. /\ DOMAIN queue' = 1..(Len(queue) + 1) /\ DOMAIN queue = 1..Len(queue)
        /\ Len(queue) \in Nat
        /\ \A n \in 1..Len(queue) : queue'[n] = queue[n]
        /\ queue'[Len(queue) + 1] = j
    BY <2>1 DEF QueueTypeOK
  <2>3. \A n \in DOMAIN queue' : n \in DOMAIN queue \/ n = Len(queue) + 1
    BY <2>2
  <2>4. CASE i = j
    <3>1. \A n \in DOMAIN queue : queue[n] # i
      BY <2>4 DEF Waiting
    <3>. QED
      BY <2>2, <2>3, <3>1 DEF WaitingOnce
  <2>5. CASE i # j
    BY <2>2, <2>3, <2>5 DEF WaitingOnce
  <2>. QED
    BY <2>4, <2>5
<1>2. CASE ~(Len(queue) < QueueBuffer)
  BY <1>2 DEF Enqueue, WaitingOnce
<1>. QED
  BY <1>1, <1>2

(* A receive takes the only place of a job that is waiting once. *)
LEMMA TailOnce ==
    ASSUME QueueTypeOK, queue # <<>>, queue' = Tail(queue), NEW i \in Jobs, WaitingOnce(i)
    PROVE  WaitingOnce(i)' /\ (Head(queue) = i => ~Waiting(i)')
<1>1. /\ DOMAIN queue' = 1..(Len(queue) - 1) /\ DOMAIN queue = 1..Len(queue)
      /\ Len(queue) \in Nat \ {0}
      /\ \A n \in 1..(Len(queue) - 1) : queue'[n] = queue[n + 1]
      /\ Head(queue) = queue[1]
  BY DEF QueueTypeOK
<1>2. \A n \in DOMAIN queue' : n \in Nat \ {0} /\ n + 1 \in DOMAIN queue /\ queue'[n] = queue[n + 1]
  BY <1>1
<1>3. WaitingOnce(i)'
  BY <1>2 DEF WaitingOnce
<1>4. ASSUME Head(queue) = i, NEW n \in DOMAIN queue', queue'[n] = i PROVE FALSE
  <2>1. 1 \in DOMAIN queue /\ queue[1] = i
    BY <1>1, <1>4
  <2>2. n + 1 = 1 /\ n \in Nat \ {0}
    BY <1>2, <1>4, <2>1 DEF WaitingOnce
  <2>. QED
    BY <2>2
<1>. QED
  BY <1>3, <1>4 DEF Waiting

-----------------------------------------------------------------------------

(* Every step of a goroutine that lets go of a pending job has handed it   *)
(* over, or has lost it.                                                   *)
LEMMA NotForgottenStep ==
    ASSUME TypeOK, Held, NoJobForgotten, [Next]_vars
    PROVE  NoJobForgotten'
<1>. SUFFICES ASSUME NEW i \in Jobs, row'[i].status \in Pending, i \notin lost'
              PROVE  Active(i)'
  BY DEF NoJobForgotten
<1>0. row[i].status \in Pending /\ i \notin lost => Active(i)
  BY DEF NoJobForgotten
<1>. USE JobServiceAssumption DEF TypeOK, StoreTypeOK, ClientTypeOK, WorkerTypeOK, TimerTypeOK, Held
<1>1. ASSUME NEW c \in Clients, NEW k \in Keys, SubmitHit(c, k) PROVE Active(i)'
  BY <1>1, <1>0
     DEF SubmitHit, store, client, worker, timer, ghosts, Active, Waiting, Handing,
         Driving, Timing, Settled, Pending
<1>2. ASSUME NEW c \in Clients, NEW k \in Keys \cup {NoKey}, SubmitMiss(c, k)
      PROVE  Active(i)'
  BY <1>2, <1>0
     DEF SubmitMiss, ClientStep, store, client, worker, timer, ghosts, Active, Waiting,
         Handing, Driving, Timing, Settled, Pending
<1>3. ASSUME NEW c \in Clients, SubmitCreate(c) PROVE Active(i)'
  BY <1>3, <1>0, EffectiveLimitType
     DEF SubmitCreate, Insert, ClientStep, ClientDone, StoreFault, Unused, store, client, worker,
         timer, ghosts, Active, Waiting, Handing, Driving, Timing, Settled, Pending
<1>4. ASSUME NEW c \in Clients, SubmitSaveKey(c) PROVE Active(i)'
  BY <1>4, <1>0
     DEF SubmitSaveKey, BindKey, ClientStep, ClientDone, StoreFault, store, client, worker, timer,
         ghosts, Active, Waiting, Handing, Driving, Timing, Settled, Pending
<1>5. ASSUME NEW c \in Clients, SubmitEnqueue(c) PROVE Active(i)'
  <2>1. PICK k \in Jobs : k = cjob[c] /\ Enqueue(k)
    BY <1>5, ZenonT(60) DEF SubmitEnqueue
  <2>2. /\ Waiting(i) => Waiting(i)'
        /\ k \notin lost' => Waiting(k)'
        /\ lost \subseteq lost'
    BY <2>1, EnqueueWaiting
  <2>3. Active(i)
    BY <1>0, <1>5, <2>2 DEF SubmitEnqueue, store
  <2>4. /\ cpc' = [cpc EXCEPT ![c] = "idle"] /\ cjob' = [cjob EXCEPT ![c] = NoJob]
        /\ UNCHANGED <<wpc, wjob, tjob>>
    BY <1>5 DEF SubmitEnqueue, ClientDone, worker, timer
  <2>5. CASE k = i
    BY <2>2, <2>5 DEF Active
  <2>6. CASE k # i
    <3>1. \A d \in Clients : Handing(d, i) => Handing(d, i)'
      BY <2>1, <2>4, <2>6 DEF Handing
    <3>. QED
      BY <2>2, <2>3, <2>4, <3>1 DEF Active, Driving, Timing
  <2>. QED
    BY <2>5, <2>6
<1>6. ASSUME NEW c \in Clients, NEW j \in Jobs, RetryLoad(c, j) PROVE Active(i)'
  BY <1>6, <1>0
     DEF RetryLoad, ClientStep, store, client, worker, timer, ghosts, Active, Waiting,
         Handing, Driving, Timing, Settled, Pending
<1>7. ASSUME NEW c \in Clients, NEW j \in Jobs, CancelLoad(c, j) PROVE Active(i)'
  BY <1>7, <1>0
     DEF CancelLoad, ClientStep, store, client, worker, timer, ghosts, Active, Waiting,
         Handing, Driving, Timing, Settled, Pending
<1>8. ASSUME NEW c \in Clients, RetryUpdate(c) PROVE Active(i)'
  BY <1>8, <1>0, WithStatusType
     DEF RetryUpdate, ClientStep, ClientDone, StoreFault, store, client, worker, timer,
         ghosts, Active, Waiting, Handing, Driving, Timing, Settled, Pending
<1>9. ASSUME NEW c \in Clients, RetryEnqueue(c) PROVE Active(i)'
  BY <1>9, <1>0, EnqueueWaiting
     DEF RetryEnqueue, ClientDone, store, client, worker, timer, ghosts, Active, Waiting,
         Handing, Driving, Timing, Settled, Pending
<1>10. ASSUME NEW c \in Clients, CancelUpdate(c) PROVE Active(i)'
  BY <1>10, <1>0, WithStatusType
     DEF CancelUpdate, UpdateJob, ClientDone, StoreFault, store, client, worker, timer,
         ghosts, Active, Waiting, Handing, Driving, Timing, Settled, Pending
<1>11. ASSUME NEW w \in Workers, Dequeue(w) PROVE Active(i)'
  <2>1. Active(i)
    BY <1>0, <1>11 DEF Dequeue, store
  <2>2. /\ queue # <<>> /\ queue' = Tail(queue)
        /\ wpc' = [wpc EXCEPT ![w] = "load"] /\ wjob' = [wjob EXCEPT ![w] = Head(queue)]
        /\ wjob[w] = NoJob /\ UNCHANGED <<cpc, cjob, tjob>>
    BY <1>11 DEF Dequeue, WorkerStep, client, timer
  <2>3. Waiting(i) => Waiting(i)' \/ i = Head(queue)
    BY <2>2, TailWaiting
  <2>4. i = Head(queue) => Driving(w, i)'
    BY <2>2 DEF Driving
  <2>5. \A v \in Workers : Driving(v, i) => Driving(v, i)'
    BY <2>2 DEF Driving
  <2>6. /\ \A c \in Clients : Handing(c, i) => Handing(c, i)'
        /\ \A t \in Timers : Timing(t, i) => Timing(t, i)'
    BY <2>2 DEF Handing, Timing
  <2>. QED
    BY <2>1, <2>3, <2>4, <2>5, <2>6 DEF Active
<1>12. ASSUME NEW w \in Workers, WorkerLoad(w) PROVE Active(i)'
  BY <1>12, <1>0
     DEF WorkerLoad, WorkerDone, StoreFault, store, client, worker, timer, ghosts, Active,
         Waiting, Handing, Driving, Timing, Settled, Pending
<1>13. ASSUME NEW w \in Workers, WorkerStart(w) PROVE Active(i)'
  BY <1>13, <1>0, StartedType
     DEF WorkerStart, WorkerStep, UpdateJob, StoreFault, store, client, worker, timer,
         ghosts, Active, Waiting, Handing, Driving, Timing, Settled, Pending
<1>14. ASSUME NEW w \in Workers, WorkerLogStart(w) PROVE Active(i)'
  BY <1>14, <1>0
     DEF WorkerLogStart, WorkerStep, RecordAttempt, StoreFault, store, client, worker,
         timer, ghosts, Active, Waiting, Handing, Driving, Timing, Settled, Pending
<1>15. ASSUME NEW w \in Workers, Execute(w) PROVE Active(i)'
  BY <1>15, <1>0
     DEF Execute, WorkerStep, store, client, worker, timer, ghosts, Active, Waiting,
         Handing, Driving, Timing, Settled, Pending
<1>16. ASSUME NEW w \in Workers, WorkerCommit(w) PROVE Active(i)'
  BY <1>16, <1>0, WithStatusType
     DEF WorkerCommit, WorkerStep, StoreFault, store, client, worker, timer, ghosts,
         Active, Waiting, Handing, Driving, Timing, Settled, Pending
<1>17. ASSUME NEW w \in Workers, WorkerLogSuccess(w) PROVE Active(i)'
  BY <1>17, <1>0
     DEF WorkerLogSuccess, WorkerDone, RecordAttempt, StoreFault, store, client, worker,
         timer, ghosts, Active, Waiting, Handing, Driving, Timing, Settled, Pending
<1>18. ASSUME NEW w \in Workers, WorkerGiveUp(w) PROVE Active(i)'
  <2>1. CASE wjob[w] = i
    <3>1. row' = [row EXCEPT ![i] = WithStatus(wrow[w], "FAILED")]
      BY <1>18, <2>1 DEF WorkerGiveUp, UpdateJob, StoreFault, CounterTypeOK
    <3>2. row'[i].status = "FAILED"
      BY <3>1, WithStatusType DEF Settled
    <3>. QED
      BY <3>2 DEF Pending
  <2>2. CASE wjob[w] # i
    <3>1. row'[i] = row[i] /\ i \notin lost
      BY <1>18, <2>2 DEF WorkerGiveUp, UpdateJob
    <3>2. Active(i)
      BY <1>0, <3>1
    <3>3. UNCHANGED <<queue, cpc, cjob, wjob, tjob>> /\ wpc' = [wpc EXCEPT ![w] = "logGiveUp"]
      BY <1>18 DEF WorkerGiveUp, WorkerStep, client, timer
    <3>. QED
      BY <2>2, <3>2, <3>3 DEF Active, Waiting, Handing, Driving, Timing
  <2>. QED
    BY <2>1, <2>2
<1>19. ASSUME NEW w \in Workers, WorkerLogGiveUp(w) PROVE Active(i)'
  BY <1>19, <1>0
     DEF WorkerLogGiveUp, WorkerStep, RecordAttempt, StoreFault, store, client, worker,
         timer, ghosts, Active, Waiting, Handing, Driving, Timing, Settled, Pending
<1>20. ASSUME NEW w \in Workers, WorkerDeadLetter(w) PROVE Active(i)'
  BY <1>20, <1>0
     DEF WorkerDeadLetter, WorkerDone, StoreFault, store, client, worker, timer, ghosts,
         Active, Waiting, Handing, Driving, Timing, Settled, Pending
<1>21. ASSUME NEW w \in Workers, WorkerLogFailure(w) PROVE Active(i)'
  BY <1>21, <1>0
     DEF WorkerLogFailure, WorkerStep, RecordAttempt, StoreFault, store, client, worker,
         timer, ghosts, Active, Waiting, Handing, Driving, Timing, Settled, Pending
<1>22. ASSUME NEW w \in Workers, WorkerMarkRetry(w) PROVE Active(i)'
  BY <1>22, <1>0, WithStatusType
     DEF WorkerMarkRetry, UpdateJob, WorkerDone, StoreFault, store, client, worker, timer,
         ghosts, Active, Waiting, Handing, Driving, Timing, Settled, Pending
<1>23. ASSUME NEW w \in Workers, WorkerExit(w) PROVE Active(i)'
  BY <1>23, <1>0
     DEF WorkerExit, WorkerStep, store, client, worker, timer, ghosts, Active, Waiting,
         Handing, Driving, Timing, Settled, Pending
<1>24. ASSUME NEW t \in Timers, TimerLoad(t) PROVE Active(i)'
  BY <1>24, <1>0
     DEF TimerLoad, TimerDone, StoreFault, store, client, worker, timer, ghosts, Active,
         Waiting, Handing, Driving, Timing, Settled, Pending
<1>25. ASSUME NEW t \in Timers, TimerUpdate(t) PROVE Active(i)'
  BY <1>25, <1>0, WithStatusType
     DEF TimerUpdate, UpdateJob, StoreFault, store, client, worker, timer, ghosts, Active,
         Waiting, Handing, Driving, Timing, Settled, Pending
<1>26. ASSUME NEW t \in Timers, TimerEnqueue(t) PROVE Active(i)'
  BY <1>26, <1>0, EnqueueWaiting
     DEF TimerEnqueue, TimerDone, store, client, worker, timer, ghosts, Active, Waiting,
         Handing, Driving, Timing, Settled, Pending
<1>27. CASE Stop
  BY <1>27, <1>0
     DEF Stop, store, client, worker, timer, ghosts, Active, Waiting, Handing, Driving,
         Timing, Settled, Pending
<1>28. CASE Crash
  BY <1>28, <1>0
     DEF Crash, InMemory, store, client, worker, timer, ghosts, Active, Waiting, Handing,
         Driving, Timing, Settled, Pending
<1>29. CASE UNCHANGED vars
  <2>1. row[i].status \in Pending /\ i \notin lost
    BY <1>29 DEF vars, store
  <2>2. UNCHANGED <<queue, cpc, cjob, wpc, wjob, tjob>>
    BY <1>29 DEF vars, client, worker, timer
  <2>. QED
    BY <1>0, <2>1, <2>2 DEF Active, Waiting, Handing, Driving, Timing
<1>. QED
  BY <1>1, <1>2, <1>3, <1>4, <1>5, <1>6, <1>7, <1>8, <1>9, <1>10, <1>11, <1>12, <1>13,
     <1>14, <1>15, <1>16, <1>17, <1>18, <1>19, <1>20, <1>21, <1>22, <1>23, <1>24, <1>25,
     <1>26, <1>27, <1>28, <1>29
     DEF Next, ClientNext, WorkerNext, TimerNext

(* No interleaving of submits, cancels, retries, workers and timers        *)
(* forgets a job in a pending status: it is held by somebody, or a full    *)
(* channel, a store error or a crash has lost it.                          *)
THEOREM JobsNotForgotten == Spec => []NoJobForgotten
<1>1. Init => NoJobForgotten
  BY DEF Init, NoJobForgotten, NoRow, Pending
<1>2. TypeOK /\ Held /\ NoJobForgotten /\ [Next]_vars => NoJobForgotten'
  BY NotForgottenStep
<1>3. TypeOK /\ Held /\ [Next]_vars => (TypeOK /\ Held)'
  BY TypeStep, HeldStep
<1>. QED
  BY TypeInit, <1>1, <1>2, <1>3, PTL DEF Spec

-----------------------------------------------------------------------------
(* An id that is not in use is held by nobody. *)
LEMMA FreshStep ==
    ASSUME TypeOK, Held, Fresh, [Next]_vars
    PROVE  Fresh'
<1>. DEFINE Unheld(j) == /\ ~Waiting(j)
                         /\ \A c \in Clients : cjob[c] # j
                         /\ \A w \in Workers : wjob[w] # j
                         /\ \A t \in Timers : tjob[t] # j
<1>. SUFFICES ASSUME NEW i \in Jobs, row'[i].status = "ABSENT"
              PROVE  Unheld(i)'
  BY DEF Fresh
<1>0. row[i].status = "ABSENT" => Unheld(i)
  BY DEF Fresh
<1>. USE JobServiceAssumption DEF TypeOK, StoreTypeOK, ClientTypeOK, WorkerTypeOK, TimerTypeOK, Held
<1>1. ASSUME NEW c \in Clients, NEW k \in Keys, SubmitHit(c, k) PROVE Unheld(i)'
  BY <1>1, <1>0
     DEF SubmitHit, store, client, worker, timer, ghosts, Waiting, Settled, Pending
<1>2. ASSUME NEW c \in Clients, NEW k \in Keys \cup {NoKey}, SubmitMiss(c, k)
      PROVE  Unheld(i)'
  BY <1>2, <1>0
     DEF SubmitMiss, ClientStep, store, client, worker, timer, ghosts, Waiting, Settled,
         Pending
<1>3. ASSUME NEW c \in Clients, SubmitCreate(c) PROVE Unheld(i)'
  BY <1>3, <1>0, EffectiveLimitType
     DEF SubmitCreate, Insert, ClientStep, ClientDone, StoreFault, Unused, store, client, worker,
         timer, ghosts, Waiting, Settled, Pending
<1>4. ASSUME NEW c \in Clients, SubmitSaveKey(c) PROVE Unheld(i)'
  BY <1>4, <1>0
     DEF SubmitSaveKey, BindKey, ClientStep, ClientDone, StoreFault, store, client, worker, timer,
         ghosts, Waiting, Settled, Pending
<1>5. ASSUME NEW c \in Clients, SubmitEnqueue(c) PROVE Unheld(i)'
  <2>1. PICK k \in Jobs : k = cjob[c] /\ Enqueue(k)
    BY <1>5, ZenonT(60) DEF SubmitEnqueue
  <2>2. Unheld(i)
    BY <1>0, <1>5 DEF SubmitEnqueue, store
  <2>3. ~Waiting(i)'
    BY <2>1, <2>2, EnqueueWaiting
  <2>4. cjob' = [cjob EXCEPT ![c] = NoJob] /\ UNCHANGED <<wjob, tjob>>
    BY <1>5 DEF SubmitEnqueue, ClientDone, worker, timer
  <2>. QED
    BY <2>2, <2>3, <2>4
<1>6. ASSUME NEW c \in Clients, NEW j \in Jobs, RetryLoad(c, j) PROVE Unheld(i)'
  BY <1>6, <1>0
     DEF RetryLoad, ClientStep, store, client, worker, timer, ghosts, Waiting, Settled,
         Pending
<1>7. ASSUME NEW c \in Clients, NEW j \in Jobs, CancelLoad(c, j) PROVE Unheld(i)'
  BY <1>7, <1>0
     DEF CancelLoad, ClientStep, store, client, worker, timer, ghosts, Waiting, Settled,
         Pending
<1>8. ASSUME NEW c \in Clients, RetryUpdate(c) PROVE Unheld(i)'
  BY <1>8, <1>0, WithStatusType
     DEF RetryUpdate, ClientStep, ClientDone, StoreFault, store, client, worker, timer,
         ghosts, Waiting, Settled, Pending
<1>9. ASSUME NEW c \in Clients, RetryEnqueue(c) PROVE Unheld(i)'
  BY <1>9, <1>0, EnqueueWaiting
     DEF RetryEnqueue, ClientDone, store, client, worker, timer, ghosts, Waiting, Settled,
         Pending
<1>10. ASSUME NEW c \in Clients, CancelUpdate(c) PROVE Unheld(i)'
  BY <1>10, <1>0, WithStatusType
     DEF CancelUpdate, UpdateJob, ClientDone, StoreFault, store, client, worker, timer,
         ghosts, Waiting, Settled, Pending
<1>11. ASSUME NEW w \in Workers, Dequeue(w) PROVE Unheld(i)'
  <2>1. Unheld(i)
    BY <1>0, <1>11 DEF Dequeue, store
  <2>2. /\ queue # <<>> /\ queue' = Tail(queue)
        /\ wjob' = [wjob EXCEPT ![w] = Head(queue)] /\ UNCHANGED <<cjob, tjob>>
    BY <1>11 DEF Dequeue, client, timer
  <2>3. ~Waiting(i)'
    BY <2>1, <2>2, TailWaiting
  <2>4. Head(queue) # i
    BY <2>1, <2>2 DEF Waiting, QueueTypeOK
  <2>. QED
    BY <2>1, <2>2, <2>3, <2>4
<1>12. ASSUME NEW w \in Workers, WorkerLoad(w) PROVE Unheld(i)'
  BY <1>12, <1>0
     DEF WorkerLoad, WorkerDone, StoreFault, store, client, worker, timer, ghosts,
         Waiting, Settled, Pending
<1>13. ASSUME NEW w \in Workers, WorkerStart(w) PROVE Unheld(i)'
  BY <1>13, <1>0, StartedType
     DEF WorkerStart, WorkerStep, UpdateJob, StoreFault, store, client, worker, timer,
         ghosts, Waiting, Settled, Pending
<1>14. ASSUME NEW w \in Workers, WorkerLogStart(w) PROVE Unheld(i)'
  BY <1>14, <1>0
     DEF WorkerLogStart, WorkerStep, RecordAttempt, StoreFault, store, client, worker,
         timer, ghosts, Waiting, Settled, Pending
<1>15. ASSUME NEW w \in Workers, Execute(w) PROVE Unheld(i)'
  BY <1>15, <1>0
     DEF Execute, WorkerStep, store, client, worker, timer, ghosts, Waiting, Settled,
         Pending
<1>16. ASSUME NEW w \in Workers, WorkerCommit(w) PROVE Unheld(i)'
  BY <1>16, <1>0, WithStatusType
     DEF WorkerCommit, WorkerStep, StoreFault, store, client, worker, timer, ghosts,
         Waiting, Settled, Pending
<1>17. ASSUME NEW w \in Workers, WorkerLogSuccess(w) PROVE Unheld(i)'
  BY <1>17, <1>0
     DEF WorkerLogSuccess, WorkerDone, RecordAttempt, StoreFault, store, client, worker,
         timer, ghosts, Waiting, Settled, Pending
<1>18. ASSUME NEW w \in Workers, WorkerGiveUp(w) PROVE Unheld(i)'
  BY <1>18, <1>0, WithStatusType
     DEF WorkerGiveUp, WorkerStep, UpdateJob, StoreFault, store, client, worker, timer,
         ghosts, Waiting, Settled, Pending
<1>19. ASSUME NEW w \in Workers, WorkerLogGiveUp(w) PROVE Unheld(i)'
  BY <1>19, <1>0
     DEF WorkerLogGiveUp, WorkerStep, RecordAttempt, StoreFault, store, client, worker,
         timer, ghosts, Waiting, Settled, Pending
<1>20. ASSUME NEW w \in Workers, WorkerDeadLetter(w) PROVE Unheld(i)'
  BY <1>20, <1>0
     DEF WorkerDeadLetter, WorkerDone, StoreFault, store, client, worker, timer, ghosts,
         Waiting, Settled, Pending
<1>21. ASSUME NEW w \in Workers, WorkerLogFailure(w) PROVE Unheld(i)'
  BY <1>21, <1>0
     DEF WorkerLogFailure, WorkerStep, RecordAttempt, StoreFault, store, client, worker,
         timer, ghosts, Waiting, Settled, Pending
<1>22. ASSUME NEW w \in Workers, WorkerMarkRetry(w) PROVE Unheld(i)'
  BY <1>22, <1>0, WithStatusType
     DEF WorkerMarkRetry, UpdateJob, WorkerDone, StoreFault, store, client, worker, timer,
         ghosts, Waiting, Settled, Pending
<1>23. ASSUME NEW w \in Workers, WorkerExit(w) PROVE Unheld(i)'
  BY <1>23, <1>0
     DEF WorkerExit, WorkerStep, store, client, worker, timer, ghosts, Waiting, Settled,
         Pending
<1>24. ASSUME NEW t \in Timers, TimerLoad(t) PROVE Unheld(i)'
  BY <1>24, <1>0
     DEF TimerLoad, TimerDone, StoreFault, store, client, worker, timer, ghosts, Waiting,
         Settled, Pending
<1>25. ASSUME NEW t \in Timers, TimerUpdate(t) PROVE Unheld(i)'
  BY <1>25, <1>0, WithStatusType
     DEF TimerUpdate, UpdateJob, StoreFault, store, client, worker, timer, ghosts,
         Waiting, Settled, Pending
<1>26. ASSUME NEW t \in Timers, TimerEnqueue(t) PROVE Unheld(i)'
  BY <1>26, <1>0, EnqueueWaiting
     DEF TimerEnqueue, TimerDone, store, client, worker, timer, ghosts, Waiting, Settled,
         Pending
<1>27. CASE Stop
  BY <1>27, <1>0 DEF Stop, store, client, worker, timer, ghosts, Waiting, Settled, Pending
<1>28. CASE Crash
  BY <1>28, <1>0
     DEF Crash, InMemory, store, client, worker, timer, ghosts, Waiting, Settled, Pending
<1>29. CASE UNCHANGED vars
  <2>1. row[i].status = "ABSENT" /\ UNCHANGED <<queue, cjob, wjob, tjob>>
    BY <1>29 DEF vars, store, client, worker, timer
  <2>. QED
    BY <1>0, <2>1 DEF Waiting
<1>. QED
  BY <1>1, <1>2, <1>3, <1>4, <1>5, <1>6, <1>7, <1>8, <1>9, <1>10, <1>11, <1>12, <1>13,
     <1>14, <1>15, <1>16, <1>17, <1>18, <1>19, <1>20, <1>21, <1>22, <1>23, <1>24, <1>25,
     <1>26, <1>27, <1>28, <1>29
     DEF Next, ClientNext, WorkerNext, TimerNext

-----------------------------------------------------------------------------
(* Before RetryJob is accepted no step adds a second activation: the hand- *)
(* overs move the one there is.                                            *)
LEMMA SingleStep ==
    ASSUME TypeOK, Held, Fresh, SingleActivation, [Next]_vars
    PROVE  SingleActivation'
<1>. SUFFICES ASSUME NEW i \in Jobs, retried'[i] = 0
              PROVE  OneActivation(i)'
  BY DEF SingleActivation
<1>0. retried[i] = 0 => OneActivation(i)
  BY DEF SingleActivation
<1>. USE JobServiceAssumption DEF TypeOK, StoreTypeOK, ClientTypeOK, WorkerTypeOK, TimerTypeOK, CounterTypeOK, Held
<1>1. ASSUME NEW c \in Clients, NEW k \in Keys, SubmitHit(c, k) PROVE OneActivation(i)'
  BY <1>1, <1>0
     DEF SubmitHit, store, client, worker, timer, ghosts, OneActivation, WaitingOnce,
         Waiting, Handing, Timing
<1>2. ASSUME NEW c \in Clients, NEW k \in Keys \cup {NoKey}, SubmitMiss(c, k)
      PROVE  OneActivation(i)'
  BY <1>2, <1>0
     DEF SubmitMiss, ClientStep, store, client, worker, timer, ghosts, OneActivation,
         WaitingOnce, Waiting, Handing, Timing
<1>3. ASSUME NEW c \in Clients, SubmitCreate(c) PROVE OneActivation(i)'
  BY <1>3, <1>0, EffectiveLimitType
     DEF Fresh, SubmitCreate, Insert, ClientStep, ClientDone, StoreFault, Unused, store, client,
         worker, timer, ghosts, OneActivation, WaitingOnce, Waiting, Handing, Timing
<1>4. ASSUME NEW c \in Clients, SubmitSaveKey(c) PROVE OneActivation(i)'
  BY <1>4, <1>0
     DEF SubmitSaveKey, BindKey, ClientStep, ClientDone, StoreFault, store, client, worker, timer,
         ghosts, OneActivation, WaitingOnce, Waiting, Handing, Timing
<1>5. ASSUME NEW c \in Clients, SubmitEnqueue(c) PROVE OneActivation(i)'
  <2>1. PICK k \in Jobs : k = cjob[c] /\ Enqueue(k)
    BY <1>5 DEF SubmitEnqueue
  <2>2. OneActivation(i)
    BY <1>0, <1>5 DEF SubmitEnqueue, ghosts
  <2>3. i = k => ~Waiting(i)
    BY <1>5, <2>1, <2>2 DEF OneActivation, SubmitEnqueue, Handing, Timing
  <2>4. WaitingOnce(i)' /\ (Waiting(i)' => Waiting(i) \/ i = k)
    BY <2>1, <2>2, <2>3, EnqueueOnce, EnqueueWaiting DEF OneActivation
  <2>5. /\ cpc' = [cpc EXCEPT ![c] = "idle"] /\ cjob' = [cjob EXCEPT ![c] = NoJob]
        /\ UNCHANGED <<wjob, tjob>>
    BY <1>5 DEF SubmitEnqueue, ClientDone, worker, timer
  <2>. QED
    BY <1>5, <2>1, <2>2, <2>4, <2>5 DEF OneActivation, SubmitEnqueue, Handing, Timing
<1>6. ASSUME NEW c \in Clients, NEW j \in Jobs, RetryLoad(c, j) PROVE OneActivation(i)'
  BY <1>6, <1>0
     DEF RetryLoad, ClientStep, store, client, worker, timer, ghosts, OneActivation,
         WaitingOnce, Waiting, Handing, Timing
<1>7. ASSUME NEW c \in Clients, NEW j \in Jobs, CancelLoad(c, j) PROVE OneActivation(i)'
  BY <1>7, <1>0
     DEF CancelLoad, ClientStep, store, client, worker, timer, ghosts, OneActivation,
         WaitingOnce, Waiting, Handing, Timing
<1>8. ASSUME NEW c \in Clients, RetryUpdate(c) PROVE OneActivation(i)'
  BY <1>8, <1>0, WithStatusType
     DEF RetryUpdate, ClientStep, ClientDone, StoreFault, store, client, worker, timer,
         ghosts, OneActivation, WaitingOnce, Waiting, Handing, Timing
<1>9. ASSUME NEW c \in Clients, RetryEnqueue(c) PROVE OneActivation(i)'
  <2>1. PICK k \in Jobs : k = cjob[c] /\ Enqueue(k)
    BY <1>9 DEF RetryEnqueue
  <2>2. OneActivation(i)
    BY <1>0, <1>9 DEF RetryEnqueue, ghosts
  <2>3. i = k => ~Waiting(i)
    BY <1>9, <2>1, <2>2 DEF OneActivation, RetryEnqueue, Handing, Timing
  <2>4. WaitingOnce(i)' /\ (Waiting(i)' => Waiting(i) \/ i = k)
    BY <2>1, <2>2, <2>3, EnqueueOnce, EnqueueWaiting DEF OneActivation
  <2>5. /\ cpc' = [cpc EXCEPT ![c] = "idle"] /\ cjob' = [cjob EXCEPT ![c] = NoJob]
        /\ UNCHANGED <<wjob, tjob>>
    BY <1>9 DEF RetryEnqueue, ClientDone, worker, timer
  <2>. QED
    BY <1>9, <2>1, <2>2, <2>4, <2>5 DEF OneActivation, RetryEnqueue, Handing, Timing
<1>10. ASSUME NEW c \in Clients, CancelUpdate(c) PROVE OneActivation(i)'
  BY <1>10, <1>0, WithStatusType
     DEF CancelUpdate, UpdateJob, ClientDone, StoreFault, store, client, worker, timer,
         ghosts, OneActivation, WaitingOnce, Waiting, Handing, Timing
<1>11. ASSUME NEW w \in Workers, Dequeue(w) PROVE OneActivation(i)'
  <2>1. OneActivation(i)
    BY <1>0, <1>11 DEF Dequeue, ghosts
  <2>2. /\ queue # <<>> /\ queue' = Tail(queue)
        /\ wjob' = [wjob EXCEPT ![w] = Head(queue)] /\ UNCHANGED <<cpc, cjob, tjob>>
    BY <1>11 DEF Dequeue, client, timer
  <2>3. /\ WaitingOnce(i)' /\ (Head(queue) = i => ~Waiting(i)')
        /\ Waiting(i)' => Waiting(i)
    BY <2>1, <2>2, TailOnce, TailWaiting DEF OneActivation
  <2>4. Head(queue) = i => Waiting(i)
    BY <2>2 DEF Waiting, QueueTypeOK
  <2>. QED
    BY <2>1, <2>2, <2>3, <2>4 DEF OneActivation, Handing, Timing
<1>12. ASSUME NEW w \in Workers, WorkerLoad(w) PROVE OneActivation(i)'
  BY <1>12, <1>0
     DEF WorkerLoad, WorkerDone, StoreFault, store, client, worker, timer, ghosts,
         OneActivation, WaitingOnce, Waiting, Handing, Timing
<1>13. ASSUME NEW w \in Workers, WorkerStart(w) PROVE OneActivation(i)'
  BY <1>13, <1>0, StartedType
     DEF WorkerStart, WorkerStep, UpdateJob, StoreFault, store, client, worker, timer,
         ghosts, OneActivation, WaitingOnce, Waiting, Handing, Timing
<1>14. ASSUME NEW w \in Workers, WorkerLogStart(w) PROVE OneActivation(i)'
  BY <1>14, <1>0
     DEF WorkerLogStart, WorkerStep, RecordAttempt, StoreFault, store, client, worker,
         timer, ghosts, OneActivation, WaitingOnce, Waiting, Handing, Timing
<1>15. ASSUME NEW w \in Workers, Execute(w) PROVE OneActivation(i)'
  BY <1>15, <1>0
     DEF Execute, WorkerStep, store, client, worker, timer, ghosts, OneActivation,
         WaitingOnce, Waiting, Handing, Timing
<1>16. ASSUME NEW w \in Workers, WorkerCommit(w) PROVE OneActivation(i)'
  BY <1>16, <1>0, WithStatusType
     DEF WorkerCommit, WorkerStep, StoreFault, store, client, worker, timer, ghosts,
         OneActivation, WaitingOnce, Waiting, Handing, Timing
<1>17. ASSUME NEW w \in Workers, WorkerLogSuccess(w) PROVE OneActivation(i)'
  BY <1>17, <1>0
     DEF WorkerLogSuccess, WorkerDone, RecordAttempt, StoreFault, store, client, worker,
         timer, ghosts, OneActivation, WaitingOnce, Waiting, Handing, Timing
<1>18. ASSUME NEW w \in Workers, WorkerGiveUp(w) PROVE OneActivation(i)'
  BY <1>18, <1>0, WithStatusType
     DEF WorkerGiveUp, WorkerStep, UpdateJob, StoreFault, store, client, worker, timer,
         ghosts, OneActivation, WaitingOnce, Waiting, Handing, Timing
<1>19. ASSUME NEW w \in Workers, WorkerLogGiveUp(w) PROVE OneActivation(i)'
  BY <1>19, <1>0
     DEF WorkerLogGiveUp, WorkerStep, RecordAttempt, StoreFault, store, client, worker,
         timer, ghosts, OneActivation, WaitingOnce, Waiting, Handing, Timing
<1>20. ASSUME NEW w \in Workers, WorkerDeadLetter(w) PROVE OneActivation(i)'
  BY <1>20, <1>0
     DEF WorkerDeadLetter, WorkerDone, StoreFault, store, client, worker, timer, ghosts,
         OneActivation, WaitingOnce, Waiting, Handing, Timing
<1>21. ASSUME NEW w \in Workers, WorkerLogFailure(w) PROVE OneActivation(i)'
  BY <1>21, <1>0
     DEF WorkerLogFailure, WorkerStep, RecordAttempt, StoreFault, store, client, worker,
         timer, ghosts, OneActivation, WaitingOnce, Waiting, Handing, Timing
<1>22. ASSUME NEW w \in Workers, WorkerMarkRetry(w) PROVE OneActivation(i)'
  BY <1>22, <1>0, WithStatusType
     DEF WorkerMarkRetry, UpdateJob, WorkerDone, StoreFault, store, client, worker, timer,
         ghosts, OneActivation, WaitingOnce, Waiting, Handing, Timing
<1>23. ASSUME NEW w \in Workers, WorkerExit(w) PROVE OneActivation(i)'
  BY <1>23, <1>0
     DEF WorkerExit, WorkerStep, store, client, worker, timer, ghosts, OneActivation,
         WaitingOnce, Waiting, Handing, Timing
<1>24. ASSUME NEW t \in Timers, TimerLoad(t) PROVE OneActivation(i)'
  BY <1>24, <1>0
     DEF TimerLoad, TimerDone, StoreFault, store, client, worker, timer, ghosts,
         OneActivation, WaitingOnce, Waiting, Handing, Timing
<1>25. ASSUME NEW t \in Timers, TimerUpdate(t) PROVE OneActivation(i)'
  BY <1>25, <1>0, WithStatusType
     DEF TimerUpdate, UpdateJob, StoreFault, store, client, worker, timer, ghosts,
         OneActivation, WaitingOnce, Waiting, Handing, Timing
<1>26. ASSUME NEW t \in Timers, TimerEnqueue(t) PROVE OneActivation(i)'
  <2>1. PICK k \in Jobs : k = tjob[t] /\ Enqueue(k)
    BY <1>26 DEF TimerEnqueue
  <2>2. OneActivation(i)
    BY <1>0, <1>26 DEF TimerEnqueue, ghosts
  <2>3. i = k => ~Waiting(i)
    BY <1>26, <2>1, <2>2 DEF OneActivation, TimerEnqueue, Handing, Timing
  <2>4. WaitingOnce(i)' /\ (Waiting(i)' => Waiting(i) \/ i = k)
    BY <2>1, <2>2, <2>3, EnqueueOnce, EnqueueWaiting DEF OneActivation
  <2>5. tjob' = [tjob EXCEPT ![t] = NoJob] /\ UNCHANGED <<cpc, cjob, wjob>>
    BY <1>26 DEF TimerEnqueue, TimerDone, client, worker
  <2>. QED
    BY <1>26, <2>1, <2>2, <2>4, <2>5 DEF OneActivation, TimerEnqueue, Handing, Timing
<1>27. CASE Stop
  BY <1>27, <1>0
     DEF Stop, store, client, worker, timer, ghosts, OneActivation, WaitingOnce, Waiting,
         Handing, Timing
<1>28. CASE Crash
  BY <1>28, <1>0
     DEF Crash, InMemory, store, client, worker, timer, ghosts, OneActivation,
         WaitingOnce, Waiting, Handing, Timing
<1>29. CASE UNCHANGED vars
  <2>1. retried[i] = 0 /\ UNCHANGED <<queue, cpc, cjob, wjob, tjob>>
    BY <1>29 DEF vars, client, worker, timer, ghosts
  <2>. QED
    BY <1>0, <2>1 DEF OneActivation, WaitingOnce, Waiting, Handing, Timing
<1>. QED
  BY <1>1, <1>2, <1>3, <1>4, <1>5, <1>6, <1>7, <1>8, <1>9, <1>10, <1>11, <1>12, <1>13,
     <1>14, <1>15, <1>16, <1>17, <1>18, <1>19, <1>20, <1>21, <1>22, <1>23, <1>24, <1>25,
     <1>26, <1>27, <1>28, <1>29
     DEF Next, ClientNext, WorkerNext, TimerNext

(* Until RetryJob is accepted, a job is in one place: the channel, one     *)
(* worker, one timer or the call that submits it.                          *)
THEOREM JobsSingleActivation == Spec => []SingleActivation
<1>1. Init => Fresh /\ SingleActivation
  BY JobServiceAssumption
     DEF Init, Fresh, SingleActivation, OneActivation, WaitingOnce, Waiting, Handing,
         Timing
<1>2. TypeOK /\ Held /\ Fresh /\ SingleActivation /\ [Next]_vars => (Fresh /\ SingleActivation)'
  BY FreshStep, SingleStep
<1>3. TypeOK /\ Held /\ [Next]_vars => (TypeOK /\ Held)'
  BY TypeStep, HeldStep
<1>. QED
  BY TypeInit, <1>1, <1>2, <1>3, PTL DEF Spec

-----------------------------------------------------------------------------
(* A write of FAILED ends the only activation, and so does one of SUCCEEDED *)
(* whose answer comes back.                                                 *)
LEMMA SettledStep ==
    ASSUME TypeOK, Held, Fresh, SingleActivation, SettledIsOver, [Next]_vars
    PROVE  SettledIsOver'
<1>. SUFFICES ASSUME NEW i \in Jobs, retried'[i] = 0,
                     \/ row'[i].status = "FAILED"
                     \/ row'[i].status = "SUCCEEDED" /\ faults' = 0
              PROVE  ~Active(i)'
  BY DEF SettledIsOver
<1>0. retried[i] = 0 =>
        /\ OneActivation(i)
        /\ row[i].status = "FAILED" \/ (row[i].status = "SUCCEEDED" /\ faults = 0) => ~Active(i)
  BY DEF SingleActivation, SettledIsOver
<1>. USE JobServiceAssumption DEF TypeOK, StoreTypeOK, ClientTypeOK, WorkerTypeOK, TimerTypeOK, CounterTypeOK, Held
<1>1. ASSUME NEW c \in Clients, NEW k \in Keys, SubmitHit(c, k) PROVE ~Active(i)'
  BY <1>1, <1>0
     DEF SubmitHit, store, client, worker, timer, ghosts, Active, OneActivation, Waiting,
         Handing, Driving, Timing, Settled, Pending
<1>2. ASSUME NEW c \in Clients, NEW k \in Keys \cup {NoKey}, SubmitMiss(c, k)
      PROVE  ~Active(i)'
  BY <1>2, <1>0
     DEF SubmitMiss, ClientStep, store, client, worker, timer, ghosts, Active,
         OneActivation, Waiting, Handing, Driving, Timing, Settled, Pending
<1>3. ASSUME NEW c \in Clients, SubmitCreate(c) PROVE ~Active(i)'
  BY <1>3, <1>0, EffectiveLimitType
     DEF Fresh, SubmitCreate, Insert, ClientStep, ClientDone, StoreFault, Unused, store, client,
         worker, timer, ghosts, Active, OneActivation, Waiting, Handing, Driving, Timing,
         Settled, Pending
<1>4. ASSUME NEW c \in Clients, SubmitSaveKey(c) PROVE ~Active(i)'
  BY <1>4, <1>0
     DEF SubmitSaveKey, BindKey, ClientStep, ClientDone, StoreFault, store, client, worker, timer,
         ghosts, Active, OneActivation, Waiting, Handing, Driving, Timing, Settled,
         Pending
<1>5. ASSUME NEW c \in Clients, SubmitEnqueue(c) PROVE ~Active(i)'
  <2>1. PICK k \in Jobs : k = cjob[c] /\ Enqueue(k)
    BY <1>5, ZenonT(60) DEF SubmitEnqueue
  <2>2. ~Active(i)
    BY <1>0, <1>5 DEF SubmitEnqueue, ghosts, store
  <2>3. i # k
    BY <1>5, <2>1, <2>2 DEF Active, Handing, SubmitEnqueue
  <2>4. ~Waiting(i)'
    BY <2>1, <2>2, <2>3, EnqueueWaiting DEF Active
  <2>5. /\ cpc' = [cpc EXCEPT ![c] = "idle"] /\ cjob' = [cjob EXCEPT ![c] = NoJob]
        /\ UNCHANGED <<wpc, wjob, tjob>>
    BY <1>5 DEF SubmitEnqueue, ClientDone, worker, timer
  <2>. QED
    BY <2>2, <2>4, <2>5 DEF Active, Handing, Driving, Timing
<1>6. ASSUME NEW c \in Clients, NEW j \in Jobs, RetryLoad(c, j) PROVE ~Active(i)'
  BY <1>6, <1>0
     DEF RetryLoad, ClientStep, store, client, worker, timer, ghosts, Active,
         OneActivation, Waiting, Handing, Driving, Timing, Settled, Pending
<1>7. ASSUME NEW c \in Clients, NEW j \in Jobs, CancelLoad(c, j) PROVE ~Active(i)'
  BY <1>7, <1>0
     DEF CancelLoad, ClientStep, store, client, worker, timer, ghosts, Active,
         OneActivation, Waiting, Handing, Driving, Timing, Settled, Pending
<1>8. ASSUME NEW c \in Clients, RetryUpdate(c) PROVE ~Active(i)'
  BY <1>8, <1>0, WithStatusType
     DEF RetryUpdate, ClientStep, ClientDone, StoreFault, store, client, worker, timer,
         ghosts, Active, OneActivation, Waiting, Handing, Driving, Timing, Settled,
         Pending
<1>9. ASSUME NEW c \in Clients, RetryEnqueue(c) PROVE ~Active(i)'
  BY <1>9, <1>0, EnqueueWaiting
     DEF RetryEnqueue, ClientDone, store, client, worker, timer, ghosts, Active,
         OneActivation, Waiting, Handing, Driving, Timing, Settled, Pending
<1>10. ASSUME NEW c \in Clients, CancelUpdate(c) PROVE ~Active(i)'
  BY <1>10, <1>0, WithStatusType
     DEF CancelUpdate, UpdateJob, ClientDone, StoreFault, store, client, worker, timer,
         ghosts, Active, OneActivation, Waiting, Handing, Driving, Timing, Settled,
         Pending
<1>11. ASSUME NEW w \in Workers, Dequeue(w) PROVE ~Active(i)'
  <2>1. ~Active(i)
    BY <1>0, <1>11 DEF Dequeue, ghosts, store
  <2>2. /\ queue # <<>> /\ queue' = Tail(queue) /\ wpc' = [wpc EXCEPT ![w] = "load"]
        /\ wjob' = [wjob EXCEPT ![w] = Head(queue)] /\ UNCHANGED <<cpc, cjob, tjob>>
    BY <1>11 DEF Dequeue, WorkerStep, client, timer
  <2>3. ~Waiting(i)'
    BY <2>1, <2>2, TailWaiting DEF Active
  <2>4. Head(queue) # i
    BY <2>1, <2>2 DEF Active, Waiting, QueueTypeOK
  <2>. QED
    BY <2>1, <2>2, <2>3, <2>4 DEF Active, Handing, Driving, Timing
<1>12. ASSUME NEW w \in Workers, WorkerLoad(w) PROVE ~Active(i)'
  BY <1>12, <1>0
     DEF WorkerLoad, WorkerDone, StoreFault, store, client, worker, timer, ghosts, Active,
         OneActivation, Waiting, Handing, Driving, Timing, Settled, Pending
<1>13. ASSUME NEW w \in Workers, WorkerStart(w) PROVE ~Active(i)'
  BY <1>13, <1>0, StartedType
     DEF WorkerStart, WorkerStep, UpdateJob, StoreFault, store, client, worker, timer,
         ghosts, Active, OneActivation, Waiting, Handing, Driving, Timing, Settled,
         Pending
<1>14. ASSUME NEW w \in Workers, WorkerLogStart(w) PROVE ~Active(i)'
  BY <1>14, <1>0
     DEF WorkerLogStart, WorkerStep, RecordAttempt, StoreFault, store, client, worker,
         timer, ghosts, Active, OneActivation, Waiting, Handing, Driving, Timing, Settled,
         Pending
<1>15. ASSUME NEW w \in Workers, Execute(w) PROVE ~Active(i)'
  BY <1>15, <1>0
     DEF Execute, WorkerStep, store, client, worker, timer, ghosts, Active, OneActivation,
         Waiting, Handing, Driving, Timing, Settled, Pending
<1>16. ASSUME NEW w \in Workers, WorkerCommit(w) PROVE ~Active(i)'
  BY <1>16, <1>0, WithStatusType
     DEF WorkerCommit, WorkerStep, StoreFault, store, client, worker, timer, ghosts,
         Active, OneActivation, Waiting, Handing, Driving, Timing, Settled, Pending
<1>17. ASSUME NEW w \in Workers, WorkerLogSuccess(w) PROVE ~Active(i)'
  BY <1>17, <1>0
     DEF WorkerLogSuccess, WorkerDone, RecordAttempt, StoreFault, store, client, worker,
         timer, ghosts, Active, OneActivation, Waiting, Handing, Driving, Timing, Settled,
         Pending
<1>18. ASSUME NEW w \in Workers, WorkerGiveUp(w) PROVE ~Active(i)'
  BY <1>18, <1>0, WithStatusType
     DEF WorkerGiveUp, WorkerStep, UpdateJob, StoreFault, store, client, worker, timer,
         ghosts, Active, OneActivation, Waiting, Handing, Driving, Timing, Settled,
         Pending
<1>19. ASSUME NEW w \in Workers, WorkerLogGiveUp(w) PROVE ~Active(i)'
  BY <1>19, <1>0
     DEF WorkerLogGiveUp, WorkerStep, RecordAttempt, StoreFault, store, client, worker,
         timer, ghosts, Active, OneActivation, Waiting, Handing, Driving, Timing, Settled,
         Pending
<1>20. ASSUME NEW w \in Workers, WorkerDeadLetter(w) PROVE ~Active(i)'
  BY <1>20, <1>0
     DEF WorkerDeadLetter, WorkerDone, StoreFault, store, client, worker, timer, ghosts,
         Active, OneActivation, Waiting, Handing, Driving, Timing, Settled, Pending
<1>21. ASSUME NEW w \in Workers, WorkerLogFailure(w) PROVE ~Active(i)'
  BY <1>21, <1>0
     DEF WorkerLogFailure, WorkerStep, RecordAttempt, StoreFault, store, client, worker,
         timer, ghosts, Active, OneActivation, Waiting, Handing, Driving, Timing, Settled,
         Pending
<1>22. ASSUME NEW w \in Workers, WorkerMarkRetry(w) PROVE ~Active(i)'
  BY <1>22, <1>0, WithStatusType
     DEF WorkerMarkRetry, UpdateJob, WorkerDone, StoreFault, store, client, worker, timer,
         ghosts, Active, OneActivation, Waiting, Handing, Driving, Timing, Settled,
         Pending
<1>23. ASSUME NEW w \in Workers, WorkerExit(w) PROVE ~Active(i)'
  BY <1>23, <1>0
     DEF WorkerExit, WorkerStep, store, client, worker, timer, ghosts, Active,
         OneActivation, Waiting, Handing, Driving, Timing, Settled, Pending
<1>24. ASSUME NEW t \in Timers, TimerLoad(t) PROVE ~Active(i)'
  BY <1>24, <1>0
     DEF TimerLoad, TimerDone, StoreFault, store, client, worker, timer, ghosts, Active,
         OneActivation, Waiting, Handing, Driving, Timing, Settled, Pending
<1>25. ASSUME NEW t \in Timers, TimerUpdate(t) PROVE ~Active(i)'
  BY <1>25, <1>0, WithStatusType
     DEF TimerUpdate, UpdateJob, StoreFault, store, client, worker, timer, ghosts, Active,
         OneActivation, Waiting, Handing, Driving, Timing, Settled, Pending
<1>26. ASSUME NEW t \in Timers, TimerEnqueue(t) PROVE ~Active(i)'
  BY <1>26, <1>0, EnqueueWaiting
     DEF TimerEnqueue, TimerDone, store, client, worker, timer, ghosts, Active,
         OneActivation, Waiting, Handing, Driving, Timing, Settled, Pending
<1>27. CASE Stop
  BY <1>27, <1>0
     DEF Stop, store, client, worker, timer, ghosts, Active, OneActivation, Waiting,
         Handing, Driving, Timing, Settled, Pending
<1>28. CASE Crash
  BY <1>28, <1>0
     DEF Crash, InMemory, store, client, worker, timer, ghosts, Active, OneActivation,
         Waiting, Handing, Driving, Timing, Settled, Pending
<1>29. CASE UNCHANGED vars
  <2>1. /\ retried[i] = 0
        /\ row[i].status = "FAILED" \/ (row[i].status = "SUCCEEDED" /\ faults = 0)
        /\ UNCHANGED <<queue, cpc, cjob, wpc, wjob, tjob>>
    BY <1>29 DEF vars, store, client, worker, timer, ghosts
  <2>. QED
    BY <1>0, <2>1 DEF Active, Waiting, Handing, Driving, Timing
<1>. QED
  BY <1>1, <1>2, <1>3, <1>4, <1>5, <1>6, <1>7, <1>8, <1>9, <1>10, <1>11, <1>12, <1>13,
     <1>14, <1>15, <1>16, <1>17, <1>18, <1>19, <1>20, <1>21, <1>22, <1>23, <1>24, <1>25,
     <1>26, <1>27, <1>28, <1>29
     DEF Next, ClientNext, WorkerNext, TimerNext

(* Until RetryJob is accepted, a job that was given up, or that succeeded  *)
(* while no store call failed, has no activation left that could run it.   *)
THEOREM JobsSettledAreOver == Spec => []SettledIsOver
<1>1. Init => Fresh /\ SingleActivation /\ SettledIsOver
  BY JobServiceAssumption
     DEF Init, Fresh, SingleActivation, SettledIsOver, OneActivation, WaitingOnce,
         Waiting, Handing,
     Timing, NoRow
<1>2. TypeOK /\ Held /\ Fresh /\ SingleActivation /\ SettledIsOver /\ [Next]_vars
        => (Fresh /\ SingleActivation /\ SettledIsOver)'
  BY FreshStep, SingleStep, SettledStep
<1>3. TypeOK /\ Held /\ [Next]_vars => (TypeOK /\ Held)'
  BY TypeStep, HeldStep
<1>. QED
  BY TypeInit, <1>1, <1>2, <1>3, PTL DEF Spec

-----------------------------------------------------------------------------
(* No step takes a canceled job that nobody has a copy of out of that state, *)
(* except the load of RetryJob.                                             *)
LEMMA CancelStep ==
    ASSUME TypeOK, Held, [Next]_vars, NEW i \in Jobs, CanceledAndUnheld(i)
    PROVE  CanceledAndUnheld(i)' \/ \E c \in Clients : cpc'[c] = "retryUpdate" /\ cjob'[c] = i
<1>. DEFINE Goal == CanceledAndUnheld(i)' \/ \E c \in Clients : cpc'[c] = "retryUpdate" /\ cjob'[c] = i
<1>. USE JobServiceAssumption DEF TypeOK, StoreTypeOK, ClientTypeOK, WorkerTypeOK, TimerTypeOK, CounterTypeOK, Held, CanceledAndUnheld
<1>1. ASSUME NEW c \in Clients, NEW k \in Keys, SubmitHit(c, k) PROVE Goal
  BY <1>1 DEF SubmitHit, store, client, worker, timer, ghosts, Settled, Pending
<1>2. ASSUME NEW c \in Clients, NEW k \in Keys \cup {NoKey}, SubmitMiss(c, k) PROVE Goal
  BY <1>2
     DEF SubmitMiss, ClientStep, store, client, worker, timer, ghosts, Settled, Pending
<1>3. ASSUME NEW c \in Clients, SubmitCreate(c) PROVE Goal
  BY <1>3, EffectiveLimitType
     DEF SubmitCreate, Insert, ClientStep, ClientDone, StoreFault, Unused, store, client, worker,
         timer, ghosts, Settled, Pending
<1>4. ASSUME NEW c \in Clients, SubmitSaveKey(c) PROVE Goal
  BY <1>4
     DEF SubmitSaveKey, BindKey, ClientStep, ClientDone, StoreFault, store, client, worker, timer,
         ghosts, Settled, Pending
<1>5. ASSUME NEW c \in Clients, SubmitEnqueue(c) PROVE Goal
  BY <1>5
     DEF SubmitEnqueue, Enqueue, ClientDone, store, client, worker, timer, ghosts,
         Settled, Pending
<1>6. ASSUME NEW c \in Clients, NEW j \in Jobs, RetryLoad(c, j) PROVE Goal
  BY <1>6
     DEF RetryLoad, ClientStep, store, client, worker, timer, ghosts, Settled, Pending
<1>7. ASSUME NEW c \in Clients, NEW j \in Jobs, CancelLoad(c, j) PROVE Goal
  BY <1>7
     DEF CancelLoad, ClientStep, store, client, worker, timer, ghosts, Settled, Pending
<1>8. ASSUME NEW c \in Clients, RetryUpdate(c) PROVE Goal
  BY <1>8, WithStatusType
     DEF RetryUpdate, ClientStep, ClientDone, StoreFault, store, client, worker, timer,
         ghosts, Settled, Pending
<1>9. ASSUME NEW c \in Clients, RetryEnqueue(c) PROVE Goal
  BY <1>9
     DEF RetryEnqueue, Enqueue, ClientDone, store, client, worker, timer, ghosts, Settled,
         Pending
<1>10. ASSUME NEW c \in Clients, CancelUpdate(c) PROVE Goal
  BY <1>10, WithStatusType
     DEF CancelUpdate, UpdateJob, ClientDone, StoreFault, store, client, worker, timer,
         ghosts, Settled, Pending
<1>11. ASSUME NEW w \in Workers, Dequeue(w) PROVE Goal
  BY <1>11 DEF Dequeue, WorkerStep, store, client, worker, timer, ghosts, Settled, Pending
<1>12. ASSUME NEW w \in Workers, WorkerLoad(w) PROVE Goal
  BY <1>12
     DEF WorkerLoad, WorkerDone, StoreFault, store, client, worker, timer, ghosts,
         Settled, Pending
<1>13. ASSUME NEW w \in Workers, WorkerStart(w) PROVE Goal
  BY <1>13, StartedType
     DEF WorkerStart, WorkerStep, UpdateJob, StoreFault, store, client, worker, timer,
         ghosts, Settled, Pending
<1>14. ASSUME NEW w \in Workers, WorkerLogStart(w) PROVE Goal
  BY <1>14
     DEF WorkerLogStart, WorkerStep, RecordAttempt, StoreFault, store, client, worker,
         timer, ghosts, Settled, Pending
<1>15. ASSUME NEW w \in Workers, Execute(w) PROVE Goal
  BY <1>15 DEF Execute, WorkerStep, store, client, worker, timer, ghosts, Settled, Pending
<1>16. ASSUME NEW w \in Workers, WorkerCommit(w) PROVE Goal
  BY <1>16, WithStatusType
     DEF WorkerCommit, WorkerStep, StoreFault, store, client, worker, timer, ghosts,
         Settled, Pending
<1>17. ASSUME NEW w \in Workers, WorkerLogSuccess(w) PROVE Goal
  BY <1>17
     DEF WorkerLogSuccess, WorkerDone, RecordAttempt, StoreFault, store, client, worker,
         timer, ghosts, Settled, Pending
<1>18. ASSUME NEW w \in Workers, WorkerGiveUp(w) PROVE Goal
  BY <1>18, WithStatusType
     DEF WorkerGiveUp, WorkerStep, UpdateJob, StoreFault, store, client, worker, timer,
         ghosts, Settled, Pending
<1>19. ASSUME NEW w \in Workers, WorkerLogGiveUp(w) PROVE Goal
  BY <1>19
     DEF WorkerLogGiveUp, WorkerStep, RecordAttempt, StoreFault, store, client, worker,
         timer, ghosts, Settled, Pending
<1>20. ASSUME NEW w \in Workers, WorkerDeadLetter(w) PROVE Goal
  BY <1>20
     DEF WorkerDeadLetter, WorkerDone, StoreFault, store, client, worker, timer, ghosts,
         Settled, Pending
<1>21. ASSUME NEW w \in Workers, WorkerLogFailure(w) PROVE Goal
  BY <1>21
     DEF WorkerLogFailure, WorkerStep, RecordAttempt, StoreFault, store, client, worker,
         timer, ghosts, Settled, Pending
<1>22. ASSUME NEW w \in Workers, WorkerMarkRetry(w) PROVE Goal
  BY <1>22, WithStatusType
     DEF WorkerMarkRetry, UpdateJob, WorkerDone, StoreFault, store, client, worker, timer,
         ghosts, Settled, Pending
<1>23. ASSUME NEW w \in Workers, WorkerExit(w) PROVE Goal
  BY <1>23
     DEF WorkerExit, WorkerStep, store, client, worker, timer, ghosts, Settled, Pending
<1>24. ASSUME NEW t \in Timers, TimerLoad(t) PROVE Goal
  BY <1>24
     DEF TimerLoad, TimerDone, StoreFault, store, client, worker, timer, ghosts, Settled,
         Pending
<1>25. ASSUME NEW t \in Timers, TimerUpdate(t) PROVE Goal
  BY <1>25, WithStatusType
     DEF TimerUpdate, UpdateJob, StoreFault, store, client, worker, timer, ghosts,
         Settled, Pending
<1>26. ASSUME NEW t \in Timers, TimerEnqueue(t) PROVE Goal
  BY <1>26
     DEF TimerEnqueue, Enqueue, TimerDone, store, client, worker, timer, ghosts, Settled,
         Pending
<1>27. CASE Stop
  BY <1>27 DEF Stop, store, client, worker, timer, ghosts, Settled, Pending
<1>28. CASE Crash
  BY <1>28 DEF Crash, InMemory, store, client, worker, timer, ghosts, Settled, Pending
<1>29. CASE UNCHANGED vars
  BY <1>29 DEF vars, store, client, worker, timer, ghosts, Settled, Pending
<1>. QED
  BY <1>1, <1>2, <1>3, <1>4, <1>5, <1>6, <1>7, <1>8, <1>9, <1>10, <1>11, <1>12, <1>13,
     <1>14, <1>15, <1>16, <1>17, <1>18, <1>19, <1>20, <1>21, <1>22, <1>23, <1>24, <1>25,
     <1>26, <1>27, <1>28, <1>29
     DEF Next, ClientNext, WorkerNext, TimerNext

(* A canceled job nobody has loaded stays canceled until RetryJob loads it: *)
(* only a goroutine that had the row before can overwrite a cancel.         *)
THEOREM JobsCancelSticks == Spec => CancelSticks
<1>. DEFINE Step == \A j \in Jobs : CanceledAndUnheld(j) =>
                      \/ CanceledAndUnheld(j)'
                      \/ \E c \in Clients : cpc'[c] = "retryUpdate" /\ cjob'[c] = j
<1>1. TypeOK /\ Held /\ [Next]_vars => [Step]_vars
  BY CancelStep
<1>2. TypeOK /\ Held /\ [Next]_vars => (TypeOK /\ Held)'
  BY TypeStep, HeldStep
<1>. HIDE DEF Step
<1>3. Spec => [][Step]_vars
  BY TypeInit, <1>1, <1>2, PTL DEF Spec
<1>. QED
  BY <1>3 DEF CancelSticks, Step

=============================================================================
