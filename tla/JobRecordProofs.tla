--------------------------- MODULE JobRecordProofs ---------------------------
(***************************************************************************)
(* What the tables of the job engine record, for every set of jobs, keys,  *)
(* callers, workers and timers and every bound on faults and crashes: the  *)
(* engine implements KeyedIntake, a job given up is dead-lettered once, the*)
(* ledger names every success, and the attempts stay within their limit.   *)
(*                                                                         *)
(* A row is only ever overwritten by somebody who holds the job, and Fresh *)
(* says that a held job exists: so no overwriting creates or removes one.  *)
(* The worker that gives a job up is its only activation (SingleActivation)*)
(* and ends it: so nobody can give it up again.                            *)
(***************************************************************************)
EXTENDS JobServiceProofs, FiniteSetTheorems

Existing == {j \in Jobs : row[j].status # "ABSENT"}

(* Overwriting a row that exists by one that exists changes no job's being. *)
LEMMA OverwriteKeeps ==
    ASSUME StoreTypeOK, NEW j \in Existing, NEW r \in JobRow, r.status # "ABSENT",
           row' = [row EXCEPT ![j] = r] \/ row' = row
    PROVE  Existing' = Existing
BY DEF StoreTypeOK, Existing, JobRow

(* So does writing back a copy with a new status. *)
LEMMA WriteBackKeeps ==
    ASSUME StoreTypeOK, NEW j \in Existing, NEW r \in JobRow, NEW s \in Settled \cup Pending,
           row' = [row EXCEPT ![j] = WithStatus(r, s)] \/ row' = row
    PROVE  Existing' = Existing
<1>1. WithStatus(r, s) \in JobRow /\ WithStatus(r, s).status # "ABSENT"
  BY WithStatusType DEF Settled, Pending
<1>. QED
  BY <1>1, OverwriteKeeps

(* What a goroutine holds exists. *)
LEMMA HeldExists ==
    ASSUME TypeOK, Fresh
    PROVE  /\ \A c \in Clients : cjob[c] # NoJob => cjob[c] \in Existing
           /\ \A w \in Workers : wjob[w] # NoJob => wjob[w] \in Existing
           /\ \A t \in Timers : tjob[t] # NoJob => tjob[t] \in Existing
BY DEF TypeOK, ClientTypeOK, WorkerTypeOK, TimerTypeOK, Fresh, Existing

(* Every step creates a job, binds a key, or leaves both alone. *)
LEMMA IntakeStep ==
    ASSUME TypeOK, Held, Fresh, [Next]_vars
    PROVE  [Intake!Next]_<<Existing, idem>>
<1>. DEFINE Kept == Existing' = Existing /\ idem' = idem
<1>. USE JobServiceAssumption, HeldExists
     DEF TypeOK, StoreTypeOK, ClientTypeOK, WorkerTypeOK, TimerTypeOK, Held
<1>1. ASSUME NEW c \in Clients, SubmitCreate(c) PROVE [Intake!Next]_<<Existing, idem>>
  <2>0. idem' = idem
    BY <1>1 DEF SubmitCreate, Insert
  <2>1. CASE row' = row
    BY <2>0, <2>1 DEF Existing
  <2>2. CASE row' # row
    <3>1. PICK j \in Unused, m \in LimitArgs :
             row' = [row EXCEPT ![j] = [status |-> "QUEUED", attempts |-> 0,
                                        limit |-> EffectiveLimit(m)]]
      BY <1>1, <2>2 DEF SubmitCreate, Insert
    <3>2. Existing' = Existing \cup {j} /\ j \in Jobs \ Existing
      BY <3>1 DEF Existing, Unused
    <3>. QED
      BY <2>0, <3>2 DEF Intake!Next, Intake!Create, Existing
  <2>. QED
    BY <2>1, <2>2
<1>2. ASSUME NEW c \in Clients, SubmitSaveKey(c) PROVE [Intake!Next]_<<Existing, idem>>
  <2>1. Existing' = Existing /\ cpc[c] = "saveKey"
    BY <1>2 DEF SubmitSaveKey, BindKey, ClientStep, Existing
  <2>2. cjob[c] \in Existing /\ ckey[c] \in Keys
    BY <2>1
  <2>3. CASE idem' = idem
    BY <2>1, <2>3
  <2>4. CASE idem' # idem
    <3>1. idem[ckey[c]] = NoJob /\ idem' = [idem EXCEPT ![ckey[c]] = cjob[c]]
      BY <1>2, <2>4 DEF SubmitSaveKey, BindKey
    <3>. QED
      BY <2>1, <2>2, <3>1 DEF Intake!Next, Intake!Bind, Existing
  <2>. QED
    BY <2>3, <2>4
<1>3. ASSUME NEW c \in Clients, RetryUpdate(c) PROVE Kept
  <2>1. cjob[c] \in Existing /\ crow[c] \in JobRow /\ idem' = idem
    BY <1>3 DEF RetryUpdate, ClientStep
  <2>. QED
    BY <1>3, <2>1, WriteBackKeeps DEF RetryUpdate, Settled, Pending
<1>4. ASSUME NEW c \in Clients, CancelUpdate(c) PROVE Kept
  <2>1. cjob[c] \in Existing /\ crow[c] \in JobRow /\ idem' = idem
    BY <1>4 DEF CancelUpdate
  <2>. QED
    BY <1>4, <2>1, WriteBackKeeps DEF CancelUpdate, UpdateJob, Settled, Pending
<1>5. ASSUME NEW w \in Workers,
             WorkerStart(w) \/ WorkerCommit(w) \/ WorkerGiveUp(w) \/ WorkerMarkRetry(w)
      PROVE  Kept
  <2>1. wjob[w] \in Existing /\ wrow[w] \in JobRow /\ idem' = idem
    BY <1>5 DEF WorkerStart, WorkerCommit, WorkerGiveUp, WorkerMarkRetry, WorkerStep
  <2>2. CASE WorkerStart(w)
    BY <2>2, <2>1, OverwriteKeeps, StartedType DEF WorkerStart, UpdateJob
  <2>3. CASE WorkerCommit(w)
    BY <2>3, <2>1, WriteBackKeeps DEF WorkerCommit, Settled, Pending
  <2>4. CASE WorkerGiveUp(w)
    BY <2>4, <2>1, WriteBackKeeps DEF WorkerGiveUp, UpdateJob, Settled, Pending
  <2>5. CASE WorkerMarkRetry(w)
    <3>1. row[wjob[w]] \in JobRow
      BY <2>1 DEF Existing
    <3>. QED
      BY <2>5, <2>1, <3>1, WriteBackKeeps
         DEF WorkerMarkRetry, UpdateJob, Settled, Pending
  <2>. QED
    BY <1>5, <2>2, <2>3, <2>4, <2>5
<1>6. ASSUME NEW t \in Timers, TimerUpdate(t) PROVE Kept
  <2>1. tjob[t] \in Existing /\ trow[t] \in JobRow /\ idem' = idem
    BY <1>6 DEF TimerUpdate
  <2>. QED
    BY <1>6, <2>1, WriteBackKeeps DEF TimerUpdate, UpdateJob, Settled, Pending
<1>7. ASSUME NEW c \in Clients,
             \/ \E k \in Keys : SubmitHit(c, k)
             \/ \E k \in Keys \cup {NoKey} : SubmitMiss(c, k)
             \/ SubmitEnqueue(c) \/ RetryEnqueue(c)
             \/ \E j \in Jobs : RetryLoad(c, j) \/ CancelLoad(c, j)
      PROVE  Kept
  <2>1. row' = row /\ idem' = idem
    BY <1>7, Zenon DEF SubmitHit, SubmitMiss, SubmitEnqueue, RetryEnqueue, RetryLoad, CancelLoad,
                       store
  <2>. QED
    BY <2>1 DEF Existing
<1>8. ASSUME NEW w \in Workers,
             \/ Dequeue(w) \/ WorkerLoad(w) \/ WorkerLogStart(w) \/ Execute(w)
             \/ WorkerLogSuccess(w) \/ WorkerLogGiveUp(w) \/ WorkerDeadLetter(w)
             \/ WorkerLogFailure(w) \/ WorkerExit(w)
      PROVE  Kept
  BY <1>8 DEF Dequeue, WorkerLoad, WorkerLogStart, Execute, WorkerLogSuccess, WorkerLogGiveUp,
              WorkerDeadLetter, WorkerLogFailure, WorkerExit, store, Existing
<1>9. ASSUME NEW t \in Timers, TimerLoad(t) \/ TimerEnqueue(t) PROVE Kept
  BY <1>9 DEF TimerLoad, TimerEnqueue, store, Existing
<1>10. ASSUME Stop \/ Crash \/ UNCHANGED vars PROVE Kept
  BY <1>10 DEF Stop, Crash, vars, store, Existing
<1>. QED
  BY <1>1, <1>2, <1>3, <1>4, <1>5, <1>6, <1>7, <1>8, <1>9, <1>10
     DEF Next, ClientNext, WorkerNext, TimerNext

(* No job leaves the table. *)
LEMMA NoJobLeaves ==
    ASSUME [Intake!Next]_<<Existing, idem>>, NEW j \in Jobs, row'[j].status = "ABSENT"
    PROVE  row[j].status = "ABSENT"
<1>1. Existing \subseteq Existing'
  BY DEF Intake!Next, Intake!Create, Intake!Bind, Existing
<1>. QED
  BY <1>1 DEF Existing

(* Nothing exists and no key is bound at first. *)
LEMMA IntakeInit == Init => Intake!Init
BY DEF Init, Intake!Init, NoRow

(* An empty table holds no job that anybody could hold. *)
LEMMA FreshInit == Init => Fresh
BY JobServiceAssumption DEF Init, Fresh, Waiting

(* The engine is the one KeyedIntake describes: jobs are not taken back,    *)
(* and a key is bound once, to a job that exists.                           *)
THEOREM JobsRefineIntake == Spec => RefinesIntake
<1>1. TypeOK /\ Held /\ Fresh /\ [Next]_vars => (TypeOK /\ Held /\ Fresh)'
  BY TypeStep, HeldStep, FreshStep
<1>2. TypeOK /\ Held /\ Fresh /\ [Next]_vars
        => [Intake!Next]_<<{j \in Jobs : row[j].status # "ABSENT"}, idem>>
  BY IntakeStep DEF Existing
<1>. QED
  BY TypeInit, FreshInit, IntakeInit, <1>1, <1>2, PTL DEF Spec, RefinesIntake, Intake!Spec
-----------------------------------------------------------------------------
(* Nobody has given up an id that is not in use. *)
NoLetterYet == \A j \in Jobs : row[j].status = "ABSENT" => deadLetters[j] = 0

LetteredOnce(j) ==
    /\ deadLetters[j] <= 1
    /\ deadLetters[j] = 1 => ~Active(j) /\ \A w \in Workers : ~GivingUp(w, j)
    /\ row[j].status = "FAILED" => \/ deadLetters[j] = 1 \/ j \in lost
                                   \/ \E w \in Workers : GivingUp(w, j)

(* A dead letter is written by the worker that held the job alone. *)
LEMMA LetteredStep ==
    ASSUME TypeOK, Held, Fresh, SingleActivation, SettledIsOver, NoLetterYet, DeadLetteredOnce,
           [Next]_vars
    PROVE  DeadLetteredOnce'
<1>. SUFFICES ASSUME NEW i \in Jobs, retried'[i] = 0
              PROVE  LetteredOnce(i)'
  BY DEF DeadLetteredOnce, LetteredOnce
<1>0. retried[i] = 0 => /\ OneActivation(i)
                        /\ LetteredOnce(i)
                        /\ row[i].status = "ABSENT" => deadLetters[i] = 0
                        /\ row[i].status = "FAILED" => ~Active(i)
  BY DEF SingleActivation, SettledIsOver, DeadLetteredOnce, LetteredOnce, NoLetterYet
<1>. USE JobServiceAssumption DEF TypeOK, StoreTypeOK, ClientTypeOK, WorkerTypeOK, TimerTypeOK, CounterTypeOK, Held
<1>1. ASSUME NEW c \in Clients, NEW k \in Keys, SubmitHit(c, k) PROVE LetteredOnce(i)'
  BY <1>1, <1>0
     DEF LetteredOnce, GivingUp, SubmitHit, store, client, worker, timer, ghosts, Active, OneActivation, Waiting,
         Handing, Driving, Timing, Settled, Pending
<1>2. ASSUME NEW c \in Clients, NEW k \in Keys \cup {NoKey}, SubmitMiss(c, k)
      PROVE  LetteredOnce(i)'
  BY <1>2, <1>0
     DEF LetteredOnce, GivingUp, SubmitMiss, ClientStep, store, client, worker, timer, ghosts, Active,
         OneActivation, Waiting, Handing, Driving, Timing, Settled, Pending
<1>3. ASSUME NEW c \in Clients, SubmitCreate(c) PROVE LetteredOnce(i)'
  BY <1>3, <1>0, EffectiveLimitType
     DEF LetteredOnce, GivingUp, Fresh, SubmitCreate, Insert, ClientStep, ClientDone, StoreFault, Unused, store, client,
         worker, timer, ghosts, Active, OneActivation, Waiting, Handing, Driving, Timing,
         Settled, Pending
<1>4. ASSUME NEW c \in Clients, SubmitSaveKey(c) PROVE LetteredOnce(i)'
  BY <1>4, <1>0
     DEF LetteredOnce, GivingUp, SubmitSaveKey, BindKey, ClientStep, ClientDone, StoreFault, store, client, worker, timer,
         ghosts, Active, OneActivation, Waiting, Handing, Driving, Timing, Settled,
         Pending
<1>5. ASSUME NEW c \in Clients, SubmitEnqueue(c) PROVE LetteredOnce(i)'
  <2>1. PICK k \in Jobs : k = cjob[c] /\ Enqueue(k)
    BY <1>5 DEF SubmitEnqueue
  <2>2. /\ cpc' = [cpc EXCEPT ![c] = "idle"] /\ cjob' = [cjob EXCEPT ![c] = NoJob]
        /\ UNCHANGED <<row, deadLetters, retried, wpc, wjob, tjob>>
    BY <1>5 DEF SubmitEnqueue, ClientDone, store, worker, timer
  <2>3. ASSUME ~Active(i) PROVE ~Active(i)'
    <3>1. i # k
      BY <1>5, <2>1, <2>3 DEF Active, Handing, SubmitEnqueue
    <3>2. ~Waiting(i)'
      BY <2>1, <2>3, <3>1, EnqueueWaiting DEF Active
    <3>. QED
      BY <2>2, <2>3, <3>2 DEF Active, Handing, Driving, Timing
  <2>4. lost \subseteq lost'
    BY <2>1, EnqueueWaiting
  <2>. QED
    BY <1>0, <2>2, <2>3, <2>4 DEF LetteredOnce, GivingUp
<1>6. ASSUME NEW c \in Clients, NEW j \in Jobs, RetryLoad(c, j) PROVE LetteredOnce(i)'
  BY <1>6, <1>0
     DEF LetteredOnce, GivingUp, RetryLoad, ClientStep, store, client, worker, timer, ghosts, Active,
         OneActivation, Waiting, Handing, Driving, Timing, Settled, Pending
<1>7. ASSUME NEW c \in Clients, NEW j \in Jobs, CancelLoad(c, j) PROVE LetteredOnce(i)'
  BY <1>7, <1>0
     DEF LetteredOnce, GivingUp, CancelLoad, ClientStep, store, client, worker, timer, ghosts, Active,
         OneActivation, Waiting, Handing, Driving, Timing, Settled, Pending
<1>8. ASSUME NEW c \in Clients, RetryUpdate(c) PROVE LetteredOnce(i)'
  BY <1>8, <1>0, WithStatusType
     DEF LetteredOnce, GivingUp, RetryUpdate, ClientStep, ClientDone, StoreFault, store, client, worker, timer,
         ghosts, Active, OneActivation, Waiting, Handing, Driving, Timing, Settled,
         Pending
<1>9. ASSUME NEW c \in Clients, RetryEnqueue(c) PROVE LetteredOnce(i)'
  BY <1>9, <1>0, EnqueueWaiting
     DEF LetteredOnce, GivingUp, RetryEnqueue, ClientDone, store, client, worker, timer, ghosts, Active,
         OneActivation, Waiting, Handing, Driving, Timing, Settled, Pending
<1>10. ASSUME NEW c \in Clients, CancelUpdate(c) PROVE LetteredOnce(i)'
  BY <1>10, <1>0, WithStatusType
     DEF LetteredOnce, GivingUp, CancelUpdate, UpdateJob, ClientDone, StoreFault, store, client, worker, timer,
         ghosts, Active, OneActivation, Waiting, Handing, Driving, Timing, Settled,
         Pending
<1>11. ASSUME NEW w \in Workers, Dequeue(w) PROVE LetteredOnce(i)'
  <2>1. /\ queue # <<>> /\ queue' = Tail(queue)
        /\ wpc[w] = "idle" /\ wpc' = [wpc EXCEPT ![w] = "load"]
        /\ wjob' = [wjob EXCEPT ![w] = Head(queue)]
        /\ UNCHANGED <<row, deadLetters, retried, lost, cpc, cjob, tjob>>
    BY <1>11 DEF Dequeue, WorkerStep, store, client, timer, ghosts
  <2>2. ASSUME ~Active(i) PROVE ~Active(i)'
    <3>1. ~Waiting(i)' /\ Head(queue) # i
      BY <2>1, <2>2, TailWaiting, SMTT(60) DEF Active, Waiting, QueueTypeOK
    <3>. QED
      BY <2>1, <2>2, <3>1 DEF Active, Handing, Driving, Timing
  <2>3. \A v \in Workers : GivingUp(v, i)' <=> GivingUp(v, i)
    BY <2>1 DEF GivingUp
  <2>. QED
    BY <1>0, <2>1, <2>2, <2>3 DEF LetteredOnce
<1>12. ASSUME NEW w \in Workers, WorkerLoad(w) PROVE LetteredOnce(i)'
  BY <1>12, <1>0
     DEF LetteredOnce, GivingUp, WorkerLoad, WorkerDone, StoreFault, store, client, worker, timer, ghosts, Active,
         OneActivation, Waiting, Handing, Driving, Timing, Settled, Pending
<1>13. ASSUME NEW w \in Workers, WorkerStart(w) PROVE LetteredOnce(i)'
  BY <1>13, <1>0, StartedType
     DEF LetteredOnce, GivingUp, WorkerStart, WorkerStep, UpdateJob, StoreFault, store, client, worker, timer,
         ghosts, Active, OneActivation, Waiting, Handing, Driving, Timing, Settled,
         Pending
<1>14. ASSUME NEW w \in Workers, WorkerLogStart(w) PROVE LetteredOnce(i)'
  BY <1>14, <1>0
     DEF LetteredOnce, GivingUp, WorkerLogStart, WorkerStep, RecordAttempt, StoreFault, store, client, worker,
         timer, ghosts, Active, OneActivation, Waiting, Handing, Driving, Timing, Settled,
         Pending
<1>15. ASSUME NEW w \in Workers, Execute(w) PROVE LetteredOnce(i)'
  BY <1>15, <1>0
     DEF LetteredOnce, GivingUp, Execute, WorkerStep, store, client, worker, timer, ghosts, Active, OneActivation,
         Waiting, Handing, Driving, Timing, Settled, Pending
<1>16. ASSUME NEW w \in Workers, WorkerCommit(w) PROVE LetteredOnce(i)'
  BY <1>16, <1>0, WithStatusType
     DEF LetteredOnce, GivingUp, WorkerCommit, WorkerStep, StoreFault, store, client, worker, timer, ghosts,
         Active, OneActivation, Waiting, Handing, Driving, Timing, Settled, Pending
<1>17. ASSUME NEW w \in Workers, WorkerLogSuccess(w) PROVE LetteredOnce(i)'
  BY <1>17, <1>0
     DEF LetteredOnce, GivingUp, WorkerLogSuccess, WorkerDone, RecordAttempt, StoreFault, store, client, worker,
         timer, ghosts, Active, OneActivation, Waiting, Handing, Driving, Timing, Settled,
         Pending
<1>18. ASSUME NEW w \in Workers, WorkerGiveUp(w) PROVE LetteredOnce(i)'
  BY <1>18, <1>0, WithStatusType
     DEF LetteredOnce, GivingUp, WorkerGiveUp, WorkerStep, UpdateJob, StoreFault, store, client, worker, timer,
         ghosts, Active, OneActivation, Waiting, Handing, Driving, Timing, Settled,
         Pending
<1>19. ASSUME NEW w \in Workers, WorkerLogGiveUp(w) PROVE LetteredOnce(i)'
  BY <1>19, <1>0
     DEF LetteredOnce, GivingUp, WorkerLogGiveUp, WorkerStep, RecordAttempt, StoreFault, store, client, worker,
         timer, ghosts, Active, OneActivation, Waiting, Handing, Driving, Timing, Settled,
         Pending
<1>20. ASSUME NEW w \in Workers, WorkerDeadLetter(w) PROVE LetteredOnce(i)'
  BY <1>20, <1>0, SMTT(60)
     DEF LetteredOnce, GivingUp, WorkerDeadLetter, WorkerDone, StoreFault, store, client, worker, timer, ghosts,
         Active, OneActivation, Waiting, Handing, Driving, Timing, Settled, Pending
<1>21. ASSUME NEW w \in Workers, WorkerLogFailure(w) PROVE LetteredOnce(i)'
  BY <1>21, <1>0
     DEF LetteredOnce, GivingUp, WorkerLogFailure, WorkerStep, RecordAttempt, StoreFault, store, client, worker,
         timer, ghosts, Active, OneActivation, Waiting, Handing, Driving, Timing, Settled,
         Pending
<1>22. ASSUME NEW w \in Workers, WorkerMarkRetry(w) PROVE LetteredOnce(i)'
  BY <1>22, <1>0, WithStatusType
     DEF LetteredOnce, GivingUp, WorkerMarkRetry, UpdateJob, WorkerDone, StoreFault, store, client, worker, timer,
         ghosts, Active, OneActivation, Waiting, Handing, Driving, Timing, Settled,
         Pending
<1>23. ASSUME NEW w \in Workers, WorkerExit(w) PROVE LetteredOnce(i)'
  BY <1>23, <1>0
     DEF LetteredOnce, GivingUp, WorkerExit, WorkerStep, store, client, worker, timer, ghosts, Active,
         OneActivation, Waiting, Handing, Driving, Timing, Settled, Pending
<1>24. ASSUME NEW t \in Timers, TimerLoad(t) PROVE LetteredOnce(i)'
  BY <1>24, <1>0
     DEF LetteredOnce, GivingUp, TimerLoad, TimerDone, StoreFault, store, client, worker, timer, ghosts, Active,
         OneActivation, Waiting, Handing, Driving, Timing, Settled, Pending
<1>25. ASSUME NEW t \in Timers, TimerUpdate(t) PROVE LetteredOnce(i)'
  BY <1>25, <1>0, WithStatusType
     DEF LetteredOnce, GivingUp, TimerUpdate, UpdateJob, StoreFault, store, client, worker, timer, ghosts, Active,
         OneActivation, Waiting, Handing, Driving, Timing, Settled, Pending
<1>26. ASSUME NEW t \in Timers, TimerEnqueue(t) PROVE LetteredOnce(i)'
  BY <1>26, <1>0, EnqueueWaiting
     DEF LetteredOnce, GivingUp, TimerEnqueue, TimerDone, store, client, worker, timer, ghosts, Active,
         OneActivation, Waiting, Handing, Driving, Timing, Settled, Pending
<1>27. CASE Stop
  BY <1>27, <1>0
     DEF LetteredOnce, GivingUp, Stop, store, client, worker, timer, ghosts, Active, OneActivation, Waiting,
         Handing, Driving, Timing, Settled, Pending
<1>28. CASE Crash
  BY <1>28, <1>0
     DEF LetteredOnce, GivingUp, Crash, InMemory, store, client, worker, timer, ghosts, Active, OneActivation,
         Waiting, Handing, Driving, Timing, Settled, Pending
<1>29. CASE UNCHANGED vars
  <2>1. UNCHANGED <<row, deadLetters, retried, lost, queue, cpc, cjob, wpc, wjob, tjob>>
    BY <1>29 DEF vars, store, client, worker, timer, ghosts
  <2>. QED
    BY <1>0, <2>1 DEF LetteredOnce, GivingUp, Active, Waiting, Handing, Driving, Timing
<1>. QED
  BY <1>1, <1>2, <1>3, <1>4, <1>5, <1>6, <1>7, <1>8, <1>9, <1>10, <1>11, <1>12, <1>13,
     <1>14, <1>15, <1>16, <1>17, <1>18, <1>19, <1>20, <1>21, <1>22, <1>23, <1>24, <1>25,
     <1>26, <1>27, <1>28, <1>29
     DEF Next, ClientNext, WorkerNext, TimerNext

(* A letter is written only for a job that is held, and so exists.          *)
LEMMA NoLetterStep ==
    ASSUME TypeOK, Held, Fresh, NoLetterYet, [Next]_vars
    PROVE  NoLetterYet'
<1>1. \A j \in Jobs : row'[j].status = "ABSENT" => row[j].status = "ABSENT"
  BY IntakeStep, NoJobLeaves
<1>2. ASSUME NEW j \in Jobs, deadLetters'[j] # deadLetters[j] PROVE row[j].status # "ABSENT"
  <2>1. PICK w \in Workers : WorkerDeadLetter(w)
    BY <1>2
       DEF Next, ClientNext, WorkerNext, TimerNext, SubmitHit, SubmitMiss, SubmitCreate, Insert,
           SubmitSaveKey, BindKey, SubmitEnqueue, RetryLoad, RetryUpdate, RetryEnqueue, CancelLoad,
           CancelUpdate, Dequeue, WorkerLoad, WorkerStart, WorkerLogStart, Execute, WorkerCommit,
           WorkerLogSuccess, WorkerGiveUp, WorkerLogGiveUp, WorkerLogFailure, WorkerMarkRetry,
           WorkerExit, TimerLoad, TimerUpdate, TimerEnqueue, Stop, Crash, store, vars
  <2>2. wjob[w] = j
    BY <1>2, <2>1 DEF WorkerDeadLetter, TypeOK, StoreTypeOK
  <2>. QED
    BY <2>2 DEF Fresh
<1>. QED
  BY <1>1, <1>2 DEF NoLetterYet

(* Whatever statement fails and wherever the engine crashes, a job that is  *)
(* given up is dead-lettered once, or the letter was lost with an error or  *)
(* a crash, until RetryJob is accepted for it.                              *)
THEOREM JobsDeadLetteredOnce == Spec => []DeadLetteredOnce
<1>1. Init => Fresh /\ SingleActivation /\ SettledIsOver /\ NoLetterYet /\ DeadLetteredOnce
  BY JobServiceAssumption
     DEF Init, Fresh, SingleActivation, SettledIsOver, OneActivation, WaitingOnce, Waiting,
         Handing, Timing, NoRow, NoLetterYet, DeadLetteredOnce
<1>2. TypeOK /\ Held /\ Fresh /\ SingleActivation /\ SettledIsOver /\ [Next]_vars
        => (Fresh /\ SingleActivation /\ SettledIsOver)'
  BY FreshStep, SingleStep, SettledStep
<1>3. TypeOK /\ Held /\ Fresh /\ SingleActivation /\ SettledIsOver
        /\ NoLetterYet /\ DeadLetteredOnce /\ [Next]_vars
        => (NoLetterYet /\ DeadLetteredOnce)'
  BY NoLetterStep, LetteredStep
<1>4. TypeOK /\ Held /\ [Next]_vars => (TypeOK /\ Held)'
  BY TypeStep, HeldStep
<1>. QED
  BY TypeInit, <1>1, <1>2, <1>3, <1>4, PTL DEF Spec

-----------------------------------------------------------------------------
(* The worker that is about to record a success has the row it committed,  *)
(* and no worker is giving the job up.                                     *)
LedgerTrue(j) ==
    row[j].status = "SUCCEEDED" /\ faults = 0 =>
        /\ \A w \in Workers : ~(wjob[w] = j /\ wpc[w] = "logGiveUp")
        /\ \/ j \in lost
           \/ <<j, row[j].attempts, "SUCCEEDED">> \in attemptLog
           \/ \E w \in Workers : /\ wjob[w] = j /\ wpc[w] = "logSuccess"
                                 /\ wrow[w].attempts = row[j].attempts

LedgerIsTrue == \A j \in Jobs : retried[j] = 0 => LedgerTrue(j)

(* A step that neither commits a success of job i nor drops its record. *)
LedgerKept(i) ==
    /\ row'[i].status = "SUCCEEDED" /\ faults' = 0 => row'[i] = row[i]
    /\ faults' = 0 => faults = 0
    /\ lost \subseteq lost'
    /\ \A n \in Nat : <<i, n, "SUCCEEDED">> \in attemptLog => <<i, n, "SUCCEEDED">> \in attemptLog'
    /\ \A v \in Workers : wjob'[v] = i /\ wpc'[v] = "logGiveUp"
                            => wjob[v] = i /\ wpc[v] = "logGiveUp"
    /\ \A v \in Workers : wjob[v] = i /\ wpc[v] = "logSuccess"
                            => wjob'[v] = i /\ wpc'[v] = "logSuccess" /\ wrow'[v] = wrow[v]

(* A job whose rows and log entries are kept keeps its true log.           *)
LEMMA LedgerFrame ==
    ASSUME StoreTypeOK, NEW i \in Jobs, LedgerTrue(i), LedgerKept(i)
    PROVE  LedgerTrue(i)'
<1>. SUFFICES ASSUME row'[i].status = "SUCCEEDED", faults' = 0
              PROVE  /\ \A v \in Workers : ~(wjob'[v] = i /\ wpc'[v] = "logGiveUp")
                     /\ \/ i \in lost'
                        \/ <<i, row'[i].attempts, "SUCCEEDED">> \in attemptLog'
                        \/ \E v \in Workers : /\ wjob'[v] = i /\ wpc'[v] = "logSuccess"
                                              /\ wrow'[v].attempts = row'[i].attempts
  BY DEF LedgerTrue
<1>1. row'[i] = row[i] /\ row[i].status = "SUCCEEDED" /\ faults = 0 /\ row[i].attempts \in Nat
  BY DEF LedgerKept, StoreTypeOK, JobRow
<1>2. \A v \in Workers : ~(wjob'[v] = i /\ wpc'[v] = "logGiveUp")
  BY <1>1 DEF LedgerTrue, LedgerKept
<1>3. CASE i \in lost
  BY <1>2, <1>3 DEF LedgerKept
<1>4. CASE <<i, row[i].attempts, "SUCCEEDED">> \in attemptLog
  BY <1>1, <1>2, <1>4 DEF LedgerKept
<1>5. CASE \E v \in Workers : /\ wjob[v] = i /\ wpc[v] = "logSuccess"
                              /\ wrow[v].attempts = row[i].attempts
  BY <1>1, <1>2, <1>5 DEF LedgerKept
<1>. QED
  BY <1>1, <1>3, <1>4, <1>5 DEF LedgerTrue

(* Recording an attempt that is not the success of job i keeps that success. *)
LEMMA RecordKeeps ==
    ASSUME NEW w \in Workers, NEW s, RecordAttempt(w, s), NEW i \in Jobs, wjob[w] # i,
           NEW n \in Nat, <<i, n, "SUCCEEDED">> \in attemptLog
    PROVE  <<i, n, "SUCCEEDED">> \in attemptLog'
BY DEF RecordAttempt, Recorded

(* Only RetryUpdate counts, and upwards. *)
LEMMA RetriedGrows ==
    ASSUME TypeOK, [Next]_vars, NEW j \in Jobs
    PROVE  retried[j] <= retried'[j] /\ retried[j] \in Nat /\ retried'[j] \in Nat
<1>. USE DEF TypeOK, CounterTypeOK
<1>1. ASSUME NEW c \in Clients, RetryUpdate(c)
      PROVE  retried' = retried \/ retried' = [retried EXCEPT ![cjob[c]] = @ + 1]
  BY <1>1 DEF RetryUpdate
<1>2. \/ retried' = retried
      \/ \E c \in Clients : retried' = [retried EXCEPT ![cjob[c]] = @ + 1]
  BY <1>1
     DEF Next, ClientNext, WorkerNext, TimerNext, SubmitHit, SubmitMiss, SubmitCreate, Insert,
         SubmitSaveKey, BindKey, SubmitEnqueue, RetryLoad, RetryEnqueue, CancelLoad, CancelUpdate,
         Dequeue, WorkerLoad, WorkerStart, WorkerLogStart, Execute, WorkerCommit,
         WorkerLogSuccess, WorkerGiveUp, WorkerLogGiveUp, WorkerDeadLetter, WorkerLogFailure,
         WorkerMarkRetry, WorkerExit, TimerLoad, TimerUpdate, TimerEnqueue, Stop, Crash,
         ghosts, vars
<1>. QED
  BY <1>2

(* Nobody else holds the job, so nobody records another outcome over it. *)
LEMMA LedgerStep ==
    ASSUME TypeOK, Held, Fresh, SingleActivation, SettledIsOver, LedgerIsTrue, [Next]_vars
    PROVE  LedgerIsTrue'
<1>. SUFFICES ASSUME NEW i \in Jobs, retried'[i] = 0
              PROVE  LedgerTrue(i)'
  BY DEF LedgerIsTrue
<1>0. /\ retried[i] = 0 /\ OneActivation(i) /\ LedgerTrue(i)
      /\ row[i].status = "SUCCEEDED" /\ faults = 0 => ~Active(i)
  <2>1. retried[i] = 0
    BY RetriedGrows
  <2>. QED
    BY <2>1 DEF SingleActivation, SettledIsOver, LedgerIsTrue
<1>a. /\ faults \in Nat /\ lost \subseteq Jobs /\ row \in [Jobs -> JobRow]
      /\ wpc \in [Workers -> {"idle", "load", "start", "logStart", "exec", "commit", "fail",
                              "logSuccess", "logGiveUp", "deadLetter", "markRetry", "exited"}]
      /\ wjob \in [Workers -> Jobs \cup {NoJob}] /\ wrow \in [Workers -> JobRow]
      /\ StoreTypeOK /\ NoJob \notin Jobs
  BY JobServiceAssumption DEF TypeOK, StoreTypeOK, WorkerTypeOK, CounterTypeOK
<1>. SUFFICES LedgerKept(i) \/ LedgerTrue(i)'
  BY <1>0, <1>a, LedgerFrame
(* Calls and timers: they write no row SUCCEEDED and no attempt. *)
<1>1. ASSUME NEW c \in Clients, ClientNext(c) PROVE LedgerKept(i)
  <2>1. /\ UNCHANGED <<attemptLog, wpc, wjob, wrow>>
        /\ faults' = faults \/ faults' = faults + 1
    BY <1>1 DEF ClientNext, SubmitHit, SubmitMiss, SubmitCreate, Insert, SubmitSaveKey, BindKey, SubmitEnqueue,
                RetryLoad, RetryUpdate, RetryEnqueue, CancelLoad, CancelUpdate, UpdateJob,
                StoreFault, store, worker
  <2>2. lost \subseteq lost'
    BY <1>1 DEF ClientNext, SubmitHit, SubmitMiss, SubmitCreate, Insert, SubmitSaveKey, BindKey, SubmitEnqueue,
                RetryLoad, RetryUpdate, RetryEnqueue, CancelLoad, CancelUpdate, Enqueue
  <2>3. row'[i] = row[i] \/ row'[i].status # "SUCCEEDED"
    <3>1. CASE SubmitCreate(c)
      <4>1. CASE row' = row
        BY <4>1
      <4>2. CASE row' # row
        <5>1. PICK j \in Jobs, m \in LimitArgs :
                 row' = [row EXCEPT ![j] = [status |-> "QUEUED", attempts |-> 0,
                                            limit |-> EffectiveLimit(m)]]
          BY <3>1, <4>2 DEF SubmitCreate, Insert
        <5>. QED
          BY <1>a, <5>1
      <4>. QED
        BY <4>1, <4>2
    <3>2. CASE RetryUpdate(c) \/ CancelUpdate(c)
      <4>1. crow[c] \in JobRow
        BY DEF TypeOK, ClientTypeOK
      <4>2. PICK s \in {"QUEUED", "CANCELED"} :
               row' = row \/ row' = [row EXCEPT ![cjob[c]] = WithStatus(crow[c], s)]
        BY <3>2 DEF RetryUpdate, CancelUpdate, UpdateJob
      <4>. QED
        BY <1>a, <4>1, <4>2, WithStatusType DEF Settled, Pending
    <3>3. CASE ~(SubmitCreate(c) \/ RetryUpdate(c) \/ CancelUpdate(c))
      BY <1>1, <3>3 DEF ClientNext, SubmitHit, SubmitMiss, SubmitSaveKey, BindKey, SubmitEnqueue, RetryLoad,
                        RetryEnqueue, CancelLoad, store
    <3>. QED
      BY <3>1, <3>2, <3>3
  <2>. QED
    BY <1>a, <2>1, <2>2, <2>3 DEF LedgerKept
<1>2. ASSUME NEW t \in Timers, TimerNext(t) PROVE LedgerKept(i)
  <2>1. /\ UNCHANGED <<attemptLog, wpc, wjob, wrow>>
        /\ faults' = faults \/ faults' = faults + 1
        /\ lost \subseteq lost'
    BY <1>2 DEF TimerNext, TimerLoad, TimerUpdate, TimerEnqueue, Enqueue, UpdateJob, StoreFault,
                store, worker
  <2>2. row'[i] = row[i] \/ row'[i].status # "SUCCEEDED"
    <3>1. trow[t] \in JobRow
      BY DEF TypeOK, TimerTypeOK
    <3>2. row' = row \/ row' = [row EXCEPT ![tjob[t]] = WithStatus(trow[t], "QUEUED")]
      BY <1>2 DEF TimerNext, TimerLoad, TimerUpdate, TimerEnqueue, UpdateJob, store
    <3>. QED
      BY <1>a, <3>1, <3>2, WithStatusType DEF Settled, Pending
  <2>. QED
    BY <1>a, <2>1, <2>2 DEF LedgerKept
(* Workers that write no row and no attempt. *)
<1>3. ASSUME NEW w \in Workers,
             Dequeue(w) \/ WorkerLoad(w) \/ Execute(w) \/ WorkerDeadLetter(w) \/ WorkerExit(w)
      PROVE  LedgerKept(i)
  <2>1. UNCHANGED <<row, attemptLog>> /\ lost \subseteq lost'
    BY <1>3 DEF Dequeue, WorkerLoad, Execute, WorkerDeadLetter, WorkerExit, store
  <2>2. faults' = faults \/ faults' = faults + 1
    BY <1>3 DEF Dequeue, WorkerLoad, Execute, WorkerDeadLetter, WorkerExit, StoreFault
  <2>3. /\ \A v \in Workers : v # w => UNCHANGED <<wpc[v], wjob[v], wrow[v]>>
        /\ wpc[w] # "logSuccess" /\ wpc'[w] # "logGiveUp"
    BY <1>3, <1>a
       DEF Dequeue, WorkerLoad, Execute, WorkerDeadLetter, WorkerExit, WorkerStep, WorkerDone
  <2>. QED
    BY <1>a, <2>1, <2>2, <2>3 DEF LedgerKept
(* Workers that record an attempt of a job that runs or fails. *)
<1>4. ASSUME NEW w \in Workers, NEW s, RecordAttempt(w, s),
             UNCHANGED <<row, lost, wjob, wrow>>,
             NEW from \in {"logStart", "fail", "logGiveUp"},
             NEW to \in {"exec", "markRetry", "deadLetter"}, WorkerStep(w, from, to)
      PROVE  LedgerKept(i) \/ LedgerTrue(i)'
  <2>1. faults' = faults \/ faults' = faults + 1
    BY <1>4 DEF RecordAttempt, StoreFault
  <2>2. /\ \A v \in Workers : v # w => UNCHANGED wpc[v]
        /\ wpc[w] = from /\ wpc'[w] = to
    BY <1>4, <1>a DEF WorkerStep
  <2>3. CASE faults # 0 \/ row[i].status # "SUCCEEDED"
    <3>1. LedgerTrue(i)'
      BY <1>4, <1>a, <2>1, <2>3 DEF LedgerTrue
    <3>. QED
      BY <3>1
  <2>4. CASE faults = 0 /\ row[i].status = "SUCCEEDED"
    <3>1. wjob[w] # i
      BY <1>0, <2>2, <2>4 DEF Active, Driving, LedgerTrue
    <3>2. \A n \in Nat : <<i, n, "SUCCEEDED">> \in attemptLog => <<i, n, "SUCCEEDED">> \in attemptLog'
      BY <1>4, <3>1, RecordKeeps
    <3>. QED
      BY <1>4, <1>a, <2>1, <2>2, <3>2 DEF LedgerKept
  <2>. QED
    BY <2>3, <2>4
<1>5. ASSUME NEW w \in Workers, WorkerLogStart(w) \/ WorkerLogFailure(w) \/ WorkerLogGiveUp(w)
      PROVE  LedgerKept(i) \/ LedgerTrue(i)'
  BY <1>4, <1>5 DEF WorkerLogStart, WorkerLogFailure, WorkerLogGiveUp
(* The success of the row is recorded by the worker that committed it. *)
<1>6. ASSUME NEW w \in Workers, WorkerLogSuccess(w) PROVE LedgerKept(i) \/ LedgerTrue(i)'
  <2>1. /\ UNCHANGED <<row, lost>> /\ wpc[w] = "logSuccess"
        /\ faults' = faults \/ faults' = faults + 1
    BY <1>6 DEF WorkerLogSuccess, RecordAttempt, StoreFault
  <2>2. /\ \A v \in Workers : v # w => UNCHANGED <<wpc[v], wjob[v], wrow[v]>>
        /\ wpc'[w] = "idle" /\ wjob'[w] = NoJob
    BY <1>6, <1>a DEF WorkerLogSuccess, WorkerDone
  <2>3. CASE wjob[w] # i
    <3>1. \A n \in Nat : <<i, n, "SUCCEEDED">> \in attemptLog => <<i, n, "SUCCEEDED">> \in attemptLog'
      BY <1>6, <2>3, RecordKeeps DEF WorkerLogSuccess
    <3>. QED
      BY <1>a, <2>1, <2>2, <2>3, <3>1 DEF LedgerKept
  <2>4. CASE wjob[w] = i
    <3>1. \A v \in Workers : wjob[v] = i => v = w
      BY <1>0, <2>4 DEF OneActivation
    <3>2. faults' = 0 => attemptLog' = Recorded(attemptLog, i, wrow[w].attempts, "SUCCEEDED")
      BY <1>6, <1>a, <2>1, <2>4 DEF WorkerLogSuccess, RecordAttempt, StoreFault
    <3>3. faults' = 0 => \A n \in Nat : <<i, n, "SUCCEEDED">> \in attemptLog
                                       => <<i, n, "SUCCEEDED">> \in attemptLog'
      BY <3>2 DEF Recorded
    <3>4. faults' = 0 => <<i, wrow[w].attempts, "SUCCEEDED">> \in attemptLog'
      BY <3>2 DEF Recorded
    <3>5. row[i].attempts \in Nat
      BY <1>a DEF JobRow
    <3>. QED
      BY <1>0, <1>a, <2>1, <2>2, <2>4, <3>1, <3>3, <3>4, <3>5 DEF LedgerTrue
  <2>. QED
    BY <2>3, <2>4
<1>7. ASSUME NEW w \in Workers, WorkerCommit(w) PROVE LedgerKept(i) \/ LedgerTrue(i)'
  <2>1. /\ UNCHANGED <<attemptLog, lost, wjob>> /\ wpc[w] = "commit"
        /\ faults' = faults \/ faults' = faults + 1
        /\ \A v \in Workers : v # w => UNCHANGED <<wpc[v], wrow[v]>>
        /\ wpc'[w] \in {"logSuccess", "fail"}
    BY <1>7, <1>a DEF WorkerCommit, WorkerStep, StoreFault
  <2>2. CASE row'[i] = row[i]
    BY <1>a, <2>1, <2>2 DEF LedgerKept
  <2>3. CASE faults' = faults + 1
    BY <1>a, <2>3 DEF LedgerTrue
  <2>4. CASE row'[i] # row[i] /\ faults' = faults
    <3>1. /\ row' = [row EXCEPT ![wjob[w]] = WithStatus(wrow[w], "SUCCEEDED")]
          /\ wrow' = [wrow EXCEPT ![w] = WithStatus(wrow[w], "SUCCEEDED")]
          /\ wpc'[w] = "logSuccess"
      BY <1>7, <1>a, <2>4 DEF WorkerCommit, WorkerStep, StoreFault
    <3>2. wjob[w] = i
      BY <1>a, <2>4, <3>1
    <3>3. row'[i] = wrow'[w]
      BY <1>a, <3>1, <3>2
    <3>4. \A v \in Workers : wjob[v] = i => v = w
      BY <1>0, <3>2 DEF OneActivation
    <3>. QED
      BY <2>1, <3>1, <3>2, <3>3, <3>4 DEF LedgerTrue
  <2>. QED
    BY <2>1, <2>2, <2>3, <2>4
(* The other rows a worker writes are not SUCCEEDED. *)
<1>8. ASSUME NEW w \in Workers, WorkerStart(w) \/ WorkerMarkRetry(w) PROVE LedgerKept(i)
  <2>1. /\ UNCHANGED <<attemptLog, lost>> /\ wpc[w] # "logSuccess" /\ wpc'[w] # "logGiveUp"
        /\ faults' = faults \/ faults' = faults + 1
        /\ \A v \in Workers : v # w => UNCHANGED <<wpc[v], wjob[v], wrow[v]>>
    BY <1>8, <1>a DEF WorkerStart, WorkerMarkRetry, WorkerStep, WorkerDone, UpdateJob, StoreFault
  <2>2. PICK r \in JobRow :
           r.status # "SUCCEEDED" /\ (row' = row \/ row' = [row EXCEPT ![wjob[w]] = r])
    <3>1. CASE WorkerStart(w)
      BY <3>1, <1>a, StartedType DEF WorkerStart, UpdateJob
    <3>2. CASE WorkerMarkRetry(w)
      <4>1. wjob[w] \in Jobs
        BY <3>2, <1>a DEF WorkerMarkRetry, Held
      <4>2. /\ WithStatus(row[wjob[w]], "RETRY_PENDING") \in JobRow
            /\ WithStatus(row[wjob[w]], "RETRY_PENDING").status = "RETRY_PENDING"
        BY <4>1, <1>a, WithStatusType DEF Pending
      <4>. QED
        BY <3>2, <4>2 DEF WorkerMarkRetry, UpdateJob
    <3>. QED
      BY <1>8, <3>1, <3>2
  <2>3. row'[i] = row[i] \/ row'[i].status # "SUCCEEDED"
    BY <1>a, <2>2
  <2>. QED
    BY <1>a, <2>1, <2>3 DEF LedgerKept
<1>9. ASSUME NEW w \in Workers, WorkerGiveUp(w) PROVE LedgerKept(i) \/ LedgerTrue(i)'
  <2>1. /\ UNCHANGED <<attemptLog, wjob>> /\ wpc[w] = "fail"
        /\ faults' = faults \/ faults' = faults + 1
        /\ lost \subseteq lost'
        /\ \A v \in Workers : v # w => UNCHANGED <<wpc[v], wrow[v]>>
    BY <1>9, <1>a DEF WorkerGiveUp, WorkerStep, UpdateJob, StoreFault
  <2>2. CASE faults' = faults /\ row' = [row EXCEPT ![wjob[w]] = WithStatus(wrow[w], "FAILED")]
    <3>1. CASE wjob[w] = i
      <4>1. row'[i].status = "FAILED"
        BY <1>a, <2>2, <3>1, WithStatusType DEF Settled
      <4>. QED
        BY <4>1 DEF LedgerTrue
    <3>2. CASE wjob[w] # i
      BY <1>a, <2>1, <2>2, <3>2 DEF LedgerKept
    <3>. QED
      BY <3>1, <3>2
  <2>3. CASE faults' = faults + 1
    BY <1>a, <2>3 DEF LedgerTrue
  <2>. QED
    BY <1>9, <2>2, <2>3 DEF WorkerGiveUp, UpdateJob, StoreFault
<1>10. CASE Stop \/ UNCHANGED vars
  <2>1. UNCHANGED <<row, attemptLog, faults, lost, wpc, wjob, wrow>>
    BY <1>10 DEF Stop, vars, store, worker
  <2>. QED
    BY <2>1 DEF LedgerKept
<1>11. CASE Crash
  <2>1. /\ UNCHANGED <<row, attemptLog, faults>> /\ lost \subseteq lost'
        /\ \A v \in Workers : wpc'[v] = "idle"
        /\ \A v \in Workers : wjob[v] \in Jobs => wjob[v] \in lost'
    BY <1>11, <1>a DEF Crash, InMemory, store
  <2>2. CASE \E v \in Workers : wjob[v] = i
    BY <1>0, <2>1, <2>2 DEF LedgerTrue
  <2>3. CASE ~\E v \in Workers : wjob[v] = i
    BY <2>1, <2>3 DEF LedgerKept
  <2>. QED
    BY <2>2, <2>3
<1>. QED
  BY <1>1, <1>2, <1>3, <1>5, <1>6, <1>7, <1>8, <1>9, <1>10, <1>11 DEF Next, WorkerNext

(* Without store errors the attempt ledger names the success of every job   *)
(* that succeeded before RetryJob was accepted for it.                      *)
THEOREM JobsLedgerAgrees == Spec => []LedgerAgrees
<1>1. Init => Fresh /\ SingleActivation /\ SettledIsOver /\ LedgerIsTrue
  BY JobServiceAssumption
     DEF Init, Fresh, SingleActivation, SettledIsOver, OneActivation, WaitingOnce, Waiting,
         Handing, Timing, NoRow, LedgerIsTrue, LedgerTrue
<1>2. TypeOK /\ Held /\ Fresh /\ SingleActivation /\ SettledIsOver /\ LedgerIsTrue /\ [Next]_vars
        => (Fresh /\ SingleActivation /\ SettledIsOver /\ LedgerIsTrue)'
  BY FreshStep, SingleStep, SettledStep, LedgerStep
<1>3. TypeOK /\ Held /\ [Next]_vars => (TypeOK /\ Held)'
  BY TypeStep, HeldStep
<1>4. LedgerIsTrue => LedgerAgrees
  BY DEF LedgerIsTrue, LedgerTrue, LedgerAgrees
<1>. QED
  BY TypeInit, <1>1, <1>2, <1>3, <1>4, PTL DEF Spec

-----------------------------------------------------------------------------
(* Attempts.  A ticket of a job is an activation that may still start it: a *)
(* call handing it over, a place in the channel, a worker that will start   *)
(* it or has not used up its attempts, a timer.  RetryJob issues one.       *)
MayStart(w, j) ==
    /\ wjob[w] = j
    /\ \/ wpc[w] \in {"load", "start", "markRetry"}
       \/ wpc[w] \in {"logStart", "exec", "commit", "fail"} /\ ~Exhausted(wrow[w])

HandTickets(j)  == {c \in Clients : Handing(c, j)}
QueueTickets(j) == {n \in DOMAIN queue : queue[n] = j}
WorkTickets(j)  == {w \in Workers : MayStart(w, j)}
TimeTickets(j)  == {t \in Timers : Timing(t, j)}

Tickets(j) == Cardinality(HandTickets(j)) + Cardinality(QueueTickets(j))
                + Cardinality(WorkTickets(j)) + Cardinality(TimeTickets(j))

TicketsFinite(j) == /\ IsFiniteSet(HandTickets(j)) /\ IsFiniteSet(WorkTickets(j))
                    /\ IsFiniteSet(TimeTickets(j))

(* The row of a job and the copies that may be written back over it. *)
CopyOf(j, r) ==
    \/ r = row[j]
    \/ \E c \in Clients : r = crow[c] /\ cjob[c] = j /\ cpc[c] \in {"retryUpdate", "cancelUpdate"}
    \/ \E w \in Workers : r = wrow[w] /\ wjob[w] = j /\ wpc[w] # "load"
    \/ \E t \in Timers  : r = trow[t] /\ tjob[t] = j /\ tpc[t] = "update"

(* Below its limit a copy may be started by whoever holds a ticket; beyond, *)
(* every further attempt uses up a ticket.                                  *)
InBudget(j, r) ==
    /\ r.limit = row[j].limit
    /\ r.attempts < r.limit \/ r.attempts + Tickets(j) <= r.limit + retried[j]

BudgetOf(j) ==
    /\ TicketsFinite(j)
    /\ Tickets(j) <= retried[j] + 1
    /\ \A r \in JobRow : CopyOf(j, r) => InBudget(j, r)

BudgetKept ==
    \A j \in Jobs : IF row[j].status = "ABSENT" THEN row[j].attempts = 0 ELSE BudgetOf(j)

(* One element that comes or goes changes a count by one. *)
LEMMA CountChanges ==
    ASSUME NEW P, NEW Q, NEW x, IsFiniteSet(P), P \ {x} = Q \ {x}
    PROVE  /\ IsFiniteSet(Q) /\ Cardinality(P) \in Nat /\ Cardinality(Q) \in Nat
           /\ Cardinality(Q) = Cardinality(P) - (IF x \in P THEN 1 ELSE 0)
                                              + (IF x \in Q THEN 1 ELSE 0)
<1>1. IsFiniteSet(P \ {x}) /\ Cardinality(P \ {x}) = Cardinality(P) - (IF x \in P THEN 1 ELSE 0)
  BY FS_RemoveElement, FS_CardinalityType
<1>2. Cardinality(P) \in Nat /\ Cardinality(P \ {x}) \in Nat
  BY <1>1, FS_CardinalityType
<1>3. CASE x \in Q
  <2>1. Q = (P \ {x}) \cup {x}
    BY <1>3
  <2>. QED
    BY <1>1, <1>2, <1>3, <2>1, FS_AddElement
<1>4. CASE x \notin Q
  <2>1. Q = P \ {x}
    BY <1>4
  <2>. QED
    BY <1>1, <1>2, <1>4, <2>1
<1>. QED
  BY <1>3, <1>4

(* The tickets of the callers, workers and timers when one of them moves. *)
LEMMA ClientMoves ==
    ASSUME NEW j, NEW c \in Clients, IsFiniteSet(HandTickets(j)),
           \A d \in Clients \ {c} : cpc'[d] = cpc[d] /\ cjob'[d] = cjob[d]
    PROVE  /\ IsFiniteSet(HandTickets(j)')
           /\ Cardinality(HandTickets(j)) \in Nat /\ Cardinality(HandTickets(j)') \in Nat
           /\ Cardinality(HandTickets(j)') = Cardinality(HandTickets(j))
                - (IF Handing(c, j) THEN 1 ELSE 0) + (IF Handing(c, j)' THEN 1 ELSE 0)
<1>1. HandTickets(j) \ {c} = HandTickets(j)' \ {c}
  BY DEF HandTickets, Handing
<1>2. (c \in HandTickets(j) <=> Handing(c, j)) /\ (c \in HandTickets(j)' <=> Handing(c, j)')
  BY DEF HandTickets
<1>. QED
  BY <1>1, <1>2, CountChanges

(* One worker's step changes the tickets of a job by its own at most. *)
LEMMA WorkerMoves ==
    ASSUME NEW j, NEW w \in Workers, IsFiniteSet(WorkTickets(j)),
           \A v \in Workers \ {w} : wpc'[v] = wpc[v] /\ wjob'[v] = wjob[v] /\ wrow'[v] = wrow[v]
    PROVE  /\ IsFiniteSet(WorkTickets(j)')
           /\ Cardinality(WorkTickets(j)) \in Nat /\ Cardinality(WorkTickets(j)') \in Nat
           /\ Cardinality(WorkTickets(j)') = Cardinality(WorkTickets(j))
                - (IF MayStart(w, j) THEN 1 ELSE 0) + (IF MayStart(w, j)' THEN 1 ELSE 0)
<1>1. WorkTickets(j) \ {w} = WorkTickets(j)' \ {w}
  BY DEF WorkTickets, MayStart, Exhausted
<1>2. (w \in WorkTickets(j) <=> MayStart(w, j)) /\ (w \in WorkTickets(j)' <=> MayStart(w, j)')
  BY DEF WorkTickets
<1>. QED
  BY <1>1, <1>2, CountChanges

(* So does a step of one timer. *)
LEMMA TimerMoves ==
    ASSUME NEW j, NEW t \in Timers, IsFiniteSet(TimeTickets(j)),
           \A u \in Timers \ {t} : tjob'[u] = tjob[u]
    PROVE  /\ IsFiniteSet(TimeTickets(j)')
           /\ Cardinality(TimeTickets(j)) \in Nat /\ Cardinality(TimeTickets(j)') \in Nat
           /\ Cardinality(TimeTickets(j)') = Cardinality(TimeTickets(j))
                - (IF Timing(t, j) THEN 1 ELSE 0) + (IF Timing(t, j)' THEN 1 ELSE 0)
<1>1. TimeTickets(j) \ {t} = TimeTickets(j)' \ {t}
  BY DEF TimeTickets, Timing
<1>2. (t \in TimeTickets(j) <=> Timing(t, j)) /\ (t \in TimeTickets(j)' <=> Timing(t, j)')
  BY DEF TimeTickets
<1>. QED
  BY <1>1, <1>2, CountChanges

(* The places of a job in the channel: how many, after a hand-over, and     *)
(* after a receive, which moves every place one up.                         *)
LEMMA QueueTicketsFinite ==
    ASSUME QueueTypeOK, NEW j
    PROVE  IsFiniteSet(QueueTickets(j)) /\ Cardinality(QueueTickets(j)) \in Nat
<1>1. Len(queue) \in Nat /\ DOMAIN queue = 1..Len(queue)
  BY DEF QueueTypeOK
<1>2. IsFiniteSet(1..Len(queue)) /\ QueueTickets(j) \in SUBSET (1..Len(queue))
  BY <1>1, FS_Interval DEF QueueTickets
<1>. QED
  BY <1>2, FS_Subset, FS_CardinalityType

(* What is put on the channel is one ticket of its job at most. *)
LEMMA EnqueueTickets ==
    ASSUME QueueTypeOK, NEW k \in Jobs, Enqueue(k), NEW j \in Jobs
    PROVE  /\ Cardinality(QueueTickets(j)') \in Nat
           /\ Cardinality(QueueTickets(j)')
                <= Cardinality(QueueTickets(j)) + (IF j = k THEN 1 ELSE 0)
<1>0. IsFiniteSet(QueueTickets(j)) /\ Cardinality(QueueTickets(j)) \in Nat
  BY QueueTicketsFinite
<1>1. CASE Len(queue) < QueueBuffer
  <2>1. queue' = Append(queue, k)
    BY <1>1 DEF Enqueue
  <2>2. /\ DOMAIN queue' = 1..(Len(queue) + 1) /\ DOMAIN queue = 1..Len(queue)
        /\ Len(queue) \in Nat
        /\ \A n \in 1..Len(queue) : queue'[n] = queue[n]
        /\ queue'[Len(queue) + 1] = k
    BY <2>1 DEF QueueTypeOK
  <2>3. QueueTickets(j)' \ {Len(queue) + 1} = QueueTickets(j) \ {Len(queue) + 1}
    BY <2>2 DEF QueueTickets
  <2>4. Len(queue) + 1 \notin QueueTickets(j)
    BY <2>2 DEF QueueTickets
  <2>5. Len(queue) + 1 \in QueueTickets(j)' <=> j = k
    BY <2>2 DEF QueueTickets
  <2>. QED
    BY <1>0, <2>3, <2>4, <2>5, CountChanges
<1>2. CASE ~(Len(queue) < QueueBuffer)
  <2>1. queue' = queue
    BY <1>2 DEF Enqueue
  <2>2. QueueTickets(j)' = QueueTickets(j)
    BY <2>1 DEF QueueTickets
  <2>. QED
    BY <1>0, <2>2
<1>. QED
  BY <1>1, <1>2

(* What is taken off the channel was a ticket of its job. *)
LEMMA TailTickets ==
    ASSUME QueueTypeOK, queue # <<>>, queue' = Tail(queue), NEW j \in Jobs
    PROVE  /\ Cardinality(QueueTickets(j)') \in Nat
           /\ Cardinality(QueueTickets(j)')
                = Cardinality(QueueTickets(j)) - (IF Head(queue) = j THEN 1 ELSE 0)
<1>0. IsFiniteSet(QueueTickets(j)) /\ Cardinality(QueueTickets(j)) \in Nat
  BY QueueTicketsFinite
<1>1. /\ DOMAIN queue' = 1..(Len(queue) - 1) /\ DOMAIN queue = 1..Len(queue)
      /\ Len(queue) \in Nat \ {0}
      /\ \A n \in 1..(Len(queue) - 1) : queue'[n] = queue[n + 1]
      /\ Head(queue) = queue[1]
  BY DEF QueueTypeOK
<1>. DEFINE Rest == QueueTickets(j) \ {1}
<1>2. IsFiniteSet(Rest)
      /\ Cardinality(Rest) = Cardinality(QueueTickets(j)) - (IF Head(queue) = j THEN 1 ELSE 0)
  <2>1. 1 \in QueueTickets(j) <=> Head(queue) = j
    BY <1>1 DEF QueueTickets
  <2>2. /\ IsFiniteSet(QueueTickets(j) \ {1})
        /\ Cardinality(QueueTickets(j) \ {1})
             = IF 1 \in QueueTickets(j) THEN Cardinality(QueueTickets(j)) - 1
                                        ELSE Cardinality(QueueTickets(j))
    BY <1>0, FS_RemoveElement
  <2>. QED
    BY <1>0, <2>1, <2>2
<1>3. QueueTickets(j)' = {n \in 1..(Len(queue) - 1) : queue[n + 1] = j}
  BY <1>1 DEF QueueTickets
<1>4. Rest = {n \in 2..Len(queue) : queue[n] = j}
  BY <1>1 DEF QueueTickets
<1>. DEFINE f == [n \in Rest |-> n - 1]
<1>5. f \in Bijection(Rest, QueueTickets(j)')
  <2>1. f \in [Rest -> QueueTickets(j)']
    BY <1>1, <1>3, <1>4
  <2>2. \A n, m \in Rest : f[n] = f[m] => n = m
    BY <1>4
  <2>3. \A m \in QueueTickets(j)' : \E n \in Rest : f[n] = m
    <3>1. SUFFICES ASSUME NEW m \in QueueTickets(j)' PROVE m + 1 \in Rest /\ f[m + 1] = m
      OBVIOUS
    <3>. QED
      BY <1>1, <1>3, <1>4
  <2>. QED
    BY <2>1, <2>2, <2>3 DEF Bijection, Injection, IsInjective, Surjection
<1>. QED
  BY <1>2, <1>5, FS_Bijection, FS_CardinalityType DEF ExistsBijection

(* What nobody moves keeps its tickets. *)
LEMMA TicketsRest ==
    ASSUME NEW j
    PROVE  /\ UNCHANGED <<cpc, cjob>> => HandTickets(j)' = HandTickets(j)
           /\ UNCHANGED queue => QueueTickets(j)' = QueueTickets(j)
           /\ UNCHANGED <<wpc, wjob, wrow>> => WorkTickets(j)' = WorkTickets(j)
           /\ UNCHANGED tjob => TimeTickets(j)' = TimeTickets(j)
BY DEF HandTickets, Handing, QueueTickets, WorkTickets, MayStart, Exhausted, TimeTickets, Timing

SameCounts(r, s) == r.attempts = s.attempts /\ r.limit = s.limit

(* Every row or copy of a job is written from a row or copy of it.          *)
CopiesKept(i) ==
    \A r \in JobRow : CopyOf(i, r)' => \E s \in JobRow : CopyOf(i, s) /\ SameCounts(r, s)

(* Where every row and copy a step leaves comes from.   *)
LEMMA CopySources ==
    ASSUME TypeOK, NEW i \in Jobs,
           \E s \in JobRow : CopyOf(i, s) /\ SameCounts(row'[i], s),
           \A c \in Clients : cjob'[c] = i /\ cpc'[c] \in {"retryUpdate", "cancelUpdate"} =>
               \/ cjob[c] = i /\ cpc[c] \in {"retryUpdate", "cancelUpdate"} /\ crow'[c] = crow[c]
               \/ crow'[c] = row[i],
           \A w \in Workers : wjob'[w] = i /\ wpc'[w] # "load" =>
               \/ wjob[w] = i /\ wpc[w] # "load" /\ SameCounts(wrow'[w], wrow[w])
               \/ wrow'[w] = row[i],
           \A t \in Timers : tjob'[t] = i /\ tpc'[t] = "update" =>
               \/ tjob[t] = i /\ tpc[t] = "update" /\ trow'[t] = trow[t]
               \/ trow'[t] = row[i]
    PROVE  CopiesKept(i)
<1>. SUFFICES ASSUME NEW r \in JobRow, CopyOf(i, r)'
              PROVE  \E s \in JobRow : CopyOf(i, s) /\ SameCounts(r, s)
  BY DEF CopiesKept
<1>0. /\ row[i] \in JobRow /\ CopyOf(i, row[i])
      /\ \A c \in Clients : crow[c] \in JobRow
      /\ \A w \in Workers : wrow[w] \in JobRow
      /\ \A t \in Timers : trow[t] \in JobRow
  BY DEF TypeOK, StoreTypeOK, ClientTypeOK, WorkerTypeOK, TimerTypeOK, CopyOf
<1>1. CASE r = row'[i]
  BY <1>1
<1>2. ASSUME NEW c \in Clients, r = crow'[c], cjob'[c] = i, cpc'[c] \in {"retryUpdate", "cancelUpdate"}
      PROVE  \E s \in JobRow : CopyOf(i, s) /\ SameCounts(r, s)
  BY <1>0, <1>2 DEF CopyOf, SameCounts
<1>3. ASSUME NEW w \in Workers, r = wrow'[w], wjob'[w] = i, wpc'[w] # "load"
      PROVE  \E s \in JobRow : CopyOf(i, s) /\ SameCounts(r, s)
  <2>1. CASE wrow'[w] = row[i]
    BY <1>0, <1>3, <2>1 DEF SameCounts
  <2>2. CASE wjob[w] = i /\ wpc[w] # "load" /\ SameCounts(wrow'[w], wrow[w])
    <3>1. CopyOf(i, wrow[w])
      BY <2>2 DEF CopyOf
    <3>. QED
      BY <1>0, <1>3, <2>2, <3>1
  <2>. QED
    BY <1>3, <2>1, <2>2
<1>4. ASSUME NEW t \in Timers, r = trow'[t], tjob'[t] = i, tpc'[t] = "update"
      PROVE  \E s \in JobRow : CopyOf(i, s) /\ SameCounts(r, s)
  BY <1>0, <1>4 DEF CopyOf, SameCounts
<1>. QED
  BY <1>1, <1>2, <1>3, <1>4 DEF CopyOf

(* No attempt beyond the budget is written while no ticket is issued beyond *)
(* the accepted RetryJob calls and every copy comes from a copy.            *)
LEMMA BudgetFrame ==
    ASSUME TypeOK, TypeOK', NEW i \in Jobs, BudgetOf(i), CopiesKept(i), TicketsFinite(i)',
           Tickets(i) \in Nat, Tickets(i)' \in Nat,
           Tickets(i)' + retried[i] <= Tickets(i) + retried'[i]
    PROVE  BudgetOf(i)'
<1>0. /\ retried[i] \in Nat /\ retried'[i] \in Nat
      /\ row[i] \in JobRow /\ row'[i] \in JobRow
      /\ Tickets(i) <= retried[i] + 1
  BY DEF TypeOK, CounterTypeOK, StoreTypeOK, BudgetOf
<1>1. row'[i].limit = row[i].limit
  <2>1. PICK s \in JobRow : CopyOf(i, s) /\ SameCounts(row'[i], s)
    BY <1>0 DEF CopiesKept, CopyOf
  <2>. QED
    BY <2>1 DEF BudgetOf, InBudget, SameCounts
<1>2. ASSUME NEW r \in JobRow, CopyOf(i, r)' PROVE InBudget(i, r)'
  <2>1. PICK s \in JobRow : CopyOf(i, s) /\ SameCounts(r, s)
    BY <1>2 DEF CopiesKept
  <2>2. InBudget(i, s) /\ s.attempts \in Nat /\ s.limit \in Nat
    BY <2>1 DEF BudgetOf, JobRow
  <2>. QED
    BY <1>0, <1>1, <2>1, <2>2 DEF InBudget, SameCounts
<1>. QED
  BY <1>0, <1>2 DEF BudgetOf

(* The tickets of a job can be counted. *)
LEMMA TicketsNat ==
    ASSUME QueueTypeOK, NEW j, TicketsFinite(j)
    PROVE  Tickets(j) \in Nat
BY QueueTicketsFinite, FS_CardinalityType DEF TicketsFinite, Tickets

(* A call hands its ticket on; RetryUpdate has one issued.                  *)
LEMMA ClientTickets ==
    ASSUME TypeOK, TypeOK', Held, NEW i \in Jobs, row[i].status # "ABSENT", TicketsFinite(i),
           NEW c \in Clients, ClientNext(c)
    PROVE  TicketsFinite(i)' /\ Tickets(i)' \in Nat /\ Tickets(i)' + retried[i] <= Tickets(i) + retried'[i]
<1>0. /\ QueueTypeOK /\ ClientTypeOK /\ NoJob \notin Jobs
      /\ retried \in [Jobs -> Nat]
  BY JobServiceAssumption DEF TypeOK, CounterTypeOK
<1>1. UNCHANGED <<wpc, wjob, wrow, tjob>>
  BY DEF ClientNext, SubmitHit, SubmitMiss, SubmitCreate, Insert, SubmitSaveKey, BindKey, SubmitEnqueue, RetryLoad,
         RetryUpdate, RetryEnqueue, CancelLoad, CancelUpdate, worker, timer
<1>2. \A d \in Clients \ {c} : cpc'[d] = cpc[d] /\ cjob'[d] = cjob[d]
  BY <1>0 DEF ClientNext, SubmitHit, SubmitMiss, SubmitCreate, Insert, SubmitSaveKey, BindKey, SubmitEnqueue,
              RetryLoad, RetryUpdate, RetryEnqueue, CancelLoad, CancelUpdate, ClientStep,
              ClientDone, ClientTypeOK, client
<1>3. /\ TicketsFinite(i)'
      /\ Cardinality(HandTickets(i)) \in Nat /\ Cardinality(HandTickets(i)') \in Nat
      /\ Cardinality(HandTickets(i)') = Cardinality(HandTickets(i))
           - (IF Handing(c, i) THEN 1 ELSE 0) + (IF Handing(c, i)' THEN 1 ELSE 0)
      /\ Cardinality(WorkTickets(i)') = Cardinality(WorkTickets(i))
      /\ Cardinality(TimeTickets(i)') = Cardinality(TimeTickets(i))
  <2>1. IsFiniteSet(HandTickets(i))
    BY DEF TicketsFinite
  <2>2. WorkTickets(i)' = WorkTickets(i) /\ TimeTickets(i)' = TimeTickets(i)
    BY <1>1, TicketsRest
  <2>. QED
    BY <1>2, <2>1, <2>2, ClientMoves DEF TicketsFinite
<1>4. /\ Cardinality(WorkTickets(i)) \in Nat /\ Cardinality(TimeTickets(i)) \in Nat
      /\ Cardinality(QueueTickets(i)) \in Nat
  BY <1>0, QueueTicketsFinite, FS_CardinalityType DEF TicketsFinite
<1>5. Cardinality(QueueTickets(i)') \in Nat /\ retried'[i] \in Nat
      /\ Cardinality(QueueTickets(i)') + (IF Handing(c, i)' THEN 1 ELSE 0) + retried[i]
           <= Cardinality(QueueTickets(i)) + (IF Handing(c, i) THEN 1 ELSE 0) + retried'[i]
  <2>0. cjob[c] \in Jobs \cup {NoJob}
    BY <1>0 DEF ClientTypeOK
  <2>1. CASE SubmitEnqueue(c) \/ RetryEnqueue(c)
    <3>1. cjob[c] \in Jobs /\ cpc[c] \in {"enqueue", "retryEnqueue"}
      BY <2>0, <2>1 DEF SubmitEnqueue, RetryEnqueue, Held
    <3>2. Enqueue(cjob[c])
      BY <2>1 DEF SubmitEnqueue, RetryEnqueue
    <3>3. /\ Cardinality(QueueTickets(i)') \in Nat
          /\ Cardinality(QueueTickets(i)')
               <= Cardinality(QueueTickets(i)) + (IF i = cjob[c] THEN 1 ELSE 0)
      BY <1>0, <3>1, <3>2, EnqueueTickets
    <3>4. Handing(c, i) <=> cjob[c] = i
      BY <3>1 DEF Handing
    <3>5. ~Handing(c, i)' /\ retried' = retried
      BY <1>0, <2>1 DEF SubmitEnqueue, RetryEnqueue, ClientDone, Handing, ClientTypeOK, ghosts
    <3>. QED
      BY <1>0, <1>4, <3>3, <3>4, <3>5
  <2>2. CASE RetryUpdate(c)
    <3>1. queue' = queue /\ cpc[c] = "retryUpdate" /\ cjob[c] \in Jobs
      BY <2>0, <2>2 DEF RetryUpdate, ClientStep, Held
    <3>2. ~Handing(c, i) /\ QueueTickets(i)' = QueueTickets(i)
      BY <3>1, TicketsRest DEF Handing
    <3>3. CASE ~Handing(c, i)' /\ retried' = retried
      BY <1>0, <1>4, <3>2, <3>3
    <3>4. CASE cjob' = cjob /\ retried' = [retried EXCEPT ![cjob[c]] = @ + 1]
      <4>1. retried'[i] = retried[i] + (IF cjob[c] = i THEN 1 ELSE 0)
        BY <1>0, <3>1, <3>4
      <4>2. Handing(c, i)' => cjob[c] = i
        BY <3>4 DEF Handing
      <4>. QED
        BY <1>0, <1>4, <3>2, <4>1, <4>2
    <3>5. CASE ~Handing(c, i)' /\ retried' = [retried EXCEPT ![cjob[c]] = @ + 1]
      <4>1. retried'[i] = retried[i] + (IF cjob[c] = i THEN 1 ELSE 0)
        BY <1>0, <3>1, <3>5
      <4>. QED
        BY <1>0, <1>4, <3>2, <3>5, <4>1
    <3>. QED
      BY <1>0, <2>2, <3>3, <3>4, <3>5 DEF RetryUpdate, ClientDone, Handing, ClientTypeOK
  <2>3. CASE ~(SubmitEnqueue(c) \/ RetryEnqueue(c) \/ RetryUpdate(c))
    <3>1. queue' = queue /\ retried' = retried
      BY <2>3 DEF ClientNext, SubmitHit, SubmitMiss, SubmitCreate, Insert, SubmitSaveKey, BindKey, RetryLoad,
                  CancelLoad, CancelUpdate, ghosts
    <3>2. QueueTickets(i)' = QueueTickets(i)
      BY <3>1, TicketsRest
    <3>3. Handing(c, i)' => Handing(c, i)
      BY <1>0, <2>3 DEF ClientNext, SubmitHit, SubmitMiss, SubmitCreate, Insert, SubmitSaveKey, BindKey, RetryLoad,
                  CancelLoad, CancelUpdate, ClientStep, ClientDone, Handing, Unused, ClientTypeOK,
                  client
    <3>. QED
      BY <1>0, <1>4, <3>1, <3>2, <3>3
  <2>. QED
    BY <2>1, <2>2, <2>3
<1>. QED
  BY <1>0, <1>3, <1>4, <1>5 DEF Tickets

(* A call does not start attempts; RetryUpdate issues a ticket for one. *)
LEMMA ClientBudget ==
    ASSUME TypeOK, TypeOK', Held, NEW i \in Jobs, row[i].status # "ABSENT", BudgetOf(i),
           NEW c \in Clients, ClientNext(c)
    PROVE  BudgetOf(i)'
<1>0. /\ StoreTypeOK /\ ClientTypeOK /\ QueueTypeOK /\ NoJob \notin Jobs
      /\ row[i] \in JobRow /\ crow[c] \in JobRow /\ CopyOf(i, row[i])
  BY JobServiceAssumption DEF TypeOK, StoreTypeOK, ClientTypeOK, CopyOf
<1>1. UNCHANGED <<wpc, wjob, wrow, tpc, tjob, trow>>
  BY DEF ClientNext, SubmitHit, SubmitMiss, SubmitCreate, Insert, SubmitSaveKey, BindKey, SubmitEnqueue, RetryLoad,
         RetryUpdate, RetryEnqueue, CancelLoad, CancelUpdate, worker, timer
<1>2. \A d \in Clients \ {c} : cpc'[d] = cpc[d] /\ cjob'[d] = cjob[d] /\ crow'[d] = crow[d]
  BY <1>0 DEF ClientNext, SubmitHit, SubmitMiss, SubmitCreate, Insert, SubmitSaveKey, BindKey, SubmitEnqueue,
              RetryLoad, RetryUpdate, RetryEnqueue, CancelLoad, CancelUpdate, ClientStep,
              ClientDone, ClientTypeOK, client
<1>3. \E s \in JobRow : CopyOf(i, s) /\ SameCounts(row'[i], s)
  <2>1. CASE row'[i] = row[i]
    BY <1>0, <2>1 DEF SameCounts
  <2>2. CASE row'[i] # row[i]
    <3>1. ~SubmitCreate(c)
      BY <1>0, <2>2 DEF SubmitCreate, Insert, Unused, StoreTypeOK
    <3>2. PICK s \in {"QUEUED", "CANCELED"} :
             row' = [row EXCEPT ![cjob[c]] = WithStatus(crow[c], s)]
      BY <2>2, <3>1 DEF ClientNext, SubmitHit, SubmitMiss, SubmitSaveKey, BindKey, SubmitEnqueue, RetryLoad,
                        RetryUpdate, RetryEnqueue, CancelLoad, CancelUpdate, UpdateJob, store
    <3>3. cpc[c] \in {"retryUpdate", "cancelUpdate"}
      BY <2>2, <3>1 DEF ClientNext, SubmitHit, SubmitMiss, SubmitSaveKey, BindKey, SubmitEnqueue, RetryLoad,
                        RetryUpdate, RetryEnqueue, CancelLoad, CancelUpdate, ClientStep, store
    <3>4. cjob[c] = i /\ row'[i] = WithStatus(crow[c], s)
      BY <1>0, <2>2, <3>2 DEF StoreTypeOK
    <3>5. CopyOf(i, crow[c])
      BY <3>3, <3>4 DEF CopyOf
    <3>6. SameCounts(row'[i], crow[c])
      BY <1>0, <3>4 DEF SameCounts, WithStatus, JobRow
    <3>. QED
      BY <1>0, <3>5, <3>6
  <2>. QED
    BY <2>1, <2>2
<1>4. cjob'[c] = i /\ cpc'[c] \in {"retryUpdate", "cancelUpdate"} =>
        \/ cjob[c] = i /\ cpc[c] \in {"retryUpdate", "cancelUpdate"} /\ crow'[c] = crow[c]
        \/ crow'[c] = row[i]
  <2>1. ASSUME NEW j \in Jobs, RetryLoad(c, j) \/ CancelLoad(c, j), cjob'[c] = i
        PROVE  crow'[c] = row[i]
    <3>1. cjob'[c] = j /\ crow'[c] = row[j]
      BY <1>0, <2>1 DEF RetryLoad, CancelLoad, ClientTypeOK
    <3>. QED
      BY <2>1, <3>1
  <2>2. ASSUME NEW k, SubmitHit(c, k)
        PROVE  UNCHANGED <<cpc, cjob, crow>>
    BY <2>2 DEF SubmitHit, client
  <2>3. ASSUME NEW k, SubmitMiss(c, k)
        PROVE  cpc'[c] = "create"
    BY <1>0, <2>3 DEF SubmitMiss, ClientStep, ClientTypeOK
  <2>4. CASE SubmitCreate(c) \/ SubmitSaveKey(c) \/ SubmitEnqueue(c)
    <3>1. cpc'[c] \in {"enqueue", "saveKey", "idle"}
      BY <1>0, <2>4 DEF SubmitCreate, Insert, SubmitSaveKey, BindKey, SubmitEnqueue, ClientStep, ClientDone,
                        ClientTypeOK
    <3>. QED
      BY <3>1
  <2>5. CASE RetryUpdate(c) \/ RetryEnqueue(c) \/ CancelUpdate(c)
    <3>1. cpc'[c] \in {"retryEnqueue", "idle"}
      BY <1>0, <2>5 DEF RetryUpdate, RetryEnqueue, CancelUpdate, ClientStep, ClientDone,
                        ClientTypeOK
    <3>. QED
      BY <3>1
  <2>. QED
    BY <2>1, <2>2, <2>3, <2>4, <2>5 DEF ClientNext
<1>5. CopiesKept(i)
  <2>1. \A d \in Clients : cjob'[d] = i /\ cpc'[d] \in {"retryUpdate", "cancelUpdate"} =>
          \/ cjob[d] = i /\ cpc[d] \in {"retryUpdate", "cancelUpdate"} /\ crow'[d] = crow[d]
          \/ crow'[d] = row[i]
    BY <1>2, <1>4
  <2>2. \A w \in Workers : SameCounts(wrow'[w], wrow[w])
    BY <1>1 DEF SameCounts
  <2>. QED
    BY <1>1, <1>3, <2>1, <2>2, CopySources
<1>6. TicketsFinite(i)' /\ Tickets(i)' \in Nat /\ Tickets(i)' + retried[i] <= Tickets(i) + retried'[i]
  BY ClientTickets DEF BudgetOf
<1>7. Tickets(i) \in Nat
  BY <1>0, TicketsNat DEF BudgetOf
<1>. QED
  BY <1>5, <1>6, <1>7, BudgetFrame

(* A timer hands on the ticket of the worker that armed it.                 *)
LEMMA TimerBudget ==
    ASSUME TypeOK, TypeOK', Held, NEW i \in Jobs, row[i].status # "ABSENT", BudgetOf(i),
           NEW t \in Timers, TimerNext(t)
    PROVE  BudgetOf(i)'
<1>0. /\ StoreTypeOK /\ TimerTypeOK /\ QueueTypeOK /\ NoJob \notin Jobs
      /\ row[i] \in JobRow /\ trow[t] \in JobRow /\ CopyOf(i, row[i])
      /\ tpc[t] # "idle" => tjob[t] \in Jobs
      /\ retried \in [Jobs -> Nat]
  BY JobServiceAssumption DEF TypeOK, StoreTypeOK, TimerTypeOK, CounterTypeOK, CopyOf, Held
<1>1. UNCHANGED <<wpc, wjob, wrow, cpc, cjob, crow, retried>>
  BY DEF TimerNext, TimerLoad, TimerUpdate, TimerEnqueue, worker, client, ghosts
<1>2. \A u \in Timers \ {t} : tpc'[u] = tpc[u] /\ tjob'[u] = tjob[u] /\ trow'[u] = trow[u]
  BY <1>0 DEF TimerNext, TimerLoad, TimerUpdate, TimerEnqueue, TimerDone, TimerTypeOK
<1>3. CopiesKept(i)
  <2>1. \E s \in JobRow : CopyOf(i, s) /\ SameCounts(row'[i], s)
    <3>1. CASE row'[i] = row[i]
      BY <1>0, <3>1 DEF SameCounts
    <3>2. CASE row'[i] # row[i]
      <4>1. tpc[t] = "update" /\ row' = [row EXCEPT ![tjob[t]] = WithStatus(trow[t], "QUEUED")]
        BY <3>2 DEF TimerNext, TimerLoad, TimerUpdate, TimerEnqueue, UpdateJob, store
      <4>2. tjob[t] = i /\ row'[i] = WithStatus(trow[t], "QUEUED")
        BY <1>0, <3>2, <4>1 DEF StoreTypeOK
      <4>3. CopyOf(i, trow[t]) /\ SameCounts(row'[i], trow[t])
        BY <1>0, <4>1, <4>2 DEF CopyOf, SameCounts, WithStatus, JobRow
      <4>. QED
        BY <1>0, <4>3
    <3>. QED
      BY <3>1, <3>2
  <2>2. tjob'[t] = i /\ tpc'[t] = "update" => trow'[t] = row[i]
    BY <1>0 DEF TimerNext, TimerLoad, TimerUpdate, TimerEnqueue, TimerDone, TimerTypeOK
  <2>3. \A u \in Timers : tjob'[u] = i /\ tpc'[u] = "update" =>
          \/ tjob[u] = i /\ tpc[u] = "update" /\ trow'[u] = trow[u]
          \/ trow'[u] = row[i]
    BY <1>2, <2>2
  <2>4. \A w \in Workers : SameCounts(wrow'[w], wrow[w])
    BY <1>1 DEF SameCounts
  <2>. QED
    BY <1>1, <2>1, <2>3, <2>4, CopySources
<1>4. /\ TicketsFinite(i)' /\ TicketsFinite(i)
      /\ Cardinality(TimeTickets(i)) \in Nat /\ Cardinality(TimeTickets(i)') \in Nat
      /\ Cardinality(TimeTickets(i)') = Cardinality(TimeTickets(i))
           - (IF Timing(t, i) THEN 1 ELSE 0) + (IF Timing(t, i)' THEN 1 ELSE 0)
      /\ Cardinality(WorkTickets(i)') = Cardinality(WorkTickets(i))
      /\ Cardinality(HandTickets(i)') = Cardinality(HandTickets(i))
  <2>1. TicketsFinite(i)
    BY DEF BudgetOf
  <2>2. WorkTickets(i)' = WorkTickets(i) /\ HandTickets(i)' = HandTickets(i)
    BY <1>1, TicketsRest
  <2>. QED
    BY <1>2, <2>1, <2>2, TimerMoves DEF TicketsFinite
<1>5. /\ Cardinality(WorkTickets(i)) \in Nat /\ Cardinality(HandTickets(i)) \in Nat
      /\ Cardinality(QueueTickets(i)) \in Nat
  BY <1>0, <1>4, QueueTicketsFinite, FS_CardinalityType DEF TicketsFinite
<1>6. /\ Cardinality(QueueTickets(i)') \in Nat
      /\ Cardinality(QueueTickets(i)') + (IF Timing(t, i)' THEN 1 ELSE 0)
           <= Cardinality(QueueTickets(i)) + (IF Timing(t, i) THEN 1 ELSE 0)
  <2>1. CASE TimerEnqueue(t)
    <3>1. tjob[t] \in Jobs /\ Enqueue(tjob[t])
      BY <1>0, <2>1 DEF TimerEnqueue
    <3>2. /\ Cardinality(QueueTickets(i)') \in Nat
          /\ Cardinality(QueueTickets(i)')
               <= Cardinality(QueueTickets(i)) + (IF i = tjob[t] THEN 1 ELSE 0)
      BY <1>0, <3>1, EnqueueTickets
    <3>3. ~Timing(t, i)' /\ (Timing(t, i) <=> tjob[t] = i)
      BY <1>0, <2>1 DEF TimerEnqueue, TimerDone, Timing, TimerTypeOK
    <3>. QED
      BY <1>5, <3>2, <3>3
  <2>2. CASE TimerLoad(t) \/ TimerUpdate(t)
    <3>1. QueueTickets(i)' = QueueTickets(i)
      BY <2>2, TicketsRest DEF TimerLoad, TimerUpdate
    <3>2. Timing(t, i)' => Timing(t, i)
      BY <1>0, <2>2 DEF TimerLoad, TimerUpdate, TimerDone, Timing, TimerTypeOK
    <3>. QED
      BY <1>5, <3>1, <3>2
  <2>. QED
    BY <2>1, <2>2 DEF TimerNext
<1>7. Tickets(i) \in Nat
  BY <1>0, <1>4, TicketsNat
<1>8. Tickets(i)' \in Nat /\ Tickets(i)' + retried[i] <= Tickets(i) + retried'[i]
  BY <1>0, <1>1, <1>4, <1>5, <1>6 DEF Tickets
<1>. QED
  BY <1>3, <1>4, <1>7, <1>8, BudgetFrame

(* A step of a worker that moves the ticket of w no further than it was.    *)
LEMMA WorkerTickets ==
    ASSUME TypeOK, Held, NEW i \in Jobs, TicketsFinite(i), NEW w \in Workers, WorkerNext(w)
    PROVE  /\ TicketsFinite(i)' /\ Tickets(i)' \in Nat
           /\ Tickets(i)' <= Tickets(i)
           /\ MayStart(w, i) /\ ~MayStart(w, i)' /\ ~WorkerMarkRetry(w)
                => Tickets(i)' + 1 <= Tickets(i)
<1>0. /\ WorkerTypeOK /\ TimerTypeOK /\ QueueTypeOK /\ NoJob \notin Jobs
      /\ wpc[w] \notin {"idle", "exited"} => wjob[w] \in Jobs
  BY JobServiceAssumption DEF TypeOK, WorkerTypeOK, Held
<1>1. UNCHANGED <<cpc, cjob>>
  BY DEF WorkerNext, Dequeue, WorkerLoad, WorkerStart, WorkerLogStart, Execute, WorkerCommit,
         WorkerLogSuccess, WorkerGiveUp, WorkerLogGiveUp, WorkerDeadLetter, WorkerLogFailure,
         WorkerMarkRetry, WorkerExit, client
<1>2. \A v \in Workers \ {w} : wpc'[v] = wpc[v] /\ wjob'[v] = wjob[v] /\ wrow'[v] = wrow[v]
  BY <1>0
     DEF WorkerNext, Dequeue, WorkerLoad, WorkerStart, WorkerLogStart, Execute, WorkerCommit,
         WorkerLogSuccess, WorkerGiveUp, WorkerLogGiveUp, WorkerDeadLetter, WorkerLogFailure,
         WorkerMarkRetry, WorkerExit, WorkerStep, WorkerDone, WorkerTypeOK
<1>3. /\ IsFiniteSet(HandTickets(i)') /\ IsFiniteSet(WorkTickets(i)')
      /\ Cardinality(HandTickets(i)') = Cardinality(HandTickets(i))
      /\ Cardinality(HandTickets(i)) \in Nat
      /\ Cardinality(WorkTickets(i)) \in Nat /\ Cardinality(WorkTickets(i)') \in Nat
      /\ Cardinality(WorkTickets(i)') = Cardinality(WorkTickets(i))
           - (IF MayStart(w, i) THEN 1 ELSE 0) + (IF MayStart(w, i)' THEN 1 ELSE 0)
  <2>1. HandTickets(i)' = HandTickets(i)
    BY <1>1, TicketsRest
  <2>. QED
    BY <1>2, <2>1, WorkerMoves, FS_CardinalityType DEF TicketsFinite
<1>4. Cardinality(TimeTickets(i)) \in Nat /\ Cardinality(QueueTickets(i)) \in Nat
  BY <1>0, QueueTicketsFinite, FS_CardinalityType DEF TicketsFinite
<1>5. CASE Dequeue(w)
  <2>1. TimeTickets(i)' = TimeTickets(i)
    BY <1>5, TicketsRest DEF Dequeue, timer
  <2>2. /\ Cardinality(QueueTickets(i)') \in Nat
        /\ Cardinality(QueueTickets(i)')
             = Cardinality(QueueTickets(i)) - (IF Head(queue) = i THEN 1 ELSE 0)
    BY <1>0, <1>5, TailTickets DEF Dequeue
  <2>3. ~MayStart(w, i) /\ (MayStart(w, i)' <=> Head(queue) = i)
    BY <1>0, <1>5 DEF Dequeue, WorkerStep, MayStart, WorkerTypeOK
  <2>. QED
    BY <1>3, <1>4, <2>1, <2>2, <2>3 DEF Tickets, TicketsFinite
<1>6. CASE WorkerMarkRetry(w)
  <2>1. QueueTickets(i)' = QueueTickets(i)
    BY <1>6, TicketsRest DEF WorkerMarkRetry
  <2>2. PICK t \in Timers : tpc[t] = "idle" /\ tjob' = [tjob EXCEPT ![t] = wjob[w]]
    BY <1>6 DEF WorkerMarkRetry
  <2>3. ~Timing(t, i) /\ (Timing(t, i)' <=> wjob[w] = i)
    BY <1>0, <2>2 DEF Timing, TimerTypeOK, Held
  <2>4. /\ IsFiniteSet(TimeTickets(i)')
        /\ Cardinality(TimeTickets(i)') \in Nat
        /\ Cardinality(TimeTickets(i)') = Cardinality(TimeTickets(i))
             - (IF Timing(t, i) THEN 1 ELSE 0) + (IF Timing(t, i)' THEN 1 ELSE 0)
    <3>1. \A u \in Timers \ {t} : tjob'[u] = tjob[u]
      BY <1>0, <2>2 DEF TimerTypeOK
    <3>. QED
      BY <3>1, TimerMoves DEF TicketsFinite
  <2>5. (MayStart(w, i) <=> wjob[w] = i) /\ ~MayStart(w, i)'
    BY <1>0, <1>6 DEF WorkerMarkRetry, WorkerDone, MayStart, WorkerTypeOK
  <2>. QED
    BY <1>3, <1>4, <1>6, <2>1, <2>3, <2>4, <2>5 DEF Tickets, TicketsFinite
<1>7. CASE ~(Dequeue(w) \/ WorkerMarkRetry(w))
  <2>1. QueueTickets(i)' = QueueTickets(i) /\ TimeTickets(i)' = TimeTickets(i)
    <3>1. UNCHANGED <<queue, tjob>>
      BY <1>7 DEF WorkerNext, WorkerLoad, WorkerStart, WorkerLogStart, Execute, WorkerCommit,
           WorkerLogSuccess, WorkerGiveUp, WorkerLogGiveUp, WorkerDeadLetter, WorkerLogFailure,
           WorkerExit, timer
    <3>. QED
      BY <3>1, TicketsRest
  <2>2. MayStart(w, i)' => MayStart(w, i)
    <3>1. CASE WorkerLoad(w) \/ WorkerLogSuccess(w) \/ WorkerDeadLetter(w) \/ WorkerExit(w)
      BY <1>0, <3>1 DEF WorkerLoad, WorkerLogSuccess, WorkerDeadLetter, WorkerExit, WorkerStep,
                        WorkerDone, MayStart, WorkerTypeOK
    <3>2. CASE WorkerStart(w)
      BY <1>0, <3>2 DEF WorkerStart, WorkerStep, MayStart, WorkerTypeOK
    <3>3. CASE WorkerLogStart(w) \/ Execute(w) \/ WorkerLogFailure(w)
      BY <1>0, <3>3 DEF WorkerLogStart, Execute, WorkerLogFailure, WorkerStep, MayStart,
                        WorkerTypeOK
    <3>4. CASE WorkerCommit(w)
      <4>1. /\ wpc[w] = "commit" /\ wjob'[w] = wjob[w]
            /\ wrow'[w] = WithStatus(wrow[w], "SUCCEEDED")
            /\ wpc'[w] \in {"logSuccess", "fail"}
        BY <1>0, <3>4 DEF WorkerCommit, WorkerStep, WorkerTypeOK
      <4>2. Exhausted(wrow'[w]) <=> Exhausted(wrow[w])
        BY <1>0, <4>1 DEF Exhausted, WithStatus, WorkerTypeOK, JobRow
      <4>. QED
        BY <4>1, <4>2 DEF MayStart
    <3>5. CASE WorkerGiveUp(w) \/ WorkerLogGiveUp(w)
      BY <1>0, <3>5 DEF WorkerGiveUp, WorkerLogGiveUp, WorkerStep, MayStart, WorkerTypeOK
    <3>. QED
      BY <1>7, <3>1, <3>2, <3>3, <3>4, <3>5 DEF WorkerNext
  <2>. QED
    BY <1>3, <1>4, <2>1, <2>2 DEF Tickets, TicketsFinite
<1>. QED
  BY <1>5, <1>6, <1>7

(* All but the start of a job write back what they have.                    *)
LEMMA WorkerCopies ==
    ASSUME TypeOK, TypeOK', Held, NEW i \in Jobs, NEW w \in Workers, WorkerNext(w),
           WorkerStart(w) => wjob[w] # i
    PROVE  CopiesKept(i)
<1>0. /\ StoreTypeOK /\ WorkerTypeOK /\ TimerTypeOK /\ NoJob \notin Jobs
      /\ row[i] \in JobRow /\ wrow[w] \in JobRow /\ CopyOf(i, row[i])
      /\ wpc[w] \notin {"idle", "exited"} => wjob[w] \in Jobs
      /\ SameCounts(row[i], row[i]) /\ SameCounts(wrow[w], wrow[w])
  BY JobServiceAssumption
     DEF TypeOK, StoreTypeOK, WorkerTypeOK, Held, CopyOf, SameCounts
<1>1. UNCHANGED <<cpc, cjob, crow, trow>>
  BY DEF WorkerNext, Dequeue, WorkerLoad, WorkerStart, WorkerLogStart, Execute, WorkerCommit,
         WorkerLogSuccess, WorkerGiveUp, WorkerLogGiveUp, WorkerDeadLetter, WorkerLogFailure,
         WorkerMarkRetry, WorkerExit, client, timer
<1>2. \A v \in Workers \ {w} : wpc'[v] = wpc[v] /\ wjob'[v] = wjob[v] /\ wrow'[v] = wrow[v]
  BY <1>0
     DEF WorkerNext, Dequeue, WorkerLoad, WorkerStart, WorkerLogStart, Execute, WorkerCommit,
         WorkerLogSuccess, WorkerGiveUp, WorkerLogGiveUp, WorkerDeadLetter, WorkerLogFailure,
         WorkerMarkRetry, WorkerExit, WorkerStep, WorkerDone, WorkerTypeOK
<1>3. \A s \in {"SUCCEEDED", "FAILED", "RETRY_PENDING"}, r \in JobRow :
        SameCounts(WithStatus(r, s), r)
  BY DEF SameCounts, WithStatus, JobRow
<1>4. \E s \in JobRow : CopyOf(i, s) /\ SameCounts(row'[i], s)
  <2>1. CASE row'[i] = row[i]
    BY <1>0, <2>1
  <2>2. CASE row'[i] # row[i] /\ (WorkerCommit(w) \/ WorkerGiveUp(w))
    <3>1. PICK s \in {"SUCCEEDED", "FAILED"} :
             row' = [row EXCEPT ![wjob[w]] = WithStatus(wrow[w], s)]
      BY <2>2 DEF WorkerCommit, WorkerGiveUp, UpdateJob
    <3>2. wpc[w] \in {"commit", "fail"}
      BY <2>2 DEF WorkerCommit, WorkerGiveUp, WorkerStep
    <3>3. wjob[w] = i /\ row'[i] = WithStatus(wrow[w], s)
      BY <1>0, <2>2, <3>1 DEF StoreTypeOK
    <3>4. CopyOf(i, wrow[w])
      BY <3>2, <3>3 DEF CopyOf
    <3>. QED
      BY <1>0, <1>3, <3>3, <3>4
  <2>3. CASE row'[i] # row[i] /\ WorkerMarkRetry(w)
    <3>1. row' = [row EXCEPT ![wjob[w]] = WithStatus(row[wjob[w]], "RETRY_PENDING")]
      BY <2>3 DEF WorkerMarkRetry, UpdateJob
    <3>2. row'[i] = WithStatus(row[i], "RETRY_PENDING")
      BY <1>0, <2>3, <3>1 DEF StoreTypeOK
    <3>. QED
      BY <1>0, <1>3, <3>2
  <2>4. CASE row'[i] # row[i] /\ WorkerStart(w)
    BY <1>0, <2>4 DEF WorkerStart, UpdateJob, StoreTypeOK
  <2>. QED
    BY <2>1, <2>2, <2>3, <2>4
       DEF WorkerNext, Dequeue, WorkerLoad, WorkerLogStart, Execute, WorkerLogSuccess,
           WorkerLogGiveUp, WorkerDeadLetter, WorkerLogFailure, WorkerExit, store
<1>5. wjob'[w] = i /\ wpc'[w] # "load" =>
        \/ wjob[w] = i /\ wpc[w] # "load" /\ SameCounts(wrow'[w], wrow[w])
        \/ wrow'[w] = row[i]
  <2>1. CASE WorkerLogSuccess(w) \/ WorkerDeadLetter(w) \/ WorkerMarkRetry(w)
    BY <1>0, <2>1 DEF WorkerLogSuccess, WorkerDeadLetter, WorkerMarkRetry, WorkerDone, WorkerTypeOK
  <2>2. CASE Dequeue(w)
    BY <1>0, <2>2 DEF Dequeue, WorkerStep, WorkerTypeOK
  <2>3. CASE WorkerLoad(w)
    BY <1>0, <2>3 DEF WorkerLoad, WorkerDone, WorkerTypeOK
  <2>4. CASE WorkerStart(w)
    BY <2>4 DEF WorkerStart
  <2>5. CASE WorkerLogStart(w) \/ Execute(w) \/ WorkerLogGiveUp(w) \/ WorkerLogFailure(w)
    BY <1>0, <2>5 DEF WorkerLogStart, Execute, WorkerLogGiveUp, WorkerLogFailure, WorkerStep
  <2>6. CASE WorkerCommit(w) \/ WorkerGiveUp(w)
    <3>1. PICK s \in {"SUCCEEDED", "FAILED"} : wrow'[w] = WithStatus(wrow[w], s)
      BY <1>0, <2>6 DEF WorkerCommit, WorkerGiveUp, WorkerTypeOK
    <3>2. wpc[w] # "load" /\ wjob' = wjob
      BY <2>6 DEF WorkerCommit, WorkerGiveUp, WorkerStep
    <3>. QED
      BY <1>0, <1>3, <3>1, <3>2
  <2>7. CASE WorkerExit(w)
    BY <1>0, <2>7 DEF WorkerExit, WorkerStep, Held
  <2>. QED
    BY <2>1, <2>2, <2>3, <2>4, <2>5, <2>6, <2>7 DEF WorkerNext
<1>6. \A v \in Workers : wjob'[v] = i /\ wpc'[v] # "load" =>
        \/ wjob[v] = i /\ wpc[v] # "load" /\ SameCounts(wrow'[v], wrow[v])
        \/ wrow'[v] = row[i]
  BY <1>2, <1>5 DEF SameCounts
<1>7. \A t \in Timers : tjob'[t] = i /\ tpc'[t] = "update" =>
        tjob[t] = i /\ tpc[t] = "update" /\ trow'[t] = trow[t]
  <2>1. CASE WorkerMarkRetry(w)
    BY <1>0, <1>1, <2>1 DEF WorkerMarkRetry, TimerTypeOK
  <2>2. CASE ~WorkerMarkRetry(w)
    BY <1>1, <2>2
       DEF WorkerNext, Dequeue, WorkerLoad, WorkerStart, WorkerLogStart, Execute, WorkerCommit,
           WorkerLogSuccess, WorkerGiveUp, WorkerLogGiveUp, WorkerDeadLetter, WorkerLogFailure,
           WorkerExit, timer
  <2>. QED
    BY <2>1, <2>2
<1>. QED
  BY <1>1, <1>4, <1>6, <1>7, CopySources

(* Starting a job counts one attempt; from the limit on it ends the ticket. *)
LEMMA StartBudget ==
    ASSUME TypeOK, TypeOK', Held, NEW i \in Jobs, BudgetOf(i),
           NEW w \in Workers, WorkerStart(w), wjob[w] = i
    PROVE  BudgetOf(i)'
<1>. DEFINE old == wrow[w]
            new == Started(wrow[w])
<1>0. /\ StoreTypeOK /\ WorkerTypeOK /\ QueueTypeOK
      /\ retried[i] \in Nat /\ retried' = retried
      /\ row[i] \in JobRow /\ old \in JobRow
  BY DEF TypeOK, StoreTypeOK, WorkerTypeOK, CounterTypeOK, WorkerStart, ghosts
<1>1. /\ new \in JobRow /\ new.attempts = old.attempts + 1 /\ new.limit = old.limit
      /\ old.attempts \in Nat /\ old.limit \in Nat
  BY <1>0, StartedType DEF Started, JobRow
<1>2. /\ wpc[w] = "start" /\ wpc' = [wpc EXCEPT ![w] = "logStart"]
      /\ wrow' = [wrow EXCEPT ![w] = new]
      /\ row' = row \/ row' = [row EXCEPT ![i] = new]
      /\ UNCHANGED <<cpc, cjob, crow, tpc, tjob, trow, wjob>>
  BY DEF WorkerStart, WorkerStep, UpdateJob, client, timer
<1>3. CopyOf(i, old) /\ InBudget(i, old) /\ InBudget(i, row[i])
  <2>1. CopyOf(i, old) /\ CopyOf(i, row[i])
    BY <1>2 DEF CopyOf
  <2>. QED
    BY <1>0, <2>1 DEF BudgetOf
<1>4. /\ TicketsFinite(i)' /\ Tickets(i)' \in Nat /\ Tickets(i)' <= Tickets(i)
      /\ old.attempts + 1 >= old.limit => Tickets(i)' + 1 <= Tickets(i)
  <2>1. MayStart(w, i)
    BY <1>2 DEF MayStart
  <2>2. old.attempts + 1 >= old.limit => ~MayStart(w, i)'
    BY <1>0, <1>1, <1>2 DEF MayStart, Exhausted, WorkerTypeOK
  <2>3. ~WorkerMarkRetry(w) /\ WorkerNext(w) /\ TicketsFinite(i)
    BY <1>2 DEF WorkerMarkRetry, WorkerNext, BudgetOf
  <2>. QED
    BY <2>1, <2>2, <2>3, WorkerTickets
<1>5. Tickets(i) \in Nat /\ Tickets(i) <= retried[i] + 1
  BY <1>0, TicketsNat DEF BudgetOf
<1>6. row'[i].limit = row[i].limit /\ old.limit = row[i].limit
  BY <1>0, <1>1, <1>2, <1>3 DEF StoreTypeOK, InBudget
<1>7. ASSUME NEW r \in JobRow, CopyOf(i, r)' PROVE r = new \/ CopyOf(i, r)
  <2>1. row'[i] = new \/ row'[i] = row[i]
    BY <1>0, <1>2 DEF StoreTypeOK
  <2>2. /\ wrow'[w] = new
        /\ \A v \in Workers \ {w} : wrow'[v] = wrow[v] /\ wpc'[v] = wpc[v]
    BY <1>0, <1>2 DEF WorkerTypeOK
  <2>. QED
    BY <1>2, <1>7, <2>1, <2>2 DEF CopyOf
<1>8. ASSUME NEW r \in JobRow, CopyOf(i, r)' PROVE InBudget(i, r)'
  <2>1. CASE CopyOf(i, r)
    <3>1. InBudget(i, r) /\ r.attempts \in Nat /\ r.limit \in Nat
      BY <2>1 DEF BudgetOf, JobRow
    <3>. QED
      BY <1>0, <1>4, <1>5, <1>6, <3>1 DEF InBudget
  <2>2. CASE r = new
    <3>1. CASE old.attempts + 1 < old.limit
      BY <1>1, <1>6, <2>2, <3>1 DEF InBudget
    <3>2. CASE ~(old.attempts + 1 < old.limit)
      BY <1>0, <1>1, <1>3, <1>4, <1>5, <1>6, <2>2, <3>2 DEF InBudget
    <3>. QED
      BY <3>1, <3>2
  <2>. QED
    BY <1>7, <1>8, <2>1, <2>2
<1>. QED
  BY <1>0, <1>4, <1>5, <1>8 DEF BudgetOf

(* A created job has no attempt, and one ticket if its creator knows of it. *)
LEMMA CreateBudget ==
    ASSUME TypeOK, TypeOK', Fresh, NEW i \in Jobs, row[i].status = "ABSENT", row'[i].status # "ABSENT",
           NEW c \in Clients, SubmitCreate(c)
    PROVE  BudgetOf(i)'
<1>1. PICK j \in Unused, m \in LimitArgs :
         /\ row' = [row EXCEPT ![j] = [status |-> "QUEUED", attempts |-> 0,
                                        limit |-> EffectiveLimit(m)]]
         /\ \/ /\ cpc' = [cpc EXCEPT ![c] = IF ckey[c] = NoKey THEN "enqueue" ELSE "saveKey"]
               /\ cjob' = [cjob EXCEPT ![c] = j]
            \/ cjob' = [cjob EXCEPT ![c] = NoJob]
  <2>1. row' # row
    BY DEF TypeOK, StoreTypeOK
  <2>. QED
    BY <2>1 DEF SubmitCreate, Insert, ClientStep, ClientDone
<1>2. /\ j = i /\ row'[i].attempts = 0 /\ row'[i].limit \in Nat \ {0}
      /\ \A d \in Clients \ {c} : cjob'[d] # i
      /\ cjob'[c] = i => cpc'[c] \in {"enqueue", "saveKey"}
  <2>1. j = i
    BY <1>1 DEF TypeOK, StoreTypeOK
  <2>2. m \in Nat /\ NoJob # i
    BY JobServiceAssumption
  <2>. QED
    BY <1>1, <2>1, <2>2, EffectiveLimitType DEF TypeOK, StoreTypeOK, ClientTypeOK, Fresh
<1>3. /\ \A w \in Workers : wjob'[w] # i
      /\ \A t \in Timers : tjob'[t] # i
      /\ \A n \in DOMAIN queue' : queue'[n] # i
  BY DEF SubmitCreate, Insert, worker, timer, Fresh, Waiting
<1>4. /\ HandTickets(i)' = IF cjob'[c] = i THEN {c} ELSE {}
      /\ QueueTickets(i)' = {} /\ WorkTickets(i)' = {} /\ TimeTickets(i)' = {}
  BY <1>2, <1>3 DEF HandTickets, Handing, QueueTickets, WorkTickets, MayStart, TimeTickets, Timing
<1>5. TicketsFinite(i)' /\ Tickets(i)' \in {0, 1}
  <2>1. IsFiniteSet({c}) /\ Cardinality({c}) = 1
    BY FS_Singleton
  <2>2. IsFiniteSet({}) /\ Cardinality({}) = 0
    BY FS_EmptySet
  <2>. QED
    BY <1>4, <2>1, <2>2 DEF TicketsFinite, Tickets
<1>6. \A r \in JobRow : CopyOf(i, r)' => r = row'[i]
  BY <1>2, <1>3 DEF CopyOf
<1>7. retried'[i] \in Nat
  BY DEF TypeOK, CounterTypeOK
<1>8. ASSUME NEW r \in JobRow, CopyOf(i, r)' PROVE InBudget(i, r)'
  <2>1. r = row'[i]
    BY <1>6, <1>8
  <2>. QED
    BY <1>2, <1>5, <1>7, <2>1 DEF InBudget
<1>. QED
  BY <1>5, <1>7, <1>8 DEF BudgetOf

(* A crash takes all tickets and copies with it.                            *)
LEMMA CrashBudget ==
    ASSUME TypeOK, TypeOK', NEW i \in Jobs, BudgetOf(i), Crash
    PROVE  BudgetOf(i)'
<1>0. /\ row[i] \in JobRow /\ CopyOf(i, row[i]) /\ NoJob # i /\ QueueTypeOK
      /\ retried \in [Jobs -> Nat]
  BY JobServiceAssumption DEF TypeOK, StoreTypeOK, CopyOf, CounterTypeOK
<1>1. /\ queue' = <<>> /\ row' = row /\ retried' = retried
      /\ \A c \in Clients : cjob'[c] # i
      /\ \A w \in Workers : wjob'[w] # i
      /\ \A t \in Timers : tjob'[t] # i
  BY <1>0 DEF Crash, store, ghosts
<1>2. /\ HandTickets(i)' = {} /\ QueueTickets(i)' = {}
      /\ WorkTickets(i)' = {} /\ TimeTickets(i)' = {}
  BY <1>1 DEF HandTickets, Handing, QueueTickets, WorkTickets, MayStart, TimeTickets, Timing
<1>3. TicketsFinite(i)' /\ Tickets(i)' = 0
  BY <1>2, FS_EmptySet DEF TicketsFinite, Tickets
<1>4. CopiesKept(i)
  BY <1>0, <1>1 DEF CopiesKept, CopyOf, SameCounts
<1>5. Tickets(i) \in Nat
  BY <1>0, TicketsNat DEF BudgetOf
<1>. QED
  BY <1>0, <1>1, <1>3, <1>4, <1>5, BudgetFrame

(* Only CreateJob touches the row of an unused id: the others write rows of *)
(* jobs that somebody holds.                                                *)
LEMMA OnlyCreateCreates ==
    ASSUME TypeOK, Held, Fresh, [Next]_vars, NEW i \in Jobs, row[i].status = "ABSENT"
    PROVE  row'[i] = row[i] \/ \E c \in Clients : SubmitCreate(c) /\ row'[i].status = "QUEUED"
<1>0. /\ \A c \in Clients : cjob[c] # i
      /\ \A w \in Workers : wjob[w] # i
      /\ \A t \in Timers : tjob[t] # i
      /\ row \in [Jobs -> JobRow]
  BY DEF Fresh, TypeOK, StoreTypeOK
<1>1. ASSUME NEW c \in Clients, ClientNext(c), ~SubmitCreate(c) PROVE row'[i] = row[i]
  <2>1. row' = row \/ \E r : row' = [row EXCEPT ![cjob[c]] = r]
    BY <1>1 DEF ClientNext, SubmitHit, SubmitMiss, SubmitSaveKey, BindKey, SubmitEnqueue, RetryLoad,
                RetryUpdate, RetryEnqueue, CancelLoad, CancelUpdate, UpdateJob, store
  <2>. QED
    BY <1>0, <2>1
<1>2. ASSUME NEW w \in Workers, WorkerNext(w) PROVE row'[i] = row[i]
  <2>1. row' = row \/ \E r : row' = [row EXCEPT ![wjob[w]] = r]
    BY <1>2 DEF WorkerNext, Dequeue, WorkerLoad, WorkerStart, WorkerLogStart, Execute,
                WorkerCommit, WorkerLogSuccess, WorkerGiveUp, WorkerLogGiveUp, WorkerDeadLetter,
                WorkerLogFailure, WorkerMarkRetry, WorkerExit, UpdateJob, store
  <2>. QED
    BY <1>0, <2>1
<1>3. ASSUME NEW t \in Timers, TimerNext(t) PROVE row'[i] = row[i]
  <2>1. row' = row \/ \E r : row' = [row EXCEPT ![tjob[t]] = r]
    BY <1>3 DEF TimerNext, TimerLoad, TimerUpdate, TimerEnqueue, UpdateJob, store
  <2>. QED
    BY <1>0, <2>1
<1>4. Stop \/ Crash \/ UNCHANGED vars => row' = row
  BY DEF Stop, Crash, vars, store
<1>5. ASSUME NEW c \in Clients, SubmitCreate(c) PROVE row'[i] = row[i] \/ row'[i].status = "QUEUED"
  <2>1. \/ row' = row
        \/ \E j \in Jobs, m \in LimitArgs :
              row' = [row EXCEPT ![j] = [status |-> "QUEUED", attempts |-> 0,
                                         limit |-> EffectiveLimit(m)]]
    BY <1>5 DEF SubmitCreate, Insert
  <2>. QED
    BY <1>0, <2>1
<1>. QED
  BY <1>1, <1>2, <1>3, <1>4, <1>5 DEF Next

(* Every step stays within the budget.                                      *)
LEMMA BudgetStep ==
    ASSUME TypeOK, TypeOK', Held, Fresh, BudgetKept, [Next]_vars
    PROVE  BudgetKept'
<1>. SUFFICES ASSUME NEW i \in Jobs
              PROVE  IF row'[i].status = "ABSENT" THEN row'[i].attempts = 0 ELSE BudgetOf(i)'
  BY DEF BudgetKept
<1>1. CASE row[i].status = "ABSENT"
  <2>1. CASE row'[i] = row[i]
    BY <1>1, <2>1 DEF BudgetKept
  <2>2. ASSUME NEW c \in Clients, SubmitCreate(c), row'[i].status = "QUEUED"
        PROVE  BudgetOf(i)'
    BY <1>1, <2>2, CreateBudget
  <2>. QED
    BY <1>1, <2>1, <2>2, OnlyCreateCreates
<1>2. CASE row[i].status # "ABSENT"
  <2>0. BudgetOf(i) /\ row'[i].status # "ABSENT"
    BY <1>2, IntakeStep, NoJobLeaves DEF BudgetKept
  <2>1. ASSUME NEW c \in Clients, ClientNext(c) PROVE BudgetOf(i)'
    BY <1>2, <2>0, <2>1, ClientBudget
  <2>2. ASSUME NEW t \in Timers, TimerNext(t) PROVE BudgetOf(i)'
    BY <1>2, <2>0, <2>2, TimerBudget
  <2>3. ASSUME NEW w \in Workers, WorkerNext(w) PROVE BudgetOf(i)'
    <3>1. CASE WorkerStart(w) /\ wjob[w] = i
      BY <2>0, <3>1, StartBudget
    <3>2. CASE ~(WorkerStart(w) /\ wjob[w] = i)
      <4>1. CopiesKept(i)
        BY <2>3, <3>2, WorkerCopies
      <4>2. TicketsFinite(i)' /\ Tickets(i)' \in Nat /\ Tickets(i)' <= Tickets(i)
        BY <2>0, <2>3, WorkerTickets DEF BudgetOf
      <4>3. Tickets(i) \in Nat /\ retried[i] \in Nat
        BY <2>0, TicketsNat DEF TypeOK, CounterTypeOK, BudgetOf
      <4>4. retried' = retried
        BY <2>3 DEF WorkerNext, Dequeue, WorkerLoad, WorkerStart, WorkerLogStart, Execute,
                    WorkerCommit, WorkerLogSuccess, WorkerGiveUp, WorkerLogGiveUp,
                    WorkerDeadLetter, WorkerLogFailure, WorkerMarkRetry, WorkerExit, ghosts
      <4>. QED
        BY <2>0, <4>1, <4>2, <4>3, <4>4, BudgetFrame
    <3>. QED
      BY <3>1, <3>2
  <2>4. CASE Stop \/ UNCHANGED vars
    <3>1. UNCHANGED <<row, queue, cpc, cjob, crow, wpc, wjob, wrow, tpc, tjob, trow, retried>>
      BY <2>4 DEF Stop, store, client, worker, timer, ghosts, vars
    <3>2. Tickets(i)' = Tickets(i) /\ TicketsFinite(i)'
      BY <2>0, <3>1, TicketsRest DEF Tickets, TicketsFinite, BudgetOf
    <3>3. \A r \in JobRow : (CopyOf(i, r)' <=> CopyOf(i, r)) /\ (InBudget(i, r)' <=> InBudget(i, r))
      BY <3>1, <3>2 DEF CopyOf, InBudget
    <3>. QED
      BY <2>0, <3>1, <3>2, <3>3 DEF BudgetOf
  <2>5. CASE Crash
    BY <2>0, <2>5, CrashBudget
  <2>. QED
    BY <2>0, <2>1, <2>2, <2>3, <2>4, <2>5 DEF Next
<1>. QED
  BY <1>1, <1>2

(* The attempt counter stays within the limit, and every accepted RetryJob  *)
(* allows one attempt more, whatever copies cancel and the timers write     *)
(* back and in however many places a retried job is.                        *)
THEOREM JobsAttemptsWithinLimit == Spec => []AttemptsWithinLimit
<1>1. Init => Fresh /\ BudgetKept
  BY FreshInit DEF Init, NoRow, BudgetKept
<1>2. TypeOK /\ Held /\ [Next]_vars => (TypeOK /\ Held)'
  BY TypeStep, HeldStep
<1>3. TypeOK /\ TypeOK' /\ Held /\ Fresh /\ BudgetKept /\ [Next]_vars => (Fresh /\ BudgetKept)'
  BY FreshStep, BudgetStep
<1>4. ASSUME TypeOK, BudgetKept PROVE AttemptsWithinLimit
  <2>. SUFFICES ASSUME NEW j \in Jobs PROVE row[j].attempts <= row[j].limit + retried[j]
    BY DEF AttemptsWithinLimit
  <2>1. /\ row[j] \in JobRow /\ retried[j] \in Nat /\ QueueTypeOK
        /\ row[j].attempts \in Nat /\ row[j].limit \in Nat
    BY <1>4 DEF TypeOK, StoreTypeOK, CounterTypeOK, JobRow
  <2>2. CASE row[j].status = "ABSENT"
    BY <1>4, <2>1, <2>2 DEF BudgetKept
  <2>3. CASE row[j].status # "ABSENT"
    <3>1. BudgetOf(j) /\ CopyOf(j, row[j])
      BY <1>4, <2>3 DEF BudgetKept, CopyOf
    <3>2. Tickets(j) \in Nat /\ InBudget(j, row[j])
      BY <2>1, <3>1, TicketsNat DEF BudgetOf
    <3>. QED
      BY <2>1, <3>2 DEF InBudget
  <2>. QED
    BY <2>2, <2>3
<1>. QED
  BY TypeInit, <1>1, <1>2, <1>3, <1>4, PTL DEF Spec
=============================================================================
