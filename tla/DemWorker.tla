------------------------------ MODULE DemWorker ------------------------------
(***************************************************************************)
(* The elevation downloads of terrain-service: rows of copernicus_dem_jobs *)
(* that the worker of every running instance polls, marks and processes    *)
(* one after the other.  Nothing claims a row: instances can process the   *)
(* same job, and nobody goes back to a job that was left half way.         *)
(*                                                                         *)
(* A download is one synthetic tile and never fails, so the retries the    *)
(* code has for a failed download are out of reach and left out.           *)
(***************************************************************************)
CONSTANTS DemJobs,    \* jobs, one tile each
          Instances   \* running instances of the service

VARIABLES
    demRow,      \* per job: the row's status and whether tiles_failed > 0
    cached,      \* the jobs whose tile is in dem_tile_cache
    batch,       \* per instance: the jobs it has listed
    current,     \* the jobs it is working on: none or one
    stage,       \* its next step
    tileFailed,  \* TilesFailed of its copy of the job
    abandoned    \* history: jobs left half way by a fault or a crash

demVars == <<demRow, cached, batch, current, stage, tileFailed, abandoned>>

DemRow(status, failed) == [status |-> status, failed |-> failed]

DemInit ==
    /\ demRow = [j \in DemJobs |-> DemRow("absent", FALSE)]
    /\ cached = {}
    /\ batch = [w \in Instances |-> {}]
    /\ current = [w \in Instances |-> {}]
    /\ stage = [w \in Instances |-> "poll"]
    /\ tileFailed = [w \in Instances |-> FALSE]
    /\ abandoned = {}

CreateDemJob(j) ==
    /\ demRow[j].status = "absent"
    /\ demRow' = [demRow EXCEPT ![j] = DemRow("pending", FALSE)]
    /\ UNCHANGED <<cached, batch, current, stage, tileFailed, abandoned>>

(* ListPendingDEMJobs: a row that was begun is not listed again. *)
PendingDemJobs == {j \in DemJobs : demRow[j].status = "pending"}

Poll(w) ==
    /\ stage[w] = "poll"
    /\ PendingDemJobs # {}
    /\ batch' = [batch EXCEPT ![w] = PendingDemJobs]
    /\ stage' = [stage EXCEPT ![w] = "mark"]
    /\ UNCHANGED <<demRow, cached, current, tileFailed, abandoned>>

NextStage(w) == IF batch'[w] = {} THEN "poll" ELSE "mark"

(* The copy of the row may be old: another instance may have completed it.  *)
(* When the update fails, or only its answer is lost, the instance goes on *)
(* to the next job.                                                        *)
MarkDownloading(w) ==
    /\ stage[w] = "mark"
    /\ \E j \in batch[w], written, heard \in BOOLEAN :
          /\ heard => written
          /\ batch' = [batch EXCEPT ![w] = @ \ {j}]
          /\ demRow' = IF written THEN [demRow EXCEPT ![j] = DemRow("downloading", FALSE)]
                       ELSE demRow
          /\ current' = IF heard THEN [current EXCEPT ![w] = {j}] ELSE current
          /\ abandoned' = IF written /\ ~heard THEN abandoned \cup {j} ELSE abandoned
          /\ stage' = [stage EXCEPT ![w] = IF heard THEN "ingest" ELSE NextStage(w)]
    /\ tileFailed' = [tileFailed EXCEPT ![w] = FALSE]
    /\ UNCHANGED cached

(* Mutant: a tile that is not cached is not counted. *)
IngestUncounted(w) ==
    /\ stage[w] = "ingest"
    /\ \E ok, saved \in BOOLEAN, j \in current[w] :
          /\ cached' = IF ok THEN cached \cup {j} ELSE cached
          /\ demRow' = IF saved THEN [demRow EXCEPT ![j] = DemRow("ingesting", FALSE)]
                       ELSE demRow
    /\ stage' = [stage EXCEPT ![w] = "complete"]
    /\ UNCHANGED <<batch, current, tileFailed, abandoned>>

(* The tile is cached or counted as failed; an error of the update of the  *)
(* row is ignored.                                                         *)
Ingest(w) ==
    /\ stage[w] = "ingest"
    /\ \E ok, saved \in BOOLEAN, j \in current[w] :
          /\ cached' = IF ok THEN cached \cup {j} ELSE cached
          /\ tileFailed' = [tileFailed EXCEPT ![w] = ~ok]
          /\ demRow' = IF saved THEN [demRow EXCEPT ![j] = DemRow("ingesting", ~ok)]
                       ELSE demRow
    /\ stage' = [stage EXCEPT ![w] = "complete"]
    /\ UNCHANGED <<batch, current, abandoned>>

(* Completed, also if its tile has failed; a lost answer changes nothing. *)
Complete(w) ==
    /\ stage[w] = "complete"
    /\ \E j \in current[w] :
          \/ /\ demRow' = [demRow EXCEPT ![j] = DemRow("completed", tileFailed[w])]
             /\ UNCHANGED abandoned
          \/ abandoned' = abandoned \cup {j} /\ UNCHANGED demRow   \* the update fails
    /\ current' = [current EXCEPT ![w] = {}]
    /\ UNCHANGED <<cached, batch, tileFailed>>
    /\ stage' = [stage EXCEPT ![w] = NextStage(w)]

InstanceEnds(w) ==
    /\ stage[w] # "poll"
    /\ abandoned' = abandoned \cup current[w]
    /\ batch' = [batch EXCEPT ![w] = {}]
    /\ current' = [current EXCEPT ![w] = {}]
    /\ stage' = [stage EXCEPT ![w] = "poll"]
    /\ tileFailed' = [tileFailed EXCEPT ![w] = FALSE]
    /\ UNCHANGED <<demRow, cached>>

InstanceStep(w) == Poll(w) \/ MarkDownloading(w) \/ Ingest(w) \/ Complete(w)

DemNext ==
    \/ \E j \in DemJobs : CreateDemJob(j)
    \/ \E w \in Instances : InstanceStep(w) \/ InstanceEnds(w)

DemSpec == DemInit /\ [][DemNext]_demVars

-----------------------------------------------------------------------------
(* Properties *)

(* Type correctness of the rows and the instances. *)
DemTypeOK ==
    /\ demRow \in [DemJobs -> [status : {"absent", "pending", "downloading", "ingesting",
                                         "completed"},
                               failed : BOOLEAN]]
    /\ cached \subseteq DemJobs /\ abandoned \subseteq DemJobs
    /\ batch \in [Instances -> SUBSET DemJobs]
    /\ current \in [Instances -> SUBSET DemJobs]
    /\ stage \in [Instances -> {"poll", "mark", "ingest", "complete"}]
    /\ tileFailed \in [Instances -> BOOLEAN]

(* Whatever instances process a job at a time, a completed row tells the   *)
(* truth: its tile is in the cache, or the row counts it as failed.        *)
CompletedIsCached ==
    \A j \in DemJobs :
        demRow[j].status = "completed" => j \in cached \/ demRow[j].failed

(* A row that was begun and is not completed is being worked on, or was    *)
(* left by an update that failed or was not heard of, or by an instance    *)
(* that ended; nobody will list it again.                                  *)
BegunIsWorkedOn ==
    \A j \in DemJobs :
        demRow[j].status \in {"downloading", "ingesting"} =>
            j \in abandoned \/ \E w \in Instances : j \in current[w]

(* With any number of instances, failures and ends of an instance, every   *)
(* row that is not pending is accounted for.                               *)
DownloadsAccounted == CompletedIsCached /\ BegunIsWorkedOn
=============================================================================
