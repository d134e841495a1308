---------------------------- MODULE ServiceProofs ----------------------------
(***************************************************************************)
(* What the site of a project, the commissioning checklist, the elevation  *)
(* downloads, the offline queue, the rate limiter, the review of routes,   *)
(* the model registry and the scenario store keep, for every number of     *)
(* clients, engineers, instances, flushes, reviewers and deployers, of     *)
(* sites, items, jobs, entries, models and layouts, for every rate and     *)
(* burst; and that all of them, with the searches, keep it when they run   *)
(* together.                                                               *)
(***************************************************************************)
EXTENDS MCServices, GraphProofs, SequenceTheorems

-----------------------------------------------------------------------------
(* The project                                                             *)
(*                                                                         *)
(* Only the transaction that holds the lock of the project row changes the *)
(* sites, and one that holds no lock has found no project and inserts      *)
(* nothing.  So what the holder has deleted is, to its end, all there is.  *)

LockGuardsSites ==
    /\ locked # NoClient => project # NoProject
    /\ \A c \in Clients :
          /\ locked = c => pstep[c] \in Replacing
          /\ pstep[c] \in {"delete", "insert"} /\ locked # c => project = NoProject
          /\ pstep[c] = "commit" => locked = c
          /\ pstep[c] \in {"insert", "commit"} /\ locked = c => gone[c] = sites
          /\ pstep[c] \in {"lock", "delete", "insert", "commit"} => mine[c] \in SiteIds

ProjectInv == ProjectTypeOK /\ OneSite /\ LockGuardsSites

(* A project without a site, and nobody works on it. *)
LEMMA ProjectStart == ProjectInit => ProjectInv
<1>. SUFFICES ASSUME ProjectInit PROVE ProjectInv
  OBVIOUS
<1>1. ProjectTypeOK
  BY DEF ProjectInit, ProjectTypeOK, ProjectSteps
<1>2. OneSite
  BY ProjectAssumption DEF ProjectInit, OneSite
<1>3. LockGuardsSites
  BY ProjectAssumption DEF ProjectInit, LockGuardsSites
<1>. QED
  BY <1>1, <1>2, <1>3 DEF ProjectInv

(* The end of a call, which leaves the rows alone, gives its lock back. *)
LEMMA EndCallKeeps ==
    ASSUME ProjectInv, NEW c \in Clients, EndCall(c),
           UNCHANGED <<project, sites, zones, usedSites>>
    PROVE  ProjectInv'
<1>. USE ProjectAssumption DEF ProjectInv, ProjectTypeOK
<1>1. ProjectTypeOK'
  BY DEF EndCall, ProjectSteps
<1>2. OneSite'
  BY DEF OneSite
<1>3. LockGuardsSites'
  BY DEF EndCall, LockGuardsSites, Replacing
<1>. QED
  BY <1>1, <1>2, <1>3

(* A commit leaves the one site of the transaction that holds the lock. *)
LEMMA CommitKeeps ==
    ASSUME ProjectInv, NEW c \in Clients, CommitSite(c)
    PROVE  ProjectInv'
<1>. USE ProjectAssumption DEF ProjectInv, ProjectTypeOK
<1>1. /\ locked = c /\ gone[c] = sites /\ mine[c] \in SiteIds /\ pstep[c] = "commit"
      /\ project # NoProject
  BY DEF CommitSite, LockGuardsSites
<1>2. /\ sites' = {mine[c]} /\ locked' = NoClient
      /\ UNCHANGED <<project, usedSites>>
      /\ zones' = {}
  BY <1>1 DEF CommitSite, EndCall, OneSite
<1>3. /\ \E to \in {"idle", "look"} : pstep' = [pstep EXCEPT ![c] = to]
      /\ mine' = [mine EXCEPT ![c] = NoSite]
      /\ gone' = [gone EXCEPT ![c] = {}]
      /\ held' \in [Clients -> Coordinates \cup {NoPlace}]
  BY <1>1 DEF CommitSite, EndCall
<1>4. ProjectTypeOK'
  BY <1>1, <1>2, <1>3 DEF ProjectSteps
<1>5. OneSite'
  BY <1>1, <1>2 DEF OneSite
<1>6. LockGuardsSites'
  BY <1>1, <1>2, <1>3 DEF LockGuardsSites, Replacing
<1>. QED
  BY <1>4, <1>5, <1>6

(* A step of a site's transaction before its commit. *)
LEMMA ReplacingKeeps ==
    ASSUME ProjectInv, NEW c \in Clients,
           BeginSite(c) \/ LockProject(c) \/ DeleteSites(c) \/ InsertSite(c) \/ LookForPlace(c)
    PROVE  ProjectInv'
<1>. USE ProjectAssumption DEF ProjectInv, ProjectTypeOK
<1>1. CASE BeginSite(c)
  <2>1. ProjectTypeOK'
    BY <1>1 DEF BeginSite, ProjectSteps
  <2>2. OneSite'
    BY <1>1 DEF BeginSite, OneSite
  <2>3. LockGuardsSites'
    BY <1>1 DEF BeginSite, LockGuardsSites, Replacing
  <2>. QED
    BY <2>1, <2>2, <2>3
<1>2. CASE LockProject(c)
  <2>1. ProjectTypeOK'
    BY <1>2 DEF LockProject, ProjectSteps
  <2>2. OneSite'
    BY <1>2 DEF LockProject, OneSite
  <2>3. LockGuardsSites'
    BY <1>2 DEF LockProject, LockGuardsSites, Replacing
  <2>. QED
    BY <2>1, <2>2, <2>3
<1>3. CASE DeleteSites(c)
  <2>1. ProjectTypeOK'
    BY <1>3 DEF DeleteSites, ProjectSteps
  <2>2. OneSite'
    BY <1>3 DEF DeleteSites, OneSite
  <2>3. LockGuardsSites'
    BY <1>3 DEF DeleteSites, LockGuardsSites, Replacing
  <2>. QED
    BY <2>1, <2>2, <2>3
<1>4. CASE InsertSite(c) /\ project # NoProject
  <2>1. ProjectTypeOK'
    BY <1>4 DEF InsertSite, ProjectSteps
  <2>2. OneSite'
    BY <1>4 DEF InsertSite, OneSite
  <2>3. LockGuardsSites'
    BY <1>4 DEF InsertSite, LockGuardsSites, Replacing
  <2>. QED
    BY <2>1, <2>2, <2>3
<1>5. CASE LookForPlace(c) /\ project = NoPlace
  <2>1. ProjectTypeOK'
    BY <1>5 DEF LookForPlace, ProjectSteps
  <2>2. OneSite'
    BY <1>5 DEF LookForPlace, OneSite
  <2>3. LockGuardsSites'
    BY <1>5 DEF LookForPlace, LockGuardsSites, Replacing
  <2>. QED
    BY <2>1, <2>2, <2>3
<1>6. CASE \/ InsertSite(c) /\ project = NoProject
           \/ LookForPlace(c) /\ project # NoPlace
  BY <1>6, EndCallKeeps DEF InsertSite, LookForPlace
<1>. QED
  BY <1>1, <1>2, <1>3, <1>4, <1>5, <1>6

(* A write to the project row, or its deletion, finds no transaction open   *)
(* that could insert a site.                                                *)
LEMMA RowKeeps ==
    ASSUME ProjectInv, NEW c \in Clients,
           BeginUpdate(c) \/ UpdateProject(c) \/ DeleteProject(c)
    PROVE  ProjectInv'
<1>. USE ProjectAssumption DEF ProjectInv, ProjectTypeOK
<1>1. CASE BeginUpdate(c)
  <2>1. ProjectTypeOK'
    BY <1>1 DEF BeginUpdate, ProjectSteps
  <2>2. OneSite'
    BY <1>1 DEF BeginUpdate, OneSite
  <2>3. LockGuardsSites'
    BY <1>1 DEF BeginUpdate, LockGuardsSites, Replacing
  <2>. QED
    BY <2>1, <2>2, <2>3
<1>2. CASE UpdateProject(c)
  <2>1. /\ project' \in Coordinates \cup {NoPlace, NoProject}
        /\ project' = NoProject <=> project = NoProject
    BY <1>2 DEF UpdateProject
  <2>2. ProjectTypeOK'
    BY <1>2, <2>1 DEF UpdateProject, EndCall, ProjectSteps
  <2>3. OneSite'
    BY <1>2, <2>1 DEF UpdateProject, OneSite
  <2>4. LockGuardsSites'
    BY <1>2, <2>1 DEF UpdateProject, EndCall, LockGuardsSites, Replacing
  <2>. QED
    BY <2>2, <2>3, <2>4
<1>3. CASE DeleteProject(c)
  <2>1. ProjectTypeOK'
    BY <1>3 DEF DeleteProject, projectCall
  <2>2. OneSite'
    BY <1>3 DEF DeleteProject, OneSite
  <2>3. LockGuardsSites'
    BY <1>3 DEF DeleteProject, projectCall, LockGuardsSites, Replacing
  <2>. QED
    BY <2>1, <2>2, <2>3
<1>. QED
  BY <1>1, <1>2, <1>3

(* Zones are stored for the site that is stored. *)
LEMMA ZonesKeep ==
    ASSUME ProjectInv, NEW c \in Clients,
           BeginZones(c) \/ InsertZones(c)
    PROVE  ProjectInv'
<1>. USE ProjectAssumption DEF ProjectInv, ProjectTypeOK
<1>1. CASE BeginZones(c)
  <2>1. ProjectTypeOK'
    BY <1>1 DEF BeginZones, ProjectSteps
  <2>2. OneSite'
    BY <1>1 DEF BeginZones, OneSite
  <2>3. LockGuardsSites'
    BY <1>1 DEF BeginZones, LockGuardsSites, Replacing
  <2>. QED
    BY <2>1, <2>2, <2>3
<1>2. CASE InsertZones(c)
  <2>1. ProjectTypeOK'
    BY <1>2 DEF InsertZones, EndCall, ProjectSteps, OneSite
  <2>2. OneSite'
    BY <1>2 DEF InsertZones, OneSite
  <2>3. LockGuardsSites'
    BY <1>2 DEF InsertZones, EndCall, LockGuardsSites, Replacing
  <2>. QED
    BY <2>1, <2>2, <2>3
<1>. QED
  BY <1>1, <1>2

(* Every step of every call, and the end of the process. *)
LEMMA ProjectStepKeeps ==
    ASSUME ProjectInv, [ProjectNext]_projectVars
    PROVE  ProjectInv'
<1>1. ASSUME NEW c \in Clients, CommitSite(c) PROVE ProjectInv'
  BY <1>1, CommitKeeps
<1>2. ASSUME NEW c \in Clients,
             BeginSite(c) \/ LockProject(c) \/ DeleteSites(c) \/ InsertSite(c) \/ LookForPlace(c)
      PROVE  ProjectInv'
  BY <1>2, ReplacingKeeps
<1>3. ASSUME NEW c \in Clients, BeginUpdate(c) \/ UpdateProject(c) \/ DeleteProject(c)
      PROVE  ProjectInv'
  BY <1>3, RowKeeps
<1>4. ASSUME NEW c \in Clients, BeginZones(c) \/ InsertZones(c)
      PROVE  ProjectInv'
  BY <1>4, ZonesKeep
<1>5. ASSUME NEW c \in Clients, ProjectCallFails(c) PROVE ProjectInv'
  BY <1>5, EndCallKeeps DEF ProjectCallFails
<1>6. CASE ProjectCrash
  <2>. USE ProjectAssumption DEF ProjectInv, ProjectTypeOK
  <2>1. ProjectTypeOK'
    BY <1>6 DEF ProjectCrash, ProjectSteps
  <2>2. OneSite'
    BY <1>6 DEF ProjectCrash, OneSite
  <2>3. LockGuardsSites'
    BY <1>6 DEF ProjectCrash, LockGuardsSites
  <2>. QED
    BY <2>1, <2>2, <2>3
<1>7. CASE UNCHANGED projectVars
  BY <1>7 DEF projectVars, projectCall, ProjectInv, ProjectTypeOK, OneSite, LockGuardsSites
<1>. QED
  BY <1>1, <1>2, <1>3, <1>4, <1>5, <1>6, <1>7 DEF ProjectNext, ProjectStep

(* The rows of a project and the calls for it keep their types. *)
THEOREM ProjectTypeCorrect == ProjectSpec => []ProjectTypeOK
<1>1. ProjectInv => ProjectTypeOK
  BY DEF ProjectInv
<1>. QED
  BY <1>1, ProjectStart, ProjectStepKeeps, PTL DEF ProjectSpec

(* However many calls replace the site, import zones or delete the project, *)
(* there is one site at most, and every zone is a zone of that site.        *)
THEOREM ProjectHasOneSite == ProjectSpec => []OneSite
<1>1. ProjectInv => OneSite
  BY DEF ProjectInv
<1>. QED
  BY <1>1, ProjectStart, ProjectStepKeeps, PTL DEF ProjectSpec

-----------------------------------------------------------------------------
(* The checklist *)

(* A call that is about to write a status has left the record behind it, or *)
(* has seen the status that needs the record.                               *)
StepsHaveRecords ==
    \A c \in Engineers :
        /\ step[c] \in {"setSignedOff", "handOver", "setHandedOver"} => signed
        /\ step[c] = "setHandedOver" => handed

(* Items that are all resolved now were so at some time, and so were those  *)
(* a call has seen, or a status tells of.                                   *)
ResolvedSeen ==
    /\ AllResolved(item) => everResolved
    /\ \A c \in Engineers :
          /\ step[c] = "setStatus" /\ resolved[c] => everResolved
          /\ step[c] \in {"sign", "setSignedOff", "handOver", "setHandedOver"} => everResolved

ChecklistInv ==
    /\ ChecklistTypeOK
    /\ StatusHasRecords /\ StepsHaveRecords
    /\ CompletedWasResolved /\ ResolvedSeen

(* The statuses are told apart by their numbers. *)
LEMMA StatusNumbers ==
    PENDING = 1 /\ IN_PROGRESS = 2 /\ COMPLETED = 3 /\ SIGNED_OFF = 4 /\ HANDED_OVER = 5
BY DEF PENDING, IN_PROGRESS, COMPLETED, SIGNED_OFF, HANDED_OVER

(* A checklist without items is pending and not resolved. *)
LEMMA ChecklistStart == ChecklistInit => ChecklistInv
<1>. SUFFICES ASSUME ChecklistInit PROVE ChecklistInv
  OBVIOUS
<1>1. /\ step \in [Engineers -> {"idle", "seed"}] /\ status = 1
      /\ signed = FALSE /\ handed = FALSE /\ everResolved = FALSE /\ noted = {}
      /\ resolved = [c \in Engineers |-> FALSE] /\ item = [i \in Items |-> "absent"]
  BY StatusNumbers DEF ChecklistInit
<1>2. ChecklistTypeOK
  <2>1. step \in [Engineers -> {"idle", "seed", "list", "setStatus", "sign",
                                "setSignedOff", "handOver", "setHandedOver"}]
    BY <1>1
  <2>2. status \in PENDING..HANDED_OVER
    BY <1>1, StatusNumbers
  <2>3. item \in [Items -> {"absent", "pending", "resolved"}] /\ resolved \in [Engineers -> BOOLEAN]
    BY <1>1
  <2>. QED
    BY <1>1, <2>1, <2>2, <2>3 DEF ChecklistTypeOK
<1>3. ~AllResolved(item)
  BY <1>1 DEF AllResolved
<1>. QED
  BY <1>1, <1>2, <1>3, StatusNumbers
     DEF ChecklistInv, StatusHasRecords, StepsHaveRecords, CompletedWasResolved, ResolvedSeen

(* Writing an item keeps the types, and notes items that are all resolved. *)
LEMMA SetItemKeeps ==
    ASSUME ChecklistInv, NEW i \in Items, NEW state \in {"pending", "resolved"}, SetItem(i, state)
    PROVE  /\ item' \in [Items -> {"absent", "pending", "resolved"}]
           /\ everResolved' \in BOOLEAN
           /\ everResolved => everResolved'
           /\ AllResolved(item)' => everResolved'
           /\ UNCHANGED <<status, signed, handed, resolved>>
           /\ noted' \subseteq {j \in Items : item'[j] # "absent"}
BY DEF ChecklistInv, ChecklistTypeOK, SetItem, AllResolved

(* Every statement of every call keeps the records and the status in step. *)
LEMMA ChecklistStep ==
    ASSUME ChecklistInv, [ChecklistNext]_checklistVars, ChecklistAssumption
    PROVE  ChecklistInv'
<1>. DEFINE Parts == /\ ChecklistTypeOK' /\ StatusHasRecords' /\ StepsHaveRecords'
                     /\ CompletedWasResolved' /\ ResolvedSeen'
<1>. SUFFICES Parts
  BY DEF ChecklistInv
<1>. USE StatusNumbers
     DEF ChecklistInv, ChecklistTypeOK, StatusHasRecords, StepsHaveRecords, CompletedWasResolved,
         ResolvedSeen, Step
<1>1. ASSUME NEW c \in Engineers, SeedItem(c) PROVE Parts
  <2>1. PICK i \in Items : SetItem(i, "pending") /\ step[c] = "seed"
                           /\ \E to \in {"idle", "seed"} : step' = [step EXCEPT ![c] = to]
    BY <1>1 DEF SeedItem, ChecklistAssumption
  <2>. QED
    BY <2>1, SetItemKeeps
<1>2. ASSUME NEW c \in Engineers, AddChecklistItem(c) PROVE Parts
  <2>1. PICK i \in Items : SetItem(i, "pending")
    BY <1>2 DEF AddChecklistItem
  <2>2. step[c] = "idle" /\ step' = [step EXCEPT ![c] = "idle"]
    BY <1>2 DEF AddChecklistItem
  <2>. QED
    BY <2>1, <2>2, SetItemKeeps
<1>3. ASSUME NEW c \in Engineers, UpdateItem(c) PROVE Parts
  <2>1. PICK i \in Items, state \in {"pending", "resolved"} : SetItem(i, state)
    BY <1>3 DEF UpdateItem
  <2>2. step[c] = "idle" /\ step' = [step EXCEPT ![c] = "list"]
    BY <1>3 DEF UpdateItem
  <2>. QED
    BY <2>1, <2>2, SetItemKeeps
<1>4. ASSUME NEW c \in Engineers, ListItems(c) PROVE Parts
  BY <1>4 DEF ListItems, AllResolved
<1>5. ASSUME NEW c \in Engineers, Recompute(c) PROVE Parts
  BY <1>5 DEF Recompute, AllResolved
<1>6. ASSUME NEW c \in Engineers, SignOffLoad(c) PROVE Parts
  BY <1>6 DEF SignOffLoad, AllResolved
<1>7. ASSUME NEW c \in Engineers, AddSignoff(c) PROVE Parts
  BY <1>7 DEF AddSignoff, AllResolved
<1>8. ASSUME NEW c \in Engineers, SetSignedOff(c) PROVE Parts
  BY <1>8 DEF SetSignedOff, AllResolved
<1>9. ASSUME NEW c \in Engineers, HandoverLoad(c) PROVE Parts
  BY <1>9 DEF HandoverLoad, AllResolved
<1>10. ASSUME NEW c \in Engineers, CreateHandover(c) PROVE Parts
  BY <1>10 DEF CreateHandover, AllResolved
<1>11. ASSUME NEW c \in Engineers, SetHandedOver(c) PROVE Parts
  BY <1>11 DEF SetHandedOver, AllResolved
<1>12. ASSUME NEW c \in Engineers, CallEnds(c) PROVE Parts
  BY <1>12 DEF CallEnds, AllResolved
<1>13. CASE UNCHANGED checklistVars
  BY <1>13 DEF checklistVars, AllResolved
<1>14. CASE FillNotes
  BY <1>14 DEF FillNotes, AllResolved
<1>. QED
  BY <1>1, <1>2, <1>3, <1>4, <1>5, <1>6, <1>7, <1>8, <1>9, <1>10, <1>11, <1>12, <1>13, <1>14
     DEF ChecklistNext, ChecklistCall

(* The checklist keeps its types, whoever works on it. *)
THEOREM ChecklistTypeCorrect == ChecklistSpec => []ChecklistTypeOK
<1>1. ChecklistInv => ChecklistTypeOK
  BY DEF ChecklistInv
<1>. QED
  BY <1>1, ChecklistAssumption, ChecklistStart, ChecklistStep, PTL DEF ChecklistSpec

(* A signed-off or handed-over status has its records, whatever statement   *)
(* fails and however calls overwrite each other's status.                   *)
THEOREM ChecklistHasRecords == ChecklistSpec => []StatusHasRecords
<1>1. ChecklistInv => StatusHasRecords
  BY DEF ChecklistInv
<1>. QED
  BY <1>1, ChecklistAssumption, ChecklistStart, ChecklistStep, PTL DEF ChecklistSpec

(* Nothing is completed or signed off whose items were never all resolved.  *)
THEOREM ChecklistWasResolved == ChecklistSpec => []CompletedWasResolved
<1>1. ChecklistInv => CompletedWasResolved
  BY DEF ChecklistInv
<1>. QED
  BY <1>1, ChecklistAssumption, ChecklistStart, ChecklistStep, PTL DEF ChecklistSpec

(* The status of a checklist is earned by records and resolved items.       *)
THEOREM ChecklistStatusEarned == ChecklistSpec => []StatusIsEarned
  BY ChecklistHasRecords, ChecklistWasResolved, PTL DEF StatusIsEarned

-----------------------------------------------------------------------------
(* The elevation downloads *)

(* An instance works on one job, and on none before it has marked one; one  *)
(* that is about to complete a job has cached its tile or counts it.        *)
OneJobAtATime ==
    \A w \in Instances :
        /\ \A i, j \in current[w] : i = j
        /\ current[w] # {} => stage[w] \in {"ingest", "complete"}
        /\ stage[w] = "complete" => \A j \in current[w] : j \in cached \/ tileFailed[w]

DemInv == DemTypeOK /\ CompletedIsCached /\ BegunIsWorkedOn /\ OneJobAtATime

(* No row is begun and no instance works. *)
LEMMA DemStart == DemInit => DemInv
BY DEF DemInit, DemInv, DemTypeOK, CompletedIsCached, BegunIsWorkedOn, OneJobAtATime, DemRow

(* Every step of an instance keeps the rows true. *)
LEMMA DemStep ==
    ASSUME DemInv, [DemNext]_demVars
    PROVE  DemInv'
<1>. USE DEF DemInv, DemTypeOK, CompletedIsCached, BegunIsWorkedOn, OneJobAtATime, DemRow
<1>1. ASSUME NEW j \in DemJobs, CreateDemJob(j) PROVE DemInv'
  BY <1>1 DEF CreateDemJob
<1>2. ASSUME NEW w \in Instances, Poll(w) PROVE DemInv'
  BY <1>2 DEF Poll, PendingDemJobs
<1>3. ASSUME NEW w \in Instances, MarkDownloading(w) PROVE DemInv'
  <2>1. PICK j \in DemJobs, written, heard \in BOOLEAN :
           /\ heard => written
           /\ demRow' = IF written
                        THEN [demRow EXCEPT ![j] = [status |-> "downloading", failed |-> FALSE]]
                        ELSE demRow
           /\ current' = IF heard THEN [current EXCEPT ![w] = {j}] ELSE current
           /\ abandoned' = IF written /\ ~heard THEN abandoned \cup {j} ELSE abandoned
           /\ stage' = [stage EXCEPT ![w] = IF heard THEN "ingest" ELSE NextStage(w)]
    BY <1>3 DEF MarkDownloading
  <2>2. /\ UNCHANGED cached /\ tileFailed' = [tileFailed EXCEPT ![w] = FALSE]
        /\ batch' \in [Instances -> SUBSET DemJobs] /\ current[w] = {} /\ stage[w] = "mark"
        /\ NextStage(w) \in {"poll", "mark"}
    BY <1>3 DEF MarkDownloading, NextStage
  <2>3. CASE heard
    <3>1. /\ demRow' = [demRow EXCEPT ![j] = [status |-> "downloading", failed |-> FALSE]]
          /\ current' = [current EXCEPT ![w] = {j}] /\ UNCHANGED abandoned
          /\ stage' = [stage EXCEPT ![w] = "ingest"]
      BY <2>1, <2>3
    <3>2. DemTypeOK' /\ OneJobAtATime'
      BY <2>2, <3>1
    <3>3. CompletedIsCached' /\ BegunIsWorkedOn'
      BY <2>2, <3>1
    <3>. QED
      BY <3>2, <3>3
  <2>4. CASE ~heard
    <3>1. /\ UNCHANGED current
          /\ \E to \in {"poll", "mark"} : stage' = [stage EXCEPT ![w] = to]
      BY <2>1, <2>2, <2>4
    <3>2. abandoned' \in SUBSET DemJobs /\ abandoned \subseteq abandoned'
      BY <2>1
    <3>3. \A i \in DemJobs : \/ demRow'[i] = demRow[i]
                             \/ /\ demRow'[i] = [status |-> "downloading", failed |-> FALSE]
                                /\ i \in abandoned'
      BY <2>1, <2>4
    <3>4. demRow' \in [DemJobs -> [status : {"absent", "pending", "downloading", "ingesting", "completed"},
                                  failed : BOOLEAN]]
      BY <2>1
    <3>5. DemTypeOK' /\ OneJobAtATime'
      BY <2>2, <3>1, <3>2, <3>4
    <3>6. CompletedIsCached' /\ BegunIsWorkedOn'
      BY <2>2, <3>1, <3>2, <3>3
    <3>. QED
      BY <3>5, <3>6
  <2>. QED
    BY <2>3, <2>4
<1>4. ASSUME NEW w \in Instances, Ingest(w) PROVE DemInv'
  <2>1. PICK j \in DemJobs, ok \in BOOLEAN, saved \in BOOLEAN :
           /\ j \in current[w]
           /\ cached' = IF ok THEN cached \cup {j} ELSE cached
           /\ tileFailed' = [tileFailed EXCEPT ![w] = ~ok]
           /\ demRow' = IF saved THEN [demRow EXCEPT ![j] = DemRow("ingesting", ~ok)] ELSE demRow
           /\ stage[w] = "ingest" /\ stage' = [stage EXCEPT ![w] = "complete"]
           /\ UNCHANGED <<batch, current, abandoned>>
    BY <1>4 DEF Ingest
  <2>2. DemTypeOK' /\ BegunIsWorkedOn'
    BY <2>1
  <2>3. cached \subseteq cached' /\ (j \in cached' \/ tileFailed'[w])
    <3>1. tileFailed'[w] = ~ok
      BY <2>1
    <3>2. CASE ok
      BY <2>1, <3>2
    <3>3. CASE ~ok
      BY <2>1, <3>1, <3>3
    <3>. QED
      BY <3>2, <3>3
  <2>4. CompletedIsCached'
    BY <2>1, <2>3
  <2>5. OneJobAtATime'
    BY <2>1, <2>3
  <2>. QED
    BY <2>2, <2>4, <2>5
<1>5. ASSUME NEW w \in Instances, Complete(w) PROVE DemInv'
  <2>1. PICK j \in DemJobs :
           /\ j \in current[w]
           /\ \/ /\ demRow' = [demRow EXCEPT ![j] = DemRow("completed", tileFailed[w])]
                 /\ UNCHANGED abandoned
              \/ abandoned' = abandoned \cup {j} /\ UNCHANGED demRow
           /\ stage[w] = "complete" /\ current' = [current EXCEPT ![w] = {}]
           /\ UNCHANGED <<cached, batch, tileFailed>>
    BY <1>5 DEF Complete
  <2>2. \E to \in {"poll", "mark"} : stage' = [stage EXCEPT ![w] = to]
    BY <1>5 DEF Complete, NextStage
  <2>3. DemTypeOK' /\ OneJobAtATime'
    BY <2>1, <2>2
  <2>4. CompletedIsCached'
    BY <2>1
  <2>5. BegunIsWorkedOn'
    <3>1. \A i \in DemJobs : i # j =>
             demRow'[i] = demRow[i] /\ \A v \in Instances : i \in current[v] => i \in current'[v]
      BY <2>1
    <3>. QED
      BY <2>1, <3>1
  <2>. QED
    BY <2>3, <2>4, <2>5
<1>6. ASSUME NEW w \in Instances, InstanceEnds(w) PROVE DemInv'
  BY <1>6 DEF InstanceEnds
<1>7. CASE UNCHANGED demVars
  BY <1>7 DEF demVars
<1>. QED
  BY <1>1, <1>2, <1>3, <1>4, <1>5, <1>6, <1>7 DEF DemNext, InstanceStep

(* Whatever instances work on a job, a completed row has its tile in the    *)
(* cache or counts it as failed.                                            *)
THEOREM DemCompletedIsCached == DemSpec => []CompletedIsCached
<1>1. DemInv => CompletedIsCached
  BY DEF DemInv
<1>. QED
  BY <1>1, DemStart, DemStep, PTL DEF DemSpec

(* A row that was begun is worked on, or was left by a failed update or an  *)
(* instance that ended.                                                     *)
THEOREM DemBegunIsWorkedOn == DemSpec => []BegunIsWorkedOn
<1>1. DemInv => BegunIsWorkedOn
  BY DEF DemInv
<1>. QED
  BY <1>1, DemStart, DemStep, PTL DEF DemSpec

(* Every download that is not pending is accounted for.                     *)
THEOREM DemAccounted == DemSpec => []DownloadsAccounted
  BY DemCompletedIsCached, DemBegunIsWorkedOn, PTL DEF DownloadsAccounted

(* The rows and the instances keep their types. *)
THEOREM DemTypeCorrect == DemSpec => []DemTypeOK
<1>1. DemInv => DemTypeOK
  BY DEF DemInv
<1>. QED
  BY <1>1, DemStart, DemStep, PTL DEF DemSpec

-----------------------------------------------------------------------------
(* The offline queue *)

(* A flush replays what was queued, and has an entry while it is calling. *)
ReplaysQueued ==
    \A f \in Flushes :
        /\ todo[f] \subseteq ToSet(queued)
        /\ where[f] \in {"calling", "applied"} => todo[f] # {}

(* A flush knows the server to have applied only what it has applied. *)
AppliedIsNoted == \A f \in Flushes : where[f] = "applied" => Current(f) \in applied

(* The flag is set while a flush runs. *)
FlagIsSet == \A f \in Flushes : where[f] # "idle" => flushing

QueueInv == QueueTypeOK /\ ReplaysQueued /\ AppliedIsNoted /\ NoWorkLost /\ OneFlush /\ FlagIsSet

(* Appending to a sequence adds one element. *)
LEMMA AppendAdds ==
    ASSUME NEW S, NEW s \in Seq(S), NEW e \in S
    PROVE  ToSet(Append(s, e)) = ToSet(s) \cup {e}
<1>. DEFINE t == Append(s, e)
<1>1. /\ DOMAIN t = 1..(Len(s) + 1) /\ t[Len(s) + 1] = e
      /\ DOMAIN s = 1..Len(s) /\ \A i \in 1..Len(s) : t[i] = s[i]
      /\ Len(s) \in Nat
  OBVIOUS
<1>. HIDE DEF t
<1>2. ToSet(t) \subseteq ToSet(s) \cup {e}
  <2>1. ASSUME NEW i \in DOMAIN t PROVE t[i] \in ToSet(s) \cup {e}
    <3>1. i = Len(s) + 1 \/ i \in 1..Len(s)
      BY <1>1, <2>1
    <3>. QED
      BY <1>1, <3>1 DEF ToSet
  <2>. QED
    BY <2>1 DEF ToSet
<1>3. ToSet(s) \cup {e} \subseteq ToSet(t)
  <2>1. Len(s) + 1 \in DOMAIN t /\ \A i \in DOMAIN s : i \in DOMAIN t
    BY <1>1
  <2>. QED
    BY <1>1, <2>1 DEF ToSet
<1>. QED
  BY <1>2, <1>3 DEF t

(* The entry replayed next is one of those left. *)
LEMMA CurrentIsLeft ==
    ASSUME queued \in Seq(Entries), NEW f, todo[f] \subseteq ToSet(queued), todo[f] # {}
    PROVE  Current(f) \in todo[f] /\ Current(f) \in Entries
<1>. DEFINE places == {i \in DOMAIN queued : queued[i] \in todo[f]}
<1>1. places \subseteq Nat /\ places # {}
  BY DEF ToSet
<1>2. Min(places) \in places
  BY <1>1, LeastOf DEF Min
<1>3. Current(f) = queued[Min(places)]
  BY DEF Current
<1>. QED
  BY <1>2, <1>3

(* What is queued later is replayed later. *)
LEMMA CurrentStays ==
    ASSUME queued \in Seq(Entries), NEW e \in Entries, e \notin ToSet(queued),
           NEW f, todo[f] \subseteq ToSet(queued), todo[f] # {},
           queued' = Append(queued, e), todo' = todo
    PROVE  Current(f)' = Current(f)
<1>. DEFINE n == Len(queued)
            places == {i \in DOMAIN queued : queued[i] \in todo[f]}
<1>1. /\ n \in Nat /\ DOMAIN queued = 1..n /\ DOMAIN queued' = 1..(n + 1)
      /\ queued'[n + 1] = e /\ \A i \in 1..n : queued'[i] = queued[i]
  OBVIOUS
<1>2. {i \in DOMAIN queued' : queued'[i] \in todo[f]} = places
  <2>1. e \notin todo[f]
    OBVIOUS
  <2>2. \A i \in 1..(n + 1) : i \in 1..n \/ i = n + 1
    BY <1>1
  <2>3. \A i \in 1..n : i \in 1..(n + 1)
    BY <1>1
  <2>. QED
    BY <1>1, <2>1, <2>2, <2>3
<1>3. places \subseteq Nat /\ places # {}
  BY DEF ToSet
<1>4. Min(places) \in DOMAIN queued
  BY <1>3, LeastOf DEF Min
<1>5. Current(f) = queued[Min(places)] /\ Current(f)' = queued'[Min(places)]
  BY <1>2 DEF Current
<1>. QED
  BY <1>1, <1>4, <1>5

(* The box is empty and nothing was queued. *)
LEMMA QueueStart == QueueInit => QueueInv
<1>1. ToSet(<<>>) = {}
  BY DEF ToSet
<1>. SUFFICES ASSUME QueueInit PROVE QueueInv
  OBVIOUS
<1>2. QueueTypeOK
  <2>1. attempts \in [Entries -> 0..MaxAttempts]
    BY QueueAssumption DEF QueueInit
  <2>2. box \in [Entries -> {"none", "pending", "retrying", "failed"}] /\ flushing \in BOOLEAN
    BY DEF QueueInit
  <2>3. queued \in Seq(Entries)
    BY DEF QueueInit
  <2>4. /\ todo \in [Flushes -> SUBSET Entries]
        /\ where \in [Flushes -> {"idle", "next", "calling", "applied"}]
        /\ applied \subseteq Entries /\ dropped \subseteq Entries
    BY DEF QueueInit
  <2>. QED
    BY <2>1, <2>2, <2>3, <2>4 DEF QueueTypeOK
<1>3. NoWorkLost
  BY <1>1 DEF QueueInit, NoWorkLost
<1>4. ReplaysQueued /\ AppliedIsNoted /\ OneFlush /\ FlagIsSet
  BY DEF QueueInit, ReplaysQueued, AppliedIsNoted, OneFlush, FlagIsSet
<1>. QED
  BY <1>2, <1>3, <1>4 DEF QueueInv

(* The flush f goes on to its next step, and its entry leaves the snapshot *)
(* or stays in it.                                                         *)
LEMMA FlushGoesOn ==
    ASSUME QueueInv, NEW f \in Flushes, where[f] # "idle", todo[f] # {},
           NEW to \in {"next", "calling", "applied"}, NEW left \in {todo[f], todo[f] \ {Current(f)}},
           to # "next" => left = todo[f], to = "applied" => Current(f) \in applied',
           GoOn(f, to, left)
    PROVE  ReplaysQueued' /\ AppliedIsNoted' /\ OneFlush' /\ FlagIsSet'
<1>1. /\ where' = [where EXCEPT ![f] = to] /\ todo' = [todo EXCEPT ![f] = left]
      /\ queued' = queued /\ flushing' = flushing
  BY DEF GoOn
<1>2. /\ \A g \in Flushes : where'[g] = IF g = f THEN to ELSE where[g]
      /\ \A g \in Flushes : todo'[g] = IF g = f THEN left ELSE todo[g]
  BY <1>1 DEF QueueInv, QueueTypeOK
<1>3. \A g \in Flushes : g # f => where[g] = "idle"
  BY DEF QueueInv, OneFlush
<1>4. ReplaysQueued'
  BY <1>1, <1>2, <1>3 DEF QueueInv, ReplaysQueued
<1>5. AppliedIsNoted'
  <2>. SUFFICES ASSUME NEW g \in Flushes, where'[g] = "applied" PROVE Current(g)' \in applied'
    BY DEF AppliedIsNoted
  <2>1. g = f /\ to = "applied" /\ todo'[f] = todo[f]
    BY <1>2, <1>3
  <2>2. Current(f)' = Current(f)
    BY <1>1, <2>1 DEF Current
  <2>. QED
    BY <2>1, <2>2
<1>. QED
  BY <1>1, <1>2, <1>3, <1>4, <1>5 DEF QueueInv, OneFlush, FlagIsSet

(* All flushes that are over have nothing left, and need nothing. *)
LEMMA FlushIsOver ==
    ASSUME QueueInv, NEW f \in Flushes, where[f] # "idle", FlushEnd(f),
           UNCHANGED <<queued, applied>>
    PROVE  ReplaysQueued' /\ AppliedIsNoted' /\ OneFlush' /\ FlagIsSet'
<1>1. /\ \A g \in Flushes : g # f => where[g] = "idle"
      /\ \A g \in Flushes : where'[g] = IF g = f THEN "idle" ELSE where[g]
      /\ \A g \in Flushes : todo'[g] = IF g = f THEN {} ELSE todo[g]
      /\ flushing' = FALSE
  BY DEF FlushEnd, QueueInv, QueueTypeOK, OneFlush
<1>. QED
  BY <1>1 DEF QueueInv, ReplaysQueued, AppliedIsNoted, OneFlush, FlagIsSet

(* Whatever happens to a flush or to the box during one, work is kept and   *)
(* the flag tells of the one flush.                                         *)
LEMMA QueueStep ==
    ASSUME QueueInv, [QueueNext]_queueVars
    PROVE  QueueInv'
<1>. DEFINE Runs == ReplaysQueued' /\ AppliedIsNoted' /\ OneFlush' /\ FlagIsSet'
            Kept == QueueTypeOK' /\ NoWorkLost'
<1>. SUFFICES Kept /\ Runs
  BY DEF QueueInv
<1>1. ASSUME NEW f \in Flushes, todo[f] # {} PROVE Current(f) \in todo[f] /\ Current(f) \in Entries
  BY <1>1, CurrentIsLeft DEF QueueInv, QueueTypeOK, ReplaysQueued
<1>2. ASSUME NEW f \in Flushes, where[f] \in {"calling", "applied"} PROVE todo[f] # {}
  BY <1>2 DEF QueueInv, ReplaysQueued
<1>3. ASSUME NEW e \in Entries, EnqueueEntry(e) PROVE Kept /\ Runs
  <2>1. ToSet(queued') = ToSet(queued) \cup {e} /\ queued' \in Seq(Entries)
    BY <1>3, AppendAdds DEF EnqueueEntry, QueueInv, QueueTypeOK
  <2>2. Kept
    BY <1>3, <2>1 DEF EnqueueEntry, QueueInv, QueueTypeOK, NoWorkLost
  <2>3. AppliedIsNoted'
    <3>. SUFFICES ASSUME NEW f \in Flushes, where[f] = "applied" PROVE Current(f)' \in applied
      BY <1>3 DEF EnqueueEntry, AppliedIsNoted
    <3>1. Current(f)' = Current(f)
      BY <1>2, <1>3, CurrentStays DEF EnqueueEntry, QueueInv, QueueTypeOK, ReplaysQueued
    <3>. QED
      BY <3>1 DEF QueueInv, AppliedIsNoted
  <2>4. ReplaysQueued' /\ OneFlush' /\ FlagIsSet'
    BY <1>3, <2>1 DEF EnqueueEntry, QueueInv, ReplaysQueued, OneFlush, FlagIsSet
  <2>. QED
    BY <2>2, <2>3, <2>4
<1>4. ASSUME UNCHANGED <<queued, flushing, todo, where, applied>> PROVE Runs
  <2>1. \A f : Current(f)' = Current(f)
    BY <1>4 DEF Current
  <2>. QED
    BY <1>4, <2>1 DEF QueueInv, ReplaysQueued, AppliedIsNoted, OneFlush, FlagIsSet
<1>5. ASSUME NEW e \in Entries, Discard(e) PROVE Kept /\ Runs
  BY <1>4, <1>5 DEF Discard, QueueInv, QueueTypeOK, NoWorkLost
<1>6. CASE ClearQueue
  BY <1>4, <1>6 DEF ClearQueue, QueueInv, QueueTypeOK, NoWorkLost
<1>7. ASSUME NEW f \in Flushes, FlushBegin(f) PROVE Kept /\ Runs
  <2>1. ToSet(queued) \subseteq Entries
    BY DEF QueueInv, QueueTypeOK, ToSet
  <2>2. Kept
    BY <1>7, <2>1 DEF FlushBegin, QueueInv, QueueTypeOK, NoWorkLost
  <2>3. /\ \A g \in Flushes : where[g] = "idle" /\ where'[g] = IF g = f THEN "next" ELSE "idle"
        /\ \A g \in Flushes : todo'[g] = IF g = f THEN {e \in ToSet(queued) : box[e] # "none"} ELSE todo[g]
        /\ flushing' /\ queued' = queued
    BY <1>7 DEF FlushBegin, QueueInv, QueueTypeOK, FlagIsSet
  <2>4. Runs
    BY <2>3 DEF QueueInv, ReplaysQueued, AppliedIsNoted, OneFlush, FlagIsSet
  <2>. QED
    BY <2>2, <2>4
<1>8. ASSUME NEW f \in Flushes, FlushDone(f) PROVE Kept /\ Runs
  <2>1. Runs
    BY <1>8, FlushIsOver DEF FlushDone
  <2>. QED
    BY <1>8, <2>1 DEF FlushDone, FlushEnd, QueueInv, QueueTypeOK, NoWorkLost
<1>9. ASSUME NEW f \in Flushes, NoHandler(f) PROVE Kept /\ Runs
  <2>1. Runs
    BY <1>9, FlushGoesOn DEF NoHandler
  <2>. QED
    BY <1>1, <1>9, <2>1 DEF NoHandler, Put, GoOn, QueueInv, QueueTypeOK, NoWorkLost
<1>10. ASSUME NEW f \in Flushes, CallHandler(f) PROVE Kept /\ Runs
  <2>1. Runs
    BY <1>10, FlushGoesOn DEF CallHandler
  <2>2. attempts' \in [Entries -> 0..MaxAttempts]
    BY <1>1, <1>10, QueueAssumption DEF CallHandler, QueueInv, QueueTypeOK
  <2>. QED
    BY <1>1, <1>10, <2>1, <2>2 DEF CallHandler, Put, GoOn, QueueInv, QueueTypeOK, NoWorkLost
<1>11. ASSUME NEW f \in Flushes, ServerApplies(f) PROVE Kept /\ Runs
  <2>1. Runs
    BY <1>2, <1>11, FlushGoesOn DEF ServerApplies
  <2>. QED
    BY <1>1, <1>2, <1>11, <2>1 DEF ServerApplies, GoOn, QueueInv, QueueTypeOK, NoWorkLost
<1>12. ASSUME NEW f \in Flushes, HandlerAnswers(f) PROVE Kept /\ Runs
  <2>1. Runs
    BY <1>2, <1>12, FlushGoesOn DEF HandlerAnswers
  <2>2. Current(f) \in applied' \cup dropped'
    BY <1>12 DEF HandlerAnswers, QueueInv, AppliedIsNoted
  <2>. QED
    BY <1>1, <1>2, <1>12, <2>1, <2>2 DEF HandlerAnswers, Put, GoOn, QueueInv, QueueTypeOK, NoWorkLost
<1>13. ASSUME NEW f \in Flushes, HandlerRetries(f) PROVE Kept /\ Runs
  <2>1. Runs
    BY <1>2, <1>13, FlushGoesOn DEF HandlerRetries
  <2>. QED
    BY <1>1, <1>2, <1>13, <2>1 DEF HandlerRetries, Put, GoOn, QueueInv, QueueTypeOK, NoWorkLost
<1>14. ASSUME NEW f \in Flushes, HandlerThrows(f) PROVE Kept /\ Runs
  <2>1. Runs
    BY <1>14, FlushIsOver DEF HandlerThrows
  <2>. QED
    BY <1>14, <2>1 DEF HandlerThrows, FlushEnd, QueueInv, QueueTypeOK, NoWorkLost
<1>15. CASE AppEnds
  BY <1>15 DEF AppEnds, QueueInv, QueueTypeOK, ReplaysQueued, AppliedIsNoted, NoWorkLost, OneFlush,
     FlagIsSet
<1>16. CASE UNCHANGED queueVars
  BY <1>4, <1>16 DEF queueVars, QueueInv, QueueTypeOK, NoWorkLost
<1>. QED
  BY <1>3, <1>5, <1>6, <1>7, <1>8, <1>9, <1>10, <1>11, <1>12, <1>13, <1>14, <1>15, <1>16
     DEF QueueNext, FlushStep

(* The box and the flushes are well formed.                                 *)
THEOREM QueueTypeCorrect == QueueSpec => []QueueTypeOK
<1>1. QueueInv => QueueTypeOK
  BY DEF QueueInv
<1>. QED
  BY <1>1, QueueStart, QueueStep, PTL DEF QueueSpec

(* No mutation is lost, through retries, throwing handlers and restarts.    *)
THEOREM QueueNoWorkLost == QueueSpec => []NoWorkLost
<1>1. QueueInv => NoWorkLost
  BY DEF QueueInv
<1>. QED
  BY <1>1, QueueStart, QueueStep, PTL DEF QueueSpec

(* One flush runs at a time, and the flag is never left set by one that has *)
(* ended.                                                                   *)
THEOREM QueueOneFlush == QueueSpec => []OneFlush
<1>1. QueueInv => OneFlush
  BY DEF QueueInv
<1>. QED
  BY <1>1, QueueStart, QueueStep, PTL DEF QueueSpec

(* The offline queue loses nothing and runs one flush at a time.            *)
THEOREM QueueAlwaysSound == QueueSpec => []QueueIsSound
  BY QueueNoWorkLost, QueueOneFlush, PTL DEF QueueIsSound

-----------------------------------------------------------------------------
(* The rate limiter *)

(* What a bucket gains from one time to another. *)
Gain(from, to) == Rate * (to - from)

(* A gain is a whole number, adds up and is no loss. *)
LEMMA GainFacts ==
    ASSUME NEW a \in Int, NEW b \in Int, NEW c \in Int, b <= c
    PROVE  /\ Gain(a, b) \in Int
           /\ Gain(a, b) + Gain(b, c) = Gain(a, c)
           /\ Gain(a, a) = 0
           /\ Gain(b, c) >= 0
<1>1. Rate \in Nat
  BY LimiterAssumption
<1>2. c - b \in Nat
  OBVIOUS
<1>3. Rate * (c - b) >= 0
  BY <1>1, <1>2
<1>4. Rate * (b - a) + Rate * (c - b) = Rate * (c - a)
  BY <1>1
<1>. QED
  BY <1>1, <1>3, <1>4 DEF Gain

(* A bucket that was thrown away had gained what a full one holds. *)
LEMMA ForgottenIsFull ==
    ASSUME NEW a \in Int, NEW b \in Int, b - a > Forget
    PROVE  Gain(a, b) >= Burst
<1>1. Rate \in Nat /\ Forget \in Nat /\ Burst \in Nat /\ Burst <= Rate * Forget
  BY LimiterAssumption
<1>2. Gain(a, a + Forget) = Rate * Forget
  BY <1>1 DEF Gain
<1>3. a + Forget \in Int /\ a + Forget <= b
  BY <1>1
<1>4. /\ Gain(a, a + Forget) + Gain(a + Forget, b) = Gain(a, b)
      /\ Gain(a + Forget, b) >= 0 /\ Gain(a + Forget, b) \in Int
  <2>1. Gain(a + Forget, b) \in Int
    BY <1>3, GainFacts
  <2>. QED
    BY <2>1, <1>3, GainFacts
<1>. QED
  BY <1>1, <1>2, <1>4

(* Requests were let through up to the last one that was seen, and since    *)
(* each of them no more than the bucket had then and has gained, less what  *)
(* is in it now; a bucket that is gone would be full.                       *)
AdmittedBefore ==
    \A i \in DOMAIN admitted : admitted[i] <= lastSeen

BucketPays ==
    \A i \in DOMAIN admitted :
        IF known
        THEN Len(admitted) - i + 1 + tokens <= Burst + Gain(admitted[i], lastSeen)
        ELSE Len(admitted) - i + 1 <= Gain(admitted[i], clock)

RateKept ==
    \A i, j \in DOMAIN admitted :
        i <= j => j - i + 1 <= Burst + Gain(admitted[i], admitted[j])

LimiterInv == LimiterTypeOK /\ AdmittedBefore /\ BucketPays /\ RateKept

(* Before the first request. *)
LEMMA LimiterStart == LimiterInit => LimiterInv
<1>. SUFFICES ASSUME LimiterInit PROVE LimiterInv
  OBVIOUS
<1>1. DOMAIN admitted = {}
  BY DEF LimiterInit
<1>2. admitted \in Seq(0..clock)
  BY DEF LimiterInit
<1>3. clock \in 0..MaxClock /\ tokens \in 0..Burst /\ lastSeen \in 0..clock
  BY LimiterAssumption DEF LimiterInit
<1>4. known \in BOOLEAN
  BY DEF LimiterInit
<1>5. LimiterTypeOK
  BY <1>2, <1>3, <1>4 DEF LimiterTypeOK
<1>. QED
  BY <1>1, <1>5 DEF LimiterInv, AdmittedBefore, BucketPays, RateKept

(* A request at time t that leaves n tokens is let through. *)
LEMMA RequestAdmitted ==
    ASSUME LimiterInv, known' = TRUE, lastSeen' = clock, clock' = clock,
           admitted' = Append(admitted, clock), tokens' \in 0..(Burst - 1),
           \A i \in DOMAIN admitted :
               Len(admitted) - i + 2 + tokens' <= Burst + Gain(admitted[i], clock)
    PROVE  LimiterInv'
<1>. DEFINE n == Len(admitted)
<1>1. /\ Burst \in Nat /\ clock \in 0..MaxClock /\ lastSeen \in 0..clock
      /\ admitted \in Seq(0..clock) /\ n \in Nat /\ MaxClock \in Nat
      /\ DOMAIN admitted = 1..n
  BY LimiterAssumption DEF LimiterInv, LimiterTypeOK
<1>2. /\ admitted' \in Seq(0..clock) /\ Len(admitted') = n + 1
      /\ DOMAIN admitted' = 1..(n + 1)
      /\ \A i \in 1..n : admitted'[i] = admitted[i] /\ admitted[i] \in 0..clock
      /\ admitted'[n + 1] = clock
  BY <1>1
<1>3. LimiterTypeOK'
  BY <1>1, <1>2 DEF LimiterTypeOK
<1>4. AdmittedBefore'
  BY <1>1, <1>2 DEF AdmittedBefore
<1>5. /\ Gain(clock, clock) = 0
      /\ \A i \in 1..n : Gain(admitted[i], clock) \in Int
      /\ \A i \in 1..n : n - i + 2 + tokens' <= Burst + Gain(admitted[i], clock)
  <2>1. clock \in Int /\ \A i \in 1..n : admitted[i] \in Int
    BY <1>1, <1>2
  <2>2. Gain(clock, clock) = 0
    BY <2>1, GainFacts
  <2>3. ASSUME NEW i \in 1..n PROVE Gain(admitted[i], clock) \in Int
    BY <2>1, LimiterAssumption DEF Gain
  <2>. QED
    BY <1>1, <2>2, <2>3
<1>6. BucketPays'
  <2>. SUFFICES ASSUME NEW i \in 1..(n + 1)
                PROVE  n + 1 - i + 1 + tokens' <= Burst + Gain(admitted'[i], clock)
    BY <1>1, <1>2 DEF BucketPays, Gain
  <2>1. CASE i = n + 1
    BY <2>1, <1>1, <1>2, <1>5
  <2>2. CASE i # n + 1
    <3>1. /\ i \in 1..n /\ admitted'[i] = admitted[i]
          /\ Gain(admitted[i], clock) \in Int
          /\ n - i + 2 + tokens' <= Burst + Gain(admitted[i], clock)
      BY <2>2, <1>1, <1>2, <1>5
    <3>. QED
      BY <3>1, <1>1
  <2>. QED
    BY <2>1, <2>2
<1>7. RateKept'
  <2>. SUFFICES ASSUME NEW i \in 1..(n + 1), NEW j \in 1..(n + 1), i <= j
                PROVE  j - i + 1 <= Burst + Gain(admitted'[i], admitted'[j])
    BY <1>1, <1>2 DEF RateKept, Gain
  <2>1. CASE j # n + 1
    <3>1. i \in 1..n /\ j \in 1..n /\ admitted'[i] = admitted[i] /\ admitted'[j] = admitted[j]
      BY <2>1, <1>1, <1>2
    <3>. QED
      BY <3>1, <1>1 DEF LimiterInv, RateKept
  <2>2. CASE j = n + 1 /\ i # n + 1
    <3>1. /\ i \in 1..n /\ admitted'[i] = admitted[i] /\ admitted'[j] = clock
          /\ Gain(admitted[i], clock) \in Int
          /\ n - i + 2 + tokens' <= Burst + Gain(admitted[i], clock)
      BY <2>2, <1>1, <1>2, <1>5
    <3>. QED
      BY <3>1, <2>2, <1>1
  <2>3. CASE j = n + 1 /\ i = n + 1
    BY <2>3, <1>1, <1>2, <1>5, LimiterAssumption
  <2>. QED
    BY <2>1, <2>2, <2>3
<1>. QED
  BY <1>3, <1>4, <1>6, <1>7 DEF LimiterInv

(* What a refilled bucket holds. *)
LEMMA RefilledIs ==
    ASSUME LimiterInv
    PROVE  /\ Gain(lastSeen, clock) \in Nat
           /\ Refilled \in 0..Burst
           /\ Refilled <= tokens + Gain(lastSeen, clock)
<1>1. /\ tokens \in 0..Burst /\ Burst \in Nat /\ clock \in Int /\ lastSeen \in Int
      /\ lastSeen <= clock
  BY LimiterAssumption DEF LimiterInv, LimiterTypeOK
<1>2. Gain(lastSeen, clock) \in Nat
  <2>1. Gain(lastSeen, clock) \in Int /\ Gain(lastSeen, clock) >= 0
    BY <1>1, GainFacts
  <2>. QED
    BY <2>1
<1>3. Refilled = IF tokens + Gain(lastSeen, clock) > Burst THEN Burst
                 ELSE tokens + Gain(lastSeen, clock)
  BY DEF Refilled, Gain
<1>. QED
  BY <1>1, <1>2, <1>3

(* From the last time the bucket was seen the gains add up. *)
LEMMA PaidSince ==
    ASSUME LimiterInv, NEW i \in DOMAIN admitted
    PROVE  /\ admitted[i] \in Int /\ lastSeen \in Int /\ clock \in Int
           /\ admitted[i] <= lastSeen /\ lastSeen <= clock
           /\ Gain(admitted[i], lastSeen) \in Int
           /\ Gain(admitted[i], clock) = Gain(admitted[i], lastSeen) + Gain(lastSeen, clock)
<1>1. /\ admitted[i] \in Int /\ lastSeen \in Int /\ clock \in Int
      /\ admitted[i] <= lastSeen /\ lastSeen <= clock
  BY LimiterAssumption DEF LimiterInv, LimiterTypeOK, AdmittedBefore
<1>. QED
  BY <1>1, GainFacts, LimiterAssumption DEF Gain

(* The bucket pays for every request, and time and forgetting cost nothing. *)
LEMMA LimiterStep ==
    ASSUME LimiterInv, [LimiterNext]_limiterVars
    PROVE  LimiterInv'
<1>. DEFINE n == Len(admitted)
<1>1. /\ Burst \in Nat \ {0} /\ clock \in 0..MaxClock /\ lastSeen \in 0..clock
      /\ admitted \in Seq(0..clock) /\ n \in Nat /\ MaxClock \in Nat /\ tokens \in 0..Burst
      /\ DOMAIN admitted = 1..n
  BY LimiterAssumption DEF LimiterInv, LimiterTypeOK
<1>2. CASE Tick
  <2>1. clock' = clock + 1 /\ clock' \in 0..MaxClock /\ UNCHANGED <<known, tokens, lastSeen, admitted>>
    BY <1>1, <1>2 DEF Tick
  <2>2. admitted \in Seq(0..clock')
    BY <1>1, <2>1
  <2>3. LimiterTypeOK'
    BY <1>1, <2>1, <2>2 DEF LimiterInv, LimiterTypeOK
  <2>4. BucketPays'
    <3>. SUFFICES ASSUME NEW i \in DOMAIN admitted, ~known
                  PROVE  n - i + 1 <= Gain(admitted[i], clock + 1)
      BY <2>1 DEF LimiterInv, BucketPays, Gain
    <3>1. admitted[i] \in Int /\ clock \in Int
      BY PaidSince
    <3>2. /\ Gain(admitted[i], clock) \in Int /\ Gain(admitted[i], clock + 1) \in Int
          /\ Gain(admitted[i], clock) + Gain(clock, clock + 1) = Gain(admitted[i], clock + 1)
          /\ Gain(clock, clock + 1) >= 0 /\ Gain(clock, clock + 1) \in Int
      BY <3>1, GainFacts, LimiterAssumption DEF Gain
    <3>3. n - i + 1 <= Gain(admitted[i], clock)
      BY DEF LimiterInv, BucketPays
    <3>. QED
      BY <1>1, <3>2, <3>3
  <2>. QED
    BY <2>1, <2>3, <2>4 DEF LimiterInv, AdmittedBefore, RateKept, Gain
<1>3. CASE AllowNew
  <2>1. ASSUME NEW i \in DOMAIN admitted
        PROVE  n - i + 2 + (Burst - 1) <= Burst + Gain(admitted[i], clock)
    <3>1. n - i + 1 <= Gain(admitted[i], clock) /\ Gain(admitted[i], clock) \in Int
      <4>1. Gain(admitted[i], clock) \in Int
        BY PaidSince, RefilledIs
      <4>. QED
        BY <4>1, <1>3 DEF AllowNew, LimiterInv, BucketPays
    <3>. QED
      BY <3>1, <1>1
  <2>2. Burst - 1 \in 0..(Burst - 1)
    BY <1>1
  <2>. QED
    BY <1>3, <2>1, <2>2, RequestAdmitted DEF AllowNew
<1>4. CASE AllowKnown /\ Refilled >= 1
  <2>1. tokens' = Refilled - 1 /\ tokens' \in 0..(Burst - 1)
    <3>1. Refilled \in 0..Burst
      BY RefilledIs
    <3>. QED
      BY <3>1, <1>1, <1>4 DEF AllowKnown
  <2>2. ASSUME NEW i \in DOMAIN admitted
        PROVE  n - i + 2 + tokens' <= Burst + Gain(admitted[i], clock)
    <3>1. n - i + 1 + tokens <= Burst + Gain(admitted[i], lastSeen)
      BY <1>4 DEF AllowKnown, LimiterInv, BucketPays
    <3>2. /\ Refilled \in 0..Burst /\ Refilled <= tokens + Gain(lastSeen, clock)
          /\ Gain(lastSeen, clock) \in Nat
      BY RefilledIs
    <3>3. /\ Gain(admitted[i], lastSeen) \in Int
          /\ Gain(admitted[i], clock) = Gain(admitted[i], lastSeen) + Gain(lastSeen, clock)
      BY PaidSince
    <3>. QED
      BY <2>1, <3>1, <3>2, <3>3, <1>1, SMTT(60)
  <2>3. /\ known' = TRUE /\ lastSeen' = clock /\ clock' = clock
        /\ admitted' = Append(admitted, clock)
    <3>1. known' = TRUE
      BY <1>4 DEF AllowKnown, LimiterInv, LimiterTypeOK
    <3>2. Refilled \in 0..Burst
      BY RefilledIs
    <3>3. lastSeen' = clock /\ clock' = clock
      BY <1>4 DEF AllowKnown
    <3>4. admitted' = Append(admitted, clock)
      <4>1. admitted' = IF Refilled < 1 THEN admitted ELSE Append(admitted, clock)
        BY <1>4 DEF AllowKnown
      <4>2. ~(Refilled < 1)
        BY <3>2, <1>1, <1>4
      <4>. QED
        BY <4>1, <4>2
    <3>. QED
      BY <3>1, <3>3, <3>4
  <2>. QED
    BY <2>1, <2>2, <2>3, RequestAdmitted
<1>5. CASE AllowKnown /\ Refilled < 1
  <2>1. /\ tokens' = Refilled /\ lastSeen' = clock /\ known /\ UNCHANGED <<clock, known, admitted>>
    BY <1>5 DEF AllowKnown
  <2>2. Refilled \in 0..Burst /\ Refilled <= tokens + Gain(lastSeen, clock)
        /\ Gain(lastSeen, clock) \in Nat
    BY RefilledIs
  <2>3. LimiterTypeOK'
    BY <1>1, <2>1, <2>2 DEF LimiterInv, LimiterTypeOK
  <2>4. AdmittedBefore'
    BY <2>1, PaidSince DEF AdmittedBefore
  <2>5. BucketPays'
    <3>. SUFFICES ASSUME NEW i \in DOMAIN admitted
                  PROVE  n - i + 1 + Refilled <= Burst + Gain(admitted[i], clock)
      BY <2>1 DEF BucketPays, Gain
    <3>1. n - i + 1 + tokens <= Burst + Gain(admitted[i], lastSeen)
      BY <2>1 DEF LimiterInv, BucketPays
    <3>2. /\ Gain(admitted[i], lastSeen) \in Int
          /\ Gain(admitted[i], clock) = Gain(admitted[i], lastSeen) + Gain(lastSeen, clock)
      BY PaidSince
    <3>. QED
      BY <2>2, <3>1, <3>2, <1>1, SMTT(60)
  <2>. QED
    BY <2>1, <2>3, <2>4, <2>5 DEF LimiterInv, RateKept, Gain
<1>6. CASE Cleanup
  <2>1. known /\ ~known' /\ clock - lastSeen > Forget /\ UNCHANGED <<clock, tokens, lastSeen, admitted>>
    BY <1>6 DEF Cleanup, LimiterInv, LimiterTypeOK
  <2>2. LimiterTypeOK'
    BY <1>6, <2>1 DEF Cleanup, LimiterInv, LimiterTypeOK
  <2>3. BucketPays'
    <3>. SUFFICES ASSUME NEW i \in DOMAIN admitted
                  PROVE  n - i + 1 <= Gain(admitted[i], clock)
      BY <2>1 DEF BucketPays, Gain
    <3>1. n - i + 1 + tokens <= Burst + Gain(admitted[i], lastSeen)
      BY <2>1 DEF LimiterInv, BucketPays
    <3>2. /\ Gain(admitted[i], lastSeen) \in Int
          /\ Gain(admitted[i], clock) = Gain(admitted[i], lastSeen) + Gain(lastSeen, clock)
      BY PaidSince
    <3>3. Gain(lastSeen, clock) >= Burst /\ Gain(lastSeen, clock) \in Nat
      BY <1>1, <2>1, ForgottenIsFull, RefilledIs
    <3>. QED
      BY <3>1, <3>2, <3>3, <1>1
  <2>. QED
    BY <2>1, <2>2, <2>3 DEF LimiterInv, AdmittedBefore, RateKept, Gain
<1>7. CASE UNCHANGED limiterVars
  BY <1>7 DEF limiterVars, LimiterInv, LimiterTypeOK, AdmittedBefore, BucketPays, RateKept, Gain
<1>8. Refilled >= 1 \/ Refilled < 1
  <2>1. Refilled \in 0..Burst
    BY RefilledIs
  <2>. QED
    BY <2>1, <1>1
<1>. QED
  BY <1>2, <1>3, <1>4, <1>5, <1>6, <1>7, <1>8 DEF LimiterNext

(* A bucket is never overfull nor overdrawn, whatever the rate and burst.   *)
THEOREM LimiterTypeCorrect == LimiterSpec => []LimiterTypeOK
<1>1. LimiterInv => LimiterTypeOK
  BY DEF LimiterInv
<1>. QED
  BY <1>1, LimiterStart, LimiterStep, PTL DEF LimiterSpec

(* No interval lets through more than a full bucket and what it gains in    *)
(* that time, also when buckets are thrown away and filled anew: for every  *)
(* rate, burst and time to forget that the assumption admits.               *)
THEOREM LimiterKeepsRate == LimiterSpec => []RateIsKept
<1>1. LimiterInv => RateIsKept
  BY DEF LimiterInv, RateKept, RateIsKept, Gain
<1>. QED
  BY <1>1, LimiterStart, LimiterStep, PTL DEF LimiterSpec

-----------------------------------------------------------------------------
(* The review of a route *)

(* How many events lead to a status. *)
Depth(reviewed) ==
    IF reviewed = "draft" THEN 1 ELSE IF reviewed = "engineering_review" THEN 2 ELSE 3

(* What holds of the stored row holds of every copy that may be written     *)
(* back as well, which is why it survives calls that overlap.               *)
RowTells(row) ==
    /\ row \in RouteRows
    /\ row.status # "deleted"
    /\ row.events = << >> => row.status = "draft" /\ ~row.traceable
    /\ row.events # << >> => /\ Len(row.events) = Depth(row.status)
                             /\ row.events[Len(row.events)].to = row.status
    /\ EventsJoin(row.events)
    /\ row.certifiedBy # NoReviewer <=> row.status = "approved"
    /\ row.status = "approved" => /\ row.certifiedBy = row.events[Len(row.events)].actor
                                  /\ row.approvedBy = row.events[Len(row.events)].actor

GovernanceInv ==
    /\ GovernanceTypeOK
    /\ route.status = "deleted" \/ RowTells(route)
    /\ \A a \in Reviewers :
          decided[a] # "none" => RowTells(holding[a]) /\ holding[a].status = decided[a]

(* A new row and one from before the columns. *)
LEMMA GovernanceStart == GovernanceInit => GovernanceInv
<1>. SUFFICES ASSUME GovernanceInit PROVE GovernanceInv
  OBVIOUS
<1>. DEFINE first == Event("", "draft", NoReviewer)
<1>1. first \in RouteEvents /\ first.to = "draft"
  BY DEF Event, RouteEvents, Stages
<1>2. /\ <<first>> \in Seq(RouteEvents) /\ << >> \in Seq(RouteEvents)
      /\ Len(<<first>>) = 1 /\ <<first>>[1] = first /\ <<first>> # << >>
  <2>. HIDE DEF first
  <2>. QED
    BY <1>1
<1>3. NewRoute \in RouteRows /\ OldRoute \in RouteRows /\ DeletedRoute \in RouteRows
  BY <1>2 DEF NewRoute, OldRoute, DeletedRoute, RouteRow, RouteRows, Stages
<1>4. RowTells(NewRoute)
  <2>1. /\ NewRoute.status = "draft" /\ NewRoute.events = <<first>>
        /\ NewRoute.certifiedBy = NoReviewer
    BY DEF NewRoute, RouteRow
  <2>2. EventsJoin(<<first>>)
    <3>. HIDE DEF first
    <3>. QED
      BY <1>2 DEF EventsJoin
  <2>. HIDE DEF first
  <2>. QED
    BY <1>1, <1>2, <1>3, <2>1, <2>2 DEF RowTells, Depth
<1>5. RowTells(OldRoute)
  BY <1>3 DEF RowTells, OldRoute, RouteRow, EventsJoin
<1>. QED
  BY <1>3, <1>4, <1>5 DEF GovernanceInit, GovernanceInv, GovernanceTypeOK

(* A decision taken on a row that is as it should be gives such a row. *)
LEMMA DecidedTells ==
    ASSUME NEW row, RowTells(row), NEW a \in Reviewers, NEW to \in Stages,
           \/ row.traceable /\ row.status = "draft" /\ to = "engineering_review"
           \/ row.status = "engineering_review" /\ to \in {"approved", "rejected"}
    PROVE  RowTells(Decided(row, to, a)) /\ Decided(row, to, a).status = to
<1>. DEFINE n == Len(row.events)
            new == Event(row.status, to, a)
            after == Decided(row, to, a)
<1>1. row \in RouteRows /\ row.events \in Seq(RouteEvents) /\ n \in Nat /\ n > 0
      /\ row.events # << >>
  BY DEF RowTells, RouteRows
<1>2. new \in RouteEvents /\ new.from = row.status /\ new.to = to /\ new.actor = a
  BY <1>1 DEF Event, RouteEvents, Stages
<1>3. /\ after.events = Append(row.events, new) /\ after.status = to
      /\ after.certifiedBy = IF to = "approved" THEN a ELSE row.certifiedBy
      /\ after.approvedBy = IF to = "approved" THEN a ELSE row.approvedBy
      /\ after.traceable = row.traceable
      /\ after \in [status : Stages \cup {"deleted"}, events : Seq(RouteEvents),
                    approvedBy : Reviewers \cup {NoReviewer},
                    certifiedBy : Reviewers \cup {NoReviewer}, traceable : BOOLEAN]
  <2>1. /\ after = [row EXCEPT !.status = to, !.events = Append(@, new),
                               !.approvedBy = IF to = "approved" THEN a ELSE @,
                               !.certifiedBy = IF to = "approved" THEN a ELSE @]
    BY DEF Decided
  <2>2. Append(row.events, new) \in Seq(RouteEvents)
    BY <1>1, <1>2
  <2>. HIDE DEF after, new
  <2>. QED
    BY <1>1, <2>1, <2>2 DEF RouteRows
<1>4. /\ Len(after.events) = n + 1 /\ after.events[n + 1] = new
      /\ \A i \in 1..n : after.events[i] = row.events[i]
      /\ after.events # << >>
  BY <1>1, <1>2, <1>3
<1>5. Len(after.events) = Depth(to)
  BY <1>1, <1>4 DEF RowTells, Depth
<1>6. EventsJoin(after.events)
  <2>. SUFFICES ASSUME NEW i \in 1..(n + 1), i > 1
                PROVE  after.events[i].from = after.events[i - 1].to
    BY <1>1, <1>2, <1>3 DEF EventsJoin
  <2>1. CASE i = n + 1
    BY <2>1, <1>1, <1>2, <1>4 DEF RowTells
  <2>2. CASE i # n + 1
    <3>1. i \in 1..n /\ i - 1 \in 1..n
      BY <2>2, <1>1
    <3>2. row.events[i].from = row.events[i - 1].to
      BY <3>1, <1>1 DEF RowTells, EventsJoin
    <3>. QED
      BY <3>1, <3>2, <1>4
  <2>. QED
    BY <2>1, <2>2
<1>7. /\ after.certifiedBy # NoReviewer <=> to = "approved"
      /\ to = "approved" => after.certifiedBy = new.actor /\ after.approvedBy = new.actor
  BY <1>2, <1>3, GovernanceAssumption DEF RowTells
<1>8. after \in RouteRows /\ after.status # "deleted"
  BY <1>3 DEF RouteRows, Stages
<1>9. after.events[Len(after.events)] = new
  BY <1>4
<1>. HIDE DEF after, new, n
<1>10. RowTells(after)
  BY <1>2, <1>3, <1>4, <1>5, <1>6, <1>7, <1>8, <1>9 DEF RowTells
<1>. QED
  BY <1>3, <1>10 DEF after

(* A call that passes its checks holds a good copy. *)
LEMMA ReadRouteKeeps ==
    ASSUME GovernanceInv, NEW a \in Reviewers, NEW from, NEW to \in Stages, ReadRoute(a, from, to),
           \/ route.traceable /\ from = "draft" /\ to = "engineering_review"
           \/ from = "engineering_review" /\ to \in {"approved", "rejected"}
    PROVE  GovernanceInv'
<1>1. /\ RowTells(route) /\ route.status = from /\ route' = route
      /\ holding' = [holding EXCEPT ![a] = Decided(route, to, a)]
      /\ decided' = [decided EXCEPT ![a] = to]
  BY DEF GovernanceInv, ReadRoute
<1>2. RowTells(Decided(route, to, a)) /\ Decided(route, to, a).status = to
  BY <1>1, DecidedTells
<1>3. GovernanceTypeOK'
  BY <1>1, <1>2 DEF GovernanceInv, GovernanceTypeOK, RowTells
<1>4. ASSUME NEW b \in Reviewers, decided'[b] # "none"
      PROVE  RowTells(holding'[b]) /\ holding'[b].status = decided'[b]
  <2>1. CASE b = a
    BY <2>1, <1>1, <1>2 DEF GovernanceInv, GovernanceTypeOK
  <2>2. CASE b # a
    BY <2>2, <1>1, <1>4 DEF GovernanceInv, GovernanceTypeOK
  <2>. QED
    BY <2>1, <2>2
<1>. QED
  BY <1>1, <1>3, <1>4 DEF GovernanceInv

(* A call that ends, having left a row that is as it should be. *)
LEMMA CallGone ==
    ASSUME GovernanceInv, NEW a \in Reviewers,
           holding' = [holding EXCEPT ![a] = DeletedRoute],
           decided' = [decided EXCEPT ![a] = "none"],
           route' \in RouteRows, route'.status = "deleted" \/ RowTells(route')
    PROVE  GovernanceInv'
<1>1. DeletedRoute \in RouteRows
  <2>. DEFINE first == Event("", "draft", NoReviewer)
  <2>1. first \in RouteEvents
    BY DEF Event, RouteEvents, Stages
  <2>2. <<first>> \in Seq(RouteEvents)
    <3>. HIDE DEF first
    <3>. QED
      BY <2>1
  <2>. QED
    BY <2>2 DEF DeletedRoute, NewRoute, RouteRow, RouteRows, Stages
<1>2. GovernanceTypeOK'
  BY <1>1 DEF GovernanceInv, GovernanceTypeOK
<1>3. ASSUME NEW b \in Reviewers, decided'[b] # "none"
      PROVE  RowTells(holding'[b]) /\ holding'[b].status = decided'[b]
  <2>1. b # a
    BY <1>3 DEF GovernanceInv, GovernanceTypeOK
  <2>. QED
    BY <2>1, <1>3 DEF GovernanceInv, GovernanceTypeOK
<1>. QED
  BY <1>2, <1>3 DEF GovernanceInv

(* What an UPDATE leaves: the copy but for the column, which the other      *)
(* statements do not name.                                                  *)
LEMMA WriteTells ==
    ASSUME GovernanceInv, NEW a \in Reviewers, WriteRoute(a)
    PROVE  /\ route' \in RouteRows
           /\ route'.status = "deleted" \/ RowTells(route')
           /\ route' = route \/ route'.events = holding[a].events
<1>1. CASE route.status = "deleted"
  BY <1>1 DEF WriteRoute, GovernanceInv, GovernanceTypeOK
<1>2. CASE route.status # "deleted"
  <2>. DEFINE column == IF decided[a] = "approved" THEN holding[a].approvedBy ELSE route.approvedBy
  <2>1. /\ route' = [holding[a] EXCEPT !.approvedBy = column]
        /\ RowTells(holding[a]) /\ holding[a].status = decided[a]
    BY <1>2 DEF WriteRoute, GovernanceInv
  <2>2. column \in Reviewers \cup {NoReviewer} /\ holding[a] \in RouteRows
    BY DEF GovernanceInv, GovernanceTypeOK, RouteRows
  <2>3. decided[a] = "approved" => column = holding[a].approvedBy
    OBVIOUS
  <2>. HIDE DEF column
  <2>4. /\ route'.status = holding[a].status /\ route'.events = holding[a].events
        /\ route'.certifiedBy = holding[a].certifiedBy /\ route'.approvedBy = column
        /\ route'.traceable = holding[a].traceable /\ route' \in RouteRows
    BY <2>1, <2>2 DEF RouteRows
  <2>. QED
    BY <2>1, <2>3, <2>4 DEF RowTells
<1>. QED
  BY <1>1, <1>2

(* Calls that overlap write over each other's decisions, but always a row   *)
(* that tells its own story.                                                *)
LEMMA GovernanceStep ==
    ASSUME GovernanceInv, [GovernanceNext]_governanceVars
    PROVE  GovernanceInv'
<1>1. ASSUME NEW a \in Reviewers, SubmitForReview(a) PROVE GovernanceInv'
  BY <1>1, ReadRouteKeeps DEF SubmitForReview, Stages
<1>2. ASSUME NEW a \in Reviewers, Approve(a) PROVE GovernanceInv'
  BY <1>2, ReadRouteKeeps DEF Approve, Stages
<1>3. ASSUME NEW a \in Reviewers, Reject(a) PROVE GovernanceInv'
  BY <1>3, ReadRouteKeeps DEF Reject, Stages
<1>4. ASSUME NEW a \in Reviewers, WriteRoute(a) PROVE GovernanceInv'
  <2>1. /\ route' \in RouteRows
        /\ route'.status = "deleted" \/ RowTells(route')
    BY <1>4, WriteTells
  <2>2. /\ holding' = [holding EXCEPT ![a] = DeletedRoute]
        /\ decided' = [decided EXCEPT ![a] = "none"]
    BY <1>4 DEF WriteRoute
  <2>. QED
    BY <2>1, <2>2, CallGone
<1>5. ASSUME NEW a \in Reviewers, DropCall(a) PROVE GovernanceInv'
  <2>1. /\ route' \in RouteRows
        /\ route'.status = "deleted" \/ RowTells(route')
    BY <1>5 DEF DropCall, GovernanceInv, GovernanceTypeOK
  <2>2. /\ holding' = [holding EXCEPT ![a] = DeletedRoute]
        /\ decided' = [decided EXCEPT ![a] = "none"]
    BY <1>5 DEF DropCall
  <2>. QED
    BY <2>1, <2>2, CallGone
<1>6. CASE DeleteRoute
  <2>1. /\ route'.status = "deleted" /\ route' \in RouteRows
        /\ UNCHANGED <<holding, decided>>
    <3>1. route' = DeletedRoute /\ UNCHANGED <<holding, decided>>
      BY <1>6 DEF DeleteRoute
    <3>. DEFINE first == Event("", "draft", NoReviewer)
    <3>2. first \in RouteEvents
      BY DEF Event, RouteEvents, Stages
    <3>3. <<first>> \in Seq(RouteEvents)
      <4>. HIDE DEF first
      <4>. QED
        BY <3>2
    <3>. QED
      BY <3>1, <3>3 DEF DeletedRoute, NewRoute, RouteRow, RouteRows, Stages
  <2>. QED
    BY <2>1 DEF GovernanceInv, GovernanceTypeOK
<1>7. CASE UNCHANGED governanceVars
  BY <1>7 DEF governanceVars, GovernanceInv, GovernanceTypeOK
<1>. QED
  BY <1>1, <1>2, <1>3, <1>4, <1>5, <1>6, <1>7 DEF GovernanceNext, ReviewStep

(* The stored row and the copies the calls hold keep their types. *)
THEOREM GovernanceTypeCorrect == GovernanceSpec => []GovernanceTypeOK
<1>1. GovernanceInv => GovernanceTypeOK
  BY DEF GovernanceInv
<1>. QED
  BY <1>1, GovernanceStart, GovernanceStep, PTL DEF GovernanceSpec

(* For every number of reviewers the event stream is one path that ends in  *)
(* the status, and names who approved.                                      *)
THEOREM EventsAlwaysTell == GovernanceSpec => []EventsTellStatus
<1>1. GovernanceInv => EventsTellStatus
  BY DEF GovernanceInv, EventsTellStatus, RowTells
<1>. QED
  BY <1>1, GovernanceStart, GovernanceStep, PTL DEF GovernanceSpec

(* What DecisionsStand says of a step. *)
Stands ==
    \/ route.status \notin {"approved", "rejected"}
    \/ route'.status = "deleted"
    \/ \E a \in Reviewers : decided[a] # "none" /\ route'.events = holding[a].events
                            /\ Len(holding[a].events) <= Len(route.events)

(* A decision is undone only by a call that holds an older copy: the copy's *)
(* events are no more than those of a decided route, which are three.       *)
LEMMA StepStands ==
    ASSUME GovernanceInv, [GovernanceNext]_governanceVars
    PROVE  [Stands]_route
<1>. SUFFICES ASSUME route.status \in {"approved", "rejected"}, route' # route PROVE Stands
  BY DEF Stands
<1>1. ASSUME NEW a \in Reviewers, WriteRoute(a) PROVE Stands
  <2>1. route'.events = holding[a].events
    BY <1>1, WriteTells
  <2>2. decided[a] # "none" /\ RowTells(holding[a]) /\ holding[a].status = decided[a]
    BY <1>1 DEF WriteRoute, GovernanceInv
  <2>3. route.events # << >> /\ Len(route.events) = 3
    BY DEF GovernanceInv, RowTells, Depth
  <2>4. Len(holding[a].events) <= 3
    <3>1. CASE holding[a].events = << >>
      BY <3>1
    <3>2. CASE holding[a].events # << >>
      BY <2>2, <3>2 DEF RowTells, Depth
    <3>. QED
      BY <3>1, <3>2
  <2>. QED
    BY <2>1, <2>2, <2>3, <2>4 DEF Stands
<1>2. CASE DeleteRoute
  BY <1>2 DEF DeleteRoute, Stands, DeletedRoute, NewRoute, RouteRow
<1>3. ASSUME NEW a \in Reviewers, SubmitForReview(a) \/ Approve(a) \/ Reject(a) \/ DropCall(a)
      PROVE  Stands
  BY <1>3 DEF SubmitForReview, Approve, Reject, DropCall, ReadRoute
<1>4. CASE UNCHANGED governanceVars
  BY <1>4 DEF governanceVars
<1>. QED
  BY <1>1, <1>2, <1>3, <1>4 DEF GovernanceNext, ReviewStep

(* A decision stands unless the route is deleted or written over by a call  *)
(* that read it before the decision.                                        *)
THEOREM DecisionsAlwaysStand == GovernanceSpec => DecisionsStand
<1>1. GovernanceSpec => [][Stands]_route
  BY GovernanceStart, GovernanceStep, StepStands, PTL DEF GovernanceSpec
<1>. QED
  BY <1>1 DEF DecisionsStand, Stands

-----------------------------------------------------------------------------
(* The model registry *)

(* A run on its way has no version yet, and one about to be completed has:  *)
(* a version is created once, and never one that is deployed already.       *)
TrainingShape ==
    \A m \in Models :
        /\ run[m] = "none" => version[m] = "none"
        /\ training[m] \in {"running", "metrics", "version"} => run[m] # "none" /\ version[m] = "none"
        /\ training[m] = "version" => m \in named
        /\ training[m] = "completed" => version[m] # "none"

HasVersion(m) == m \in Models /\ version[m] # "none"

(* A call knows models that exist and, unless it rolls back, its deployment. *)
CallShape ==
    \A c \in Deployers :
        /\ doing[c].at # "idle" => HasVersion(doing[c].model)
        /\ doing[c].previous # NoModel => HasVersion(doing[c].previous)
        /\ doing[c].at \in {"read", "set", "promote", "champion", "archive"} =>
               /\ doing[c].deployment \in DOMAIN deployments
               /\ deployments[doing[c].deployment].model = doing[c].model
        /\ doing[c].at = "rollback" => doing[c].previous = doing[c].model
        /\ doing[c].at = "archive" => doing[c].previous # NoModel

ActiveShape ==
    /\ active.current # NoModel => HasVersion(active.current)
    /\ active.previous # NoModel => HasVersion(active.previous)
    /\ active.current # NoModel =>
           \/ active.current = active.previous
           \/ /\ active.deployment \in DOMAIN deployments
              /\ deployments[active.deployment].model = active.current

Settled == \A m \in Models : version[m] = "champion" <=> m = active.current

(* As long as nothing disturbs a deployment, the champions are the model in *)
(* use and, between two of its statements, the one before.                  *)
QuietDeployment ==
    ~disturbed =>
        /\ \A c, d \in Deployers : c # d => doing[c].at = "idle" \/ doing[d].at = "idle"
        /\ (\A c \in Deployers : doing[c].at \in {"idle", "read", "set"}) => Settled
        /\ \A c \in Deployers :
              /\ doing[c].at # "rollback"
              /\ doing[c].at \in {"read"} => doing[c].previous = NoModel
              /\ doing[c].at = "set" =>
                     doing[c].previous = IF active.current = doing[c].model THEN NoModel
                                         ELSE active.current
              /\ doing[c].at \in {"promote", "champion", "archive"} =>
                     /\ active.current = doing[c].model
                     /\ doing[c].previous # doing[c].model
                     /\ \A m \in Models : version[m] = "champion" =>
                                              m \in {doing[c].model, doing[c].previous}
              /\ doing[c].at = "archive" => version[doing[c].model] = "champion"

RegistryInv ==
    /\ RegistryTypeOK /\ TrainingShape /\ CompletedHasModel /\ RunsAreAttended
    /\ CallShape /\ ActiveShape /\ QuietDeployment

(* At a start of the service. *)
LEMMA RegistryStart == RegistryInit => RegistryInv
<1>. SUFFICES ASSUME RegistryInit PROVE RegistryInv
  OBVIOUS
<1>1. named \subseteq Models /\ NoModel \notin Models
  BY RegistryAssumption DEF RegistryInit
<1>2. /\ deployments = << >> /\ Len(deployments) = 0
      /\ deployments \in Seq([model : Models, status : {"canary", "active"}])
  BY DEF RegistryInit
<1>3. RegistryTypeOK
  <2>1. /\ active \in [current : Models \cup {NoModel}, previous : Models \cup {NoModel},
                       deployment : 0..Len(deployments)]
    BY <1>2 DEF RegistryInit, Active
  <2>2. Idle \in [at : {"idle", "read", "set", "promote", "champion", "archive", "rollback"},
                  model : Models \cup {NoModel}, previous : Models \cup {NoModel},
                  deployment : 0..Len(deployments)]
    BY <1>2 DEF Idle, Doing
  <2>3. /\ run \in [Models -> {"none", "queued", "running", "completed", "failed"}]
        /\ version \in [Models -> {"none", "candidate", "champion", "archived"}]
        /\ training \in [Models -> {"none", "running", "metrics", "version", "completed", "failed"}]
        /\ named \subseteq Models /\ interrupted \subseteq Models /\ disturbed \in BOOLEAN
    BY <1>1 DEF RegistryInit
  <2>. QED
    BY <1>2, <2>1, <2>2, <2>3 DEF RegistryInit, RegistryTypeOK
<1>4. TrainingShape /\ CompletedHasModel /\ RunsAreAttended
  BY <1>1 DEF RegistryInit, TrainingShape, CompletedHasModel, RunsAreAttended
<1>5. CallShape /\ ActiveShape
  BY DEF RegistryInit, CallShape, ActiveShape, Active, Idle, Doing
<1>6. QuietDeployment
  BY <1>1 DEF RegistryInit, QuietDeployment, Settled, Active, Idle, Doing
<1>. QED
  BY <1>3, <1>4, <1>5, <1>6 DEF RegistryInv

(* The calls and the active model keep what they know when a version is     *)
(* added, and the champions are the same.                                   *)
LEMMA VersionAdded ==
    ASSUME RegistryInv, UNCHANGED deployVars, RegistryTypeOK',
           \A m \in Models : \/ version'[m] = version[m]
                             \/ version[m] = "none" /\ version'[m] = "candidate"
    PROVE  CallShape' /\ ActiveShape' /\ QuietDeployment'
<1>. USE DEF RegistryInv, deployVars
<1>1. \A m \in Models : /\ version[m] # "none" => version'[m] # "none"
                        /\ version'[m] = "champion" <=> version[m] = "champion"
  OBVIOUS
<1>2. CallShape' /\ ActiveShape'
  BY <1>1 DEF CallShape, ActiveShape, HasVersion
<1>3. QuietDeployment'
  <2>1. \A c \in Deployers : doing[c].at = "archive" => doing[c].model \in Models
    BY DEF CallShape, HasVersion
  <2>. QED
    BY <1>1, <2>1 DEF QuietDeployment, Settled
<1>. QED
  BY <1>2, <1>3

(* A statement of a training run, whatever its answer.                      *)
LEMMA TrainingKeeps ==
    ASSUME RegistryInv, NEW m \in Models, TrainingStep(m)
    PROVE  RegistryInv'
<1>1. UNCHANGED deployVars
  BY DEF TrainingStep, StartTraining, MarkRunning, RecordMetrics, CreateVersion, FinishRun
<1>2. CASE StartTraining(m)
  <2>1. RegistryTypeOK'
    BY <1>2, <1>1 DEF StartTraining, Interrupted, deployVars, RegistryInv, RegistryTypeOK
  <2>2. TrainingShape' /\ CompletedHasModel' /\ RunsAreAttended'
    BY <1>2 DEF StartTraining, Interrupted, RegistryInv, RegistryTypeOK, TrainingShape, CompletedHasModel, RunsAreAttended
  <2>3. \A o \in Models : version'[o] = version[o]
    BY <1>2 DEF StartTraining
  <2>4. CallShape' /\ ActiveShape' /\ QuietDeployment'
    BY <1>1, <2>1, <2>3, VersionAdded
  <2>. QED
    BY <2>1, <2>2, <2>4 DEF RegistryInv
<1>3. CASE MarkRunning(m)
  <2>1. RegistryTypeOK'
    BY <1>3, <1>1 DEF MarkRunning, WriteRun, Interrupted, Answers, Applied, deployVars, RegistryInv, RegistryTypeOK
  <2>2. TrainingShape' /\ CompletedHasModel' /\ RunsAreAttended'
    BY <1>3 DEF MarkRunning, WriteRun, Interrupted, Answers, Applied, RegistryInv, RegistryTypeOK, TrainingShape,
                CompletedHasModel, RunsAreAttended
  <2>3. \A o \in Models : version'[o] = version[o]
    BY <1>3 DEF MarkRunning
  <2>4. CallShape' /\ ActiveShape' /\ QuietDeployment'
    BY <1>1, <2>1, <2>3, VersionAdded
  <2>. QED
    BY <2>1, <2>2, <2>4 DEF RegistryInv
<1>4. CASE RecordMetrics(m)
  <2>1. RegistryTypeOK'
    BY <1>4, <1>1 DEF RecordMetrics, WriteRun, Answers, Applied, deployVars, RegistryInv, RegistryTypeOK
  <2>2. TrainingShape' /\ CompletedHasModel' /\ RunsAreAttended'
    BY <1>4 DEF RecordMetrics, WriteRun, Answers, Applied, RegistryInv, RegistryTypeOK, TrainingShape,
                CompletedHasModel, RunsAreAttended
  <2>3. \A o \in Models : version'[o] = version[o]
    BY <1>4 DEF RecordMetrics
  <2>4. CallShape' /\ ActiveShape' /\ QuietDeployment'
    BY <1>1, <2>1, <2>3, VersionAdded
  <2>. QED
    BY <2>1, <2>2, <2>4 DEF RegistryInv
<1>5. CASE CreateVersion(m)
  <2>1. RegistryTypeOK'
    BY <1>5, <1>1 DEF CreateVersion, Answers, Applied, deployVars, RegistryInv, RegistryTypeOK
  <2>2. TrainingShape' /\ CompletedHasModel' /\ RunsAreAttended'
    BY <1>5 DEF CreateVersion, Answers, Applied, RegistryInv, RegistryTypeOK, TrainingShape,
                CompletedHasModel, RunsAreAttended
  <2>3. \A o \in Models : \/ version'[o] = version[o]
                          \/ version[o] = "none" /\ version'[o] = "candidate"
    <3>1. PICK answer \in Answers :
              version' = IF Applied(answer) THEN [version EXCEPT ![m] = "candidate"] ELSE version
      BY <1>5 DEF CreateVersion
    <3>2. version[m] = "none"
      BY <1>5 DEF CreateVersion, RegistryInv, TrainingShape
    <3>3. version \in [Models -> {"none", "candidate", "champion", "archived"}]
      BY DEF RegistryInv, RegistryTypeOK
    <3>4. CASE Applied(answer)
      BY <3>1, <3>2, <3>3, <3>4
    <3>5. CASE ~Applied(answer)
      BY <3>1, <3>5
    <3>. QED
      BY <3>4, <3>5
  <2>4. CallShape' /\ ActiveShape' /\ QuietDeployment'
    BY <1>1, <2>1, <2>3, VersionAdded
  <2>. QED
    BY <2>1, <2>2, <2>4 DEF RegistryInv
<1>6. CASE FinishRun(m)
  <2>1. RegistryTypeOK'
    BY <1>6, <1>1 DEF FinishRun, WriteRun, Interrupted, Answers, Applied, deployVars, RegistryInv, RegistryTypeOK
  <2>2. TrainingShape' /\ CompletedHasModel' /\ RunsAreAttended'
    BY <1>6 DEF FinishRun, WriteRun, Interrupted, Answers, Applied, RegistryInv, RegistryTypeOK, TrainingShape,
                CompletedHasModel, RunsAreAttended
  <2>3. \A o \in Models : version'[o] = version[o]
    BY <1>6 DEF FinishRun
  <2>4. CallShape' /\ ActiveShape' /\ QuietDeployment'
    BY <1>1, <2>1, <2>3, VersionAdded
  <2>. QED
    BY <2>1, <2>2, <2>4 DEF RegistryInv
<1>. QED
  BY <1>2, <1>3, <1>4, <1>5, <1>6 DEF TrainingStep

(* The part of a deployment's step that is the same for all: training goes  *)
(* on as it was.                                                            *)
LEMMA TrainingUntouched ==
    ASSUME RegistryInv, UNCHANGED <<run, named, training, interrupted>>,
           version' \in [Models -> {"none", "candidate", "champion", "archived"}],
           \A m \in Models : version'[m] = "none" <=> version[m] = "none"
    PROVE  TrainingShape' /\ CompletedHasModel' /\ RunsAreAttended'
BY DEF RegistryInv, TrainingShape, CompletedHasModel, RunsAreAttended

(* What a call has in hand exists. *)
LEMMA CallTypes ==
    ASSUME RegistryInv, NEW c \in Deployers
    PROVE  /\ doing[c].at \in {"idle", "read", "set", "promote", "champion", "archive", "rollback"}
           /\ doing[c].model \in Models \cup {NoModel} /\ doing[c].previous \in Models \cup {NoModel}
           /\ doing[c].deployment \in 0..Len(deployments) /\ Len(deployments) \in Nat
           /\ doing[c].at # "idle" => doing[c].model \in Models /\ doing[c].model # NoModel
BY RegistryAssumption DEF RegistryInv, RegistryTypeOK, CallShape, HasVersion

(* A deployment's row, and at full traffic a call that goes on with it. *)
LEMMA DeployKeeps ==
    ASSUME RegistryInv, NEW c \in Deployers, NEW m \in Models, NEW full \in BOOLEAN,
           DeployModelVersion(c, m, full)
    PROVE  RegistryInv'
<1>. DEFINE n == Len(deployments)
            row == [model |-> m, status |-> "canary"]
            made == Doing("read", m, NoModel, n + 1)
<1>1. /\ doing[c].at = "idle" /\ version[m] # "none"
      /\ deployments' = Append(deployments, row)
      /\ doing' = IF full THEN [doing EXCEPT ![c] = made] ELSE doing
      /\ disturbed' = (disturbed \/ (full /\ Overlaps(c)))
      /\ UNCHANGED <<active, version, run, named, training, interrupted>>
  BY DEF DeployModelVersion, trainingVars
<1>2. /\ deployments \in Seq([model : Models, status : {"canary", "active"}])
      /\ n \in Nat /\ DOMAIN deployments = 1..n
      /\ row \in [model : Models, status : {"canary", "active"}] /\ row.model = m
  BY DEF RegistryInv, RegistryTypeOK
<1>3. /\ deployments' \in Seq([model : Models, status : {"canary", "active"}])
      /\ Len(deployments') = n + 1 /\ DOMAIN deployments' = 1..(n + 1)
      /\ \A i \in 1..n : deployments'[i] = deployments[i]
      /\ deployments'[n + 1] = row
  <2>. HIDE DEF row
  <2>. QED
    BY <1>1, <1>2
<1>4. /\ made.at = "read" /\ made.model = m /\ made.previous = NoModel /\ made.deployment = n + 1
      /\ made \in [at : {"idle", "read", "set", "promote", "champion", "archive", "rollback"},
                   model : Models \cup {NoModel}, previous : Models \cup {NoModel},
                   deployment : 0..(n + 1)]
  BY <1>2 DEF Doing
<1>. HIDE DEF row, made
<1>5. RegistryTypeOK'
  <2>1. active \in [current : Models \cup {NoModel}, previous : Models \cup {NoModel},
                    deployment : 0..(n + 1)]
    BY <1>2 DEF RegistryInv, RegistryTypeOK
  <2>2. doing' \in [Deployers -> [at : {"idle", "read", "set", "promote", "champion", "archive",
                                        "rollback"},
                                  model : Models \cup {NoModel}, previous : Models \cup {NoModel},
                                  deployment : 0..(n + 1)]]
    BY <1>1, <1>2, <1>4 DEF RegistryInv, RegistryTypeOK
  <2>3. disturbed' \in BOOLEAN
    BY <1>1 DEF Overlaps, RegistryInv, RegistryTypeOK
  <2>. HIDE DEF n
  <2>. QED
    BY <1>1, <1>3, <2>1, <2>2, <2>3 DEF RegistryInv, RegistryTypeOK
<1>6. TrainingShape' /\ CompletedHasModel' /\ RunsAreAttended'
  BY <1>1 DEF RegistryInv, TrainingShape, CompletedHasModel, RunsAreAttended
<1>7. CallShape'
  <2>. SUFFICES ASSUME NEW d \in Deployers
                PROVE  /\ doing'[d].at # "idle" => HasVersion(doing'[d].model)
                       /\ doing'[d].previous # NoModel => HasVersion(doing'[d].previous)
                       /\ doing'[d].at \in {"read", "set", "promote", "champion", "archive"} =>
                              /\ doing'[d].deployment \in 1..(n + 1)
                              /\ deployments'[doing'[d].deployment].model = doing'[d].model
                       /\ doing'[d].at = "rollback" => doing'[d].previous = doing'[d].model
                       /\ doing'[d].at = "archive" => doing'[d].previous # NoModel
    BY <1>1, <1>3 DEF CallShape, HasVersion
  <2>1. CASE full /\ d = c
    <3>1. doing'[d] = made
      BY <1>1, <2>1 DEF RegistryInv, RegistryTypeOK
    <3>. QED
      BY <1>1, <1>2, <1>3, <1>4, <3>1 DEF HasVersion
  <2>2. CASE ~(full /\ d = c)
    <3>1. doing'[d] = doing[d]
      BY <1>1, <2>2 DEF RegistryInv, RegistryTypeOK
    <3>. QED
      BY <1>1, <1>2, <1>3, <3>1 DEF RegistryInv, CallShape
  <2>. QED
    BY <2>1, <2>2
<1>8. ActiveShape'
  BY <1>1, <1>2, <1>3 DEF RegistryInv, ActiveShape, HasVersion
<1>9. QuietDeployment'
  <2>. SUFFICES ASSUME ~disturbed' PROVE QuietDeployment'
    BY DEF QuietDeployment
  <2>1. ~disturbed /\ (full => \A d \in Deployers : d # c => doing[d].at = "idle")
    BY <1>1 DEF Overlaps
  <2>2. CASE full
    <3>1. \A d \in Deployers : doing[d].at = "idle"
      BY <1>1, <2>1, <2>2
    <3>2. Settled
      BY <2>1, <3>1 DEF RegistryInv, QuietDeployment
    <3>3. doing' = [doing EXCEPT ![c] = made]
      BY <1>1, <2>2
    <3>4. \A d \in Deployers : doing'[d] = IF d = c THEN made ELSE doing[d]
      BY <3>3 DEF RegistryInv, RegistryTypeOK
    <3>. QED
      BY <1>1, <1>4, <3>1, <3>2, <3>4 DEF QuietDeployment, Settled
  <2>3. CASE ~full
    BY <1>1, <2>1, <2>3 DEF RegistryInv, QuietDeployment, Settled
  <2>. QED
    BY <2>2, <2>3
<1>. QED
  BY <1>5, <1>6, <1>7, <1>8, <1>9 DEF RegistryInv

(* A call takes its next step without a word to the deployments: what it    *)
(* knows then must be as before, and the champions as a quiet deployment    *)
(* has them.                                                                *)
LEMMA CallMoves ==
    ASSUME RegistryInv, NEW c \in Deployers, NEW e, doing' = [doing EXCEPT ![c] = e],
           UNCHANGED <<run, named, training, interrupted>>,
           \/ deployments' = deployments
           \/ \E i \in DOMAIN deployments : deployments' = [deployments EXCEPT ![i].status = "active"],
           version' \in [Models -> {"none", "candidate", "champion", "archived"}],
           \A m \in Models : version'[m] = "none" <=> version[m] = "none",
           e \in [at : {"idle", "read", "set", "promote", "champion", "archive", "rollback"},
                  model : Models \cup {NoModel}, previous : Models \cup {NoModel},
                  deployment : 0..Len(deployments)],
           e.at # "idle" => HasVersion(e.model),
           e.previous # NoModel => HasVersion(e.previous),
           e.at \in {"read", "set", "promote", "champion", "archive"} =>
               /\ e.deployment \in DOMAIN deployments
               /\ deployments[e.deployment].model = e.model,
           e.at = "rollback" => e.previous = e.model,
           e.at = "archive" => e.previous # NoModel,
           active' = active \/ \E r \in {doing[c]} :
                                  /\ r.at \in {"set", "rollback"}
                                  /\ active' = Active(r.model, r.previous, r.deployment),
           disturbed' \in BOOLEAN, QuietDeployment'
    PROVE  RegistryInv'
<1>. DEFINE D == [model : Models, status : {"canary", "active"}]
<1>1. /\ deployments \in Seq(D) /\ deployments' \in Seq(D)
      /\ Len(deployments') = Len(deployments) /\ DOMAIN deployments' = DOMAIN deployments
      /\ \A i \in DOMAIN deployments : deployments'[i].model = deployments[i].model
  <2>1. deployments \in Seq(D)
    BY DEF RegistryInv, RegistryTypeOK
  <2>2. CASE deployments' = deployments
    BY <2>1, <2>2
  <2>3. CASE deployments' # deployments
    <3>1. PICK i \in DOMAIN deployments :
              deployments' = [deployments EXCEPT ![i].status = "active"]
      BY <2>3
    <3>. DEFINE row == [deployments[i] EXCEPT !.status = "active"]
    <3>2. deployments[i] \in D
      <4>. HIDE DEF D
      <4>. QED
        BY <2>1
    <3>3. row \in D /\ row.model = deployments[i].model
      BY <3>2
    <3>4. deployments' = [deployments EXCEPT ![i] = row]
      BY <3>1
    <3>. HIDE DEF row, D
    <3>. QED
      BY <2>1, <3>3, <3>4
  <2>. QED
    BY <2>2, <2>3
<1>2. TrainingShape' /\ CompletedHasModel' /\ RunsAreAttended'
  BY TrainingUntouched
<1>3. \A d \in Deployers : doing'[d] = IF d = c THEN e ELSE doing[d]
  BY DEF RegistryInv, RegistryTypeOK
<1>4. CallShape'
  <2>. SUFFICES ASSUME NEW d \in Deployers
                PROVE  /\ doing'[d].at # "idle" => HasVersion(doing'[d].model)
                       /\ doing'[d].previous # NoModel => HasVersion(doing'[d].previous)
                       /\ doing'[d].at \in {"read", "set", "promote", "champion", "archive"} =>
                              /\ doing'[d].deployment \in DOMAIN deployments
                              /\ deployments[doing'[d].deployment].model = doing'[d].model
                       /\ doing'[d].at = "rollback" => doing'[d].previous = doing'[d].model
                       /\ doing'[d].at = "archive" => doing'[d].previous # NoModel
    BY <1>1 DEF CallShape, HasVersion
  <2>. QED
    BY <1>3 DEF RegistryInv, CallShape
<1>5. ActiveShape' /\ active' \in [current : Models \cup {NoModel}, previous : Models \cup {NoModel},
                                   deployment : 0..Len(deployments)]
  <2>1. CASE active' = active
    BY <2>1, <1>1 DEF RegistryInv, RegistryTypeOK, ActiveShape, HasVersion
  <2>2. CASE active' # active
    <3>1. /\ doing[c].at \in {"set", "rollback"}
          /\ active' = Active(doing[c].model, doing[c].previous, doing[c].deployment)
      BY <2>2
    <3>2. /\ active'.current = doing[c].model /\ active'.previous = doing[c].previous
          /\ active'.deployment = doing[c].deployment
          /\ active' \in [current : Models \cup {NoModel}, previous : Models \cup {NoModel},
                          deployment : 0..Len(deployments)]
      BY <3>1, CallTypes DEF Active
    <3>. QED
      BY <3>1, <3>2, <1>1 DEF RegistryInv, CallShape, ActiveShape, HasVersion
  <2>. QED
    BY <2>1, <2>2
<1>6. doing' \in [Deployers -> [at : {"idle", "read", "set", "promote", "champion", "archive",
                                      "rollback"},
                                model : Models \cup {NoModel}, previous : Models \cup {NoModel},
                                deployment : 0..Len(deployments)]]
  BY DEF RegistryInv, RegistryTypeOK
<1>7. RegistryTypeOK'
  BY <1>1, <1>5, <1>6 DEF RegistryInv, RegistryTypeOK
<1>. QED
  BY <1>2, <1>4, <1>5, <1>7 DEF RegistryInv

(* The call c of a quiet deployment is the only one.                        *)
LEMMA OnlyCall ==
    ASSUME RegistryInv, ~disturbed, NEW c \in Deployers, doing[c].at # "idle",
           NEW e, doing' = [doing EXCEPT ![c] = e]
    PROVE  /\ doing'[c] = e
           /\ \A d \in Deployers : d # c => doing'[d].at = "idle" /\ doing[d].at = "idle"
BY DEF RegistryInv, RegistryTypeOK, QuietDeployment

(* The end of a call. *)
LEMMA IdleFacts ==
    /\ Idle.at = "idle" /\ Idle.model = NoModel /\ Idle.previous = NoModel /\ Idle.deployment = 0
    /\ \A n \in Nat :
           Idle \in [at : {"idle", "read", "set", "promote", "champion", "archive", "rollback"},
                     model : Models \cup {NoModel}, previous : Models \cup {NoModel},
                     deployment : 0..n]
BY DEF Idle, Doing

(* Reading the active model. *)
LEMMA ReadActiveKeeps ==
    ASSUME RegistryInv, NEW c \in Deployers, ReadActive(c)
    PROVE  RegistryInv'
<1>. DEFINE before == IF active.current = doing[c].model THEN NoModel ELSE active.current
            e == [doing[c] EXCEPT !.at = "set", !.previous = before]
<1>1. /\ doing[c].at = "read" /\ doing' = [doing EXCEPT ![c] = e]
      /\ UNCHANGED <<run, named, training, interrupted, version, deployments, active, disturbed>>
  BY DEF ReadActive, trainingVars
<1>2. /\ before \in Models \cup {NoModel}
      /\ before # NoModel => HasVersion(before)
      /\ doing[c] \in [at : {"idle", "read", "set", "promote", "champion", "archive", "rollback"},
                       model : Models \cup {NoModel}, previous : Models \cup {NoModel},
                       deployment : 0..Len(deployments)]
  BY DEF RegistryInv, RegistryTypeOK, ActiveShape
<1>3. /\ e.at = "set" /\ e.model = doing[c].model /\ e.previous = before
      /\ e.deployment = doing[c].deployment
      /\ e \in [at : {"idle", "read", "set", "promote", "champion", "archive", "rollback"},
                model : Models \cup {NoModel}, previous : Models \cup {NoModel},
                deployment : 0..Len(deployments)]
  <2>. HIDE DEF before
  <2>. QED
    BY <1>2
<1>. HIDE DEF e
<1>4. QuietDeployment'
  <2>. SUFFICES ASSUME ~disturbed PROVE QuietDeployment'
    BY <1>1 DEF QuietDeployment
  <2>1. doing'[c] = e /\ \A d \in Deployers : d # c => doing'[d].at = "idle" /\ doing[d].at = "idle"
    BY <1>1, OnlyCall
  <2>2. Settled
    BY <1>1, <2>1 DEF RegistryInv, QuietDeployment
  <2>. QED
    BY <1>1, <1>3, <2>1, <2>2 DEF QuietDeployment, Settled
<1>. QED
  BY <1>1, <1>2, <1>3, <1>4, CallMoves DEF RegistryInv, RegistryTypeOK, CallShape

(* Writing the active model, or failing to after it was written. *)
LEMMA SetActiveKeeps ==
    ASSUME RegistryInv, NEW c \in Deployers, SetActiveModel(c)
    PROVE  RegistryInv'
<1>. DEFINE e == [doing[c] EXCEPT !.at = "promote"]
<1>1. /\ doing[c].at = "set" /\ doing' = [doing EXCEPT ![c] = e]
      /\ active' = Active(doing[c].model, doing[c].previous, doing[c].deployment)
      /\ UNCHANGED <<run, named, training, interrupted, version, deployments, disturbed>>
  BY DEF SetActiveModel, GoTo, trainingVars
<1>2. doing[c] \in [at : {"idle", "read", "set", "promote", "champion", "archive", "rollback"},
                    model : Models \cup {NoModel}, previous : Models \cup {NoModel},
                    deployment : 0..Len(deployments)]
  BY DEF RegistryInv, RegistryTypeOK
<1>3. /\ e.at = "promote" /\ e.model = doing[c].model /\ e.previous = doing[c].previous
      /\ e.deployment = doing[c].deployment
      /\ e \in [at : {"idle", "read", "set", "promote", "champion", "archive", "rollback"},
                model : Models \cup {NoModel}, previous : Models \cup {NoModel},
                deployment : 0..Len(deployments)]
  BY <1>2
<1>. HIDE DEF e
<1>4. QuietDeployment'
  <2>. SUFFICES ASSUME ~disturbed PROVE QuietDeployment'
    BY <1>1 DEF QuietDeployment
  <2>1. doing'[c] = e /\ \A d \in Deployers : d # c => doing'[d].at = "idle" /\ doing[d].at = "idle"
    BY <1>1, OnlyCall
  <2>2. Settled
    BY <1>1, <2>1 DEF RegistryInv, QuietDeployment
  <2>3. doing[c].previous = IF active.current = doing[c].model THEN NoModel ELSE active.current
    BY <1>1 DEF RegistryInv, QuietDeployment
  <2>4. active'.current = e.model
    BY <1>1, <1>3 DEF Active
  <2>5. e.model \in Models /\ e.model # NoModel
    BY <1>1, <1>3, CallTypes
  <2>6. e.previous # e.model
    BY <1>3, <2>3, <2>5
  <2>7. \A m \in Models : version'[m] = "champion" => m \in {e.model, e.previous}
    BY <1>1, <1>3, <2>2, <2>3 DEF Settled
  <2>. QED
    BY <1>3, <2>1, <2>4, <2>6, <2>7 DEF QuietDeployment
<1>. QED
  BY <1>1, <1>3, <1>4, CallMoves DEF RegistryInv, RegistryTypeOK, CallShape

(* Promoting the deployment. *)
LEMMA PromoteKeeps ==
    ASSUME RegistryInv, NEW c \in Deployers, PromoteDeployment(c)
    PROVE  RegistryInv'
<1>. DEFINE e == [doing[c] EXCEPT !.at = "champion"]
            i == doing[c].deployment
<1>1. /\ doing[c].at = "promote" /\ doing' = [doing EXCEPT ![c] = e]
      /\ deployments' = [deployments EXCEPT ![i].status = "active"]
      /\ UNCHANGED <<run, named, training, interrupted, version, active, disturbed>>
  BY DEF PromoteDeployment, GoTo, trainingVars
<1>2. /\ doing[c] \in [at : {"idle", "read", "set", "promote", "champion", "archive", "rollback"},
                       model : Models \cup {NoModel}, previous : Models \cup {NoModel},
                       deployment : 0..Len(deployments)]
      /\ i \in DOMAIN deployments
  BY <1>1 DEF RegistryInv, RegistryTypeOK, CallShape
<1>3. /\ e.at = "champion" /\ e.model = doing[c].model /\ e.previous = doing[c].previous
      /\ e.deployment = doing[c].deployment
      /\ e \in [at : {"idle", "read", "set", "promote", "champion", "archive", "rollback"},
                model : Models \cup {NoModel}, previous : Models \cup {NoModel},
                deployment : 0..Len(deployments)]
  BY <1>2
<1>. HIDE DEF e
<1>4. QuietDeployment'
  <2>. SUFFICES ASSUME ~disturbed PROVE QuietDeployment'
    BY <1>1 DEF QuietDeployment
  <2>1. doing'[c] = e /\ \A d \in Deployers : d # c => doing'[d].at = "idle" /\ doing[d].at = "idle"
    BY <1>1, OnlyCall
  <2>. QED
    BY <1>1, <1>3, <2>1 DEF RegistryInv, QuietDeployment
<1>5. \E k \in DOMAIN deployments : deployments' = [deployments EXCEPT ![k].status = "active"]
  BY <1>1, <1>2
<1>. HIDE DEF i
<1>. QED
  BY <1>1, <1>3, <1>4, <1>5, CallMoves DEF RegistryInv, RegistryTypeOK, CallShape

(* The new champion, before the old one is archived. *)
LEMMA ChampionKeeps ==
    ASSUME RegistryInv, NEW c \in Deployers, MakeChampion(c)
    PROVE  RegistryInv'
<1>. DEFINE e == IF doing[c].previous = NoModel THEN Idle ELSE [doing[c] EXCEPT !.at = "archive"]
<1>1. /\ doing[c].at = "champion" /\ doing' = [doing EXCEPT ![c] = e]
      /\ version' = [version EXCEPT ![doing[c].model] = "champion"]
      /\ UNCHANGED <<run, named, training, interrupted, deployments, active, disturbed>>
  BY DEF MakeChampion, GoTo, Return, trainingVars
<1>2. /\ doing[c] \in [at : {"idle", "read", "set", "promote", "champion", "archive", "rollback"},
                       model : Models \cup {NoModel}, previous : Models \cup {NoModel},
                       deployment : 0..Len(deployments)]
      /\ HasVersion(doing[c].model)
      /\ version \in [Models -> {"none", "candidate", "champion", "archived"}]
      /\ Len(deployments) \in Nat
  BY <1>1 DEF RegistryInv, RegistryTypeOK, CallShape
<1>3. /\ e.at \in {"idle", "archive"}
      /\ e.at = "archive" => /\ e.model = doing[c].model /\ e.previous = doing[c].previous
                             /\ e.deployment = doing[c].deployment /\ e.previous # NoModel
      /\ e.at = "idle" => e.previous = NoModel /\ doing[c].previous = NoModel
      /\ e \in [at : {"idle", "read", "set", "promote", "champion", "archive", "rollback"},
                model : Models \cup {NoModel}, previous : Models \cup {NoModel},
                deployment : 0..Len(deployments)]
  BY <1>2, IdleFacts
<1>. HIDE DEF e
<1>4. /\ version' \in [Models -> {"none", "candidate", "champion", "archived"}]
      /\ \A m \in Models : version'[m] = "none" <=> version[m] = "none"
      /\ \A m \in Models : version'[m] = IF m = doing[c].model THEN "champion" ELSE version[m]
  BY <1>1, <1>2 DEF HasVersion
<1>5. QuietDeployment'
  <2>. SUFFICES ASSUME ~disturbed PROVE QuietDeployment'
    BY <1>1 DEF QuietDeployment
  <2>1. doing'[c] = e /\ \A d \in Deployers : d # c => doing'[d].at = "idle" /\ doing[d].at = "idle"
    BY <1>1, OnlyCall
  <2>2. /\ active.current = doing[c].model /\ doing[c].previous # doing[c].model
        /\ \A m \in Models : version[m] = "champion" => m \in {doing[c].model, doing[c].previous}
    BY <1>1 DEF RegistryInv, QuietDeployment
  <2>3. CASE e.at = "idle"
    <3>1. Settled'
      BY <1>1, <1>2, <1>3, <1>4, <2>2, <2>3, RegistryAssumption DEF Settled, HasVersion
    <3>. QED
      BY <2>1, <2>3, <3>1 DEF QuietDeployment
  <2>4. CASE e.at = "archive"
    <3>1. /\ active'.current = e.model /\ e.previous # e.model /\ version'[e.model] = "champion"
          /\ \A m \in Models : version'[m] = "champion" => m \in {e.model, e.previous}
      BY <1>1, <1>2, <1>3, <1>4, <2>2, <2>4 DEF HasVersion
    <3>. QED
      BY <2>1, <2>4, <3>1 DEF QuietDeployment
  <2>. QED
    BY <1>3, <2>3, <2>4
<1>6. /\ e.at # "idle" => HasVersion(e.model)
      /\ e.previous # NoModel => HasVersion(e.previous)
      /\ e.at = "archive" => /\ e.deployment \in DOMAIN deployments
                             /\ deployments[e.deployment].model = e.model
  BY <1>1, <1>3 DEF RegistryInv, CallShape
<1>7. disturbed' \in BOOLEAN
  BY <1>1 DEF RegistryInv, RegistryTypeOK
<1>. QED
  BY <1>1, <1>3, <1>4, <1>5, <1>6, <1>7, CallMoves

(* The end of a deployment: the model before is archived. *)
LEMMA ArchiveKeeps ==
    ASSUME RegistryInv, NEW c \in Deployers, ArchivePrevious(c)
    PROVE  RegistryInv'
<1>1. /\ doing[c].at = "archive" /\ doing' = [doing EXCEPT ![c] = Idle]
      /\ version' = [version EXCEPT ![doing[c].previous] = "archived"]
      /\ UNCHANGED <<run, named, training, interrupted, deployments, active, disturbed>>
  BY DEF ArchivePrevious, Return, trainingVars
<1>2. /\ HasVersion(doing[c].previous) /\ HasVersion(doing[c].model)
      /\ version \in [Models -> {"none", "candidate", "champion", "archived"}]
      /\ Len(deployments) \in Nat
  BY <1>1 DEF RegistryInv, RegistryTypeOK, CallShape
<1>3. /\ version' \in [Models -> {"none", "candidate", "champion", "archived"}]
      /\ \A m \in Models : version'[m] = "none" <=> version[m] = "none"
      /\ \A m \in Models : version'[m] = IF m = doing[c].previous THEN "archived" ELSE version[m]
  BY <1>1, <1>2 DEF HasVersion
<1>4. QuietDeployment'
  <2>. SUFFICES ASSUME ~disturbed PROVE QuietDeployment'
    BY <1>1 DEF QuietDeployment
  <2>1. doing'[c] = Idle /\ \A d \in Deployers : d # c => doing'[d].at = "idle"
    BY <1>1, OnlyCall
  <2>2. /\ active.current = doing[c].model /\ doing[c].previous # doing[c].model
        /\ version[doing[c].model] = "champion"
        /\ \A m \in Models : version[m] = "champion" => m \in {doing[c].model, doing[c].previous}
    BY <1>1 DEF RegistryInv, QuietDeployment
  <2>3. Settled'
    BY <1>1, <1>2, <1>3, <2>2 DEF Settled, HasVersion
  <2>. QED
    BY <2>1, <2>3, IdleFacts DEF QuietDeployment
<1>. QED
  BY <1>1, <1>2, <1>3, <1>4, IdleFacts, CallMoves DEF RegistryInv, RegistryTypeOK

(* A rollback takes the active model's previous one. *)
LEMMA RollbackKeeps ==
    ASSUME RegistryInv, NEW c \in Deployers, RollbackModel(c)
    PROVE  RegistryInv'
<1>. DEFINE e == Doing("rollback", active.previous, active.previous, active.deployment)
<1>1. /\ active.previous # NoModel /\ doing' = [doing EXCEPT ![c] = e] /\ disturbed' = TRUE
      /\ UNCHANGED <<run, named, training, interrupted, deployments, active, version>>
  BY DEF RollbackModel, trainingVars
<1>2. /\ active \in [current : Models \cup {NoModel}, previous : Models \cup {NoModel},
                     deployment : 0..Len(deployments)]
      /\ HasVersion(active.previous)
  BY <1>1 DEF RegistryInv, RegistryTypeOK, ActiveShape
<1>3. /\ e.at = "rollback" /\ e.model = active.previous /\ e.previous = active.previous
      /\ e \in [at : {"idle", "read", "set", "promote", "champion", "archive", "rollback"},
                model : Models \cup {NoModel}, previous : Models \cup {NoModel},
                deployment : 0..Len(deployments)]
  BY <1>2 DEF Doing
<1>. HIDE DEF e
<1>4. QuietDeployment'
  BY <1>1 DEF QuietDeployment
<1>. QED
  BY <1>1, <1>2, <1>3, <1>4, CallMoves DEF RegistryInv, RegistryTypeOK

(* The write of a rollback. *)
LEMMA RolledBackKeeps ==
    ASSUME RegistryInv, NEW c \in Deployers, SetRolledBack(c)
    PROVE  RegistryInv'
<1>1. /\ doing[c].at = "rollback" /\ doing' = [doing EXCEPT ![c] = Idle]
      /\ active' = Active(doing[c].model, doing[c].previous, doing[c].deployment)
      /\ UNCHANGED <<run, named, training, interrupted, deployments, version, disturbed>>
  BY DEF SetRolledBack, Return, trainingVars
<1>2. disturbed
  BY <1>1 DEF RegistryInv, QuietDeployment
<1>3. QuietDeployment'
  BY <1>1, <1>2 DEF QuietDeployment
<1>4. Len(deployments) \in Nat
  BY DEF RegistryInv, RegistryTypeOK
<1>. QED
  BY <1>1, <1>3, <1>4, IdleFacts, CallMoves DEF RegistryInv, RegistryTypeOK

(* A statement that fails, with or without effect, and what comes next. *)
LEMMA FailureKeeps ==
    ASSUME RegistryInv, NEW c \in Deployers, StatementFails(c)
    PROVE  RegistryInv'
<1>. DEFINE e == IF doing[c].at = "promote" THEN [doing[c] EXCEPT !.at = "champion"]
                 ELSE IF doing[c].at = "champion" /\ doing[c].previous # NoModel
                      THEN [doing[c] EXCEPT !.at = "archive"] ELSE Idle
<1>1. /\ doing[c].at # "idle" /\ doing' = [doing EXCEPT ![c] = e] /\ disturbed' = TRUE
      /\ UNCHANGED <<run, named, training, interrupted, deployments, version>>
  BY DEF StatementFails, GoTo, Return, trainingVars
<1>2. active' = active \/ /\ doing[c].at \in {"set", "rollback"}
                          /\ active' = Active(doing[c].model, doing[c].previous, doing[c].deployment)
  BY CallTypes DEF StatementFails
<1>3. /\ doing[c] \in [at : {"idle", "read", "set", "promote", "champion", "archive", "rollback"},
                       model : Models \cup {NoModel}, previous : Models \cup {NoModel},
                       deployment : 0..Len(deployments)]
      /\ Len(deployments) \in Nat
  BY DEF RegistryInv, RegistryTypeOK
<1>4. /\ e.at \in {"idle", "champion", "archive"}
      /\ e.at # "idle" => /\ e.model = doing[c].model /\ e.previous = doing[c].previous
                          /\ e.deployment = doing[c].deployment
                          /\ doing[c].at \in {"promote", "champion"}
      /\ e.at = "archive" => e.previous # NoModel
      /\ e.at = "idle" => e.previous = NoModel
      /\ e \in [at : {"idle", "read", "set", "promote", "champion", "archive", "rollback"},
                model : Models \cup {NoModel}, previous : Models \cup {NoModel},
                deployment : 0..Len(deployments)]
  BY <1>3, IdleFacts
<1>. HIDE DEF e
<1>5. QuietDeployment'
  BY <1>1 DEF QuietDeployment
<1>6. active' = active \/ \E r \in {doing[c]} :
                             /\ r.at \in {"set", "rollback"}
                             /\ active' = Active(r.model, r.previous, r.deployment)
  BY <1>2
<1>. QED
  BY <1>1, <1>4, <1>5, <1>6, CallMoves DEF RegistryInv, RegistryTypeOK, CallShape

(* The process ends, with its goroutines and calls. *)
LEMMA RegistryCrashKeeps ==
    ASSUME RegistryInv, RegistryCrash
    PROVE  RegistryInv'
<1>1. /\ interrupted' = interrupted \cup {m \in Models : training[m] # "none"}
      /\ training' = [m \in Models |-> "none"]
      /\ disturbed' = (disturbed \/ \E c \in Deployers : doing[c].at # "idle")
      /\ doing' = [c \in Deployers |-> Idle]
      /\ UNCHANGED <<run, named, version, deployments, active>>
  BY DEF RegistryCrash
<1>2. disturbed' \in BOOLEAN
  BY <1>1 DEF RegistryInv, RegistryTypeOK
<1>3. Len(deployments) \in Nat
  BY DEF RegistryInv, RegistryTypeOK
<1>4. RegistryTypeOK'
  BY <1>1, <1>2, <1>3, IdleFacts DEF RegistryInv, RegistryTypeOK
<1>5. TrainingShape' /\ CompletedHasModel' /\ RunsAreAttended'
  BY <1>1 DEF RegistryInv, RegistryTypeOK, TrainingShape, CompletedHasModel, RunsAreAttended
<1>6. CallShape' /\ ActiveShape'
  BY <1>1, IdleFacts DEF RegistryInv, CallShape, ActiveShape, HasVersion
<1>7. QuietDeployment'
  <2>. SUFFICES ASSUME ~disturbed' PROVE QuietDeployment'
    BY DEF QuietDeployment
  <2>1. ~disturbed /\ \A c \in Deployers : doing[c].at = "idle"
    BY <1>1
  <2>2. Settled
    BY <2>1 DEF RegistryInv, QuietDeployment
  <2>. QED
    BY <1>1, <2>2, IdleFacts DEF QuietDeployment, Settled
<1>. QED
  BY <1>4, <1>5, <1>6, <1>7 DEF RegistryInv

(* Every step of training, deployments, rollbacks and the process. *)
LEMMA RegistryStep ==
    ASSUME RegistryInv, [RegistryNext]_registryVars
    PROVE  RegistryInv'
<1>1. CASE RegistryCrash
  BY <1>1, RegistryCrashKeeps
<1>2. ASSUME NEW m \in Models, TrainingStep(m) PROVE RegistryInv'
  BY <1>2, TrainingKeeps
<1>3. ASSUME NEW c \in Deployers, DeployStep(c) PROVE RegistryInv'
  BY <1>3, DeployKeeps, ReadActiveKeeps, SetActiveKeeps, PromoteKeeps, ChampionKeeps, ArchiveKeeps,
     RollbackKeeps, RolledBackKeeps, FailureKeeps DEF DeployStep
<1>4. CASE UNCHANGED registryVars
  <2>1. UNCHANGED <<run, named, training, interrupted, version, deployments, active, doing, disturbed>>
    BY <1>4 DEF registryVars, trainingVars, deployVars
  <2>. QED
    BY <2>1 DEF RegistryInv, RegistryTypeOK, TrainingShape, CompletedHasModel, RunsAreAttended,
                CallShape, ActiveShape, HasVersion, QuietDeployment, Settled
<1>. QED
  BY <1>1, <1>2, <1>3, <1>4 DEF RegistryNext

(* For every number of runs and callers, training and deploying at once:    *)
(* the tables have their types.                                             *)
THEOREM RegistryTypeCorrect == RegistrySpec => []RegistryTypeOK
<1>1. RegistryInv => RegistryTypeOK
  BY DEF RegistryInv
<1>. QED
  BY <1>1, RegistryStart, RegistryStep, PTL DEF RegistrySpec

(* A completed run has its model.                                           *)
THEOREM RegistryCompletedHasModel == RegistrySpec => []CompletedHasModel
<1>1. RegistryInv => CompletedHasModel
  BY DEF RegistryInv
<1>. QED
  BY <1>1, RegistryStart, RegistryStep, PTL DEF RegistrySpec

(* A run on its way is attended to or was cut short.                        *)
THEOREM RegistryRunsAttended == RegistrySpec => []RunsAreAttended
<1>1. RegistryInv => RunsAreAttended
  BY DEF RegistryInv
<1>. QED
  BY <1>1, RegistryStart, RegistryStep, PTL DEF RegistrySpec

(* Every training is accounted for.                                         *)
THEOREM RegistryTrainings == RegistrySpec => []TrainingsAccounted
  BY RegistryCompletedHasModel, RegistryRunsAttended, PTL DEF TrainingsAccounted

(* Between undisturbed deployments the model in use is the only champion.   *)
THEOREM RegistryChampion == RegistrySpec => []ChampionIsActive
<1>1. RegistryInv => ChampionIsActive
  <2>. SUFFICES ASSUME RegistryInv, ~disturbed, \A c \in Deployers : doing[c].at = "idle"
                PROVE  {m \in Models : version[m] = "champion"} = {active.current} \ {NoModel}
    BY DEF ChampionIsActive
  <2>1. Settled
    BY DEF RegistryInv, QuietDeployment
  <2>2. active.current \in Models \cup {NoModel} /\ NoModel \notin Models
    BY RegistryAssumption DEF RegistryInv, RegistryTypeOK
  <2>. QED
    BY <2>1, <2>2 DEF Settled
<1>. QED
  BY <1>1, RegistryStart, RegistryStep, PTL DEF RegistrySpec

(* The model in use was deployed, or rolled back to.                        *)
THEOREM RegistryActiveDeployed == RegistrySpec => []ActiveIsDeployed
<1>1. RegistryInv => ActiveIsDeployed
  BY DEF RegistryInv, ActiveShape, HasVersion, ActiveIsDeployed
<1>. QED
  BY <1>1, RegistryStart, RegistryStep, PTL DEF RegistrySpec

(* Versions, deployments and the active model agree.                        *)
THEOREM RegistryDeployments == RegistrySpec => []DeploymentsAgree
  BY RegistryChampion, RegistryActiveDeployed, PTL DEF DeploymentsAgree

-----------------------------------------------------------------------------
(* The scenario store *)

(* Versions of a layout that has been saved n times. *)
GoodVersions(versions, n) ==
    /\ versions \in Seq(Nat) /\ Len(versions) <= HistoryLimit + 1
    /\ \A i \in 1..Len(versions) : versions[i] \in 1..n
    /\ Ascending(versions)

ScenarioInv ==
    /\ saver \in Layouts \cup {NoLayout}
    /\ saves \in [Layouts -> 0..MaxSaves] /\ answered \in [Layouts -> 0..MaxSaves]
    /\ emptied \in BOOLEAN
    /\ memory \in [Layouts -> Seq(Nat)]
    /\ disk \in [state : {"absent", "torn", "whole"}, sets : [Layouts -> Seq(Nat)]]
    /\ \A k \in Layouts :
          /\ GoodVersions(memory[k], saves[k]) /\ GoodVersions(disk.sets[k], saves[k])
          /\ disk.state = "absent" => answered[k] = 0
          /\ saver = k => Len(memory[k]) > 0 /\ memory[k][Len(memory[k])] = saves[k]
    /\ AnsweredIsKept

(* Adding the save n + 1: the versions stay in order, and whatever was kept *)
(* before is kept or pushed out by newer ones.                              *)
LEMMA AddKeeps ==
    ASSUME NEW versions, NEW n \in Nat, GoodVersions(versions, n)
    PROVE  /\ GoodVersions(Add(versions, n + 1), n + 1)
           /\ Len(Add(versions, n + 1)) > 0
           /\ Add(versions, n + 1)[Len(Add(versions, n + 1))] = n + 1
           /\ \A v \in Nat : Keeps(versions, v) => Keeps(Add(versions, n + 1), v)
<1>. DEFINE l == Len(versions)
            all == Append(versions, n + 1)
            new == Add(versions, n + 1)
<1>1. /\ HistoryLimit \in Nat \ {0} /\ versions \in Seq(Nat) /\ l \in Nat /\ l <= HistoryLimit + 1
      /\ \A i \in 1..l : versions[i] \in 1..n
      /\ \A i \in 1..l : i > 1 => versions[i - 1] < versions[i]
  <2>1. versions \in Seq(Nat) /\ DOMAIN versions = 1..l /\ l \in Nat
    BY DEF GoodVersions
  <2>. QED
    BY <2>1, ScenarioAssumption DEF GoodVersions, Ascending
<1>2. /\ all \in Seq(Nat) /\ Len(all) = l + 1 /\ all[l + 1] = n + 1
      /\ \A i \in 1..l : all[i] = versions[i]
  BY <1>1
<1>3. CASE l <= HistoryLimit
  <2>1. new = SubSeq(all, 1, l + 1)
    BY <1>1, <1>2, <1>3 DEF Add
  <2>2. new \in Seq(Nat) /\ Len(new) = l + 1 /\ \A i \in 1..(l + 1) : new[i] = all[i]
    <3>. HIDE DEF all, new
    <3>. QED
      BY <1>1, <1>2, <2>1
  <2>. HIDE DEF all, new
  <2>3. ASSUME NEW i \in 1..Len(new) PROVE new[i] \in 1..(n + 1)
    <3>1. i \in 1..(l + 1) /\ new[i] = all[i]
      BY <1>1, <2>2
    <3>2. CASE i = l + 1
      BY <1>2, <3>1, <3>2
    <3>3. CASE i # l + 1
      <4>1. i \in 1..l /\ all[i] = versions[i]
        BY <1>1, <1>2, <3>1, <3>3
      <4>2. versions[i] \in 1..n
        BY <1>1, <4>1
      <4>. QED
        BY <3>1, <4>1, <4>2
    <3>. QED
      BY <3>2, <3>3
  <2>4. ASSUME NEW i \in 1..Len(new), i > 1 PROVE new[i - 1] < new[i]
    <3>1. /\ i \in 1..(l + 1) /\ new[i] = all[i]
          /\ i - 1 \in 1..l /\ new[i - 1] = all[i - 1]
          /\ all[i - 1] = versions[i - 1] /\ versions[i - 1] \in 1..n
      BY <1>1, <1>2, <2>2, <2>4, SMTT(60)
    <3>2. CASE i = l + 1
      BY <1>2, <3>1, <3>2
    <3>3. CASE i # l + 1
      <4>1. i \in 1..l /\ i > 1
        BY <1>1, <2>2, <2>4, <3>3
      <4>2. all[i] = versions[i]
        BY <1>2, <4>1
      <4>3. versions[i - 1] < versions[i]
        BY <1>1, <4>1
      <4>. QED
        BY <3>1, <4>2, <4>3
    <3>. QED
      BY <3>2, <3>3
  <2>5. GoodVersions(new, n + 1)
    BY <1>1, <1>3, <2>2, <2>3, <2>4, SMTT(60) DEF GoodVersions, Ascending
  <2>6. ASSUME NEW v \in Nat, Keeps(versions, v) PROVE Keeps(new, v)
    <3>1. PICK i \in 1..l : versions[i] = v
      BY <1>1, <1>3, <2>6 DEF Keeps
    <3>2. i \in DOMAIN new /\ new[i] = v
      BY <1>1, <1>2, <2>2, <3>1, SMTT(60)
    <3>. QED
      BY <3>2 DEF Keeps
  <2>. QED
    BY <1>1, <1>2, <2>2, <2>5, <2>6 DEF new
<1>4. CASE l = HistoryLimit + 1
  <2>1. new = SubSeq(all, 2, l + 1)
    BY <1>1, <1>2, <1>4, SMTT(60) DEF Add
  <2>2. new \in Seq(Nat) /\ Len(new) = l /\ \A i \in 1..l : new[i] = all[i + 1]
    <3>. HIDE DEF all, new
    <3>1. \A i \in 2..(l + 1) : all[i] \in Nat
      BY <1>1, <1>2
    <3>. QED
      BY <1>1, <1>2, <1>4, <2>1, <3>1, SubSeqProperties
  <2>. HIDE DEF all, new
  <2>3. ASSUME NEW i \in 1..Len(new) PROVE new[i] \in 1..(n + 1)
    <3>1. i + 1 \in 1..(l + 1) /\ new[i] = all[i + 1]
      BY <1>1, <2>2
    <3>2. CASE i + 1 = l + 1
      BY <1>2, <3>1, <3>2
    <3>3. CASE i + 1 # l + 1
      <4>1. i + 1 \in 1..l /\ all[i + 1] = versions[i + 1]
        BY <1>1, <1>2, <3>1, <3>3, SMTT(60)
      <4>2. versions[i + 1] \in 1..n
        BY <1>1, <4>1
      <4>. QED
        BY <3>1, <4>1, <4>2
    <3>. QED
      BY <3>2, <3>3
  <2>4. ASSUME NEW i \in 1..Len(new), i > 1 PROVE new[i - 1] < new[i]
    <3>1. /\ i + 1 \in 1..(l + 1) /\ new[i] = all[i + 1]
          /\ i \in 1..l /\ i + 1 - 1 = i /\ i - 1 \in 1..l /\ i - 1 + 1 = i
      BY <1>1, <2>2, <2>4
    <3>2. /\ new[i - 1] = all[i + 1 - 1]
          /\ all[i + 1 - 1] = versions[i + 1 - 1] /\ versions[i + 1 - 1] \in 1..n
      BY <1>1, <1>2, <2>2, <3>1
    <3>3. CASE i + 1 = l + 1
      BY <1>2, <3>1, <3>2, <3>3
    <3>4. CASE i + 1 # l + 1
      <4>1. i + 1 \in 1..l /\ i + 1 > 1
        BY <1>1, <2>2, <2>4, <3>4
      <4>2. all[i + 1] = versions[i + 1]
        BY <1>2, <4>1
      <4>3. versions[i + 1 - 1] < versions[i + 1]
        BY <1>1, <4>1
      <4>. QED
        BY <3>1, <3>2, <4>2, <4>3
    <3>. QED
      BY <3>3, <3>4
  <2>5. GoodVersions(new, n + 1)
    <3>1. /\ new \in Seq(Nat) /\ DOMAIN new = 1..Len(new) /\ Len(new) \in Nat
          /\ Len(new) <= HistoryLimit + 1
      BY <1>1, <1>4, <2>2
    <3>. QED
      BY <3>1, <2>3, <2>4 DEF GoodVersions, Ascending
  <2>6. new[1] = versions[2] /\ versions[1] < versions[2] /\ l \in Nat /\ l >= 2
        /\ versions[1] \in Nat /\ versions[2] \in Nat
    BY <1>1, <1>2, <1>4, <2>2
  <2>7. ASSUME NEW v \in Nat, Keeps(versions, v) PROVE Keeps(new, v)
    <3>1. CASE versions[1] >= v
      BY <1>1, <1>4, <2>2, <2>6, <3>1 DEF Keeps
    <3>2. CASE versions[1] < v
      <4>1. PICK i \in 1..l : versions[i] = v
        BY <1>1, <2>6, <2>7, <3>2 DEF Keeps
      <4>2. i # 1
        BY <2>6, <3>2, <4>1
      <4>3. i - 1 \in 1..l /\ i - 1 + 1 = i
        BY <1>1, <4>1, <4>2
      <4>4. i - 1 \in 1..l /\ new[i - 1] = v
        BY <1>2, <2>2, <4>1, <4>3
      <4>5. i - 1 \in DOMAIN new
        BY <2>2, <4>4
      <4>. QED
        BY <4>4, <4>5 DEF Keeps
    <3>. QED
      BY <2>6, <3>1, <3>2
  <2>8. Len(new) > 0 /\ new[Len(new)] = n + 1
    <3>1. Len(new) = l /\ l \in 1..l
      BY <2>2, <2>6
    <3>2. new[l] = all[l + 1]
      BY <2>2, <3>1
    <3>. QED
      BY <1>2, <2>6, <3>1, <3>2
  <2>. QED
    BY <2>5, <2>7, <2>8 DEF new
<1>. QED
  BY <1>1, <1>3, <1>4

(* Before the first save. *)
LEMMA ScenarioStart == ScenarioInit => ScenarioInv
<1>. SUFFICES ASSUME ScenarioInit PROVE ScenarioInv
  OBVIOUS
<1>1. << >> \in Seq(Nat) /\ Len(<< >>) = 0 /\ DOMAIN << >> = {}
  OBVIOUS
<1>2. \A n \in Nat : GoodVersions(<< >>, n)
  BY <1>1, ScenarioAssumption DEF GoodVersions, Ascending
<1>3. NoVersions \in [Layouts -> Seq(Nat)] /\ \A k \in Layouts : NoVersions[k] = << >>
  BY <1>1 DEF NoVersions
<1>4. /\ disk.state = "absent" /\ disk.sets = NoVersions
      /\ disk \in [state : {"absent", "torn", "whole"}, sets : [Layouts -> Seq(Nat)]]
  <2>. HIDE DEF NoVersions
  <2>. QED
    BY <1>3 DEF ScenarioInit, Disk
<1>5. /\ memory = NoVersions /\ saver = NoLayout /\ NoLayout \notin Layouts
      /\ saves \in [Layouts -> 0..MaxSaves] /\ answered \in [Layouts -> 0..MaxSaves]
      /\ emptied \in BOOLEAN
      /\ \A k \in Layouts : saves[k] = 0 /\ answered[k] = 0
  <2>1. memory = NoVersions /\ saver = NoLayout /\ emptied = FALSE
    BY DEF ScenarioInit
  <2>2. /\ saves \in [Layouts -> 0..MaxSaves] /\ answered \in [Layouts -> 0..MaxSaves]
        /\ \A k \in Layouts : saves[k] = 0 /\ answered[k] = 0
    BY ScenarioAssumption DEF ScenarioInit
  <2>3. NoLayout \notin Layouts
    BY ScenarioAssumption
  <2>. QED
    BY <2>1, <2>2, <2>3
<1>6. AnsweredIsKept
  BY <1>5 DEF AnsweredIsKept
<1>7. \A k \in Layouts : GoodVersions(memory[k], saves[k]) /\ GoodVersions(disk.sets[k], saves[k])
  BY <1>2, <1>3, <1>4, <1>5
<1>. QED
  BY <1>3, <1>4, <1>5, <1>6, <1>7 DEF ScenarioInv

(* A save, the writing of the file, its failures and a restart. *)
LEMMA ScenarioStep ==
    ASSUME ScenarioInv, [ScenarioNext]_scenarioVars
    PROVE  ScenarioInv'
<1>1. /\ MaxSaves \in Nat /\ NoLayout \notin Layouts
      /\ \A n \in Nat : GoodVersions(<< >>, n)
      /\ NoVersions \in [Layouts -> Seq(Nat)] /\ \A k \in Layouts : NoVersions[k] = << >>
  <2>1. << >> \in Seq(Nat) /\ Len(<< >>) = 0 /\ DOMAIN << >> = {}
    OBVIOUS
  <2>. QED
    BY <2>1, ScenarioAssumption DEF GoodVersions, Ascending, NoVersions
<1>2. ASSUME NEW k \in Layouts, SaveSet(k) PROVE ScenarioInv'
  <2>. DEFINE n == saves[k]
              new == Add(memory[k], n + 1)
  <2>1. /\ saver = NoLayout /\ n \in Nat /\ n + 1 \in 0..MaxSaves
        /\ saves' = [saves EXCEPT ![k] = n + 1]
        /\ memory' = [memory EXCEPT ![k] = new]
        /\ saver' = k /\ UNCHANGED <<disk, answered, emptied>>
    BY <1>1, <1>2 DEF SaveSet, ScenarioInv
  <2>2. /\ GoodVersions(new, n + 1) /\ Len(new) > 0 /\ new[Len(new)] = n + 1
        /\ \A v \in Nat : Keeps(memory[k], v) => Keeps(new, v)
    BY <2>1, AddKeeps DEF ScenarioInv
  <2>3. GoodVersions(disk.sets[k], n + 1)
    BY <2>1 DEF ScenarioInv, GoodVersions
  <2>4. new \in Seq(Nat)
    BY <2>2 DEF GoodVersions
  <2>. HIDE DEF new
  <2>5. /\ \A j \in Layouts : memory'[j] = IF j = k THEN new ELSE memory[j]
        /\ \A j \in Layouts : saves'[j] = IF j = k THEN n + 1 ELSE saves[j]
        /\ memory' \in [Layouts -> Seq(Nat)] /\ saves' \in [Layouts -> 0..MaxSaves]
    BY <2>1, <2>4 DEF ScenarioInv
  <2>6. AnsweredIsKept'
    <3>1. \A j \in Layouts : answered[j] \in Nat
      BY <1>1 DEF ScenarioInv
    <3>. QED
      BY <2>1, <2>2, <2>5, <3>1 DEF ScenarioInv, AnsweredIsKept
  <2>. QED
    BY <2>1, <2>2, <2>3, <2>5, <2>6 DEF ScenarioInv
<1>3. CASE Truncate
  <2>1. /\ disk'.state = "torn" /\ disk'.sets = NoVersions
        /\ disk' \in [state : {"absent", "torn", "whole"}, sets : [Layouts -> Seq(Nat)]]
        /\ UNCHANGED <<memory, saver, saves, answered, emptied>>
    BY <1>1, <1>3 DEF Truncate, Disk
  <2>. QED
    BY <1>1, <2>1 DEF ScenarioInv, AnsweredIsKept
<1>4. CASE WriteFile
  <2>1. /\ saver \in Layouts /\ disk.state = "torn"
        /\ disk'.state = "whole" /\ disk'.sets = memory
        /\ disk' \in [state : {"absent", "torn", "whole"}, sets : [Layouts -> Seq(Nat)]]
        /\ answered' = [answered EXCEPT ![saver] = saves[saver]]
        /\ saver' = NoLayout /\ UNCHANGED <<memory, saves, emptied>>
    BY <1>4 DEF WriteFile, Disk, ScenarioInv
  <2>2. answered' \in [Layouts -> 0..MaxSaves]
    BY <2>1 DEF ScenarioInv
  <2>3. Keeps(memory[saver], saves[saver])
    <3>1. Len(memory[saver]) > 0 /\ memory[saver][Len(memory[saver])] = saves[saver]
      BY <2>1 DEF ScenarioInv
    <3>2. Len(memory[saver]) \in DOMAIN memory[saver]
      BY <2>1, <3>1 DEF ScenarioInv
    <3>. QED
      BY <3>1, <3>2 DEF Keeps
  <2>4. ASSUME NEW k \in Layouts, ~emptied, answered'[k] > 0 PROVE Keeps(memory[k], answered'[k])
    <3>1. CASE k = saver
      BY <2>1, <2>3, <3>1 DEF ScenarioInv
    <3>2. CASE k # saver
      BY <2>1, <2>4, <3>2 DEF ScenarioInv, AnsweredIsKept
    <3>. QED
      BY <3>1, <3>2
  <2>. QED
    BY <1>1, <2>1, <2>2, <2>4 DEF ScenarioInv, AnsweredIsKept
<1>5. CASE PersistFails
  BY <1>1, <1>5 DEF PersistFails, ScenarioInv, AnsweredIsKept
<1>6. CASE Restart
  <2>1. PICK readable \in BOOLEAN :
            /\ memory' = IF readable /\ disk.state = "whole" THEN disk.sets ELSE NoVersions
            /\ emptied' = (emptied \/ ~(readable /\ disk.state = "whole"))
    BY <1>6 DEF Restart
  <2>2. saver' = NoLayout /\ UNCHANGED <<disk, saves, answered>>
    BY <1>6 DEF Restart
  <2>3. CASE readable /\ disk.state = "whole"
    BY <1>1, <2>1, <2>2, <2>3 DEF ScenarioInv, AnsweredIsKept
  <2>4. CASE ~(readable /\ disk.state = "whole")
    <3>1. memory' = NoVersions /\ emptied' = TRUE
      BY <2>1, <2>4
    <3>. QED
      BY <1>1, <2>2, <3>1 DEF ScenarioInv, AnsweredIsKept
  <2>. QED
    BY <2>3, <2>4
<1>7. CASE UNCHANGED scenarioVars
  BY <1>7 DEF scenarioVars, ScenarioInv, AnsweredIsKept
<1>. QED
  BY <1>2, <1>3, <1>4, <1>5, <1>6, <1>7 DEF ScenarioNext

(* The versions of a layout stay in the order of their saves, for every     *)
(* limit of the history.                                                    *)
THEOREM ScenarioVersionsInOrder == ScenarioSpec => []VersionsInOrder
<1>1. ScenarioInv => VersionsInOrder
  BY DEF ScenarioInv, VersionsInOrder, GoodVersions
<1>. QED
  BY <1>1, ScenarioStart, ScenarioStep, PTL DEF ScenarioSpec

(* A save that was answered is kept until newer ones push it out or a start *)
(* finds the file unreadable.                                               *)
THEOREM ScenarioAnsweredIsKept == ScenarioSpec => []AnsweredIsKept
<1>1. ScenarioInv => AnsweredIsKept
  BY SMTT(60) DEF ScenarioInv
<1>. QED
  BY <1>1, ScenarioStart, ScenarioStep, PTL DEF ScenarioSpec

(* Saves keep their order and are not lost.                                 *)
THEOREM ScenarioSavesKept == ScenarioSpec => []SavesAreKept
  BY ScenarioVersionsInOrder, ScenarioAnsweredIsKept, PTL DEF SavesAreKept

(* Ordered versions within the limits are versions. *)
LEMMA GoodVersionsType ==
    ASSUME ScenarioAssumption, NEW versions, NEW n \in 0..MaxSaves, GoodVersions(versions, n)
    PROVE  versions \in Versions
<1>. DEFINE l == Len(versions)
<1>1. l \in 0..(HistoryLimit + 1) /\ versions \in Seq(Nat) /\ MaxSaves \in Nat
  BY DEF GoodVersions, ScenarioAssumption
<1>2. \A i \in 1..l : versions[i] \in 1..MaxSaves
  BY <1>1 DEF GoodVersions
<1>3. versions \in [1..l -> 1..MaxSaves]
  BY <1>1, <1>2
<1>. QED
  BY <1>1, <1>3 DEF Versions

(* A layout never has more old versions than the limit, in memory or in the *)
(* file, and no version that was not saved.                                 *)
THEOREM ScenarioTypeCorrect == ScenarioSpec => []ScenarioTypeOK
<1>1. ScenarioInv => ScenarioTypeOK
  <2>. SUFFICES ASSUME ScenarioInv PROVE ScenarioTypeOK
    OBVIOUS
  <2>1. ASSUME NEW k \in Layouts PROVE memory[k] \in Versions /\ disk.sets[k] \in Versions
    <3>1. saves[k] \in 0..MaxSaves /\ GoodVersions(memory[k], saves[k])
          /\ GoodVersions(disk.sets[k], saves[k])
      BY DEF ScenarioInv
    <3>. QED
      BY <3>1, ScenarioAssumption, GoodVersionsType
  <2>2. memory \in [Layouts -> Versions]
    BY <2>1 DEF ScenarioInv
  <2>3. disk.state \in {"absent", "torn", "whole"} /\ disk.sets \in [Layouts -> Seq(Nat)]
        /\ disk = [state |-> disk.state, sets |-> disk.sets]
    BY DEF ScenarioInv
  <2>4. disk.sets \in [Layouts -> Versions]
    BY <2>1, <2>3
  <2>5. disk \in [state : {"absent", "torn", "whole"}, sets : [Layouts -> Versions]]
    BY <2>3, <2>4
  <2>. QED
    BY <2>2, <2>5 DEF ScenarioInv, ScenarioTypeOK
<1>. QED
  BY <1>1, ScenarioStart, ScenarioStep, PTL DEF ScenarioSpec


-----------------------------------------------------------------------------
(* The services together *)

(* A step of one of them leaves the others as they are. *)
EveryStep ==
    /\ [ProjectNext]_projectVars /\ [ChecklistNext]_checklistVars /\ [QueueNext]_queueVars /\ [DemNext]_demVars
    /\ [GraphNext]_graphVars /\ [GovernanceNext]_governanceVars /\ [RegistryNext]_registryVars
    /\ [ScenarioNext]_scenarioVars /\ [LimiterNext]_limiterVars
    /\ [CorridorNext]_corridorVars /\ [TowerNext]_towerVars /\ [OrderNext]_orderVars

(* A step of the whole is a step or a stutter of each service. *)
LEMMA ServiceSteps ==
    ASSUME [ServicesNext]_servicesVars
    PROVE  EveryStep
<1>. USE DEF storeVars, searchVars
<1>1. CASE UNCHANGED servicesVars
  BY <1>1 DEF EveryStep, servicesVars
<1>2. CASE ServicesNext
  BY <1>2 DEF EveryStep, ServicesNext, RegistryNext
<1>. QED
  BY <1>1, <1>2

(* The specification of all services implies that of each, so that what is *)
(* proved of one holds of it among the others.                             *)
THEOREM ServicesRunAlone ==
    ServicesSpec =>
        /\ ProjectSpec /\ ChecklistSpec /\ QueueSpec /\ DemSpec /\ GraphSpec /\ GovernanceSpec
        /\ RegistrySpec /\ ScenarioSpec /\ LimiterSpec /\ CorridorSpec /\ TowerSpec /\ OrderSpec
<1>1. ServicesInit =>
        /\ ProjectInit /\ ChecklistInit /\ QueueInit /\ DemInit /\ GraphInit /\ GovernanceInit
        /\ RegistryInit /\ ScenarioInit /\ LimiterInit /\ CorridorInit /\ TowerInit /\ OrderInit
  BY DEF ServicesInit
<1>2. [ServicesNext]_servicesVars =>
        /\ [ProjectNext]_projectVars /\ [ChecklistNext]_checklistVars /\ [QueueNext]_queueVars /\ [DemNext]_demVars
        /\ [GraphNext]_graphVars /\ [GovernanceNext]_governanceVars /\ [RegistryNext]_registryVars
        /\ [ScenarioNext]_scenarioVars /\ [LimiterNext]_limiterVars
        /\ [CorridorNext]_corridorVars /\ [TowerNext]_towerVars /\ [OrderNext]_orderVars
  BY ServiceSteps DEF EveryStep
<1>. QED
  BY <1>1, <1>2, PTL
     DEF ServicesSpec, ProjectSpec, ChecklistSpec, QueueSpec, DemSpec, GraphSpec, GovernanceSpec,
         RegistrySpec, ScenarioSpec, LimiterSpec, CorridorSpec, TowerSpec, OrderSpec

(* ServicesTypeOK: the services keep their records well formed, among       *)
(* others the history of scenarios and the bucket within their limits, for  *)
(* every number of callers, jobs, entries, instances, reviewers, models and *)
(* layouts.                                                                 *)
THEOREM ServicesTypeCorrect == ServicesSpec => []ServicesTypeOK
<1>1. /\ ProjectTypeOK /\ ChecklistTypeOK /\ QueueTypeOK /\ DemTypeOK
      /\ GovernanceTypeOK /\ RegistryTypeOK /\ ScenarioTypeOK /\ LimiterTypeOK
      => ServicesTypeOK
  BY DEF ServicesTypeOK
<1>. QED
  BY <1>1, ServicesRunAlone, ProjectTypeCorrect, ChecklistTypeCorrect, QueueTypeCorrect,
     DemTypeCorrect, GovernanceTypeCorrect, RegistryTypeCorrect, ScenarioTypeCorrect,
     LimiterTypeCorrect, PTL

(* The specification of all services keeps what each service, search and   *)
(* graph algorithm keeps: all invariants and action properties at once.    *)
THEOREM ServicesKeepPromises ==
    ServicesSpec =>
        /\ [](OneSite /\ StatusIsEarned /\ QueueIsSound)
        /\ [](DownloadsAccounted /\ EventsTellStatus /\ TrainingsAccounted /\ DeploymentsAgree)
        /\ [](SavesAreKept /\ RateIsKept)
        /\ [](RouteIsSound /\ SpansHold /\ RoutesAreOrdered)
        /\ [](PathsAndTreesAreCheapest /\ SteinerIsGood)
        /\ DecisionsStand
<1>1. ProjectSpec => []OneSite
  BY ProjectHasOneSite
<1>2. ChecklistSpec => []StatusIsEarned
  BY ChecklistStatusEarned
<1>3. QueueSpec => []QueueIsSound
  BY QueueAlwaysSound
<1>4. DemSpec => []DownloadsAccounted
  BY DemAccounted
<1>5. GovernanceSpec => []EventsTellStatus /\ DecisionsStand
  BY EventsAlwaysTell, DecisionsAlwaysStand, PTL
<1>6. RegistrySpec => [](TrainingsAccounted /\ DeploymentsAgree)
  BY RegistryTrainings, RegistryDeployments, PTL
<1>7. ScenarioSpec => []SavesAreKept
  BY ScenarioSavesKept
<1>8. LimiterSpec => []RateIsKept
  BY LimiterKeepsRate
<1>9. GraphSpec => [](PathsAndTreesAreCheapest /\ SteinerIsGood)
  BY PathsAndTrees, SteinerGood, PTL
<1>10. /\ CorridorSpec => []RouteIsSound
       /\ TowerSpec => []SpansHold
       /\ OrderSpec => []RoutesAreOrdered
  BY FoundRoutesAreSound, TowersHold, OrderedRoutes
<1>. QED
  BY <1>1, <1>2, <1>3, <1>4, <1>5, <1>6, <1>7, <1>8, <1>9, <1>10, ServicesRunAlone, PTL
=============================================================================
