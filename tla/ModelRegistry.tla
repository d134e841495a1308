---------------------------- MODULE ModelRegistry ----------------------------
(***************************************************************************)
(* The model registry of compute-service for one task type: training runs, *)
(* the model versions they create, deployments and the row that names the  *)
(* active model.  A training run goes on in a goroutine after StartTraining *)
(* has answered; a deployment at full traffic is up to six statements.  No *)
(* two statements share a transaction and most errors at the end of a      *)
(* deployment are ignored.                                                 *)
(*                                                                         *)
(* A run and the version it creates have one name.  Evaluation runs,       *)
(* feedback and the audit events are left out: nothing reads them.         *)
(***************************************************************************)
EXTENDS Naturals, Sequences, FiniteSets

CONSTANTS Models,          \* training runs
          KnownSchemas,    \* those whose feature schema has a row
          NoModel,
          Deployers,       \* concurrent callers of deploy and rollback
          MaxDeployments   \* bound on the deployments of a behaviour

ASSUME RegistryAssumption == KnownSchemas \subseteq Models /\ NoModel \notin Models

VARIABLES
    run,           \* status of the training runs
    named,         \* the runs whose metrics name their model version
    training,      \* per run: the next statement of its goroutine, or "none"
    version,       \* status of the model versions, "none" without a row
    deployments,   \* the rows of deployments: the model and the status
    active,        \* the row of the active model
    doing,         \* per caller: the call it is in
    interrupted,   \* history: runs whose goroutine was cut short
    disturbed      \* history: a rollback, an overlap or an error came about

trainingVars == <<run, named, training, interrupted>>
deployVars == <<deployments, active, doing, disturbed>>
registryVars == <<trainingVars, deployVars, version>>

Active(current, previous, deployment) ==
    [current |-> current, previous |-> previous, deployment |-> deployment]

Doing(at, model, previous, deployment) ==
    [at |-> at, model |-> model, previous |-> previous, deployment |-> deployment]

Idle == Doing("idle", NoModel, NoModel, 0)

(* A start of the service: some models may have been trained before. *)
RegistryInit ==
    /\ named \in SUBSET KnownSchemas
    /\ run = [m \in Models |-> IF m \in named THEN "completed" ELSE "none"]
    /\ version = [m \in Models |-> IF m \in named THEN "candidate" ELSE "none"]
    /\ training = [m \in Models |-> "none"]
    /\ deployments = << >>
    /\ active = Active(NoModel, NoModel, 0)
    /\ doing = [c \in Deployers |-> Idle]
    /\ interrupted = {}
    /\ disturbed = FALSE

-----------------------------------------------------------------------------
(* Training.  A statement that fails may have taken effect all the same:   *)
(* "lost" is an answer that did not arrive.                                *)

Answers == {"ok", "error", "lost"}
Applied(answer) == answer # "error"

(* UpdateTrainingRunStatus: what the goroutine does next is training'. *)
WriteRun(m, status, answer) ==
    run' = IF Applied(answer) THEN [run EXCEPT ![m] = status] ELSE run

Interrupted(m, answer) ==
    interrupted' = IF answer = "ok" THEN interrupted ELSE interrupted \cup {m}

(* The row is created and then the goroutine started: without an answer, or *)
(* when the process ends in between, nobody works on the queued run.       *)
StartTraining(m) ==
    /\ run[m] = "none"
    /\ run' = [run EXCEPT ![m] = "queued"]
    /\ \E answer \in {"ok", "lost"} :
          /\ training' = [training EXCEPT ![m] = IF answer = "ok" THEN "running" ELSE "none"]
          /\ Interrupted(m, answer)
    /\ UNCHANGED <<named, version, deployVars>>

MarkRunning(m) ==
    /\ training[m] = "running"
    /\ \E answer \in Answers :
          /\ WriteRun(m, "running", answer)
          /\ training' = [training EXCEPT ![m] = IF answer = "ok" THEN "metrics" ELSE "none"]
          /\ Interrupted(m, answer)
    /\ UNCHANGED <<named, version, deployVars>>

(* The metrics name the model version before it exists. *)
RecordMetrics(m) ==
    /\ training[m] = "metrics"
    /\ \E answer \in Answers :
          /\ named' = IF Applied(answer) THEN named \cup {m} ELSE named
          /\ WriteRun(m, "running", answer)
          /\ training' = [training EXCEPT ![m] = IF answer = "ok" THEN "version" ELSE "failed"]
    /\ UNCHANGED <<interrupted, version, deployVars>>

(* Mutant: the error is only recorded. *)
CreateVersionAnyway(m) ==
    /\ training[m] = "version"
    /\ \E answer \in Answers :
          /\ m \in KnownSchemas \/ answer = "error"
          /\ version' = IF Applied(answer) THEN [version EXCEPT ![m] = "candidate"] ELSE version
          /\ training' = [training EXCEPT ![m] = "completed"]
    /\ UNCHANGED <<run, named, interrupted, deployVars>>

(* The row refers to a feature schema, and nothing creates one. *)
CreateVersion(m) ==
    /\ training[m] = "version"
    /\ \E answer \in Answers :
          /\ m \in KnownSchemas \/ answer = "error"
          /\ version' = IF Applied(answer) THEN [version EXCEPT ![m] = "candidate"] ELSE version
          /\ training' = [training EXCEPT ![m] = IF answer = "ok" THEN "completed" ELSE "failed"]
    /\ UNCHANGED <<run, named, interrupted, deployVars>>

FinishRun(m) ==
    /\ training[m] \in {"completed", "failed"}
    /\ \E answer \in Answers :
          WriteRun(m, training[m], answer) /\ Interrupted(m, answer)
    /\ training' = [training EXCEPT ![m] = "none"]
    /\ UNCHANGED <<named, version, deployVars>>

-----------------------------------------------------------------------------
(* Deployment and rollback.  A call's context can end between any two      *)
(* statements: those that follow fail too.                                 *)

Overlaps(c) == \E d \in Deployers \ {c} : doing[d].at # "idle"

GoTo(c, at) == doing' = [doing EXCEPT ![c].at = at]
Return(c) == doing' = [doing EXCEPT ![c] = Idle]

(* At less than full traffic this is all: a canary and nothing else. *)
DeployModelVersion(c, m, full) ==
    /\ doing[c].at = "idle"
    /\ version[m] # "none"
    /\ Len(deployments) < MaxDeployments
    /\ deployments' = Append(deployments, [model |-> m, status |-> "canary"])
    /\ IF full THEN doing' = [doing EXCEPT ![c] =
                                 Doing("read", m, NoModel, Len(deployments) + 1)]
       ELSE UNCHANGED doing
    /\ disturbed' = (disturbed \/ (full /\ Overlaps(c)))
    /\ UNCHANGED <<active, version, trainingVars>>

(* Mutant: the model in use is not remembered. *)
ReadActiveForgotten(c) ==
    /\ doing[c].at = "read"
    /\ doing' = [doing EXCEPT ![c].at = "set"]
    /\ UNCHANGED <<deployments, active, disturbed, version, trainingVars>>

ReadActive(c) ==
    /\ doing[c].at = "read"
    /\ doing' = [doing EXCEPT ![c].at = "set",
                              ![c].previous = IF active.current = doing[c].model THEN NoModel
                                              ELSE active.current]
    /\ UNCHANGED <<deployments, active, disturbed, version, trainingVars>>

SetActiveModel(c) ==
    /\ doing[c].at = "set"
    /\ active' = Active(doing[c].model, doing[c].previous, doing[c].deployment)
    /\ GoTo(c, "promote")
    /\ UNCHANGED <<deployments, disturbed, version, trainingVars>>

PromoteDeployment(c) ==
    /\ doing[c].at = "promote"
    /\ deployments' = [deployments EXCEPT ![doing[c].deployment].status = "active"]
    /\ GoTo(c, "champion")
    /\ UNCHANGED <<active, disturbed, version, trainingVars>>

MakeChampion(c) ==
    /\ doing[c].at = "champion"
    /\ version' = [version EXCEPT ![doing[c].model] = "champion"]
    /\ IF doing[c].previous = NoModel THEN Return(c) ELSE GoTo(c, "archive")
    /\ UNCHANGED <<deployments, active, disturbed, trainingVars>>

ArchivePrevious(c) ==
    /\ doing[c].at = "archive"
    /\ version' = [version EXCEPT ![doing[c].previous] = "archived"]
    /\ Return(c)
    /\ UNCHANGED <<deployments, active, disturbed, trainingVars>>

(* The row keeps its previous model and its deployment, and the statuses   *)
(* of the two versions stay: the model taken out remains the champion.     *)
RollbackModel(c) ==
    /\ doing[c].at = "idle"
    /\ active.previous # NoModel
    /\ doing' = [doing EXCEPT ![c] = Doing("rollback", active.previous, active.previous,
                                           active.deployment)]
    /\ disturbed' = TRUE
    /\ UNCHANGED <<deployments, active, version, trainingVars>>

SetRolledBack(c) ==
    /\ doing[c].at = "rollback"
    /\ active' = Active(doing[c].model, doing[c].previous, doing[c].deployment)
    /\ Return(c)
    /\ UNCHANGED <<deployments, disturbed, version, trainingVars>>

(* An error up to the write of the active model ends the call, whether that *)
(* was written or not; one after it is ignored, and the next statement is  *)
(* tried.                                                                  *)
StatementFails(c) ==
    /\ doing[c].at # "idle"
    /\ active' \in {active} \cup IF doing[c].at \notin {"set", "rollback"} THEN {}
                     ELSE {Active(doing[c].model, doing[c].previous, doing[c].deployment)}
    /\ CASE doing[c].at = "promote" -> GoTo(c, "champion")
         [] doing[c].at = "champion" /\ doing[c].previous # NoModel -> GoTo(c, "archive")
         [] OTHER -> Return(c)
    /\ disturbed' = TRUE
    /\ UNCHANGED <<deployments, version, trainingVars>>

(* The process ends: goroutines and calls are gone, and the next start does *)
(* not take up a run that was left behind.                                 *)
RegistryCrash ==
    /\ interrupted' = interrupted \cup {m \in Models : training[m] # "none"}
    /\ training' = [m \in Models |-> "none"]
    /\ disturbed' = (disturbed \/ \E c \in Deployers : doing[c].at # "idle")
    /\ doing' = [c \in Deployers |-> Idle]
    /\ UNCHANGED <<run, named, version, deployments, active>>

TrainingStep(m) ==
    StartTraining(m) \/ MarkRunning(m) \/ RecordMetrics(m) \/ CreateVersion(m) \/ FinishRun(m)

DeployStep(c) ==
    \/ \E m \in Models, full \in BOOLEAN : DeployModelVersion(c, m, full)
    \/ ReadActive(c) \/ SetActiveModel(c) \/ PromoteDeployment(c) \/ MakeChampion(c)
    \/ ArchivePrevious(c) \/ RollbackModel(c) \/ SetRolledBack(c) \/ StatementFails(c)

RegistryNext ==
    RegistryCrash \/ (\E m \in Models : TrainingStep(m)) \/ (\E c \in Deployers : DeployStep(c))

RegistrySpec == RegistryInit /\ [][RegistryNext]_registryVars

-----------------------------------------------------------------------------
(* Properties *)

(* Type correctness of the tables, the goroutines and the calls. *)
RegistryTypeOK ==
    /\ run \in [Models -> {"none", "queued", "running", "completed", "failed"}]
    /\ named \subseteq Models /\ interrupted \subseteq Models
    /\ training \in [Models -> {"none", "running", "metrics", "version", "completed", "failed"}]
    /\ version \in [Models -> {"none", "candidate", "champion", "archived"}]
    /\ deployments \in Seq([model : Models, status : {"canary", "active"}])
    /\ active \in [current : Models \cup {NoModel}, previous : Models \cup {NoModel},
                   deployment : 0..Len(deployments)]
    /\ doing \in [Deployers -> [at : {"idle", "read", "set", "promote", "champion", "archive",
                                      "rollback"},
                                model : Models \cup {NoModel}, previous : Models \cup {NoModel},
                                deployment : 0..Len(deployments)]]
    /\ disturbed \in BOOLEAN

(* A completed run has its model version and names it, and no version      *)
(* exists without a run that names it.                                     *)
CompletedHasModel ==
    \A m \in Models :
        /\ run[m] = "completed" => version[m] # "none"
        /\ version[m] # "none" => m \in named

(* A run that is queued or running has a goroutine that will end it, unless *)
(* a write of its status failed or the process ended meanwhile.            *)
RunsAreAttended ==
    \A m \in Models :
        run[m] \in {"queued", "running"} => training[m] # "none" \/ m \in interrupted

(* As long as every call is over before the next one starts, none fails    *)
(* and none rolls back, the active model is the only champion.             *)
ChampionIsActive ==
    ~disturbed /\ (\A c \in Deployers : doing[c].at = "idle") =>
        {m \in Models : version[m] = "champion"} = {active.current} \ {NoModel}

(* However calls overlap, the model in use exists, and it is the one its   *)
(* deployment brought in or, recognisably, the one a rollback went back to. *)
ActiveIsDeployed ==
    active.current # NoModel =>
        /\ version[active.current] # "none"
        /\ \/ active.current = deployments[active.deployment].model
           \/ active.current = active.previous

(* Whatever fails on the way, a training is on its way, cut short, failed, *)
(* or completed with its model.                                            *)
TrainingsAccounted == CompletedHasModel /\ RunsAreAttended

(* The tables of versions, deployments and the active model agree as far as *)
(* overlapping and failing calls let them.                                 *)
DeploymentsAgree == ChampionIsActive /\ ActiveIsDeployed
=============================================================================
