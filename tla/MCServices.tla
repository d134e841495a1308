----------------------------- MODULE MCServices -----------------------------
(* One instance of each of the services that share no state: a behaviour    *)
(* exercises one of them, the others stay as they are.                      *)
EXTENDS ProjectStore, Commissioning, WriteQueue, DemWorker, MCGraphCompute,
        RouteGovernance, ModelRegistry, ScenarioStore, RateLimiter,
        MCCorridorRouter, TowerPlacement, RouteOrder

VARIABLE unit   \* the service the behaviour exercises

(* Clients of the project and the ids of its sites are interchangeable. *)
Symmetry == Permutations(Clients) \cup Permutations(SiteIds)

(* Lines of up to three legs, some longer than a span. *)
SmallLines ==
    [legs : {<<a, b, c>> : a \in {60, 120}, b \in {60, 300}, c \in {60, 120}}
            \cup {<<60, 60>>, <<300>>},
     bends : {<<a, b>> : a \in {10, 45}, b \in {10, 45}}, relief : {0, 40},
     minSpan : {50, 100, 150}, maxSpan : {120}, maxDeflection : {20, 60}]

Places == (0..2) \X (0..2)

(* Five places of three times three, or three that may coincide. *)
SmallLayings ==
    {l \in {<<<<0, 0>>, a, b, c, d>> : a, b, c, d \in Places} :
        \A i, j \in 1..5 : i < j => l[i] # l[j]}
    \cup {<<<<0, 0>>, a, b>> : a, b \in Places} \cup {<<<<0, 0>>, a>> : a \in Places}

ServicesInit ==
    /\ unit \in {"project", "checklist", "queue", "dem", "graph", "route", "training",
                 "registry", "scenarios", "limiter", "corridor", "towers", "order"}
    /\ ProjectInit /\ ChecklistInit /\ QueueInit /\ DemInit /\ GraphInit /\ GovernanceInit
    /\ RegistryInit /\ ScenarioInit /\ LimiterInit
    /\ CorridorInit /\ TowerInit /\ OrderInit
    /\ unit # "project" => project = NoPlace
    /\ unit # "checklist" => step[CHOOSE c \in Engineers : TRUE] = "seed"
    /\ unit # "route" => route = NewRoute
    /\ named = IF unit = "registry" THEN KnownSchemas ELSE {}

storeVars == <<checklistVars, queueVars, demVars, scenarioVars, limiterVars>>

searchVars == <<graphVars, corridorVars, towerVars, orderVars>>

(* The others stay as they are.  The registry is exercised twice: training *)
(* alone, and deployments once the models are there.                       *)
ServicesNext ==
    /\ UNCHANGED unit
    /\ \/ /\ unit = "project" /\ ProjectNext
          /\ UNCHANGED <<storeVars, searchVars, governanceVars, registryVars>>
       \/ /\ unit = "checklist" /\ ChecklistNext
          /\ UNCHANGED <<queueVars, demVars, scenarioVars, limiterVars>>
          /\ UNCHANGED <<projectVars, searchVars, governanceVars, registryVars>>
       \/ /\ unit = "queue" /\ QueueNext
          /\ UNCHANGED <<checklistVars, demVars, scenarioVars, limiterVars>>
          /\ UNCHANGED <<projectVars, searchVars, governanceVars, registryVars>>
       \/ /\ unit = "dem" /\ DemNext
          /\ UNCHANGED <<checklistVars, queueVars, scenarioVars, limiterVars>>
          /\ UNCHANGED <<projectVars, searchVars, governanceVars, registryVars>>
       \/ /\ unit = "scenarios" /\ ScenarioNext
          /\ UNCHANGED <<checklistVars, queueVars, demVars, limiterVars>>
          /\ UNCHANGED <<projectVars, searchVars, governanceVars, registryVars>>
       \/ /\ unit = "limiter" /\ LimiterNext
          /\ UNCHANGED <<checklistVars, queueVars, demVars, scenarioVars>>
          /\ UNCHANGED <<projectVars, searchVars, governanceVars, registryVars>>
       \/ /\ unit = "graph" /\ GraphNext
          /\ UNCHANGED <<corridorVars, towerVars, orderVars>>
          /\ UNCHANGED <<projectVars, storeVars, governanceVars, registryVars>>
       \/ /\ unit = "corridor" /\ CorridorNext
          /\ UNCHANGED <<graphVars, towerVars, orderVars>>
          /\ UNCHANGED <<projectVars, storeVars, governanceVars, registryVars>>
       \/ /\ unit = "towers" /\ TowerNext
          /\ UNCHANGED <<graphVars, corridorVars, orderVars>>
          /\ UNCHANGED <<projectVars, storeVars, governanceVars, registryVars>>
       \/ /\ unit = "order" /\ OrderNext
          /\ UNCHANGED <<graphVars, corridorVars, towerVars>>
          /\ UNCHANGED <<projectVars, storeVars, governanceVars, registryVars>>
       \/ /\ unit = "route" /\ GovernanceNext
          /\ UNCHANGED <<projectVars, storeVars, searchVars, registryVars>>
       \/ /\ unit = "training"
          /\ RegistryCrash \/ \E m \in Models : TrainingStep(m)
          /\ UNCHANGED <<projectVars, storeVars, searchVars, governanceVars>>
       \/ /\ unit = "registry"
          /\ RegistryCrash \/ \E c \in Deployers : DeployStep(c)
          /\ UNCHANGED <<projectVars, storeVars, searchVars, governanceVars>>

servicesVars == <<projectVars, storeVars, searchVars, governanceVars, registryVars, unit>>

ServicesSpec == ServicesInit /\ [][ServicesNext]_servicesVars

-----------------------------------------------------------------------------
(* Properties *)

(* Every service keeps its records well formed, whatever steps interleave  *)
(* and fail: among others the bounded history of scenarios and the bucket  *)
(* of the rate limiter stay within their limits.                           *)
ServicesTypeOK ==
    /\ ProjectTypeOK /\ ChecklistTypeOK /\ QueueTypeOK /\ DemTypeOK
    /\ GovernanceTypeOK /\ RegistryTypeOK /\ ScenarioTypeOK /\ LimiterTypeOK
=============================================================================
