---------------------------- MODULE ProjectStore ----------------------------
(***************************************************************************)
(* The rows project-service keeps of one project: the project itself, its   *)
(* site and the constraint zones of the site, under the calls of its        *)
(* handlers.                                                                *)
(*                                                                          *)
(* A site is replaced in a transaction that first locks the project row,    *)
(* then deletes the stored site, its zones with it, and inserts another.    *)
(* All other calls work without a transaction: they read the rows first     *)
(* and write, in a later statement, what they have made of them.            *)
(*                                                                          *)
(* Of a project's fields the model keeps its coordinates, of the zones      *)
(* whether a site has any.  The number of zones in the site row, which      *)
(* nobody reads, is left out, and so are the workflow columns of migration  *)
(* 016, which no statement of the repository names.                         *)
(***************************************************************************)
CONSTANTS Clients,           \* calls in progress at a time
          Coordinates, NoPlace,   \* coordinates; (0, 0) means not set
          SiteIds, NoSite,   \* bound: the sites ever inserted
          NoClient, NoProject

ASSUME ProjectAssumption ==
    /\ NoPlace \notin Coordinates /\ NoProject \notin Coordinates \cup {NoPlace}
    /\ NoSite \notin SiteIds /\ NoClient \notin Clients

VARIABLES
    project,     \* the coordinates in the project row; NoProject when it is deleted
    sites,       \* the committed site rows of the project
    zones,       \* the sites for which constraint zones are stored
    usedSites,   \* ids given so far; they are random in the code
    locked,      \* the transaction that holds the lock of the project row
    pstep,       \* the next step of a call
    held,        \* the coordinates a call is going to write
    mine,        \* the site a call inserts, or the one it imports zones for
    gone         \* the sites the transaction of a call has deleted

projectCall == <<pstep, held, mine, gone>>
projectVars == <<project, sites, zones, usedSites, locked, projectCall>>

ProjectInit ==
    /\ project \in {NoPlace} \cup Coordinates
    /\ sites = {} /\ usedSites = {} /\ zones = {}
    /\ locked = NoClient
    /\ pstep = [c \in Clients |-> "idle"]
    /\ held = [c \in Clients |-> NoPlace]
    /\ mine = [c \in Clients |-> NoSite]
    /\ gone = [c \in Clients |-> {}]

(* A call returns, its transaction is over. *)
EndCall(c) ==
    /\ pstep' = [pstep EXCEPT ![c] = "idle"]
    /\ held' = [held EXCEPT ![c] = NoPlace]
    /\ mine' = [mine EXCEPT ![c] = NoSite]
    /\ gone' = [gone EXCEPT ![c] = {}]
    /\ locked' = IF locked = c THEN NoClient ELSE locked

-----------------------------------------------------------------------------
(* CreateSite and ImportSiteBoundary.  The site created by CreateSite may   *)
(* have coordinates; that of an import has none for the project to take.    *)

(* The project exists when the call looks. *)
BeginSite(c) ==
    /\ pstep[c] = "idle" /\ project # NoProject
    /\ \E s \in SiteIds \ usedSites :
          /\ usedSites' = usedSites \cup {s}
          /\ mine' = [mine EXCEPT ![c] = s]
    /\ \E p \in Coordinates \cup {NoPlace} : held' = [held EXCEPT ![c] = p]
    /\ pstep' = [pstep EXCEPT ![c] = "lock"]
    /\ UNCHANGED <<project, sites, zones, locked, gone>>

(* Mutant: the row is read without FOR UPDATE. *)
ReadProject(c) ==
    /\ pstep[c] = "lock"
    /\ pstep' = [pstep EXCEPT ![c] = "delete"]
    /\ UNCHANGED <<project, sites, zones, usedSites, locked, held, mine, gone>>

(* SELECT ... FOR UPDATE: waits for the transaction that holds the row; a   *)
(* row deleted in the meantime is not an error, it locks nothing.           *)
LockProject(c) ==
    /\ pstep[c] = "lock" /\ locked = NoClient
    /\ locked' = IF project = NoProject THEN NoClient ELSE c
    /\ pstep' = [pstep EXCEPT ![c] = "delete"]
    /\ UNCHANGED <<project, sites, zones, usedSites, held, mine, gone>>

DeleteSites(c) ==
    /\ pstep[c] = "delete"
    /\ gone' = [gone EXCEPT ![c] = sites]
    /\ pstep' = [pstep EXCEPT ![c] = "insert"]
    /\ UNCHANGED <<project, sites, zones, usedSites, locked, held, mine>>

(* The foreign key refuses a site of a project that is gone. *)
InsertSite(c) ==
    /\ pstep[c] = "insert"
    /\ IF project # NoProject
       THEN pstep' = [pstep EXCEPT ![c] = "commit"] /\ UNCHANGED <<held, mine, gone, locked>>
       ELSE EndCall(c)
    /\ UNCHANGED <<project, sites, zones, usedSites>>

(* After a commit it has heard of, CreateSite goes on to the coordinates of *)
(* the project; one whose answer is lost returns an error.                  *)
CommitSite(c) ==
    /\ pstep[c] = "commit"
    /\ sites' = (sites \ gone[c]) \cup {mine[c]}
    /\ zones' = zones \ gone[c]   \* the zones of a deleted site go with it
    /\ \/ EndCall(c)
       \/ /\ held[c] # NoPlace
          /\ pstep' = [pstep EXCEPT ![c] = "look"]
          /\ mine' = [mine EXCEPT ![c] = NoSite]
          /\ gone' = [gone EXCEPT ![c] = {}]
          /\ locked' = IF locked = c THEN NoClient ELSE locked
          /\ UNCHANGED held
    /\ UNCHANGED <<project, usedSites>>

(* CreateSite loads the project; one without coordinates takes the site's. *)
LookForPlace(c) ==
    /\ pstep[c] = "look"
    /\ IF project = NoPlace
       THEN pstep' = [pstep EXCEPT ![c] = "sync"] /\ UNCHANGED <<held, mine, gone, locked>>
       ELSE EndCall(c)
    /\ UNCHANGED <<project, sites, zones, usedSites>>

-----------------------------------------------------------------------------
(* The project row: UpdateProject, DeleteProject *)

(* UpdateProjectREST loads the project and changes the fields it is given;  *)
(* UpdateProject of the JSON gateway replaces them all and loads nothing.   *)
BeginUpdate(c) ==
    /\ pstep[c] = "idle"
    /\ \/ project # NoProject /\ held' = [held EXCEPT ![c] = project]
       \/ \E p \in Coordinates \cup {NoPlace} : held' = [held EXCEPT ![c] = p]
    /\ pstep' = [pstep EXCEPT ![c] = "update"]
    /\ UNCHANGED <<project, sites, zones, usedSites, locked, mine, gone>>

(* The statement writes every field of the copy, unless the row is gone. *)
UpdateProject(c) ==
    /\ pstep[c] \in {"update", "sync"} /\ locked = NoClient
    /\ project' = IF project = NoProject THEN NoProject ELSE held[c]
    /\ EndCall(c)
    /\ UNCHANGED <<sites, zones, usedSites>>

(* The sites of the project, and their zones, go with it. *)
DeleteProject(c) ==
    /\ pstep[c] = "idle" /\ locked = NoClient
    /\ project' = NoProject
    /\ sites' = {} /\ zones' = {}
    /\ UNCHANGED <<usedSites, locked, projectCall>>

-----------------------------------------------------------------------------
(* ImportConstraintZones *)

(* The project and its site are looked up, the payload is parsed. *)
BeginZones(c) ==
    /\ pstep[c] = "idle" /\ project # NoProject
    /\ \E s \in sites : mine' = [mine EXCEPT ![c] = s]
    /\ pstep' = [pstep EXCEPT ![c] = "zones"]
    /\ UNCHANGED <<project, sites, zones, usedSites, locked, held, gone>>

(* The zones are inserted in one batch, each under a new id, so that none   *)
(* conflicts with a stored one.  The foreign key waits for a transaction    *)
(* that has deleted the site, and refuses zones of a site that is gone.     *)
(* The call may still fail after the batch, in counting the zones.          *)
InsertZones(c) ==
    /\ pstep[c] = "zones"
    /\ \A d \in Clients : mine[c] \notin gone[d]
    /\ zones' = zones \cup ({mine[c]} \cap sites)
    /\ EndCall(c)
    /\ UNCHANGED <<project, sites, usedSites>>

-----------------------------------------------------------------------------
(* A statement fails, its context ends, or the commit does not happen: the  *)
(* call returns an error, a transaction is rolled back.                     *)
ProjectCallFails(c) ==
    /\ pstep[c] # "idle"
    /\ EndCall(c)
    /\ UNCHANGED <<project, sites, zones, usedSites>>

(* The process ends; the database rolls its transactions back. *)
ProjectCrash ==
    /\ pstep' = [c \in Clients |-> "idle"] /\ held' = [c \in Clients |-> NoPlace]
    /\ mine' = [c \in Clients |-> NoSite] /\ gone' = [c \in Clients |-> {}]
    /\ locked' = NoClient
    /\ UNCHANGED <<project, sites, zones, usedSites>>

ProjectStep(c) ==
    \/ BeginSite(c) \/ LockProject(c) \/ DeleteSites(c) \/ InsertSite(c) \/ CommitSite(c)
    \/ LookForPlace(c)
    \/ BeginUpdate(c) \/ UpdateProject(c) \/ DeleteProject(c)
    \/ BeginZones(c) \/ InsertZones(c)
    \/ ProjectCallFails(c)

ProjectNext == (\E c \in Clients : ProjectStep(c)) \/ ProjectCrash

ProjectSpec == ProjectInit /\ [][ProjectNext]_projectVars

-----------------------------------------------------------------------------
(* Properties *)

ProjectSteps == {"idle", "lock", "delete", "insert", "commit", "look", "sync", "update", "zones"}

(* The steps in which the transaction of a site is open. *)
Replacing == {"delete", "insert", "commit"}

(* Type correctness of the rows and the calls. *)
ProjectTypeOK ==
    /\ project \in Coordinates \cup {NoPlace, NoProject}
    /\ sites \subseteq SiteIds /\ usedSites \subseteq SiteIds /\ zones \subseteq SiteIds
    /\ locked \in Clients \cup {NoClient}
    /\ pstep \in [Clients -> ProjectSteps]
    /\ held \in [Clients -> Coordinates \cup {NoPlace}]
    /\ mine \in [Clients -> SiteIds \cup {NoSite}]
    /\ gone \in [Clients -> SUBSET SiteIds]

(* However site calls, imports and a deletion of the project overtake each  *)
(* other, fail half way or die with the process, the project has at most    *)
(* one site, none once it is deleted, and every stored zone belongs to the  *)
(* site that is stored: an import that read the site before it was replaced *)
(* leaves no zone behind (repository.go locks the project "to avoid         *)
(* concurrent create requests producing multiple rows").                    *)
OneSite ==
    /\ \A s, t \in sites : s = t
    /\ project = NoProject => sites = {}
    /\ zones \subseteq sites
=============================================================================
