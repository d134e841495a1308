--------------------------- MODULE RouteGovernance ---------------------------
(***************************************************************************)
(* The review of one transmission route: governance.go of the              *)
(* transmission-routing-service.  Each call reads the whole route, checks  *)
(* its status, appends an event to the copy and writes status, events and  *)
(* metadata back with an UPDATE that asks for the id only, so a decision   *)
(* can be written over another one that the call has not seen.             *)
(***************************************************************************)
EXTENDS Sequences, Naturals

CONSTANTS Reviewers,   \* the actors, one call each at a time
          NoReviewer   \* an empty approved_by

ASSUME GovernanceAssumption == NoReviewer \notin Reviewers

Stages == {"draft", "engineering_review", "approved", "rejected"}

VARIABLES
    route,     \* the row, or the row of a deleted route
    holding,   \* per actor: its copy of the row, changed but not yet written
               \* (DeletedRoute when it has none)
    decided    \* per actor: the status it is about to write, or "none"

governanceVars == <<route, holding, decided>>

(* certifiedBy is approved_by of the traceability bundle in the metadata,  *)
(* approvedBy the column; traceable says whether the bundle is complete.   *)
RouteRow(status, events, approvedBy, certifiedBy, traceable) ==
    [status |-> status, events |-> events, approvedBy |-> approvedBy,
     certifiedBy |-> certifiedBy, traceable |-> traceable]

Event(from, to, actor) == [from |-> from, to |-> to, actor |-> actor]

(* Stored by the service with its first event, or older than the governance *)
(* columns: no event and no bundle.                                        *)
NewRoute == RouteRow("draft", <<Event("", "draft", NoReviewer)>>, NoReviewer, NoReviewer, TRUE)
OldRoute == RouteRow("draft", << >>, NoReviewer, NoReviewer, FALSE)
DeletedRoute == [NewRoute EXCEPT !.status = "deleted"]

GovernanceInit ==
    /\ route \in {NewRoute, OldRoute}
    /\ holding = [a \in Reviewers |-> DeletedRoute]
    /\ decided = [a \in Reviewers |-> "none"]

(* Mutant: the approval is not written into the bundle. *)
DecidedUncertified(copy, to, actor) ==
    [copy EXCEPT !.status = to,
                 !.events = Append(@, Event(copy.status, to, actor)),
                 !.approvedBy = IF to = "approved" THEN actor ELSE @]

(* What a call writes into its copy. *)
Decided(copy, to, actor) ==
    [copy EXCEPT !.status = to,
                 !.events = Append(@, Event(copy.status, to, actor)),
                 !.approvedBy = IF to = "approved" THEN actor ELSE @,
                 !.certifiedBy = IF to = "approved" THEN actor ELSE @]

(* The checks of a call and the change of its copy. *)
ReadRoute(a, from, to) ==
    /\ decided[a] = "none"
    /\ route.status = from
    /\ holding' = [holding EXCEPT ![a] = Decided(route, to, a)]
    /\ decided' = [decided EXCEPT ![a] = to]
    /\ UNCHANGED route

(* Mutant: a rejected route can be handed in again. *)
SubmitAgain(a) ==
    /\ route.traceable
    /\ \E from \in {"draft", "rejected"} : ReadRoute(a, from, "engineering_review")

SubmitForReview(a) == route.traceable /\ ReadRoute(a, "draft", "engineering_review")

Approve(a) == route.traceable /\ ReadRoute(a, "engineering_review", "approved")

Reject(a) == ReadRoute(a, "engineering_review", "rejected")

(* The UPDATE: the column approved_by is in the statement of Approve only. *)
WriteRoute(a) ==
    /\ decided[a] # "none"
    /\ route' = IF route.status = "deleted" THEN route
                ELSE [holding[a] EXCEPT !.approvedBy = IF decided[a] = "approved" THEN @
                                                       ELSE route.approvedBy]
    /\ holding' = [holding EXCEPT ![a] = DeletedRoute]
    /\ decided' = [decided EXCEPT ![a] = "none"]

(* The call ends between its two statements. *)
DropCall(a) ==
    /\ decided[a] # "none"
    /\ holding' = [holding EXCEPT ![a] = DeletedRoute]
    /\ decided' = [decided EXCEPT ![a] = "none"]
    /\ UNCHANGED route

DeleteRoute ==
    /\ route.status # "deleted"
    /\ route' = DeletedRoute
    /\ UNCHANGED <<holding, decided>>

ReviewStep(a) == SubmitForReview(a) \/ Approve(a) \/ Reject(a) \/ WriteRoute(a) \/ DropCall(a)

GovernanceNext == DeleteRoute \/ \E a \in Reviewers : ReviewStep(a)

GovernanceSpec == GovernanceInit /\ [][GovernanceNext]_governanceVars

-----------------------------------------------------------------------------
(* Properties *)

RouteEvents == [from : Stages \cup {""}, to : Stages, actor : Reviewers \cup {NoReviewer}]

RouteRows == [status : Stages \cup {"deleted"}, events : Seq(RouteEvents),
              approvedBy : Reviewers \cup {NoReviewer},
              certifiedBy : Reviewers \cup {NoReviewer}, traceable : BOOLEAN]

(* Type correctness of the row and of the copies. *)
GovernanceTypeOK ==
    /\ route \in RouteRows
    /\ holding \in [Reviewers -> RouteRows]
    /\ decided \in [Reviewers -> Stages \cup {"none"}]

(* Each event starts where the one before it ended. *)
EventsJoin(events) ==
    \A i \in DOMAIN events : i > 1 => events[i].from = events[i - 1].to

(* The event stream is one path through the stages that ends in the status *)
(* of the row, and both the bundle and the column of an approved route     *)
(* name the actor of its last event, whatever calls overlapped.  Only the  *)
(* bundle can be relied on the other way round: the column keeps the name  *)
(* of an approval that was written over.                                   *)
EventsTellStatus ==
    route.status # "deleted" =>
        LET last == route.events[Len(route.events)]
        IN  /\ EventsJoin(route.events)
            /\ route.events # << >> => last.to = route.status
            /\ route.certifiedBy # NoReviewer <=> route.status = "approved"
            /\ route.status = "approved" =>
                   route.certifiedBy = last.actor /\ route.approvedBy = last.actor

(* A route that was approved or rejected is out of review for good, unless *)
(* it is deleted or written over by a call that read it before the         *)
(* decision.  The events tell: such a call brings back a stream in which   *)
(* the decision is missing.                                                *)
DecisionsStand ==
    [][\/ route.status \notin {"approved", "rejected"}
       \/ route'.status = "deleted"
       \/ \E a \in Reviewers : decided[a] # "none" /\ route'.events = holding[a].events
                               /\ Len(holding[a].events) <= Len(route.events)]_route
=============================================================================
