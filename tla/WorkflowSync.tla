---------------------------- MODULE WorkflowSync ----------------------------
(***************************************************************************)
(* The workflow store of the frontend: it follows the active project, asks *)
(* for its workflow state when the project changes and from a timer, and   *)
(* applies whatever answer comes, in whatever order.                       *)
(***************************************************************************)
EXTENDS Integers

CONSTANTS Projects,
          NoProject,   \* the empty project id
          Requests     \* bound: requests on their way at a time

ASSUME SyncAssumption == NoProject \notin Projects

VARIABLES
    bound,      \* currentProjectId
    view,       \* the parts of workflowState that depend on the order of events
    timer,      \* syncTimer is set
    listening,  \* visibilityListenerAttached
    request     \* the calls of refreshWorkflowState waiting for their answer

syncVars == <<bound, view, timer, listening, request>>

InitialState == [project |-> NoProject, loading |-> FALSE, error |-> FALSE, polling |-> TRUE]

(* binding: bindWorkflowProject waits for it and goes on after it. *)
NoRequest == [project |-> NoProject, binding |-> FALSE]

OnTheirWay == {q \in Requests : request[q].project # NoProject}

SyncInit ==
    /\ bound = NoProject
    /\ view = InitialState
    /\ timer = FALSE
    /\ listening = FALSE
    /\ request = [q \in Requests |-> NoRequest]

(* The answer is asked for at once; the timer is left as it is until then. *)
Bind(q, p) ==
    /\ q \notin OnTheirWay
    /\ bound' = p
    /\ view' = [view EXCEPT !.project = IF bound # p THEN p ELSE @,
                            !.error = IF bound # p THEN FALSE ELSE @,
                            !.loading = TRUE]
    /\ request' = [request EXCEPT ![q] = [project |-> p, binding |-> TRUE]]
    /\ UNCHANGED <<timer, listening>>

(* Mutant: the timer goes on. *)
UnbindOnly ==
    /\ view' = InitialState
    /\ bound' = NoProject
    /\ UNCHANGED <<timer, listening, request>>

(* No project is active; requests on their way are not cancelled. *)
Unbind ==
    /\ timer' = FALSE
    /\ view' = InitialState
    /\ bound' = NoProject
    /\ UNCHANGED <<listening, request>>

(* Mutant: the timer asks for the project that is shown. *)
PollShown(q) ==
    /\ timer /\ q \notin OnTheirWay /\ view.project # NoProject
    /\ view' = [view EXCEPT !.loading = TRUE]
    /\ request' = [request EXCEPT ![q] = [project |-> view.project, binding |-> FALSE]]
    /\ UNCHANGED <<bound, timer, listening>>

(* The timer fires, also while an earlier request is on its way. *)
Poll(q) ==
    /\ timer /\ q \notin OnTheirWay /\ bound # NoProject
    /\ view' = [view EXCEPT !.loading = TRUE]
    /\ request' = [request EXCEPT ![q] = [project |-> bound, binding |-> FALSE]]
    /\ UNCHANGED <<bound, timer, listening>>

(* bindWorkflowProject goes on: whichever project is active by now, and    *)
(* whether polling is enabled or not, the timer is set.                    *)
GoesOn(q) ==
    /\ request' = [request EXCEPT ![q] = NoRequest]
    /\ listening' = (listening \/ request[q].binding)
    /\ timer' = IF request[q].binding THEN bound # NoProject ELSE timer
    /\ UNCHANGED bound

(* The answer is shown, whichever project is active by now. *)
ApplyState(q) ==
    /\ q \in OnTheirWay
    /\ view' = [view EXCEPT !.project = request[q].project, !.error = FALSE, !.loading = FALSE]
    /\ GoesOn(q)

RequestFails(q) ==
    /\ q \in OnTheirWay
    /\ view' = [view EXCEPT !.error = TRUE, !.loading = FALSE]
    /\ GoesOn(q)

(* The page is hidden or shown: the timer is set anew. *)
VisibilityChange ==
    /\ listening /\ bound # NoProject /\ view.polling
    /\ timer' = TRUE
    /\ UNCHANGED <<bound, view, listening, request>>

SetRealtimeSync(enabled) ==
    /\ view' = [view EXCEPT !.polling = enabled]
    /\ timer' = (enabled /\ (timer \/ bound # NoProject))
    /\ UNCHANGED <<bound, listening, request>>

SyncNext ==
    \/ \E q \in Requests : Poll(q) \/ ApplyState(q) \/ RequestFails(q) \/ \E p \in Projects : Bind(q, p)
    \/ Unbind
    \/ VisibilityChange
    \/ \E enabled \in BOOLEAN : SetRealtimeSync(enabled)

SyncSpec == SyncInit /\ [][SyncNext]_syncVars

(* Requests are answered or fail, and the timer fires. *)
SyncFairness ==
    /\ \A q \in Requests : WF_syncVars(ApplyState(q) \/ RequestFails(q))
    /\ WF_syncVars(\E q \in Requests : Poll(q))

SyncFairSpec == SyncSpec /\ SyncFairness

-----------------------------------------------------------------------------
(* Properties *)

(* Type correctness of the store and its requests. *)
SyncTypeOK ==
    /\ bound \in Projects \cup {NoProject}
    /\ view \in [project : Projects \cup {NoProject}, loading : BOOLEAN,
                 error : BOOLEAN, polling : BOOLEAN]
    /\ timer \in BOOLEAN /\ listening \in BOOLEAN
    /\ request \in [Requests -> [project : Projects \cup {NoProject}, binding : BOOLEAN]]

(* The timer runs only for an active project.  An active project is polled, *)
(* unless polling was switched off or the answer that sets the timer is     *)
(* still on its way; and the panels show "loading" only while a request is. *)
ProjectIsPolled ==
    /\ timer => bound # NoProject
    /\ bound # NoProject /\ view.polling =>
          timer \/ \E q \in OnTheirWay : request[q].binding
    /\ view.loading => OnTheirWay # {}

(* Answers for a project that was left may come late and be shown; if a    *)
(* project stays active, polling on and the requests succeed, the panels   *)
(* show it in the end and for good.                                        *)
ViewCatchesUp ==
    \A p \in Projects :
        <>[](bound = p /\ view.polling /\ ~view.error) => <>[](view.project = p)
=============================================================================
