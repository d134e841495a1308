----------------------------- MODULE MCFrontend -----------------------------
(* The two stores of the frontend that talk to the services.  They share   *)
(* no state: a behaviour exercises one of them.                            *)
EXTENDS CadWorkspace, WorkflowSync

VARIABLE store   \* the store the behaviour exercises

FrontendInit ==
    /\ store \in {"cad", "workflow"}
    /\ CadInit /\ SyncInit
    /\ store = "workflow" => kind = [w \in Writes |-> "command"]
                             /\ tab = [w \in Writes |-> CHOOSE t \in Tabs : TRUE]

FrontendNext ==
    /\ UNCHANGED store
    /\ \/ store = "cad" /\ CadNext /\ UNCHANGED syncVars
       \/ store = "workflow" /\ SyncNext /\ UNCHANGED cadVars

(* A store that is not exercised has nothing under way: its fairness       *)
(* conditions hold trivially.                                              *)
FrontendSpec ==
    /\ FrontendInit /\ [][FrontendNext]_<<cadVars, syncVars, store>>
    /\ CadFairness /\ SyncFairness
=============================================================================
