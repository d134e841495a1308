----------------------------- MODULE KeyedIntake -----------------------------
(***************************************************************************)
(* What the job engine promises those who submit under an idempotency key: *)
(* a job once created is there for good, a key is bound at most once, to a *)
(* job that exists, and later submissions find that job.  It does not      *)
(* promise one job per key: two submissions can both create before either  *)
(* binds.                                                                  *)
(***************************************************************************)
CONSTANTS Jobs, Keys, NoJob

VARIABLES created,   \* the jobs that exist
          binding    \* the job of each key

Init ==
    /\ created = {}
    /\ binding = [k \in Keys |-> NoJob]

Create(j) ==
    /\ j \in Jobs \ created
    /\ created' = created \cup {j}
    /\ UNCHANGED binding

Bind(k, j) ==
    /\ j \in created
    /\ binding[k] = NoJob
    /\ binding' = [binding EXCEPT ![k] = j]
    /\ UNCHANGED created

Next ==
    \/ \E j \in Jobs : Create(j)
    \/ \E k \in Keys, j \in Jobs : Bind(k, j)

Spec == Init /\ [][Next]_<<created, binding>>
=============================================================================
