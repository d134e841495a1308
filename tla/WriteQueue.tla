------------------------------ MODULE WriteQueue ------------------------------
(***************************************************************************)
(* The offline write queue of the mobile client: mutations kept in a box   *)
(* on the device and replayed by flush.  enqueue, discard, clear and other *)
(* calls of flush run while a flush awaits the box or a handler.           *)
(*                                                                         *)
(* A box operation takes effect at once; what a handler does is external:  *)
(* the server applies the mutation or does not, and the handler answers    *)
(* success, fatal or transient, or throws.                                 *)
(***************************************************************************)
EXTENDS Naturals, Sequences, SequencesExt, FiniteSetsExt

CONSTANTS Entries,       \* mutations the user may make
          Unhandled,     \* those whose operation has no handler
          Flushes,       \* calls of flush at a time
          MaxAttempts    \* _maxAttempts

ASSUME QueueAssumption == Unhandled \subseteq Entries /\ MaxAttempts \in Nat \ {0}

VARIABLES
    box,            \* per entry: its status in the box, or none
    attempts,       \* per entry: attempts, counted up to MaxAttempts
    queued,         \* the entries in the order of queuedAt
    flushing,       \* _flushing
    todo, where,    \* per flush: the entries left of its snapshot, and its step
    applied,        \* history: entries the server has applied
    dropped         \* history: entries discarded, cleared, or given up by a handler

queueVars == <<box, attempts, queued, flushing, todo, where, applied, dropped>>

QueueInit ==
    /\ box = [e \in Entries |-> "none"]
    /\ attempts = [e \in Entries |-> 0]
    /\ queued = <<>>
    /\ flushing = FALSE
    /\ todo = [f \in Flushes |-> {}]
    /\ where = [f \in Flushes |-> "idle"]
    /\ applied = {} /\ dropped = {}

(* What the flush replays next: the entries of its snapshot are sorted.    *)
Current(f) == queued[Min({i \in DOMAIN queued : queued[i] \in todo[f]})]

EnqueueEntry(e) ==
    /\ e \notin ToSet(queued)
    /\ queued' = Append(queued, e)
    /\ box' = [box EXCEPT ![e] = "pending"]
    /\ UNCHANGED <<attempts, flushing, todo, where, applied, dropped>>

(* A flush that has the entry in its snapshot goes on with it, and may put  *)
(* it back.                                                                 *)
Discard(e) ==
    /\ box[e] # "none"
    /\ box' = [box EXCEPT ![e] = "none"]
    /\ dropped' = dropped \cup {e}
    /\ UNCHANGED <<attempts, queued, flushing, todo, where, applied>>

ClearQueue ==
    /\ dropped' = dropped \cup {e \in Entries : box[e] # "none"}
    /\ box' = [e \in Entries |-> "none"]
    /\ UNCHANGED <<attempts, queued, flushing, todo, where, applied>>

(* The snapshot holds failed entries too: they are replayed by every flush. *)
FlushBegin(f) ==
    /\ where[f] = "idle" /\ ~flushing
    /\ flushing' = TRUE
    /\ todo' = [todo EXCEPT ![f] = {e \in ToSet(queued) : box[e] # "none"}]
    /\ where' = [where EXCEPT ![f] = "next"]
    /\ UNCHANGED <<box, attempts, queued, applied, dropped>>

FlushEnd(f) ==
    /\ flushing' = FALSE
    /\ todo' = [todo EXCEPT ![f] = {}]
    /\ where' = [where EXCEPT ![f] = "idle"]

FlushDone(f) ==
    /\ where[f] = "next" /\ todo[f] = {}
    /\ FlushEnd(f)
    /\ UNCHANGED <<box, attempts, queued, applied, dropped>>

(* The entry is put back with its new status, also if it was discarded. *)
Put(e, st) == box' = [box EXCEPT ![e] = st]

GoOn(f, next, rest) ==
    /\ where' = [where EXCEPT ![f] = next]
    /\ todo' = [todo EXCEPT ![f] = rest]
    /\ UNCHANGED <<queued, flushing>>

NoHandler(f) ==
    /\ where[f] = "next" /\ todo[f] # {}
    /\ Current(f) \in Unhandled
    /\ Put(Current(f), "failed")
    /\ GoOn(f, "next", todo[f] \ {Current(f)})
    /\ UNCHANGED <<attempts, applied, dropped>>

(* Mutant: the entry leaves the box for the time of the call. *)
CallHandlerTaken(f) ==
    /\ where[f] = "next" /\ todo[f] # {}
    /\ LET e == Current(f) IN
       /\ e \notin Unhandled
       /\ attempts' = [attempts EXCEPT ![e] = IF @ < MaxAttempts THEN @ + 1 ELSE @]
       /\ Put(e, "none")
    /\ GoOn(f, "calling", todo[f])
    /\ UNCHANGED <<applied, dropped>>

CallHandler(f) ==
    /\ where[f] = "next" /\ todo[f] # {}
    /\ LET e == Current(f) IN
       /\ e \notin Unhandled
       /\ attempts' = [attempts EXCEPT ![e] = IF @ < MaxAttempts THEN @ + 1 ELSE @]
       /\ Put(e, "retrying")
    /\ GoOn(f, "calling", todo[f])
    /\ UNCHANGED <<applied, dropped>>

(* The server applies the mutation, whatever the handler will hear of it. *)
ServerApplies(f) ==
    /\ where[f] = "calling"
    /\ applied' = applied \cup {Current(f)}
    /\ GoOn(f, "applied", todo[f])
    /\ UNCHANGED <<box, attempts, dropped>>

(* success once it is applied, fatal if it is not: the entry is deleted. *)
HandlerAnswers(f) ==
    /\ where[f] \in {"calling", "applied"}
    /\ Put(Current(f), "none")
    /\ dropped' = IF where[f] = "calling" THEN dropped \cup {Current(f)} ELSE dropped
    /\ GoOn(f, "next", todo[f] \ {Current(f)})
    /\ UNCHANGED <<attempts, applied>>

HandlerRetries(f) ==
    /\ where[f] \in {"calling", "applied"}
    /\ LET e == Current(f) IN
       Put(e, IF attempts[e] >= MaxAttempts THEN "failed" ELSE "pending")
    /\ GoOn(f, "next", todo[f] \ {Current(f)})
    /\ UNCHANGED <<attempts, applied, dropped>>

(* The exception ends the flush; the entry stays in the box as retrying. *)
HandlerThrows(f) ==
    /\ where[f] \in {"calling", "applied"}
    /\ FlushEnd(f)
    /\ UNCHANGED <<box, attempts, queued, applied, dropped>>

(* The app is killed; the box survives. *)
AppEnds ==
    /\ flushing' = FALSE
    /\ todo' = [f \in Flushes |-> {}]
    /\ where' = [f \in Flushes |-> "idle"]
    /\ UNCHANGED <<box, attempts, queued, applied, dropped>>

FlushStep(f) ==
    \/ FlushDone(f) \/ NoHandler(f) \/ CallHandler(f) \/ ServerApplies(f)
    \/ HandlerAnswers(f) \/ HandlerRetries(f) \/ HandlerThrows(f)

QueueNext ==
    \/ \E e \in Entries : EnqueueEntry(e) \/ Discard(e)
    \/ ClearQueue
    \/ \E f \in Flushes : FlushBegin(f) \/ FlushStep(f)
    \/ AppEnds

QueueSpec == QueueInit /\ [][QueueNext]_queueVars

-----------------------------------------------------------------------------
(* Properties *)

(* Type correctness of the box and the flushes. *)
QueueTypeOK ==
    /\ box \in [Entries -> {"none", "pending", "retrying", "failed"}]
    /\ attempts \in [Entries -> 0..MaxAttempts]
    /\ queued \in Seq(Entries)
    /\ flushing \in BOOLEAN
    /\ todo \in [Flushes -> SUBSET Entries]
    /\ where \in [Flushes -> {"idle", "next", "calling", "applied"}]
    /\ applied \subseteq Entries /\ dropped \subseteq Entries

(* "Users never lose work captured in the field": through retries, throwing *)
(* handlers and restarts, a mutation stays in the box until the server has  *)
(* applied it, the handler has given it up, or the user has dropped it.     *)
NoWorkLost ==
    \A e \in Entries :
        e \in ToSet(queued) => box[e] # "none" \/ e \in applied \cup dropped

(* "Only one flush runs at a time", and the flag that ensures it is set     *)
(* only while one does: otherwise nothing would ever be replayed again.     *)
OneFlush ==
    /\ \A f, g \in Flushes : where[f] # "idle" /\ where[g] # "idle" => f = g
    /\ flushing => \E f \in Flushes : where[f] # "idle"

(* No queued mutation is lost or replayed by two flushes at once.          *)
QueueIsSound == NoWorkLost /\ OneFlush
=============================================================================
