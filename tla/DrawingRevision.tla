--------------------------- MODULE DrawingRevision ---------------------------
(***************************************************************************)
(* One drawing of drawing-revision-service, as the goroutines serving      *)
(* cad-core-service reach it: commits of commands, reverts, metadata       *)
(* updates, the integrity audit and the repair command.                    *)
(*                                                                         *)
(* cad-core reads the head, applies the command to a snapshot and calls    *)
(* StoreDrawingRevision, which runs one transaction under the lock of the  *)
(* drawing's row (SELECT ... FOR UPDATE).  The table of command attempts,  *)
(* the conflict trail and the audit are written outside that transaction,  *)
(* each statement on a connection of its own.  An INSERT into attempts or  *)
(* conflict events references the drawing, so Postgres takes the drawing's *)
(* row FOR KEY SHARE for it: it waits while anybody holds the row FOR      *)
(* UPDATE.                                                                 *)
(*                                                                         *)
(* Revisions are numbered in the order in which they were committed.       *)
(***************************************************************************)
EXTENDS Naturals, Sequences, FiniteSets

CONSTANTS Callers,      \* goroutines serving calls, or running the audit loop
          Commands,     \* command ids; each command adds an entity of its own
          Nobody, NoCommand,
          PoolSize,     \* MaxConns of the pool
          LockTimeout,  \* whether the DSN sets lock_timeout
          Deadlines,    \* whether the callers' contexts have a deadline
          AuditLoop,    \* INTEGRITY_AUDIT_ENABLED
          RepairModes,  \* what the operator may run
          Edits,        \* whether UpdateDrawing is called
          TTL,          \* bound: calls an attempt outlives, for its 24 hours
          MaxCalls,     \* bound: calls of StoreDrawingRevision
          MaxFaults,    \* bound: statements that fail
          MaxCrashes    \* bound: crashes of the service

ASSUME DrawingRevisionAssumption ==
    /\ Nobody \notin Callers
    /\ NoCommand \notin Commands
    /\ IsFiniteSet(Commands)
    /\ LockTimeout \in BOOLEAN /\ Deadlines \in BOOLEAN
    /\ AuditLoop \in BOOLEAN /\ Edits \in BOOLEAN
    /\ RepairModes \subseteq {"entity-index", "head-and-index"}
    /\ PoolSize \in Nat /\ TTL \in Nat
    /\ MaxCalls \in Nat /\ MaxFaults \in Nat /\ MaxCrashes \in Nat

VARIABLES
    history,      \* drawing_revisions, in commit order
    head, count, entityCount, archived,   \* the row of drawings
    index,        \* drawing_entities: (entity, revision)
    attempt,      \* drawing_command_attempts, by the call that made it
    events,       \* drawing_conflict_events: the calls that recorded one
    open,         \* drawing_integrity_findings that are open
    lock,         \* who holds the drawing's row FOR UPDATE
    resolving,    \* a repair has committed and not yet resolved the findings
    pc, req,      \* callers: step, request
    seen,         \* callers: what the audit has read
    calls,        \* StoreDrawingRevision calls so far: the clock
    faults, crashes

drawing  == <<history, head, count, entityCount, index>>
ledger   == <<attempt, events>>
callers  == <<pc, req, seen>>
vars     == <<drawing, archived, ledger, open, lock, resolving, callers, calls, faults, crashes>>

-----------------------------------------------------------------------------
(* Revisions, attempts and requests *)

RevisionIds == 1..Len(history)

(* applyCommand: the command's mutations on a snapshot. *)
Applied(k, text) == text \cup {k}

NoAttempt == [status |-> "none", outcome |-> "", command |-> NoCommand, revision |-> 0]

NoRequest == [command |-> NoCommand, base |-> 0, version |-> 0, text |-> {},
              at |-> 0, revision |-> 0, archive |-> FALSE]

NothingSeen == [head |-> 0, count |-> 0, entityCount |-> 0, latest |-> 0, total |-> 0,
                found |-> <<>>, left |-> <<>>]

CommittedCommands == {history[i].command : i \in RevisionIds} \ {NoCommand}

(* ORDER BY committed_at DESC LIMIT 1. *)
LatestByTime ==
    CHOOSE i \in RevisionIds : \A j \in RevisionIds : history[j].at <= history[i].at

(* Mutant: the version header is not looked at. *)
StaleByBase(base, version) == base # 0 /\ base # head

(* isStaleBase: what the caller knew of the head, 0 for "not given". *)
IsStaleBase(base, version) ==
    \/ base # 0 /\ base # head
    \/ version # 0 /\ version # count

-----------------------------------------------------------------------------
(* Postgres *)

InTx == {c \in Callers : pc[c] \in {"locking", "writing", "archived", "duplicate", "stale", "recording"}}

(* RunIntegrityAudit keeps its cursor open while it audits each drawing. *)
Cursors == {c \in Callers : pc[c] \in {"auditRow", "auditLatest", "auditIndex", "auditSync"} /\ req[c].at = 0}

(* A statement outside the transaction takes one more connection. *)
HasConn == Cardinality(InTx) + Cardinality(Cursors) < PoolSize

(* FOR UPDATE, FOR NO KEY UPDATE and FOR KEY SHARE all wait for FOR UPDATE. *)
RowFree == lock = Nobody

Fault == faults < MaxFaults /\ faults' = faults + 1

Goto(c, step) == pc' = [pc EXCEPT ![c] = step]

Done(c) ==
    /\ pc'   = [pc EXCEPT ![c] = "idle"]
    /\ req'  = [req EXCEPT ![c] = NoRequest]
    /\ seen' = [seen EXCEPT ![c] = NothingSeen]

(* The deferred rollback, or the death of the connection. *)
Unlock(c) == lock' = IF lock = c THEN Nobody ELSE lock

(* Mutant: the attempts of the command are finalized, not the call's own. *)
FinalizeByCommand(c, status, outcome, revision) ==
    \/ /\ attempt' = [n \in 1..MaxCalls |->
                        IF attempt[n].status = "none" \/ attempt[n].command # req[c].command
                        THEN attempt[n]
                        ELSE [attempt[n] EXCEPT !.status = status, !.outcome = outcome, !.revision = revision]]
       /\ UNCHANGED faults
    \/ Fault /\ UNCHANGED attempt

(* finalizeCommandAttempt: an UPDATE by id whose error is ignored. *)
Finalize(c, status, outcome, revision) ==
    LET n == req[c].at IN
    \/ /\ attempt' = [attempt EXCEPT ![n] =
                        IF @.status = "none" THEN @
                        ELSE [@ EXCEPT !.status = status, !.outcome = outcome, !.revision = revision]]
       /\ UNCHANGED faults
    \/ Fault /\ UNCHANGED attempt

(* CreateDrawing: an empty initial revision, committed with the drawing. *)
Init ==
    /\ history = <<[parent |-> 0, command |-> NoCommand, text |-> {}, at |-> 0]>>
    /\ head = 1 /\ count = 1 /\ entityCount = 0
    /\ archived = FALSE
    /\ index = {}
    /\ attempt = [n \in 1..MaxCalls |-> NoAttempt]
    /\ events = {}
    /\ open = {}
    /\ lock = Nobody
    /\ resolving = FALSE
    /\ pc = [c \in Callers |-> "idle"]
    /\ req = [c \in Callers |-> NoRequest]
    /\ seen = [c \in Callers |-> NothingSeen]
    /\ calls = 0 /\ faults = 0 /\ crashes = 0

-----------------------------------------------------------------------------
(* cad-core-service: CommitDrawingCommand and RevertDrawingRevision up to  *)
(* their call of StoreDrawingRevision.  Revisions are immutable, so the    *)
(* head and the snapshot are read in one step.                             *)

MayCall == calls + Cardinality({c \in Callers : pc[c] = "read"}) < MaxCalls

Request(k, b) ==
    [NoRequest EXCEPT !.command = k, !.base = b, !.version = count,
                      !.text = Applied(k, history[IF b = 0 THEN head ELSE b].text)]

(* applyCommand: base_revision_id is optional; the client may be behind.    *)
(* applyMutation refuses a command whose effect the snapshot has already:  *)
(* an entity it creates exists, the before-image it names is not found.    *)
ReadForCommand(c, k, b) ==
    /\ pc[c] = "idle" /\ HasConn /\ MayCall
    /\ k \notin history[IF b = 0 THEN head ELSE b].text
    /\ req' = [req EXCEPT ![c] = Request(k, b)]
    /\ Goto(c, "read")
    /\ UNCHANGED <<drawing, archived, ledger, open, lock, resolving, seen, calls, faults, crashes>>

ReadForRevert(c, i) ==
    /\ pc[c] = "idle" /\ HasConn /\ MayCall
    /\ req' = [req EXCEPT ![c] = [NoRequest EXCEPT !.text = history[i].text]]
    /\ Goto(c, "read")
    /\ UNCHANGED <<drawing, archived, ledger, open, lock, resolving, seen, calls, faults, crashes>>

-----------------------------------------------------------------------------
(* StoreDrawingRevision *)

(* The clock is read and the expired attempts are deleted. *)
Enter(c) ==
    /\ pc[c] = "read" /\ HasConn
    /\ calls' = calls + 1
    /\ req' = [req EXCEPT ![c].at = calls + 1]
    /\ attempt' = [n \in 1..MaxCalls |-> IF n + TTL < calls + 1 THEN NoAttempt ELSE attempt[n]]
    /\ Goto(c, IF req[c].command = NoCommand THEN "begin" ELSE "opening")
    /\ UNCHANGED <<drawing, archived, events, open, lock, resolving, seen, faults, crashes>>

OpenAttempt(c) ==
    /\ pc[c] = "opening" /\ HasConn /\ RowFree
    /\ attempt' = [attempt EXCEPT ![req[c].at] =
                     [NoAttempt EXCEPT !.status = "pending", !.command = req[c].command]]
    /\ Goto(c, "begin")
    /\ UNCHANGED <<drawing, archived, events, open, lock, resolving, req, seen, calls, faults, crashes>>

(* BeginTx takes the connection the transaction keeps. *)
Begin(c) ==
    /\ pc[c] = "begin" /\ HasConn
    /\ Goto(c, "locking")
    /\ UNCHANGED <<drawing, archived, ledger, open, lock, resolving, req, seen, calls, faults, crashes>>

(* What the row says once it is locked; a unique index on the command id   *)
(* rejects the insert of a command that is in the history.                 *)
Verdict(r) ==
    IF archived THEN "archived"
    ELSE IF IsStaleBase(r.base, r.version) THEN "stale"
    ELSE IF r.command \in CommittedCommands THEN "duplicate"
    ELSE "writing"

LockRow(c) ==
    /\ pc[c] = "locking" /\ RowFree
    /\ lock' = c
    /\ Goto(c, Verdict(req[c]))
    /\ UNCHANGED <<drawing, archived, ledger, open, resolving, req, seen, calls, faults, crashes>>

(* The attempt is finalized on a second connection, then the deferred      *)
(* rollback frees the row.  A duplicate ends the same way: the lookup of   *)
(* the stored revision runs in the transaction the failed insert aborted,  *)
(* and Postgres refuses it.                                                *)
Refuse(c, step, outcome) ==
    /\ pc[c] = step /\ HasConn
    /\ Finalize(c, "failed", outcome, 0)
    /\ Done(c)
    /\ Unlock(c)
    /\ UNCHANGED <<drawing, archived, events, open, resolving, calls, crashes>>

RefuseArchived(c)  == Refuse(c, "archived", "archived_drawing")
RefuseDuplicate(c) == Refuse(c, "duplicate", "internal")

(* A stale base: the attempt, then the conflict trail, then the rollback. *)
RefuseStale(c) ==
    /\ pc[c] = "stale" /\ HasConn
    /\ Finalize(c, "failed", "stale_base", 0)
    /\ Goto(c, "recording")
    /\ UNCHANGED <<drawing, archived, events, open, lock, resolving, req, seen, calls, crashes>>

(* RecordConflictEvent references the drawing: it waits for the row.       *)
RecordConflict(c) ==
    /\ pc[c] = "recording" /\ HasConn /\ RowFree
    /\ events' = events \cup {req[c].at}
    /\ Done(c)
    /\ UNCHANGED <<drawing, archived, attempt, open, lock, resolving, calls, faults, crashes>>

(* Mutant: the old rows of the entity index are not deleted. *)
CommitKeepingIndex(c) ==
    /\ pc[c] = "writing"
    /\ history' = Append(history, [parent |-> head, command |-> req[c].command,
                                   text |-> req[c].text, at |-> req[c].at])
    /\ head' = Len(history) + 1
    /\ count' = count + 1
    /\ entityCount' = Cardinality(req[c].text)
    /\ index' = index \cup (req[c].text \X {Len(history) + 1})
    /\ lock' = Nobody

(* INSERT, UPDATE of the head, rebuild of the entity index, COMMIT. *)
CommitRevision(c) ==
    /\ pc[c] = "writing"
    /\ history' = Append(history, [parent |-> head, command |-> req[c].command,
                                   text |-> req[c].text, at |-> req[c].at])
    /\ head' = Len(history) + 1
    /\ count' = count + 1
    /\ entityCount' = Cardinality(req[c].text)
    /\ index' = req[c].text \X {Len(history) + 1}
    /\ lock' = Nobody

Commit(c) ==
    /\ CommitRevision(c)
    /\ req' = [req EXCEPT ![c].revision = Len(history) + 1]
    /\ Goto(c, IF req[c].command = NoCommand THEN "auditRow" ELSE "committed")
    /\ UNCHANGED <<archived, ledger, open, resolving, seen, calls, faults, crashes>>

FinalizeCommitted(c) ==
    /\ pc[c] = "committed" /\ HasConn
    /\ Finalize(c, "succeeded", "committed", req[c].revision)
    /\ Goto(c, "auditRow")
    /\ UNCHANGED <<drawing, archived, events, open, lock, resolving, req, seen, calls, crashes>>

-----------------------------------------------------------------------------
(* Failing statements, timeouts, crashes *)

(* Before the transaction, and in the audit: the error ends the call. *)
CallFails(c) ==
    /\ pc[c] \in {"read", "opening", "auditRow", "auditLatest", "auditIndex", "auditSync", "editing"}
    /\ Fault
    /\ Done(c)
    /\ UNCHANGED <<drawing, archived, ledger, open, lock, resolving, calls, crashes>>

BeginFails(c) ==
    /\ pc[c] = "begin"
    /\ Fault
    /\ attempt' = [attempt EXCEPT ![req[c].at] =
                     IF @.status = "none" THEN @ ELSE [@ EXCEPT !.status = "failed", !.outcome = "lock_timeout"]]
    /\ Done(c)
    /\ UNCHANGED <<drawing, archived, events, open, lock, resolving, calls, crashes>>

(* Mutant: a status the table does not allow. *)
AttemptError(c) ==
    attempt' = [attempt EXCEPT ![req[c].at] =
                  IF @.status = "none" THEN @ ELSE [@ EXCEPT !.status = "internal", !.outcome = "internal"]]

(* A write or the commit fails: finalizeAttemptFromError, rollback. *)
AttemptInternal(c) ==
    attempt' = [attempt EXCEPT ![req[c].at] =
                  IF @.status = "none" THEN @ ELSE [@ EXCEPT !.status = "failed", !.outcome = "internal"]]

WriteFails(c) ==
    /\ pc[c] = "writing" /\ HasConn
    /\ Fault
    /\ AttemptInternal(c)
    /\ Done(c)
    /\ Unlock(c)
    /\ UNCHANGED <<drawing, archived, events, open, resolving, calls, crashes>>

(* The commit takes effect and its acknowledgement is lost. *)
CommitUnheard(c) ==
    /\ CommitRevision(c)
    /\ Fault
    /\ AttemptInternal(c)
    /\ Done(c)
    /\ UNCHANGED <<archived, events, open, resolving, calls, crashes>>

(* lock_timeout on the row lock is a conflict of its own; a call without   *)
(* a command id has no attempt and records nothing.                        *)
LockTimedOut(c) ==
    /\ LockTimeout
    /\ pc[c] = "locking" /\ ~RowFree /\ HasConn
    /\ Finalize(c, "failed", "lock_timeout", 0)
    /\ IF req[c].command = NoCommand
       THEN Done(c)
       ELSE Goto(c, "recording") /\ UNCHANGED <<req, seen>>
    /\ UNCHANGED <<drawing, archived, events, open, lock, resolving, calls, crashes>>

(* The statements outside a transaction that wait for the row; a finding   *)
(* that is open already is updated without looking at the drawing.         *)
WaitsForRow(c) ==
    \/ pc[c] \in {"opening", "recording", "editing"}
    \/ pc[c] = "auditSync" /\ seen[c].left # <<>> /\ Head(seen[c].left) \notin open

(* Mutant: the conflict trail waits without a limit. *)
WaitTimedOutBut(c) ==
    /\ LockTimeout
    /\ WaitsForRow(c) /\ pc[c] # "recording" /\ ~RowFree
    /\ Done(c)
    /\ Unlock(c)
    /\ UNCHANGED <<drawing, archived, ledger, open, resolving, calls, faults, crashes>>

(* lock_timeout on such a statement: an error that ends the call; the one  *)
(* of the conflict trail is ignored.                                       *)
WaitTimedOut(c) ==
    /\ LockTimeout
    /\ WaitsForRow(c) /\ ~RowFree
    /\ Done(c)
    /\ Unlock(c)
    /\ UNCHANGED <<drawing, archived, ledger, open, resolving, calls, faults, crashes>>

(* The context of the call ends, wherever the call is. *)
Deadline(c) ==
    /\ Deadlines
    /\ pc[c] # "idle"
    /\ Done(c)
    /\ Unlock(c)
    /\ UNCHANGED <<drawing, archived, ledger, open, resolving, calls, faults, crashes>>

(* The process dies; Postgres rolls back what it had open. *)
Crash ==
    /\ crashes < MaxCrashes
    /\ crashes' = crashes + 1
    /\ pc' = [c \in Callers |-> "idle"]
    /\ req' = [c \in Callers |-> NoRequest]
    /\ seen' = [c \in Callers |-> NothingSeen]
    /\ lock' = Nobody
    /\ UNCHANGED <<drawing, archived, ledger, open, resolving, calls, faults>>

-----------------------------------------------------------------------------
(* UpdateDrawing: the row's metadata and status, read and written back *)

ReadForUpdate(c, status) ==
    /\ Edits
    /\ pc[c] = "idle" /\ HasConn
    /\ req' = [req EXCEPT ![c].archive = status]
    /\ Goto(c, "editing")
    /\ UNCHANGED <<drawing, archived, ledger, open, lock, resolving, seen, calls, faults, crashes>>

(* Mutant: the write does not wait for the row. *)
UpdateDrawingUnlocked(c) ==
    /\ pc[c] = "editing" /\ HasConn
    /\ archived' = req[c].archive
    /\ Done(c)
    /\ UNCHANGED <<drawing, ledger, open, lock, resolving, calls, faults, crashes>>

UpdateDrawing(c) ==
    /\ pc[c] = "editing" /\ HasConn /\ RowFree
    /\ archived' = req[c].archive
    /\ Done(c)
    /\ UNCHANGED <<drawing, ledger, open, lock, resolving, calls, faults, crashes>>

-----------------------------------------------------------------------------
(* Integrity audit and repair *)

(* A run of the loop reaches the drawing: it is among the 250 that were    *)
(* updated last, and no drawing before it has failed the run.              *)
AuditTick(c) ==
    /\ AuditLoop
    /\ pc[c] = "idle" /\ HasConn
    /\ Goto(c, "auditRow")
    /\ UNCHANGED <<drawing, archived, ledger, open, lock, resolving, req, seen, calls, faults, crashes>>

AuditRow(c) ==
    /\ pc[c] = "auditRow" /\ HasConn
    /\ seen' = [seen EXCEPT ![c].head = head, ![c].count = count, ![c].entityCount = entityCount]
    /\ Goto(c, "auditLatest")
    /\ UNCHANGED <<drawing, archived, ledger, open, lock, resolving, req, calls, faults, crashes>>

AuditLatest(c) ==
    /\ pc[c] = "auditLatest" /\ HasConn
    /\ seen' = [seen EXCEPT ![c].latest = LatestByTime, ![c].total = Len(history)]
    /\ Goto(c, "auditIndex")
    /\ UNCHANGED <<drawing, archived, ledger, open, lock, resolving, req, calls, faults, crashes>>

(* A check of the audit: its finding, or none. *)
Finding(drifts, issue, s, expected, wanted, actual) ==
    IF drifts THEN <<[issue |-> issue, current |-> s.head, expected |-> expected,
                      wanted |-> wanted, actual |-> actual]>>
    ELSE <<>>

(* auditDrawing: what was read of the row, the latest revision and the     *)
(* snapshot of the head, against the entity index as it is now, in the     *)
(* order of the checks.                                                    *)
Findings(s) ==
    LET text    == history[s.head].text
        rows    == {e[1] : e \in index}
        drifted == {e \in index : e[2] # s.head} IN
       Finding(s.head # s.latest, "head_pointer_drift", s, s.latest, s.count, s.total)
    \o Finding(s.count # s.total, "revision_count_mismatch", s, s.latest, s.total, s.count)
    \o Finding(s.entityCount # Cardinality(text), "entity_count_mismatch", s, s.head,
               Cardinality(text), s.entityCount)
    \o Finding(s.entityCount # Cardinality(index), "entity_count_mismatch", s, s.head,
               Cardinality(index), s.entityCount)
    \o Finding(drifted # {}, "entity_revision_drift", s, s.head, 0, Cardinality(drifted))
    \o Finding(rows \ text # {}, "orphaned_entity_index", s, s.head, 0, Cardinality(rows \ text))
    \o Finding(text \ rows # {}, "missing_entity_index", s, s.head, Cardinality(text \ rows), 0)

AuditIndex(c) ==
    /\ pc[c] = "auditIndex" /\ HasConn
    /\ LET found == Findings(seen[c]) IN
          seen' = [seen EXCEPT ![c].found = found, ![c].left = found]
    /\ Goto(c, "auditSync")
    /\ UNCHANGED <<drawing, archived, ledger, open, lock, resolving, req, calls, faults, crashes>>

(* upsertIntegrityFinding, one statement per finding: it opens the finding, *)
(* or updates one that is open.  Inserting it references the drawing.      *)
AuditUpsert(c) ==
    /\ seen[c].left # <<>>
    /\ Head(seen[c].left) \in open \/ RowFree
    /\ open' = open \cup {Head(seen[c].left)}
    /\ seen' = [seen EXCEPT ![c].left = Tail(@)]
    /\ UNCHANGED <<pc, req>>

(* Mutant: what an audit no longer finds stays open. *)
AuditResolveNothing(c) ==
    /\ seen[c].left = <<>>
    /\ Done(c)
    /\ UNCHANGED open

(* resolveInactiveIntegrityFindings: what was not found is resolved. *)
AuditResolve(c) ==
    /\ seen[c].left = <<>>
    /\ open' = open \cap {seen[c].found[i] : i \in DOMAIN seen[c].found}
    /\ Done(c)

(* syncIntegrityFindings, from its first to its last statement. *)
AuditSync(c) ==
    /\ pc[c] = "auditSync" /\ HasConn
    /\ AuditUpsert(c) \/ AuditResolve(c)
    /\ UNCHANGED <<drawing, archived, ledger, lock, resolving, calls, faults, crashes>>

(* repairDrawing: the head to rebuild from, under the lock of the row. *)
RepairedHead(mode) == IF mode = "entity-index" THEN head ELSE LatestByTime

Repair(mode) ==
    /\ RowFree /\ ~resolving
    /\ head' = RepairedHead(mode)
    /\ count' = Len(history)
    /\ entityCount' = Cardinality(history[RepairedHead(mode)].text)
    /\ index' = history[RepairedHead(mode)].text \X {RepairedHead(mode)}
    /\ resolving' = TRUE
    /\ UNCHANGED <<history, archived, ledger, open, lock, callers, calls, faults, crashes>>

(* resolveOpenIntegrityFindings, after the repair has committed. *)
ResolveFindings ==
    /\ resolving
    /\ resolving' = FALSE
    /\ open' = {}
    /\ UNCHANGED <<drawing, archived, ledger, lock, callers, calls, faults, crashes>>

-----------------------------------------------------------------------------

Start(c) ==
    \/ \E k \in Commands, b \in {0} \cup RevisionIds : ReadForCommand(c, k, b)
    \/ \E i \in RevisionIds : ReadForRevert(c, i)
    \/ \E status \in BOOLEAN : ReadForUpdate(c, status)

Continue(c) ==
    \/ Enter(c) \/ OpenAttempt(c) \/ Begin(c) \/ LockRow(c)
    \/ RefuseArchived(c) \/ RefuseDuplicate(c) \/ RefuseStale(c) \/ RecordConflict(c)
    \/ Commit(c) \/ FinalizeCommitted(c)
    \/ CallFails(c) \/ BeginFails(c) \/ WriteFails(c) \/ CommitUnheard(c)
    \/ LockTimedOut(c) \/ WaitTimedOut(c)
    \/ UpdateDrawing(c)
    \/ AuditRow(c) \/ AuditLatest(c) \/ AuditIndex(c) \/ AuditSync(c)

Next ==
    \/ \E c \in Callers : Start(c) \/ Continue(c) \/ Deadline(c) \/ AuditTick(c)
    \/ Crash
    \/ \E mode \in RepairModes : Repair(mode)
    \/ ResolveFindings

Spec == Init /\ [][Next]_vars

(* Goroutines run, and contexts end when their deadline has passed.  Nobody *)
(* has to call, to repair or to crash, and no audit has to reach this      *)
(* drawing.                                                                *)
Fairness ==
    /\ \A c \in Callers : WF_vars(Continue(c)) /\ WF_vars(Deadline(c))
    /\ WF_vars(ResolveFindings)

FairSpec == Spec /\ Fairness

-----------------------------------------------------------------------------
(* Properties *)

Steps == {"idle", "read", "opening", "begin", "locking", "writing", "archived", "duplicate", "stale",
          "recording", "committed", "auditRow", "auditLatest", "auditIndex", "auditSync", "editing"}

Statuses == {"none", "pending", "succeeded", "failed"}
Outcomes == {"", "archived_drawing", "stale_base", "lock_timeout", "internal", "committed"}

Revision == [parent : Nat, command : Commands \cup {NoCommand}, text : SUBSET Commands, at : Nat]
CallRequest == [command : Commands \cup {NoCommand}, base : Nat, version : Nat,
                text : SUBSET Commands, at : Nat, revision : Nat, archive : BOOLEAN]
Attempt == [status : Statuses, outcome : Outcomes, command : Commands \cup {NoCommand}, revision : Nat]

HistoryTypeOK ==
    /\ history \in Seq(Revision)
    /\ head \in 1..Len(history)
    /\ count \in Nat /\ entityCount \in Nat
    /\ archived \in BOOLEAN
    /\ index \subseteq Commands \X Nat

RequestTypeOK ==
    /\ pc \in [Callers -> Steps]
    /\ req \in [Callers -> CallRequest]
    /\ lock \in Callers \cup {Nobody}

LedgerTypeOK ==
    /\ attempt \in [1..MaxCalls -> Attempt]
    /\ events \subseteq Nat
    /\ calls \in Nat

(* The rows, the requests and the attempts have the values the tables and  *)
(* the code allow.                                                         *)
TypeOK == HistoryTypeOK /\ RequestTypeOK /\ LedgerTypeOK

(* The head is the last revision committed and each revision was committed *)
(* on top of the one before: no commit forks the history, whatever the     *)
(* callers, deadlines and crashes interleave with it.                      *)
HistoryLinear ==
    /\ head = Len(history)
    /\ \A i \in RevisionIds : history[i].parent = i - 1

(* The row and the entity index always describe the head: the number of    *)
(* revisions, the number of entities, and an index row per entity of the   *)
(* head's snapshot and none else.                                          *)
RowAgrees ==
    /\ count = Len(history)
    /\ entityCount = Cardinality(history[head].text)
    /\ index = history[head].text \X {head}

(* The table of attempts tells the truth about the history: an attempt     *)
(* that succeeded names the revision its own call committed, one that was  *)
(* rejected left none.                                                     *)
AttemptsAgree ==
    \A n \in 1..MaxCalls :
        /\ attempt[n].status = "succeeded" =>
              /\ attempt[n].revision \in RevisionIds
              /\ history[attempt[n].revision].at = n
              /\ history[attempt[n].revision].command = attempt[n].command
        /\ attempt[n].outcome \in {"archived_drawing", "stale_base", "lock_timeout"} =>
              \A i \in RevisionIds : history[i].at # n

(* Nothing is committed to a drawing that is archived, even when the       *)
(* archiving races with a commit that has been accepted.                   *)
ArchivedIsClosed == [][history' # history => ~archived]_vars

(* The service gives every user the linear history of LinearHistory: each  *)
(* command is applied once, to the snapshot before it, and no concurrent   *)
(* commit is lost in it.                                                   *)
Linear == INSTANCE LinearHistory WITH
    log <- [i \in RevisionIds |-> [command |-> history[i].command, text |-> history[i].text]]

RefinesLinear == Linear!Spec

(* Every call comes back, without a deadline of its own: lock_timeout ends *)
(* the waits for the row, and one connection more than there are callers   *)
(* keeps those that hold one from waiting for each other.                  *)
CallsReturn == \A c \in Callers : pc[c] # "idle" ~> pc[c] = "idle"

(* False alarms go away where audits go: if runs of the audit reach the     *)
(* drawing again and again, and its head stays the latest revision by time, *)
(* no finding stays open.  The code does not promise the first: the loop   *)
(* takes the 250 drawings updated last and ends at the first that fails.   *)
FalseAlarmsClear ==
    /\ []<><<\E c \in Callers : AuditTick(c)>>_vars
    /\ <>[](head = LatestByTime)
    => <>[](open = {})

(* The attempt of a command that is in the history does not end with an    *)
(* error: while no statement fails, "internal" is only reached by a replay, *)
(* here of a command whose effect a revert has taken out of the drawing.   *)
DuplicateReplayed ==
    faults = 0 => \A n \in 1..MaxCalls :
        attempt[n].outcome = "internal" => attempt[n].command \notin CommittedCommands
=============================================================================
