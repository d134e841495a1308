------------------------ MODULE DrawingRevisionProofs ------------------------
(***************************************************************************)
(* Proofs about DrawingRevision: type correctness, and the agreement of    *)
(* row, entity index and attempts with the history, whatever repairs the   *)
(* operator runs.                                                          *)
(***************************************************************************)
EXTENDS DrawingRevision, FiniteSetTheorems, WellFoundedInduction, TLAPS

USE DrawingRevisionAssumption

(* The row is locked by whoever is between the verdict and the rollback or *)
(* the commit.                                                             *)
Locked == {"writing", "archived", "duplicate", "stale"}

LockHeld == \A c \in Callers : pc[c] \in Locked => lock = c

(* The steps at which a call has its time and has not committed. *)
Before == {"opening", "begin", "locking", "recording"} \cup Locked

(* The times of calls and revisions are distinct. *)
Times ==
    /\ \A i \in RevisionIds : history[i].at <= calls
    /\ \A n \in 1..MaxCalls : attempt[n].status # "none" => n <= calls
    /\ \A c \in Callers : req[c].at <= calls
    /\ \A c, d \in Callers : c # d /\ req[c].at # 0 => req[c].at # req[d].at
    /\ \A c \in Callers : pc[c] \in Before =>
          /\ req[c].at # 0
          /\ \A i \in RevisionIds : history[i].at # req[c].at
    /\ \A c \in Callers : pc[c] \in {"idle", "read", "editing"} => req[c].at = 0

(* A call that may still commit has an attempt that says nothing yet; one  *)
(* that has committed knows its revision.                                  *)
Attempts ==
    /\ \A c \in Callers :
          pc[c] \in {"opening", "begin", "locking", "writing", "committed"} /\ req[c].at \in 1..MaxCalls =>
             attempt[req[c].at].outcome = ""
    /\ \A c \in Callers : pc[c] = "committed" =>
          /\ req[c].revision \in RevisionIds
          /\ history[req[c].revision].at = req[c].at
          /\ history[req[c].revision].command = req[c].command
    /\ \A c \in Callers :
          pc[c] \in (Before \ {"opening"}) \cup {"committed"} /\ req[c].at \in 1..MaxCalls =>
             attempt[req[c].at].status = "none" \/ attempt[req[c].at].command = req[c].command
    /\ \A n \in 1..MaxCalls : attempt[n].status = "none" => attempt[n].outcome = ""

IInv == TypeOK /\ LockHeld /\ RowAgrees /\ Times /\ Attempts /\ AttemptsAgree

-----------------------------------------------------------------------------
(* -- proofs: types *)

(* Snapshots are finite. *)
LEMMA TextCount == \A text \in SUBSET Commands : Cardinality(text) \in Nat
BY FS_Subset, FS_CardinalityType

(* An empty request and an empty attempt have the types of theirs. *)
LEMMA EmptyTypes == NoRequest \in CallRequest /\ NoAttempt \in Attempt
BY DEF NoRequest, NoAttempt, Statuses, Outcomes, CallRequest, Attempt

(* The drawing is created with the types of the tables. *)
LEMMA TypeInit == Init => TypeOK
<1>. SUFFICES ASSUME Init PROVE TypeOK
  OBVIOUS
<1>1. HistoryTypeOK
  <2>. DEFINE r == [parent |-> 0, command |-> NoCommand, text |-> {}, at |-> 0]
  <2>1. r \in Revision
    BY DEF Revision
  <2>2. history = <<r>>
    BY DEF Init
  <2>. HIDE DEF r
  <2>3. history \in Seq(Revision) /\ Len(history) = 1
    BY <2>1, <2>2
  <2>4. head = 1 /\ count = 1 /\ entityCount = 0
    BY DEF Init
  <2>5. head \in 1..Len(history) /\ count \in Nat /\ entityCount \in Nat
    BY <2>3, <2>4
  <2>6. archived \in BOOLEAN /\ index \subseteq Commands \X Nat
    BY DEF Init
  <2>. QED
    BY <2>3, <2>5, <2>6 DEF HistoryTypeOK
<1>2. RequestTypeOK /\ LedgerTypeOK
  BY EmptyTypes DEF Init, RequestTypeOK, LedgerTypeOK, Steps
<1>. QED
  BY <1>1, <1>2 DEF TypeOK

(* Finalizing keeps the attempts what they are. *)
LEMMA FinalizeType ==
    ASSUME LedgerTypeOK, NEW c \in Callers, NEW status \in Statuses, NEW outcome \in Outcomes,
           NEW revision \in Nat, Finalize(c, status, outcome, revision)
    PROVE  attempt' \in [1..MaxCalls -> Attempt]
<1>. DEFINE n == req[c].at
            new(a) == [a EXCEPT !.status = status, !.outcome = outcome, !.revision = revision]
<1>1. ASSUME NEW a \in Attempt PROVE new(a) \in Attempt
  BY DEF Attempt
<1>2. attempt \in [1..MaxCalls -> Attempt]
  BY DEF LedgerTypeOK
<1>3. \/ attempt' = attempt
      \/ attempt' = [attempt EXCEPT ![n] = IF @.status = "none" THEN @ ELSE new(@)]
  BY DEF Finalize
<1>. HIDE DEF new, n
<1>. QED
  BY <1>1, <1>2, <1>3

(* What an action may do to the drawing. *)
DrawingStep ==
    /\ \/ UNCHANGED drawing
       \/ \E c \in Callers : Commit(c) \/ CommitUnheard(c)
       \/ \E mode \in RepairModes : Repair(mode)
    /\ \/ UNCHANGED archived
       \/ \E c \in Callers : UpdateDrawing(c)

(* The history, the row and the index change in commits and repairs only,  *)
(* the status of the drawing in metadata updates only.                     *)
LEMMA DrawingSteps == [Next]_vars => DrawingStep
<1>. SUFFICES ASSUME [Next]_vars PROVE DrawingStep
  OBVIOUS
<1>. USE DEF DrawingStep
<1>1. ASSUME NEW c \in Callers, NEW k \in Commands, NEW b \in {0} \cup RevisionIds, ReadForCommand(c, k, b)
      PROVE  DrawingStep
  BY <1>1 DEF ReadForCommand
<1>2. ASSUME NEW c \in Callers, NEW i \in RevisionIds, ReadForRevert(c, i)
      PROVE  DrawingStep
  BY <1>2 DEF ReadForRevert
<1>3. ASSUME NEW c \in Callers, NEW status \in BOOLEAN, ReadForUpdate(c, status)
      PROVE  DrawingStep
  BY <1>3 DEF ReadForUpdate
<1>4. ASSUME NEW c \in Callers, Enter(c) PROVE DrawingStep
  BY <1>4 DEF Enter
<1>5. ASSUME NEW c \in Callers, OpenAttempt(c) PROVE DrawingStep
  BY <1>5 DEF OpenAttempt
<1>6. ASSUME NEW c \in Callers, Begin(c) PROVE DrawingStep
  BY <1>6 DEF Begin
<1>7. ASSUME NEW c \in Callers, LockRow(c) PROVE DrawingStep
  BY <1>7 DEF LockRow
<1>8. ASSUME NEW c \in Callers, RefuseArchived(c) PROVE DrawingStep
  BY <1>8 DEF RefuseArchived, Refuse
<1>9. ASSUME NEW c \in Callers, RefuseDuplicate(c) PROVE DrawingStep
  BY <1>9 DEF RefuseDuplicate, Refuse
<1>10. ASSUME NEW c \in Callers, RefuseStale(c) PROVE DrawingStep
  BY <1>10 DEF RefuseStale
<1>11. ASSUME NEW c \in Callers, RecordConflict(c) PROVE DrawingStep
  BY <1>11 DEF RecordConflict
<1>12. ASSUME NEW c \in Callers, Commit(c) PROVE DrawingStep
  BY <1>12 DEF Commit
<1>13. ASSUME NEW c \in Callers, FinalizeCommitted(c) PROVE DrawingStep
  BY <1>13 DEF FinalizeCommitted
<1>14. ASSUME NEW c \in Callers, CallFails(c) PROVE DrawingStep
  BY <1>14 DEF CallFails
<1>15. ASSUME NEW c \in Callers, BeginFails(c) PROVE DrawingStep
  BY <1>15 DEF BeginFails
<1>16. ASSUME NEW c \in Callers, WriteFails(c) PROVE DrawingStep
  BY <1>16 DEF WriteFails, AttemptInternal
<1>17. ASSUME NEW c \in Callers, CommitUnheard(c) PROVE DrawingStep
  BY <1>17 DEF CommitUnheard
<1>18. ASSUME NEW c \in Callers, LockTimedOut(c) PROVE DrawingStep
  BY <1>18 DEF LockTimedOut
<1>19. ASSUME NEW c \in Callers, WaitTimedOut(c) PROVE DrawingStep
  BY <1>19 DEF WaitTimedOut
<1>20. ASSUME NEW c \in Callers, UpdateDrawing(c) PROVE DrawingStep
  BY <1>20 DEF UpdateDrawing
<1>21. ASSUME NEW c \in Callers, AuditRow(c) PROVE DrawingStep
  BY <1>21 DEF AuditRow
<1>22. ASSUME NEW c \in Callers, AuditLatest(c) PROVE DrawingStep
  BY <1>22 DEF AuditLatest
<1>23. ASSUME NEW c \in Callers, AuditIndex(c) PROVE DrawingStep
  BY <1>23 DEF AuditIndex
<1>24. ASSUME NEW c \in Callers, AuditSync(c) PROVE DrawingStep
  BY <1>24 DEF AuditSync
<1>25. ASSUME NEW c \in Callers, Deadline(c) PROVE DrawingStep
  BY <1>25 DEF Deadline
<1>26. ASSUME NEW c \in Callers, AuditTick(c) PROVE DrawingStep
  BY <1>26 DEF AuditTick
<1>27. CASE Crash
  BY <1>27 DEF Crash
<1>28. ASSUME NEW mode \in RepairModes, Repair(mode) PROVE DrawingStep
  BY <1>28 DEF Repair
<1>29. CASE ResolveFindings
  BY <1>29 DEF ResolveFindings
<1>30. CASE UNCHANGED vars
  BY <1>30 DEF vars
<1>. QED
  BY <1>1, <1>2, <1>3, <1>4, <1>5, <1>6, <1>7, <1>8, <1>9, <1>10, <1>11, <1>12, <1>13,
     <1>14, <1>15, <1>16,
     <1>17, <1>18, <1>19, <1>20, <1>21, <1>22, <1>23, <1>24, <1>25, <1>26, <1>27, <1>28, <1>29, <1>30 DEF Next, Start, Continue

(* A set of natural numbers has a least one. *)
LEMMA LeastNat ==
    ASSUME NEW T, T \subseteq Nat, T # {}
    PROVE  \E x \in T : \A y \in T : x <= y
<1>. DEFINE R == OpToRel(<, Nat)
<1>1. IsWellFoundedOn(R, Nat)
  BY NatLessThanWellFounded
<1>. HIDE DEF R
<1>2. PICK x \in T : \A y \in T : ~(<<y, x>> \in R)
  BY <1>1, WFMin
<1>3. ASSUME NEW y \in T PROVE x <= y
  <2>1. x \in Nat /\ y \in Nat
    OBVIOUS
  <2>2. <<y, x>> \in Nat \X Nat
    BY <2>1
  <2>3. ~(y < x)
    BY <1>2, <2>2 DEF R, OpToRel
  <2>. QED
    BY <2>1, <2>3
<1>. QED
  BY <1>3

(* The rows of drawing_revisions have the types of their columns. *)
LEMMA RevisionTypes ==
    ASSUME HistoryTypeOK
    PROVE  /\ RevisionIds = 1..Len(history) /\ Len(history) \in Nat
           /\ \A i \in RevisionIds :
                 /\ i \in Nat /\ history[i] \in Revision
                 /\ history[i].text \in SUBSET Commands /\ history[i].at \in Nat
                 /\ history[i].command \in Commands \cup {NoCommand}
<1>1. \A i \in 1..Len(history) : history[i] \in Revision
  BY DEF HistoryTypeOK
<1>2. \A r \in Revision : r.text \in SUBSET Commands /\ r.at \in Nat /\ r.command \in Commands \cup {NoCommand}
  BY DEF Revision
<1>3. Len(history) \in Nat
  BY DEF HistoryTypeOK
<1>. QED
  BY <1>1, <1>2, <1>3 DEF RevisionIds

(* Writing one field of a request keeps its type. *)
LEMMA RequestUpdated ==
    \A r \in CallRequest :
        /\ \A n \in Nat : [r EXCEPT !.at = n] \in CallRequest /\ [r EXCEPT !.revision = n] \in CallRequest
        /\ \A b \in BOOLEAN : [r EXCEPT !.archive = b] \in CallRequest
BY DEF CallRequest

(* A history has a latest revision by time. *)
LEMMA LatestExists ==
    ASSUME HistoryTypeOK, calls \in Nat, \A i \in RevisionIds : history[i].at <= calls
    PROVE  LatestByTime \in RevisionIds
<1>. DEFINE age(i) == calls - history[i].at
            T == {age(i) : i \in RevisionIds}
<1>1. \A i \in RevisionIds : history[i].at \in Nat
  BY RevisionTypes
<1>2. RevisionIds # {}
  BY RevisionTypes DEF HistoryTypeOK
<1>3. T \subseteq Nat /\ T # {}
  BY <1>1, <1>2
<1>4. PICK x \in T : \A y \in T : x <= y
  BY <1>3, LeastNat
<1>5. PICK i \in RevisionIds : x = age(i)
  BY <1>4
<1>6. \A j \in RevisionIds : history[j].at <= history[i].at
  <2>1. SUFFICES ASSUME NEW j \in RevisionIds PROVE history[j].at <= history[i].at
    OBVIOUS
  <2>2. age(i) <= age(j)
    BY <1>4, <1>5
  <2>. QED
    BY <1>1, <2>2
<1>. QED
  BY <1>6 DEF LatestByTime

(* A commit appends one revision and moves the head to it. *)
LEMMA CommitTypes ==
    ASSUME TypeOK, NEW c \in Callers, CommitRevision(c)
    PROVE  /\ history' \in Seq(Revision)
           /\ Len(history') = Len(history) + 1
           /\ RevisionIds' = RevisionIds \cup {Len(history) + 1}
           /\ \A i \in RevisionIds : history'[i] = history[i]
           /\ history'[Len(history) + 1] =
                 [parent |-> head, command |-> req[c].command, text |-> req[c].text, at |-> req[c].at]
           /\ history'[Len(history) + 1] \in Revision
           /\ HistoryTypeOK' \/ archived' # archived
<1>. DEFINE r == [parent |-> head, command |-> req[c].command, text |-> req[c].text, at |-> req[c].at]
<1>1. req[c] \in CallRequest /\ head \in Nat /\ history \in Seq(Revision)
  BY DEF TypeOK, HistoryTypeOK, RequestTypeOK
<1>2. r \in Revision /\ req[c].text \in SUBSET Commands
  BY <1>1 DEF Revision, CallRequest
<1>3. history' = Append(history, r)
  BY DEF CommitRevision
<1>. HIDE DEF r
<1>4. /\ history' \in Seq(Revision) /\ Len(history') = Len(history) + 1
      /\ \A i \in 1..Len(history) : history'[i] = history[i]
      /\ history'[Len(history) + 1] = r
  BY <1>1, <1>2, <1>3
<1>5. Len(history) \in Nat
  BY <1>1
<1>6. RevisionIds' = RevisionIds \cup {Len(history) + 1}
  BY <1>4, <1>5 DEF RevisionIds
<1>7. head' \in 1..Len(history') /\ count' \in Nat
  BY <1>4, <1>5 DEF CommitRevision, TypeOK, HistoryTypeOK
<1>8. entityCount' \in Nat
  BY <1>2, TextCount DEF CommitRevision
<1>9. index' \subseteq Commands \X Nat
  BY <1>2, <1>5 DEF CommitRevision
<1>10. archived \in BOOLEAN
  BY DEF TypeOK, HistoryTypeOK
<1>11. HistoryTypeOK' \/ archived' # archived
  BY <1>4, <1>7, <1>8, <1>9, <1>10 DEF HistoryTypeOK
<1>. QED
  BY <1>2, <1>4, <1>6, <1>11 DEF r, RevisionIds

(* A repair points the head at a revision of the history. *)
LEMMA RepairTypes ==
    ASSUME TypeOK, Times, NEW mode \in RepairModes, Repair(mode)
    PROVE  head' \in RevisionIds /\ head' = RepairedHead(mode) /\ HistoryTypeOK'
<1>. DEFINE h == RepairedHead(mode)
<1>1. h \in RevisionIds
  BY LatestExists
     DEF RepairedHead, TypeOK, HistoryTypeOK, LedgerTypeOK, Times, RevisionIds
<1>2. head' = h /\ count' = Len(history) /\ entityCount' = Cardinality(history[h].text)
      /\ index' = history[h].text \X {h} /\ history' = history /\ archived' = archived
  BY DEF Repair
<1>. HIDE DEF h
<1>3. history \in Seq(Revision) /\ Len(history) \in Nat
  BY DEF TypeOK, HistoryTypeOK
<1>4. history[h].text \in SUBSET Commands /\ h \in Nat
  BY <1>1, RevisionTypes DEF TypeOK
<1>5. index' \subseteq Commands \X Nat
  BY <1>2, <1>4
<1>6. entityCount' \in Nat
  BY <1>2, <1>4, TextCount
<1>7. archived' \in BOOLEAN
  BY <1>2 DEF TypeOK, HistoryTypeOK
<1>8. head' \in 1..Len(history') /\ count' \in Nat /\ history' \in Seq(Revision)
  BY <1>1, <1>2, <1>3 DEF RevisionIds
<1>. QED
  BY <1>1, <1>2, <1>5, <1>6, <1>7, <1>8 DEF HistoryTypeOK, h

(* The tables keep their types. *)
LEMMA HistoryTypeStep == TypeOK /\ Times /\ [Next]_vars => HistoryTypeOK'
<1>. SUFFICES ASSUME TypeOK, Times, [Next]_vars PROVE HistoryTypeOK'
  OBVIOUS
<1>1. DrawingStep
  BY DrawingSteps
<1>2. archived' \in BOOLEAN
  BY <1>1
     DEF DrawingStep, UpdateDrawing, TypeOK, HistoryTypeOK, RequestTypeOK, CallRequest
<1>3. CASE UNCHANGED drawing
  BY <1>2, <1>3 DEF drawing, TypeOK, HistoryTypeOK
<1>4. ASSUME NEW c \in Callers, Commit(c) \/ CommitUnheard(c) PROVE HistoryTypeOK'
  <2>1. CommitRevision(c) /\ archived' = archived
    BY <1>4 DEF Commit, CommitUnheard
  <2>. QED
    BY <2>1, CommitTypes
<1>5. ASSUME NEW mode \in RepairModes, Repair(mode) PROVE HistoryTypeOK'
  BY <1>5, RepairTypes
<1>. QED
  BY <1>1, <1>3, <1>4, <1>5 DEF DrawingStep

(* So do the requests of the callers. *)
LEMMA RequestTypeStep == TypeOK /\ [Next]_vars => RequestTypeOK'
<1>. SUFFICES ASSUME TypeOK, [Next]_vars PROVE RequestTypeOK'
  OBVIOUS
<1>0. /\ pc \in [Callers -> Steps] /\ req \in [Callers -> CallRequest] /\ lock \in Callers \cup {Nobody}
      /\ NoRequest \in CallRequest /\ calls \in Nat /\ count \in Nat
  BY EmptyTypes DEF TypeOK, HistoryTypeOK, RequestTypeOK, LedgerTypeOK
<1>. USE DEF RequestTypeOK
<1>1. ASSUME NEW c \in Callers, NEW k \in Commands, NEW b \in {0} \cup RevisionIds, ReadForCommand(c, k, b)
      PROVE  RequestTypeOK'
  <2>1. RevisionIds = 1..Len(history) /\ head \in RevisionIds
    BY RevisionTypes DEF TypeOK, HistoryTypeOK
  <2>2. history[IF b = 0 THEN head ELSE b].text \in SUBSET Commands
    BY <2>1, RevisionTypes DEF TypeOK
  <2>3. b \in Nat
    BY RevisionTypes DEF TypeOK
  <2>4. Request(k, b) \in CallRequest
    BY <1>0, <2>2, <2>3 DEF Request, Applied, CallRequest, NoRequest
  <2>. QED
    BY <1>0, <1>1, <2>4 DEF ReadForCommand, Goto, Steps
<1>2. ASSUME NEW c \in Callers, NEW i \in RevisionIds, ReadForRevert(c, i)
      PROVE  RequestTypeOK'
  <2>1. history[i].text \in SUBSET Commands
    BY RevisionTypes DEF TypeOK
  <2>2. [NoRequest EXCEPT !.text = history[i].text] \in CallRequest
    BY <1>0, <2>1 DEF CallRequest
  <2>. QED
    BY <1>0, <1>2, <2>2 DEF ReadForRevert, Goto, Steps
<1>3. ASSUME NEW c \in Callers, NEW status \in BOOLEAN, ReadForUpdate(c, status)
      PROVE  RequestTypeOK'
  <2>1. req' = [req EXCEPT ![c] = [req[c] EXCEPT !.archive = status]]
    BY <1>0, <1>3 DEF ReadForUpdate
  <2>2. req' \in [Callers -> CallRequest]
    BY <1>0, <2>1, RequestUpdated
  <2>. QED
    BY <1>0, <1>3, <2>2 DEF ReadForUpdate, Goto, Steps
<1>4. ASSUME NEW c \in Callers, Enter(c) PROVE RequestTypeOK'
  <2>1. req' = [req EXCEPT ![c] = [req[c] EXCEPT !.at = calls + 1]]
    BY <1>0, <1>4 DEF Enter
  <2>2. req[c] \in CallRequest /\ calls + 1 \in Nat
    BY <1>0
  <2>3. [req[c] EXCEPT !.at = calls + 1] \in CallRequest
    BY <2>2, RequestUpdated
  <2>4. req' \in [Callers -> CallRequest]
    BY <1>0, <2>1, <2>3
  <2>. QED
    BY <1>0, <1>4, <2>4 DEF Enter, Goto, Steps
<1>5. ASSUME NEW c \in Callers, OpenAttempt(c) PROVE RequestTypeOK'
  BY <1>5, <1>0 DEF OpenAttempt, Goto, Steps
<1>6. ASSUME NEW c \in Callers, Begin(c) PROVE RequestTypeOK'
  BY <1>6, <1>0 DEF Begin, Goto, Steps
<1>7. ASSUME NEW c \in Callers, LockRow(c) PROVE RequestTypeOK'
  BY <1>7, <1>0 DEF LockRow, Goto, Steps, Verdict
<1>8. ASSUME NEW c \in Callers, RefuseArchived(c) PROVE RequestTypeOK'
  BY <1>8, <1>0 DEF RefuseArchived, Refuse, Finalize, Fault, Done, Unlock, Steps
<1>9. ASSUME NEW c \in Callers, RefuseDuplicate(c) PROVE RequestTypeOK'
  BY <1>9, <1>0 DEF RefuseDuplicate, Refuse, Finalize, Fault, Done, Unlock, Steps
<1>10. ASSUME NEW c \in Callers, RefuseStale(c) PROVE RequestTypeOK'
  BY <1>10, <1>0 DEF RefuseStale, Finalize, Fault, Goto, Steps
<1>11. ASSUME NEW c \in Callers, RecordConflict(c) PROVE RequestTypeOK'
  BY <1>11, <1>0 DEF RecordConflict, Done, Steps
<1>12. ASSUME NEW c \in Callers, Commit(c) PROVE RequestTypeOK'
  <2>1. req' = [req EXCEPT ![c] = [req[c] EXCEPT !.revision = Len(history) + 1]]
    BY <1>0, <1>12 DEF Commit
  <2>2. req[c] \in CallRequest /\ Len(history) + 1 \in Nat
    BY <1>0, RevisionTypes DEF TypeOK
  <2>3. [req[c] EXCEPT !.revision = Len(history) + 1] \in CallRequest
    BY <2>2, RequestUpdated
  <2>4. req' \in [Callers -> CallRequest]
    BY <1>0, <2>1, <2>3
  <2>. QED
    BY <1>0, <1>12, <2>4 DEF Commit, CommitRevision, Goto, Steps
<1>13. ASSUME NEW c \in Callers, FinalizeCommitted(c) PROVE RequestTypeOK'
  BY <1>13, <1>0 DEF FinalizeCommitted, Finalize, Fault, Goto, Steps
<1>14. ASSUME NEW c \in Callers, CallFails(c) PROVE RequestTypeOK'
  BY <1>14, <1>0 DEF CallFails, Fault, Done, Steps
<1>15. ASSUME NEW c \in Callers, BeginFails(c) PROVE RequestTypeOK'
  BY <1>15, <1>0 DEF BeginFails, Fault, Done, Steps
<1>16. ASSUME NEW c \in Callers, WriteFails(c) PROVE RequestTypeOK'
  BY <1>16, <1>0 DEF WriteFails, AttemptInternal, Fault, Done, Unlock, Steps
<1>17. ASSUME NEW c \in Callers, CommitUnheard(c) PROVE RequestTypeOK'
  BY <1>17, <1>0 DEF CommitUnheard, CommitRevision, AttemptInternal, Fault, Done, Steps
<1>18. ASSUME NEW c \in Callers, LockTimedOut(c) PROVE RequestTypeOK'
  BY <1>18, <1>0 DEF LockTimedOut, Finalize, Fault, Done, Goto, Steps
<1>19. ASSUME NEW c \in Callers, WaitTimedOut(c) PROVE RequestTypeOK'
  BY <1>19, <1>0 DEF WaitTimedOut, Done, Unlock, Steps
<1>20. ASSUME NEW c \in Callers, UpdateDrawing(c) PROVE RequestTypeOK'
  BY <1>20, <1>0 DEF UpdateDrawing, Done, Steps
<1>21. ASSUME NEW c \in Callers, AuditRow(c) PROVE RequestTypeOK'
  BY <1>21, <1>0 DEF AuditRow, Goto, Steps
<1>22. ASSUME NEW c \in Callers, AuditLatest(c) PROVE RequestTypeOK'
  BY <1>22, <1>0 DEF AuditLatest, Goto, Steps
<1>23. ASSUME NEW c \in Callers, AuditIndex(c) PROVE RequestTypeOK'
  BY <1>23, <1>0 DEF AuditIndex, Goto, Steps
<1>24. ASSUME NEW c \in Callers, AuditSync(c) PROVE RequestTypeOK'
  BY <1>24, <1>0 DEF AuditSync, AuditUpsert, AuditResolve, Done, Steps
<1>25. ASSUME NEW c \in Callers, Deadline(c) PROVE RequestTypeOK'
  BY <1>25, <1>0 DEF Deadline, Done, Unlock, Steps
<1>26. ASSUME NEW c \in Callers, AuditTick(c) PROVE RequestTypeOK'
  BY <1>26, <1>0 DEF AuditTick, Goto, Steps
<1>27. CASE Crash
  BY <1>27, <1>0 DEF Crash, Steps
<1>28. ASSUME NEW mode \in RepairModes, Repair(mode) PROVE RequestTypeOK'
  BY <1>28, <1>0 DEF Repair, callers
<1>29. CASE ResolveFindings
  BY <1>29, <1>0 DEF ResolveFindings, callers
<1>30. CASE UNCHANGED vars
  BY <1>30, <1>0 DEF vars, callers
<1>. QED
  BY <1>1, <1>2, <1>3, <1>4, <1>5, <1>6, <1>7, <1>8, <1>9, <1>10, <1>11, <1>12, <1>13,
     <1>14, <1>15, <1>16,
     <1>17, <1>18, <1>19, <1>20, <1>21, <1>22, <1>23, <1>24, <1>25, <1>26, <1>27, <1>28, <1>29, <1>30 DEF Next, Start, Continue

(* Marking an attempt as failed keeps its type. *)
LEMMA FailedAttempts ==
    ASSUME LedgerTypeOK, NEW n
    PROVE  /\ [attempt EXCEPT ![n] = IF @.status = "none" THEN @
                                     ELSE [@ EXCEPT !.status = "failed", !.outcome = "internal"]]
                 \in [1..MaxCalls -> Attempt]
           /\ [attempt EXCEPT ![n] = IF @.status = "none" THEN @
                                     ELSE [@ EXCEPT !.status = "failed", !.outcome = "lock_timeout"]]
                 \in [1..MaxCalls -> Attempt]
<1>. DEFINE internal(a) == IF a.status = "none" THEN a
                           ELSE [a EXCEPT !.status = "failed", !.outcome = "internal"]
            timeout(a)  == IF a.status = "none" THEN a
                           ELSE [a EXCEPT !.status = "failed", !.outcome = "lock_timeout"]
<1>1. \A a \in Attempt : internal(a) \in Attempt /\ timeout(a) \in Attempt
  BY DEF Attempt, Statuses, Outcomes
<1>2. attempt \in [1..MaxCalls -> Attempt]
  BY DEF LedgerTypeOK
<1>. HIDE DEF internal, timeout
<1>3. [attempt EXCEPT ![n] = internal(@)] \in [1..MaxCalls -> Attempt]
  BY <1>1, <1>2
<1>4. [attempt EXCEPT ![n] = timeout(@)] \in [1..MaxCalls -> Attempt]
  BY <1>1, <1>2
<1>. QED
  BY <1>3, <1>4 DEF internal, timeout

(* The attempts and the conflict trail keep their types. *)
LEMMA LedgerTypeStep == TypeOK /\ [Next]_vars => LedgerTypeOK'
<1>. SUFFICES ASSUME TypeOK, [Next]_vars PROVE LedgerTypeOK'
  OBVIOUS
<1>0. /\ LedgerTypeOK /\ attempt \in [1..MaxCalls -> Attempt] /\ events \subseteq Nat /\ calls \in Nat
      /\ req \in [Callers -> CallRequest] /\ NoAttempt \in Attempt /\ NoRequest \in CallRequest
      /\ \A r \in CallRequest : r.at \in Nat /\ r.revision \in Nat /\ r.command \in Commands \cup {NoCommand}
      /\ {"none", "pending", "succeeded", "failed"} \subseteq Statuses
      /\ {"archived_drawing", "stale_base", "lock_timeout", "internal", "committed"} \subseteq Outcomes
  BY EmptyTypes DEF TypeOK, RequestTypeOK, LedgerTypeOK, CallRequest, Statuses, Outcomes
<1>. USE DEF LedgerTypeOK
<1>1. ASSUME NEW c \in Callers, NEW k \in Commands, NEW b \in {0} \cup RevisionIds, ReadForCommand(c, k, b)
      PROVE  LedgerTypeOK'
  BY <1>1, <1>0 DEF ReadForCommand, ledger
<1>2. ASSUME NEW c \in Callers, NEW i \in RevisionIds, ReadForRevert(c, i)
      PROVE  LedgerTypeOK'
  BY <1>2, <1>0 DEF ReadForRevert, ledger
<1>3. ASSUME NEW c \in Callers, NEW status \in BOOLEAN, ReadForUpdate(c, status)
      PROVE  LedgerTypeOK'
  BY <1>3, <1>0 DEF ReadForUpdate, ledger
<1>4. ASSUME NEW c \in Callers, Enter(c) PROVE LedgerTypeOK'
  <2>1. attempt' = [n \in 1..MaxCalls |-> IF n + TTL < calls + 1 THEN NoAttempt ELSE attempt[n]]
    BY <1>4 DEF Enter
  <2>2. attempt' \in [1..MaxCalls -> Attempt]
    BY <1>0, <2>1
  <2>. QED
    BY <1>0, <1>4, <2>2 DEF Enter
<1>5. ASSUME NEW c \in Callers, OpenAttempt(c) PROVE LedgerTypeOK'
  <2>1. [NoAttempt EXCEPT !.status = "pending", !.command = req[c].command] \in Attempt
    BY <1>0 DEF NoAttempt, Attempt
  <2>2. attempt' \in [1..MaxCalls -> Attempt]
    BY <1>0, <1>5, <2>1 DEF OpenAttempt
  <2>. QED
    BY <1>0, <1>5, <2>2 DEF OpenAttempt
<1>6. ASSUME NEW c \in Callers, Begin(c) PROVE LedgerTypeOK'
  BY <1>6, <1>0 DEF Begin, ledger
<1>7. ASSUME NEW c \in Callers, LockRow(c) PROVE LedgerTypeOK'
  BY <1>7, <1>0 DEF LockRow, ledger
<1>8. ASSUME NEW c \in Callers, RefuseArchived(c) PROVE LedgerTypeOK'
  <2>1. Finalize(c, "failed", "archived_drawing", 0)
    BY <1>0, <1>8 DEF RefuseArchived, Refuse
  <2>2. attempt' \in [1..MaxCalls -> Attempt]
    BY <1>0, <2>1, FinalizeType
  <2>. QED
    BY <1>0, <1>8, <2>2 DEF RefuseArchived, Refuse
<1>9. ASSUME NEW c \in Callers, RefuseDuplicate(c) PROVE LedgerTypeOK'
  <2>1. Finalize(c, "failed", "internal", 0)
    BY <1>0, <1>9 DEF RefuseDuplicate, Refuse
  <2>2. attempt' \in [1..MaxCalls -> Attempt]
    BY <1>0, <2>1, FinalizeType
  <2>. QED
    BY <1>0, <1>9, <2>2 DEF RefuseDuplicate, Refuse
<1>10. ASSUME NEW c \in Callers, RefuseStale(c) PROVE LedgerTypeOK'
  <2>1. Finalize(c, "failed", "stale_base", 0)
    BY <1>0, <1>10 DEF RefuseStale
  <2>2. attempt' \in [1..MaxCalls -> Attempt]
    BY <1>0, <2>1, FinalizeType
  <2>. QED
    BY <1>0, <1>10, <2>2 DEF RefuseStale
<1>11. ASSUME NEW c \in Callers, RecordConflict(c) PROVE LedgerTypeOK'
  BY <1>11, <1>0 DEF RecordConflict, ledger
<1>12. ASSUME NEW c \in Callers, Commit(c) PROVE LedgerTypeOK'
  BY <1>12, <1>0 DEF Commit, CommitRevision, ledger
<1>13. ASSUME NEW c \in Callers, FinalizeCommitted(c) PROVE LedgerTypeOK'
  <2>1. Finalize(c, "succeeded", "committed", req[c].revision)
    BY <1>13 DEF FinalizeCommitted
  <2>2. req[c].revision \in Nat
    BY <1>0
  <2>3. attempt' \in [1..MaxCalls -> Attempt]
    BY <1>0, <2>1, <2>2, FinalizeType
  <2>. QED
    BY <1>0, <1>13, <2>3 DEF FinalizeCommitted
<1>14. ASSUME NEW c \in Callers, CallFails(c) PROVE LedgerTypeOK'
  BY <1>14, <1>0, SMTT(60) DEF CallFails, ledger
<1>15. ASSUME NEW c \in Callers, BeginFails(c) PROVE LedgerTypeOK'
  BY <1>15, <1>0, FailedAttempts, ZenonT(60) DEF BeginFails, ledger
<1>16. ASSUME NEW c \in Callers, WriteFails(c) PROVE LedgerTypeOK'
  BY <1>16, <1>0, FailedAttempts, ZenonT(60) DEF WriteFails, AttemptInternal, ledger
<1>17. ASSUME NEW c \in Callers, CommitUnheard(c) PROVE LedgerTypeOK'
  BY <1>17, <1>0, FailedAttempts
     DEF CommitUnheard, CommitRevision, AttemptInternal, ledger
<1>18. ASSUME NEW c \in Callers, LockTimedOut(c) PROVE LedgerTypeOK'
  <2>1. Finalize(c, "failed", "lock_timeout", 0)
    BY <1>0, <1>18 DEF LockTimedOut
  <2>2. attempt' \in [1..MaxCalls -> Attempt]
    BY <1>0, <2>1, FinalizeType
  <2>. QED
    BY <1>0, <1>18, <2>2 DEF LockTimedOut
<1>19. ASSUME NEW c \in Callers, WaitTimedOut(c) PROVE LedgerTypeOK'
  BY <1>19, <1>0 DEF WaitTimedOut, ledger
<1>20. ASSUME NEW c \in Callers, UpdateDrawing(c) PROVE LedgerTypeOK'
  BY <1>20, <1>0 DEF UpdateDrawing, ledger
<1>21. ASSUME NEW c \in Callers, AuditRow(c) PROVE LedgerTypeOK'
  BY <1>21, <1>0 DEF AuditRow, ledger
<1>22. ASSUME NEW c \in Callers, AuditLatest(c) PROVE LedgerTypeOK'
  BY <1>22, <1>0 DEF AuditLatest, ledger
<1>23. ASSUME NEW c \in Callers, AuditIndex(c) PROVE LedgerTypeOK'
  BY <1>23, <1>0 DEF AuditIndex, ledger
<1>24. ASSUME NEW c \in Callers, AuditSync(c) PROVE LedgerTypeOK'
  BY <1>24, <1>0 DEF AuditSync, ledger
<1>25. ASSUME NEW c \in Callers, Deadline(c) PROVE LedgerTypeOK'
  BY <1>25, <1>0 DEF Deadline, ledger
<1>26. ASSUME NEW c \in Callers, AuditTick(c) PROVE LedgerTypeOK'
  BY <1>26, <1>0 DEF AuditTick, ledger
<1>27. CASE Crash
  BY <1>27, <1>0 DEF Crash, ledger
<1>28. ASSUME NEW mode \in RepairModes, Repair(mode) PROVE LedgerTypeOK'
  BY <1>28, <1>0 DEF Repair, ledger
<1>29. CASE ResolveFindings
  BY <1>29, <1>0 DEF ResolveFindings, ledger
<1>30. CASE UNCHANGED vars
  BY <1>30, <1>0 DEF vars, ledger
<1>. QED
  BY <1>1, <1>2, <1>3, <1>4, <1>5, <1>6, <1>7, <1>8, <1>9, <1>10, <1>11, <1>12, <1>13,
     <1>14, <1>15, <1>16,
     <1>17, <1>18, <1>19, <1>20, <1>21, <1>22, <1>23, <1>24, <1>25, <1>26, <1>27, <1>28, <1>29, <1>30 DEF Next, Start, Continue

(* Every reachable state has the types of the tables. *)
LEMMA TypeStep == TypeOK /\ Times /\ [Next]_vars => TypeOK'
BY HistoryTypeStep, RequestTypeStep, LedgerTypeStep DEF TypeOK

-----------------------------------------------------------------------------
(* -- proofs: the row *)

(* The row is locked by the caller between its verdict and its end. *)
LEMMA LockStep == TypeOK /\ LockHeld /\ [Next]_vars => LockHeld'
<1>. SUFFICES ASSUME TypeOK, LockHeld, [Next]_vars PROVE LockHeld'
  OBVIOUS
<1>0. pc \in [Callers -> Steps] /\ lock \in Callers \cup {Nobody} /\ LockHeld
  BY DEF TypeOK, RequestTypeOK
<1>. USE DEF LockHeld, Locked
<1>1. ASSUME NEW c \in Callers, NEW k \in Commands, NEW b \in {0} \cup RevisionIds, ReadForCommand(c, k, b)
      PROVE  LockHeld'
  BY <1>1, <1>0 DEF ReadForCommand, Goto
<1>2. ASSUME NEW c \in Callers, NEW i \in RevisionIds, ReadForRevert(c, i) PROVE LockHeld'
  BY <1>2, <1>0 DEF ReadForRevert, Goto
<1>3. ASSUME NEW c \in Callers, NEW status \in BOOLEAN, ReadForUpdate(c, status)
      PROVE  LockHeld'
  BY <1>3, <1>0 DEF ReadForUpdate, Goto
<1>4. ASSUME NEW c \in Callers, Enter(c) PROVE LockHeld'
  BY <1>4, <1>0 DEF Enter, Goto
<1>5. ASSUME NEW c \in Callers, OpenAttempt(c) PROVE LockHeld'
  BY <1>5, <1>0 DEF OpenAttempt, Goto
<1>6. ASSUME NEW c \in Callers, Begin(c) PROVE LockHeld'
  BY <1>6, <1>0 DEF Begin, Goto
<1>7. ASSUME NEW c \in Callers, LockRow(c) PROVE LockHeld'
  BY <1>7, <1>0 DEF LockRow, Goto, Verdict, RowFree
<1>8. ASSUME NEW c \in Callers, RefuseArchived(c) PROVE LockHeld'
  BY <1>8, <1>0 DEF RefuseArchived, Refuse, Finalize, Fault, Done, Unlock
<1>9. ASSUME NEW c \in Callers, RefuseDuplicate(c) PROVE LockHeld'
  BY <1>9, <1>0 DEF RefuseDuplicate, Refuse, Finalize, Fault, Done, Unlock
<1>10. ASSUME NEW c \in Callers, RefuseStale(c) PROVE LockHeld'
  BY <1>10, <1>0 DEF RefuseStale, Finalize, Fault, Goto
<1>11. ASSUME NEW c \in Callers, RecordConflict(c) PROVE LockHeld'
  BY <1>11, <1>0 DEF RecordConflict, Done
<1>12. ASSUME NEW c \in Callers, Commit(c) PROVE LockHeld'
  BY <1>12, <1>0 DEF Commit, CommitRevision, Goto
<1>13. ASSUME NEW c \in Callers, FinalizeCommitted(c) PROVE LockHeld'
  BY <1>13, <1>0 DEF FinalizeCommitted, Finalize, Fault, Goto
<1>14. ASSUME NEW c \in Callers, CallFails(c) PROVE LockHeld'
  BY <1>14, <1>0 DEF CallFails, Fault, Done
<1>15. ASSUME NEW c \in Callers, BeginFails(c) PROVE LockHeld'
  BY <1>15, <1>0 DEF BeginFails, Fault, Done
<1>16. ASSUME NEW c \in Callers, WriteFails(c) PROVE LockHeld'
  BY <1>16, <1>0 DEF WriteFails, AttemptInternal, Fault, Done, Unlock
<1>17. ASSUME NEW c \in Callers, CommitUnheard(c) PROVE LockHeld'
  BY <1>17, <1>0 DEF CommitUnheard, CommitRevision, AttemptInternal, Fault, Done
<1>18. ASSUME NEW c \in Callers, LockTimedOut(c) PROVE LockHeld'
  BY <1>18, <1>0 DEF LockTimedOut, Finalize, Fault, Done, Goto
<1>19. ASSUME NEW c \in Callers, WaitTimedOut(c) PROVE LockHeld'
  BY <1>19, <1>0 DEF WaitTimedOut, Done, Unlock
<1>20. ASSUME NEW c \in Callers, UpdateDrawing(c) PROVE LockHeld'
  BY <1>20, <1>0 DEF UpdateDrawing, Done
<1>21. ASSUME NEW c \in Callers, AuditRow(c) PROVE LockHeld'
  BY <1>21, <1>0 DEF AuditRow, Goto
<1>22. ASSUME NEW c \in Callers, AuditLatest(c) PROVE LockHeld'
  BY <1>22, <1>0 DEF AuditLatest, Goto
<1>23. ASSUME NEW c \in Callers, AuditIndex(c) PROVE LockHeld'
  BY <1>23, <1>0 DEF AuditIndex, Goto
<1>24. ASSUME NEW c \in Callers, AuditSync(c) PROVE LockHeld'
  BY <1>24, <1>0 DEF AuditSync, AuditUpsert, AuditResolve, Done
<1>25. ASSUME NEW c \in Callers, Deadline(c) PROVE LockHeld'
  BY <1>25, <1>0 DEF Deadline, Done, Unlock
<1>26. ASSUME NEW c \in Callers, AuditTick(c) PROVE LockHeld'
  BY <1>26, <1>0 DEF AuditTick, Goto
<1>27. CASE Crash
  BY <1>27, <1>0 DEF Crash
<1>28. ASSUME NEW mode \in RepairModes, Repair(mode) PROVE LockHeld'
  BY <1>28, <1>0 DEF Repair, callers
<1>29. CASE ResolveFindings
  BY <1>29, <1>0 DEF ResolveFindings, callers
<1>30. CASE UNCHANGED vars
  BY <1>30, <1>0 DEF vars, callers
<1>. QED
  BY <1>1, <1>2, <1>3, <1>4, <1>5, <1>6, <1>7, <1>8, <1>9, <1>10, <1>11, <1>12, <1>13,
     <1>14, <1>15, <1>16,
     <1>17, <1>18, <1>19, <1>20, <1>21, <1>22, <1>23, <1>24, <1>25, <1>26, <1>27, <1>28, <1>29, <1>30 DEF Next, Start, Continue

(* Commits and repairs keep the row and the index in agreement with the    *)
(* history.                                                                *)
LEMMA RowStep == TypeOK /\ Times /\ RowAgrees /\ [Next]_vars => RowAgrees'
<1>. SUFFICES ASSUME TypeOK, Times, RowAgrees, [Next]_vars PROVE RowAgrees'
  OBVIOUS
<1>1. DrawingStep
  BY DrawingSteps
<1>2. CASE UNCHANGED drawing
  BY <1>2 DEF drawing, RowAgrees
<1>3. ASSUME NEW c \in Callers, Commit(c) \/ CommitUnheard(c) PROVE RowAgrees'
  <2>1. CommitRevision(c)
    BY <1>3 DEF Commit, CommitUnheard
  <2>2. /\ Len(history') = Len(history) + 1
        /\ history'[Len(history) + 1] =
              [parent |-> head, command |-> req[c].command, text |-> req[c].text, at |-> req[c].at]
    BY <2>1, CommitTypes
  <2>3. /\ head' = Len(history) + 1 /\ count' = count + 1 /\ entityCount' = Cardinality(req[c].text)
        /\ index' = req[c].text \X {Len(history) + 1}
    BY <2>1 DEF CommitRevision
  <2>. QED
    BY <2>2, <2>3 DEF RowAgrees
<1>4. ASSUME NEW mode \in RepairModes, Repair(mode) PROVE RowAgrees'
  BY <1>4 DEF Repair, RowAgrees
<1>. QED
  BY <1>1, <1>2, <1>3, <1>4 DEF DrawingStep

-----------------------------------------------------------------------------
(* -- proofs: times *)

(* No call gets a time, no revision is added. *)
TimesQuiet ==
    /\ history' = history /\ calls' = calls
    /\ \A n \in 1..MaxCalls : attempt'[n].status # "none" => n <= calls
    /\ \A c \in Callers : req'[c].at = 0 \/ req'[c].at = req[c].at
    /\ \A c \in Callers : pc'[c] \in Before => pc[c] \in Before /\ req'[c].at = req[c].at
    /\ \A c \in Callers : pc'[c] \in {"idle", "read", "editing"} => req'[c].at = 0

(* Such a step leaves the times distinct. *)
LEMMA TimesKept == TypeOK /\ Times /\ TimesQuiet => Times'
<1>. SUFFICES ASSUME TypeOK, Times, TimesQuiet PROVE Times'
  OBVIOUS
<1>0. RevisionIds' = RevisionIds
  BY DEF RevisionIds, TimesQuiet
<1>1. /\ \A i \in RevisionIds' : history'[i].at <= calls'
      /\ \A n \in 1..MaxCalls : attempt'[n].status # "none" => n <= calls'
  BY <1>0 DEF TimesQuiet, Times
<1>2. \A c \in Callers : req'[c].at <= calls'
  BY DEF TimesQuiet, Times, TypeOK, LedgerTypeOK
<1>3. \A c, d \in Callers : c # d /\ req'[c].at # 0 => req'[c].at # req'[d].at
  BY DEF TimesQuiet, Times
<1>4. \A c \in Callers : pc'[c] \in Before =>
          req'[c].at # 0 /\ \A i \in RevisionIds' : history'[i].at # req'[c].at
  BY <1>0 DEF TimesQuiet, Times
<1>. QED
  BY <1>1, <1>2, <1>3, <1>4 DEF TimesQuiet, Times

(* A commit leaves the steps at which a call has not committed. *)
LEMMA TimesCommit ==
    ASSUME TypeOK, LockHeld, Times, NEW c \in Callers, CommitRevision(c),
           calls' = calls, req' \in [Callers -> CallRequest],
           req'[c].at \in {0, req[c].at}, pc'[c] \notin Before, pc'[c] \notin {"read", "editing"},
           pc'[c] = "idle" => req'[c].at = 0,
           \A d \in Callers \ {c} : req'[d] = req[d] /\ pc'[d] = pc[d],
           \A n \in 1..MaxCalls : attempt'[n].status # "none" => attempt[n].status # "none"
    PROVE  Times'
<1>1. /\ RevisionIds' = RevisionIds \cup {Len(history) + 1}
      /\ \A i \in RevisionIds : history'[i].at = history[i].at
      /\ history'[Len(history) + 1] =
            [parent |-> head, command |-> req[c].command, text |-> req[c].text, at |-> req[c].at]
  BY CommitTypes
<1>2. history'[Len(history) + 1].at = req[c].at
  BY <1>1
<1>3. pc[c] = "writing" /\ req[c].at # 0
  BY DEF CommitRevision, Times, Before, Locked
<1>4. /\ \A i \in RevisionIds' : history'[i].at <= calls'
      /\ \A n \in 1..MaxCalls : attempt'[n].status # "none" => n <= calls'
  BY <1>1, <1>2 DEF Times
<1>5. \A d \in Callers : req'[d].at <= calls'
  BY DEF Times, TypeOK, LedgerTypeOK
<1>6. \A d, e \in Callers : d # e /\ req'[d].at # 0 => req'[d].at # req'[e].at
  BY DEF Times
<1>7. ASSUME NEW d \in Callers, pc'[d] \in Before
      PROVE  req'[d].at # 0 /\ \A i \in RevisionIds' : history'[i].at # req'[d].at
  <2>1. d # c /\ pc[d] \in Before /\ req'[d] = req[d]
    BY <1>7
  <2>2. req[d].at # req[c].at
    BY <1>3, <2>1 DEF Times
  <2>. QED
    BY <1>1, <1>2, <2>1, <2>2 DEF Times
<1>8. \A d \in Callers : pc'[d] \in {"idle", "read", "editing"} => req'[d].at = 0
  BY DEF Times
<1>. QED
  BY <1>4, <1>5, <1>6, <1>7, <1>8 DEF Times

(* A call gets the next time. *)
LEMMA TimesEnter == ASSUME TypeOK, Times, NEW c \in Callers, Enter(c) PROVE Times'
<1>0. /\ pc \in [Callers -> Steps] /\ req \in [Callers -> CallRequest] /\ calls \in Nat
      /\ RevisionIds' = RevisionIds /\ history' = history
      /\ \A i \in RevisionIds : history[i].at \in Nat
      /\ \A r \in CallRequest : r.at \in Nat
  BY RevisionTypes
     DEF Enter, drawing, RevisionIds, TypeOK, RequestTypeOK, LedgerTypeOK, CallRequest
<1>1. /\ calls' = calls + 1 /\ req'[c].at = calls + 1
      /\ pc'[c] \in {"begin", "opening"}
      /\ \A d \in Callers \ {c} : req'[d] = req[d] /\ pc'[d] = pc[d]
  BY <1>0 DEF Enter, Goto
<1>. DEFINE kept == [n \in 1..MaxCalls |-> IF n + TTL < calls + 1 THEN NoAttempt ELSE attempt[n]]
<1>2. attempt' = kept /\ NoAttempt.status = "none"
  BY DEF Enter, NoAttempt
<1>3. \A n \in 1..MaxCalls : kept[n] = NoAttempt \/ kept[n] = attempt[n]
  OBVIOUS
<1>. HIDE DEF kept
<1>4. \A n \in 1..MaxCalls : attempt'[n].status # "none" => attempt[n].status # "none"
  BY <1>2, <1>3
<1>5. /\ \A i \in RevisionIds' : history'[i].at <= calls'
      /\ \A n \in 1..MaxCalls : attempt'[n].status # "none" => n <= calls'
  BY <1>0, <1>1, <1>4 DEF Times
<1>6. \A d \in Callers : req'[d].at <= calls' /\ req[d].at \in Nat /\ req[d].at <= calls
  BY <1>0, <1>1 DEF Times
<1>7. \A d, e \in Callers : d # e /\ req'[d].at # 0 => req'[d].at # req'[e].at
  BY <1>0, <1>1, <1>6 DEF Times
<1>8. \A i \in RevisionIds : history[i].at # calls + 1
  BY <1>0 DEF Times
<1>9. \A d \in Callers : pc'[d] \in Before =>
          req'[d].at # 0 /\ \A i \in RevisionIds' : history'[i].at # req'[d].at
  BY <1>0, <1>1, <1>8 DEF Times
<1>10. \A d \in Callers : pc'[d] \in {"idle", "read", "editing"} => req'[d].at = 0
  BY <1>1 DEF Times
<1>. QED
  BY <1>5, <1>6, <1>7, <1>9, <1>10 DEF Times

(* A call's time is its own, and no revision has it before the call has    *)
(* committed.                                                              *)
LEMMA TimesStep == TypeOK /\ LockHeld /\ Times /\ [Next]_vars => Times'
<1>. SUFFICES ASSUME TypeOK, LockHeld, Times, [Next]_vars PROVE Times'
  OBVIOUS
<1>0. /\ pc \in [Callers -> Steps] /\ req \in [Callers -> CallRequest]
      /\ attempt \in [1..MaxCalls -> Attempt]
      /\ NoRequest.at = 0
      /\ \A c \in Callers : req[c].at <= calls /\ (pc[c] \in {"idle", "read", "editing"} => req[c].at = 0)
      /\ \A n \in 1..MaxCalls : attempt[n].status # "none" => n <= calls
  BY DEF TypeOK, RequestTypeOK, LedgerTypeOK, NoRequest, Times
<1>. USE DEF Before, Locked
<1>1. ASSUME NEW c \in Callers, NEW k \in Commands, NEW b \in {0} \cup RevisionIds, ReadForCommand(c, k, b)
      PROVE  Times'
  BY <1>1, <1>0, TimesKept
     DEF ReadForCommand, Goto, TimesQuiet, drawing, ledger, callers, Request, NoRequest
<1>2. ASSUME NEW c \in Callers, NEW i \in RevisionIds, ReadForRevert(c, i) PROVE Times'
  BY <1>2, <1>0, TimesKept
     DEF ReadForRevert, Goto, TimesQuiet, drawing, ledger, callers, NoRequest
<1>3. ASSUME NEW c \in Callers, NEW status \in BOOLEAN, ReadForUpdate(c, status)
      PROVE  Times'
  BY <1>3, <1>0, TimesKept DEF ReadForUpdate, Goto, TimesQuiet, drawing, ledger, callers
<1>4. ASSUME NEW c \in Callers, Enter(c) PROVE Times'
  BY <1>4, TimesEnter
<1>5. ASSUME NEW c \in Callers, OpenAttempt(c) PROVE Times'
  BY <1>5, <1>0, TimesKept DEF OpenAttempt, Goto, TimesQuiet, drawing, ledger, callers
<1>6. ASSUME NEW c \in Callers, Begin(c) PROVE Times'
  BY <1>6, <1>0, TimesKept DEF Begin, Goto, TimesQuiet, drawing, ledger, callers
<1>7. ASSUME NEW c \in Callers, LockRow(c) PROVE Times'
  BY <1>7, <1>0, TimesKept
     DEF LockRow, Goto, TimesQuiet, drawing, ledger, callers, Verdict
<1>8. ASSUME NEW c \in Callers, RefuseArchived(c) PROVE Times'
  BY <1>8, <1>0, TimesKept
     DEF RefuseArchived, Refuse, Finalize, Fault, Done, Unlock, TimesQuiet, drawing,
         ledger, callers
<1>9. ASSUME NEW c \in Callers, RefuseDuplicate(c) PROVE Times'
  BY <1>9, <1>0, TimesKept
     DEF RefuseDuplicate, Refuse, Finalize, Fault, Done, Unlock, TimesQuiet, drawing,
         ledger, callers
<1>10. ASSUME NEW c \in Callers, RefuseStale(c) PROVE Times'
  BY <1>10, <1>0, TimesKept
     DEF RefuseStale, Finalize, Fault, Goto, TimesQuiet, drawing, ledger, callers
<1>11. ASSUME NEW c \in Callers, RecordConflict(c) PROVE Times'
  BY <1>11, <1>0, TimesKept DEF RecordConflict, Done, TimesQuiet, drawing, ledger, callers
<1>12. ASSUME NEW c \in Callers, Commit(c) PROVE Times'
  <2>1. CommitRevision(c) /\ calls' = calls
    BY <1>12 DEF Commit, CommitUnheard
  <2>2. req' \in [Callers -> CallRequest]
    BY RequestTypeStep DEF RequestTypeOK
  <2>3. /\ req'[c].at \in {0, req[c].at} /\ pc'[c] \in {"idle", "auditRow", "committed"}
        /\ pc'[c] = "idle" => req'[c].at = 0
        /\ \A d \in Callers \ {c} : req'[d] = req[d] /\ pc'[d] = pc[d]
    BY <1>0, <1>12 DEF Commit, CommitUnheard, Done, Goto
  <2>4. \A n \in 1..MaxCalls : attempt'[n].status # "none" => attempt[n].status # "none"
    BY <1>0, <1>12 DEF Commit, CommitUnheard, AttemptInternal, ledger
  <2>. QED
    BY <2>1, <2>2, <2>3, <2>4, TimesCommit
<1>13. ASSUME NEW c \in Callers, FinalizeCommitted(c) PROVE Times'
  BY <1>13, <1>0, TimesKept
     DEF FinalizeCommitted, Finalize, Fault, Goto, TimesQuiet, drawing, ledger, callers
<1>14. ASSUME NEW c \in Callers, CallFails(c) PROVE Times'
  BY <1>14, <1>0, TimesKept
     DEF CallFails, Fault, Done, TimesQuiet, drawing, ledger, callers
<1>15. ASSUME NEW c \in Callers, BeginFails(c) PROVE Times'
  BY <1>15, <1>0, TimesKept
     DEF BeginFails, Fault, Done, TimesQuiet, drawing, ledger, callers
<1>16. ASSUME NEW c \in Callers, WriteFails(c) PROVE Times'
  BY <1>16, <1>0, TimesKept
     DEF WriteFails, AttemptInternal, Fault, Done, Unlock, TimesQuiet, drawing, ledger,
         callers
<1>17. ASSUME NEW c \in Callers, CommitUnheard(c) PROVE Times'
  <2>1. CommitRevision(c) /\ calls' = calls
    BY <1>17 DEF Commit, CommitUnheard
  <2>2. req' \in [Callers -> CallRequest]
    BY RequestTypeStep DEF RequestTypeOK
  <2>3. /\ req'[c].at \in {0, req[c].at} /\ pc'[c] \in {"idle", "auditRow", "committed"}
        /\ pc'[c] = "idle" => req'[c].at = 0
        /\ \A d \in Callers \ {c} : req'[d] = req[d] /\ pc'[d] = pc[d]
    BY <1>0, <1>17 DEF Commit, CommitUnheard, Done, Goto
  <2>4. \A n \in 1..MaxCalls : attempt'[n].status # "none" => attempt[n].status # "none"
    BY <1>0, <1>17 DEF Commit, CommitUnheard, AttemptInternal, ledger
  <2>. QED
    BY <2>1, <2>2, <2>3, <2>4, TimesCommit
<1>18. ASSUME NEW c \in Callers, LockTimedOut(c) PROVE Times'
  BY <1>18, <1>0, TimesKept, ZenonT(60)
     DEF LockTimedOut, Finalize, Fault, Done, Goto, TimesQuiet, drawing, ledger, callers
<1>19. ASSUME NEW c \in Callers, WaitTimedOut(c) PROVE Times'
  BY <1>19, <1>0, TimesKept
     DEF WaitTimedOut, Done, Unlock, TimesQuiet, drawing, ledger, callers
<1>20. ASSUME NEW c \in Callers, UpdateDrawing(c) PROVE Times'
  BY <1>20, <1>0, TimesKept DEF UpdateDrawing, Done, TimesQuiet, drawing, ledger, callers
<1>21. ASSUME NEW c \in Callers, AuditRow(c) PROVE Times'
  BY <1>21, <1>0, TimesKept DEF AuditRow, Goto, TimesQuiet, drawing, ledger, callers
<1>22. ASSUME NEW c \in Callers, AuditLatest(c) PROVE Times'
  BY <1>22, <1>0, TimesKept DEF AuditLatest, Goto, TimesQuiet, drawing, ledger, callers
<1>23. ASSUME NEW c \in Callers, AuditIndex(c) PROVE Times'
  BY <1>23, <1>0, TimesKept DEF AuditIndex, Goto, TimesQuiet, drawing, ledger, callers
<1>24. ASSUME NEW c \in Callers, AuditSync(c) PROVE Times'
  BY <1>24, <1>0, TimesKept DEF AuditSync, AuditUpsert, AuditResolve, Done, TimesQuiet, drawing, ledger, callers
<1>25. ASSUME NEW c \in Callers, Deadline(c) PROVE Times'
  BY <1>25, <1>0, TimesKept
     DEF Deadline, Done, Unlock, TimesQuiet, drawing, ledger, callers
<1>26. ASSUME NEW c \in Callers, AuditTick(c) PROVE Times'
  BY <1>26, <1>0, TimesKept DEF AuditTick, Goto, TimesQuiet, drawing, ledger, callers
<1>27. CASE Crash
  BY <1>27, <1>0, TimesKept DEF Crash, TimesQuiet, drawing, ledger, callers
<1>28. ASSUME NEW mode \in RepairModes, Repair(mode) PROVE Times'
  BY <1>28, <1>0, TimesKept DEF Repair, TimesQuiet, drawing, ledger, callers
<1>29. CASE ResolveFindings
  BY <1>29, <1>0, TimesKept DEF ResolveFindings, TimesQuiet, drawing, ledger, callers
<1>30. CASE UNCHANGED vars
  BY <1>30, <1>0, TimesKept DEF vars, TimesQuiet, drawing, ledger, callers
<1>. QED
  BY <1>1, <1>2, <1>3, <1>4, <1>5, <1>6, <1>7, <1>8, <1>9, <1>10, <1>11, <1>12, <1>13,
     <1>14, <1>15, <1>16,
     <1>17, <1>18, <1>19, <1>20, <1>21, <1>22, <1>23, <1>24, <1>25, <1>26, <1>27, <1>28, <1>29, <1>30 DEF Next, Start, Continue

-----------------------------------------------------------------------------
(* -- proofs: attempts *)

(* At most the attempt of call c changes, to the status and the outcome.   *)
Rewritten(c, status, outcome) ==
    \A n \in 1..MaxCalls :
        \/ attempt'[n] = attempt[n]
        \/ /\ n = req[c].at /\ attempt[n].status # "none"
           /\ attempt'[n].status = status /\ attempt'[n].outcome = outcome
           /\ attempt'[n].command = attempt[n].command
           /\ status = "succeeded" => attempt'[n].revision = req[c].revision

(* Finalizing rewrites the attempt of the call and no other. *)
LEMMA FinalizeEffect ==
    ASSUME TypeOK, NEW c \in Callers, NEW status, NEW outcome, NEW revision,
           status = "succeeded" => revision = req[c].revision, Finalize(c, status, outcome, revision)
    PROVE  Rewritten(c, status, outcome)
<1>. DEFINE new(a) == [a EXCEPT !.status = status, !.outcome = outcome, !.revision = revision]
<1>1. attempt \in [1..MaxCalls -> Attempt]
  BY DEF TypeOK, LedgerTypeOK
<1>2. \A a \in Attempt : /\ new(a).status = status /\ new(a).outcome = outcome
                         /\ new(a).revision = revision /\ new(a).command = a.command
  BY DEF Attempt
<1>3. \/ attempt' = attempt
      \/ attempt' = [attempt EXCEPT ![req[c].at] = IF @.status = "none" THEN @ ELSE new(@)]
  BY DEF Finalize
<1>. HIDE DEF new
<1>. QED
  BY <1>1, <1>2, <1>3 DEF Rewritten

(* So does the failure of a write. *)
LEMMA InternalEffect ==
    ASSUME TypeOK, NEW c \in Callers, AttemptInternal(c)
    PROVE  Rewritten(c, "failed", "internal")
<1>. DEFINE new(a) == [a EXCEPT !.status = "failed", !.outcome = "internal"]
<1>1. attempt \in [1..MaxCalls -> Attempt]
  BY DEF TypeOK, LedgerTypeOK
<1>2. \A a \in Attempt : new(a).status = "failed" /\ new(a).outcome = "internal" /\ new(a).command = a.command
  BY DEF Attempt
<1>3. attempt' = [attempt EXCEPT ![req[c].at] = IF @.status = "none" THEN @ ELSE new(@)]
  BY DEF AttemptInternal
<1>. HIDE DEF new
<1>. QED
  BY <1>1, <1>2, <1>3 DEF Rewritten

(* And of the begin of the transaction. *)
LEMMA BeginEffect ==
    ASSUME TypeOK, NEW c \in Callers, BeginFails(c)
    PROVE  Rewritten(c, "failed", "lock_timeout")
<1>. DEFINE new(a) == [a EXCEPT !.status = "failed", !.outcome = "lock_timeout"]
<1>1. attempt \in [1..MaxCalls -> Attempt]
  BY DEF TypeOK, LedgerTypeOK
<1>2. \A a \in Attempt : new(a).status = "failed" /\ new(a).outcome = "lock_timeout" /\ new(a).command = a.command
  BY DEF Attempt
<1>3. attempt' = [attempt EXCEPT ![req[c].at] = IF @.status = "none" THEN @ ELSE new(@)]
  BY DEF BeginFails
<1>. HIDE DEF new
<1>. QED
  BY <1>1, <1>2, <1>3 DEF Rewritten

(* The parts of Attempts about one caller, of AttemptsAgree about one call. *)
Opening    == {"opening", "begin", "locking", "writing", "committed"}
Commanding == {"begin", "locking", "recording", "committed"} \cup Locked

CallerGood(c) ==
    /\ pc[c] \in Opening /\ req[c].at \in 1..MaxCalls => attempt[req[c].at].outcome = ""
    /\ pc[c] = "committed" =>
          /\ req[c].revision \in RevisionIds
          /\ history[req[c].revision].at = req[c].at
          /\ history[req[c].revision].command = req[c].command
    /\ pc[c] \in Commanding /\ req[c].at \in 1..MaxCalls =>
          attempt[req[c].at].status = "none" \/ attempt[req[c].at].command = req[c].command

AttemptGood(n) ==
    /\ attempt[n].status = "none" => attempt[n].outcome = ""
    /\ attempt[n].status = "succeeded" =>
          /\ attempt[n].revision \in RevisionIds
          /\ history[attempt[n].revision].at = n
          /\ history[attempt[n].revision].command = attempt[n].command
    /\ attempt[n].outcome \in {"archived_drawing", "stale_base", "lock_timeout"} =>
          \A i \in RevisionIds : history[i].at # n

(* The two invariants by caller and by call. *)
LEMMA AttemptParts ==
    Attempts /\ AttemptsAgree
      <=> (\A c \in Callers : CallerGood(c)) /\ (\A n \in 1..MaxCalls : AttemptGood(n))
<1>1. Commanding = (Before \ {"opening"}) \cup {"committed"}
  BY DEF Commanding, Before, Locked
<1>. HIDE DEF Before
<1>. QED
  BY <1>1 DEF Attempts, AttemptsAgree, CallerGood, AttemptGood, Opening

(* The same after a step. *)
LEMMA AttemptPartsAfter ==
    ASSUME \A c \in Callers : CallerGood(c)', \A n \in 1..MaxCalls : AttemptGood(n)'
    PROVE  Attempts' /\ AttemptsAgree'
<1>1. Commanding = (Before \ {"opening"}) \cup {"committed"}
  BY DEF Commanding, Before, Locked
<1>. HIDE DEF Before
<1>. QED
  BY <1>1 DEF Attempts, AttemptsAgree, CallerGood, AttemptGood, Opening

(* A step of one caller: it commits at most, and touches its own attempt.  *)
OwnStep(c) ==
    /\ history' = history \/ CommitRevision(c)
    /\ \A d \in Callers \ {c} : pc'[d] = pc[d] /\ req'[d] = req[d]
    /\ \A n \in 1..MaxCalls : n # req[c].at => attempt'[n] \in {attempt[n], NoAttempt}

(* It leaves the other callers and their attempts good. *)
LEMMA OthersGood ==
    ASSUME TypeOK, Times, Attempts, AttemptsAgree, NEW c \in Callers, OwnStep(c)
    PROVE  /\ RevisionIds \subseteq RevisionIds'
           /\ \A i \in RevisionIds : history'[i] = history[i]
           /\ \A d \in Callers \ {c} : CallerGood(d)'
           /\ \A n \in (1..MaxCalls) \ {req[c].at} : AttemptGood(n)'
<1>1. /\ RevisionIds \subseteq RevisionIds'
      /\ \A i \in RevisionIds : history'[i] = history[i]
      /\ \A i \in RevisionIds' \ RevisionIds : history'[i].at = req[c].at
  <2>1. CASE history' = history
    BY <2>1 DEF RevisionIds
  <2>2. CASE CommitRevision(c)
    <3>1. history'[Len(history) + 1] =
             [parent |-> head, command |-> req[c].command, text |-> req[c].text, at |-> req[c].at]
      BY <2>2, CommitTypes
    <3>2. history'[Len(history) + 1].at = req[c].at
      BY <3>1
    <3>. QED
      BY <2>2, <3>2, CommitTypes
  <2>. QED
    BY <2>1, <2>2 DEF OwnStep
<1>2. NoAttempt.status = "none" /\ NoAttempt.outcome = ""
  BY DEF NoAttempt
<1>3. (\A d \in Callers : CallerGood(d)) /\ (\A n \in 1..MaxCalls : AttemptGood(n))
  BY AttemptParts
<1>4. ASSUME NEW d \in Callers \ {c} PROVE CallerGood(d)'
  <2>1. CallerGood(d) /\ pc'[d] = pc[d] /\ req'[d] = req[d]
    BY <1>3 DEF OwnStep
  <2>2. req[d].at \in 1..MaxCalls => attempt'[req[d].at] \in {attempt[req[d].at], NoAttempt}
    BY DEF OwnStep, Times
  <2>. QED
    BY <1>1, <1>2, <2>1, <2>2, ZenonT(60) DEF CallerGood
<1>5. ASSUME NEW n \in (1..MaxCalls) \ {req[c].at} PROVE AttemptGood(n)'
  <2>1. AttemptGood(n) /\ attempt'[n] \in {attempt[n], NoAttempt}
    BY <1>3 DEF OwnStep
  <2>. QED
    BY <1>1, <1>2, <2>1, ZenonT(60) DEF AttemptGood
<1>. QED
  BY <1>1, <1>4, <1>5

(* So it is enough to look at the caller and at its attempt. *)
LEMMA OwnGood ==
    ASSUME TypeOK, Times, Attempts, AttemptsAgree, NEW c \in Callers, OwnStep(c),
           CallerGood(c)', \A n \in 1..MaxCalls : n = req[c].at => AttemptGood(n)'
    PROVE  Attempts' /\ AttemptsAgree'
<1>1. \A d \in Callers : CallerGood(d)'
  BY OthersGood
<1>2. \A n \in 1..MaxCalls : AttemptGood(n)'
  BY OthersGood
<1>. QED
  BY <1>1, <1>2, AttemptPartsAfter

(* A step that rewrites the caller's attempt, or commits, keeps the        *)
(* attempts in agreement when the caller was where the code does so.       *)
LEMMA StepGood ==
    ASSUME TypeOK, Times, Attempts, AttemptsAgree, NEW c \in Callers, NEW status, NEW outcome,
           Rewritten(c, status, outcome), status \in {"failed", "succeeded"},
           history' = history \/ CommitRevision(c),
           \A d \in Callers \ {c} : pc'[d] = pc[d] /\ req'[d] = req[d],
           status = "succeeded" => pc[c] = "committed" /\ history' = history /\ outcome = "committed",
           outcome \in {"archived_drawing", "stale_base", "lock_timeout"} => pc[c] \in Before /\ history' = history,
           CallerGood(c)'
    PROVE  Attempts' /\ AttemptsAgree'
<1>1. OwnStep(c)
  BY DEF OwnStep, Rewritten
<1>2. ASSUME NEW n \in 1..MaxCalls, n = req[c].at PROVE AttemptGood(n)'
  <2>1. AttemptGood(n) /\ CallerGood(c)
    BY AttemptParts
  <2>2. history' = history => RevisionIds' = RevisionIds
    BY DEF RevisionIds
  <2>3. CASE attempt'[n] = attempt[n]
    <3>1. CASE history' = history
      BY <2>1, <2>2, <2>3, <3>1 DEF AttemptGood
    <3>2. CASE CommitRevision(c)
      <4>1. attempt[n].outcome = ""
        BY <1>2, <2>1, <3>2 DEF CallerGood, CommitRevision, Opening
      <4>2. RevisionIds \subseteq RevisionIds' /\ \A i \in RevisionIds : history'[i] = history[i]
        BY <1>1, OthersGood
      <4>3. attempt[n].status = "succeeded" => attempt[n].revision \in RevisionIds
        BY <2>1 DEF AttemptGood
      <4>. QED
        BY <2>1, <2>3, <4>1, <4>2, <4>3, ZenonT(60) DEF AttemptGood
    <3>. QED
      BY <3>1, <3>2
  <2>4. CASE /\ attempt[n].status # "none" /\ attempt'[n].status = status /\ attempt'[n].outcome = outcome
             /\ attempt'[n].command = attempt[n].command
             /\ status = "succeeded" => attempt'[n].revision = req[c].revision
    <3>1. CASE status = "succeeded"
      BY <1>2, <2>1, <2>2, <2>4, <3>1 DEF AttemptGood, CallerGood, Commanding
    <3>2. CASE status = "failed"
      BY <1>2, <2>2, <2>4, <3>2 DEF AttemptGood, Times
    <3>. QED
      BY <3>1, <3>2
  <2>. QED
    BY <1>2, <2>3, <2>4 DEF Rewritten
<1>. QED
  BY <1>1, <1>2, OwnGood

(* A step that leaves attempts and history alone. *)
LEMMA StillGood ==
    ASSUME TypeOK, Times, Attempts, AttemptsAgree, NEW c \in Callers,
           history' = history, attempt' = attempt,
           \A d \in Callers \ {c} : pc'[d] = pc[d] /\ req'[d] = req[d], CallerGood(c)'
    PROVE  Attempts' /\ AttemptsAgree'
<1>1. Rewritten(c, "failed", "internal")
  BY DEF Rewritten
<1>. QED
  BY <1>1, StepGood

(* Attempts tell the truth after every step. *)
LEMMA AttemptsStep ==
    TypeOK /\ Times /\ Attempts /\ AttemptsAgree /\ [Next]_vars => Attempts' /\ AttemptsAgree'
<1>. SUFFICES ASSUME TypeOK, Times, Attempts, AttemptsAgree, [Next]_vars PROVE Attempts' /\ AttemptsAgree'
  OBVIOUS
<1>0. /\ pc \in [Callers -> Steps] /\ req \in [Callers -> CallRequest]
      /\ attempt \in [1..MaxCalls -> Attempt] /\ calls \in Nat
      /\ \A c \in Callers : CallerGood(c)
      /\ \A n \in 1..MaxCalls : AttemptGood(n)
  BY AttemptParts DEF TypeOK, RequestTypeOK, LedgerTypeOK
<1>1. ASSUME NEW c \in Callers, NEW k \in Commands, NEW b \in {0} \cup RevisionIds, ReadForCommand(c, k, b)
      PROVE  Attempts' /\ AttemptsAgree'
  <2>1. history' = history /\ attempt' = attempt
    BY <1>1 DEF ReadForCommand, Goto, drawing, ledger
  <2>2. \A d \in Callers \ {c} : pc'[d] = pc[d] /\ req'[d] = req[d]
    BY <1>0, <1>1 DEF ReadForCommand, Goto
  <2>3. CallerGood(c)'
    BY <1>0, <1>1, <2>1
       DEF ReadForCommand, Goto, CallerGood, Opening, Commanding, Locked, RevisionIds
  <2>. QED
    BY <2>1, <2>2, <2>3, StillGood
<1>2. ASSUME NEW c \in Callers, NEW i \in RevisionIds, ReadForRevert(c, i)
      PROVE  Attempts' /\ AttemptsAgree'
  <2>1. history' = history /\ attempt' = attempt
    BY <1>2 DEF ReadForRevert, Goto, drawing, ledger
  <2>2. \A d \in Callers \ {c} : pc'[d] = pc[d] /\ req'[d] = req[d]
    BY <1>0, <1>2 DEF ReadForRevert, Goto
  <2>3. CallerGood(c)'
    BY <1>0, <1>2, <2>1
       DEF ReadForRevert, Goto, CallerGood, Opening, Commanding, Locked, RevisionIds
  <2>. QED
    BY <2>1, <2>2, <2>3, StillGood
<1>3. ASSUME NEW c \in Callers, NEW status \in BOOLEAN, ReadForUpdate(c, status)
      PROVE  Attempts' /\ AttemptsAgree'
  <2>1. history' = history /\ attempt' = attempt
    BY <1>3 DEF ReadForUpdate, Goto, drawing, ledger
  <2>2. \A d \in Callers \ {c} : pc'[d] = pc[d] /\ req'[d] = req[d]
    BY <1>0, <1>3 DEF ReadForUpdate, Goto
  <2>3. CallerGood(c)'
    BY <1>0, <1>3, <2>1
       DEF ReadForUpdate, Goto, CallerGood, Opening, Commanding, Locked, RevisionIds
  <2>. QED
    BY <2>1, <2>2, <2>3, StillGood
<1>4. ASSUME NEW c \in Callers, Enter(c) PROVE Attempts' /\ AttemptsAgree'
  <2>. DEFINE kept == [n \in 1..MaxCalls |-> IF n + TTL < calls + 1 THEN NoAttempt ELSE attempt[n]]
  <2>1. attempt' = kept /\ history' = history
    BY <1>4 DEF Enter, drawing
  <2>2. \A n \in 1..MaxCalls : kept[n] \in {attempt[n], NoAttempt}
    OBVIOUS
  <2>. HIDE DEF kept
  <2>3. \A d \in Callers \ {c} : pc'[d] = pc[d] /\ req'[d] = req[d]
    BY <1>0, <1>4 DEF Enter, Goto
  <2>4. OwnStep(c)
    BY <2>1, <2>2, <2>3 DEF OwnStep
  <2>5. NoAttempt.status = "none" /\ NoAttempt.outcome = ""
    BY DEF NoAttempt
  <2>6. req[c].at = 0
    BY <1>4 DEF Enter, Times
  <2>7. pc'[c] \in {"begin", "opening"} /\ req'[c].at = calls + 1
    BY <1>0, <1>4 DEF Enter, Goto, CallRequest
  <2>8. calls + 1 \in 1..MaxCalls =>
          attempt'[calls + 1].status = "none" /\ attempt'[calls + 1].outcome = ""
    <3>. SUFFICES ASSUME calls + 1 \in 1..MaxCalls
                  PROVE  attempt'[calls + 1].status = "none" /\ attempt'[calls + 1].outcome = ""
      OBVIOUS
    <3>1. attempt[calls + 1].status = "none"
      BY <1>0 DEF Times
    <3>2. attempt[calls + 1].outcome = ""
      BY <1>0, <3>1 DEF AttemptGood
    <3>. QED
      BY <2>1, <2>2, <2>5, <3>1, <3>2
  <2>9. CallerGood(c)'
    BY <2>7, <2>8 DEF CallerGood
  <2>. QED
    BY <2>4, <2>6, <2>9, OwnGood
<1>5. ASSUME NEW c \in Callers, OpenAttempt(c) PROVE Attempts' /\ AttemptsAgree'
  <2>1. /\ history' = history /\ req' = req
        /\ attempt' = [attempt EXCEPT ![req[c].at] =
                         [NoAttempt EXCEPT !.status = "pending", !.command = req[c].command]]
    BY <1>5 DEF OpenAttempt, drawing
  <2>2. pc'[c] = "begin" /\ \A d \in Callers \ {c} : pc'[d] = pc[d]
    BY <1>0, <1>5 DEF OpenAttempt, Goto
  <2>3. OwnStep(c)
    BY <1>0, <2>1, <2>2 DEF OwnStep
  <2>4. \A n \in 1..MaxCalls : n = req[c].at =>
          attempt'[n].status = "pending" /\ attempt'[n].outcome = "" /\ attempt'[n].command = req[c].command
    BY <1>0, <2>1 DEF NoAttempt
  <2>5. CallerGood(c)'
    BY <2>1, <2>2, <2>4 DEF CallerGood
  <2>6. \A n \in 1..MaxCalls : n = req[c].at => AttemptGood(n)'
    BY <2>4 DEF AttemptGood
  <2>. QED
    BY <2>3, <2>5, <2>6, OwnGood
<1>6. ASSUME NEW c \in Callers, Begin(c) PROVE Attempts' /\ AttemptsAgree'
  <2>1. history' = history /\ attempt' = attempt
    BY <1>6 DEF Begin, Goto, drawing, ledger
  <2>2. \A d \in Callers \ {c} : pc'[d] = pc[d] /\ req'[d] = req[d]
    BY <1>0, <1>6 DEF Begin, Goto
  <2>3. CallerGood(c)'
    BY <1>0, <1>6, <2>1
       DEF Begin, Goto, CallerGood, Opening, Commanding, Locked, RevisionIds
  <2>. QED
    BY <2>1, <2>2, <2>3, StillGood
<1>7. ASSUME NEW c \in Callers, LockRow(c) PROVE Attempts' /\ AttemptsAgree'
  <2>1. history' = history /\ attempt' = attempt
    BY <1>7 DEF LockRow, Goto, drawing, ledger
  <2>2. \A d \in Callers \ {c} : pc'[d] = pc[d] /\ req'[d] = req[d]
    BY <1>0, <1>7 DEF LockRow, Goto
  <2>3. CallerGood(c)'
    BY <1>0, <1>7, <2>1
       DEF LockRow, Goto, Verdict, CallerGood, Opening, Commanding, Locked, RevisionIds
  <2>. QED
    BY <2>1, <2>2, <2>3, StillGood
<1>8. ASSUME NEW c \in Callers, RefuseArchived(c) PROVE Attempts' /\ AttemptsAgree'
  <2>1. Rewritten(c, "failed", "archived_drawing")
    BY <1>8, FinalizeEffect DEF RefuseArchived, Refuse
  <2>2. history' = history
    BY <1>8 DEF RefuseArchived, Refuse, Finalize, Fault, Done, Unlock, drawing
  <2>3. \A d \in Callers \ {c} : pc'[d] = pc[d] /\ req'[d] = req[d]
    BY <1>0, <1>8 DEF RefuseArchived, Refuse, Finalize, Fault, Done, Unlock
  <2>4. CallerGood(c)'
    BY <1>0, <1>8, <2>1, <2>2
       DEF RefuseArchived, Refuse, Finalize, Fault, Done, Unlock, CallerGood, Opening,
           Commanding, Locked, RevisionIds, Rewritten
  <2>. QED
    BY <1>8, <2>1, <2>2, <2>3, <2>4, StepGood DEF RefuseArchived, Refuse, Before, Locked
<1>9. ASSUME NEW c \in Callers, RefuseDuplicate(c) PROVE Attempts' /\ AttemptsAgree'
  <2>1. Rewritten(c, "failed", "internal")
    BY <1>9, FinalizeEffect DEF RefuseDuplicate, Refuse
  <2>2. history' = history
    BY <1>9 DEF RefuseDuplicate, Refuse, Finalize, Fault, Done, Unlock, drawing
  <2>3. \A d \in Callers \ {c} : pc'[d] = pc[d] /\ req'[d] = req[d]
    BY <1>0, <1>9 DEF RefuseDuplicate, Refuse, Finalize, Fault, Done, Unlock
  <2>4. CallerGood(c)'
    BY <1>0, <1>9, <2>1, <2>2
       DEF RefuseDuplicate, Refuse, Finalize, Fault, Done, Unlock, CallerGood, Opening,
           Commanding, Locked, RevisionIds, Rewritten
  <2>. QED
    BY <1>9, <2>1, <2>2, <2>3, <2>4, StepGood DEF RefuseDuplicate, Refuse, Before, Locked
<1>10. ASSUME NEW c \in Callers, RefuseStale(c) PROVE Attempts' /\ AttemptsAgree'
  <2>1. Rewritten(c, "failed", "stale_base")
    BY <1>10, FinalizeEffect DEF RefuseStale
  <2>2. history' = history
    BY <1>10 DEF RefuseStale, Finalize, Fault, Goto, drawing
  <2>3. \A d \in Callers \ {c} : pc'[d] = pc[d] /\ req'[d] = req[d]
    BY <1>0, <1>10 DEF RefuseStale, Finalize, Fault, Goto
  <2>4. CallerGood(c)'
    BY <1>0, <1>10, <2>1, <2>2, ZenonT(60)
       DEF RefuseStale, Finalize, Fault, Goto, CallerGood, Opening, Commanding, Locked,
           RevisionIds, Rewritten
  <2>. QED
    BY <1>10, <2>1, <2>2, <2>3, <2>4, StepGood DEF RefuseStale, Before, Locked
<1>11. ASSUME NEW c \in Callers, RecordConflict(c) PROVE Attempts' /\ AttemptsAgree'
  <2>1. history' = history /\ attempt' = attempt
    BY <1>11 DEF RecordConflict, Done, drawing, ledger
  <2>2. \A d \in Callers \ {c} : pc'[d] = pc[d] /\ req'[d] = req[d]
    BY <1>0, <1>11 DEF RecordConflict, Done
  <2>3. CallerGood(c)'
    BY <1>0, <1>11, <2>1
       DEF RecordConflict, Done, CallerGood, Opening, Commanding, Locked, RevisionIds
  <2>. QED
    BY <2>1, <2>2, <2>3, StillGood
<1>12. ASSUME NEW c \in Callers, Commit(c) PROVE Attempts' /\ AttemptsAgree'
  <2>1. attempt' = attempt /\ CommitRevision(c)
    BY <1>12 DEF Commit, ledger
  <2>2. Rewritten(c, "failed", "internal")
    BY <2>1 DEF Rewritten
  <2>3. \A d \in Callers \ {c} : pc'[d] = pc[d] /\ req'[d] = req[d]
    BY <1>0, <1>12 DEF Commit, Goto
  <2>4. CallerGood(c)'
    <3>1. pc[c] = "writing"
      BY <2>1 DEF CommitRevision
    <3>2. /\ pc'[c] = IF req[c].command = NoCommand THEN "auditRow" ELSE "committed"
          /\ req'[c].revision = Len(history) + 1
          /\ req'[c].at = req[c].at /\ req'[c].command = req[c].command
      BY <1>0, <1>12 DEF Commit, Goto, CallRequest
    <3>3. /\ RevisionIds' = RevisionIds \cup {Len(history) + 1}
          /\ history'[Len(history) + 1] =
                [parent |-> head, command |-> req[c].command, text |-> req[c].text, at |-> req[c].at]
      BY <2>1, CommitTypes
    <3>4. history'[Len(history) + 1].at = req[c].at /\ history'[Len(history) + 1].command = req[c].command
      BY <3>3
    <3>. QED
      BY <1>0, <2>1, <3>1, <3>2, <3>3, <3>4 DEF CallerGood, Opening, Commanding, Locked
  <2>. QED
    BY <2>1, <2>2, <2>3, <2>4, StepGood
<1>13. ASSUME NEW c \in Callers, FinalizeCommitted(c) PROVE Attempts' /\ AttemptsAgree'
  <2>1. Rewritten(c, "succeeded", "committed")
    BY <1>13, FinalizeEffect DEF FinalizeCommitted
  <2>2. history' = history
    BY <1>13 DEF FinalizeCommitted, Finalize, Fault, Goto, drawing
  <2>3. \A d \in Callers \ {c} : pc'[d] = pc[d] /\ req'[d] = req[d]
    BY <1>0, <1>13 DEF FinalizeCommitted, Finalize, Fault, Goto
  <2>4. CallerGood(c)'
    BY <1>0, <1>13, <2>1, <2>2
       DEF FinalizeCommitted, Finalize, Fault, Goto, CallerGood, Opening, Commanding,
           Locked, RevisionIds, Rewritten
  <2>. QED
    BY <1>13, <2>1, <2>2, <2>3, <2>4, StepGood DEF FinalizeCommitted, Before, Locked
<1>14. ASSUME NEW c \in Callers, CallFails(c) PROVE Attempts' /\ AttemptsAgree'
  <2>1. history' = history /\ attempt' = attempt
    BY <1>14 DEF CallFails, Fault, Done, drawing, ledger
  <2>2. \A d \in Callers \ {c} : pc'[d] = pc[d] /\ req'[d] = req[d]
    BY <1>0, <1>14 DEF CallFails, Fault, Done
  <2>3. CallerGood(c)'
    BY <1>0, <1>14, <2>1
       DEF CallFails, Fault, Done, CallerGood, Opening, Commanding, Locked, RevisionIds
  <2>. QED
    BY <2>1, <2>2, <2>3, StillGood
<1>15. ASSUME NEW c \in Callers, BeginFails(c) PROVE Attempts' /\ AttemptsAgree'
  <2>1. Rewritten(c, "failed", "lock_timeout")
    BY <1>15, BeginEffect
  <2>2. history' = history
    BY <1>15 DEF BeginFails, Fault, Done, drawing
  <2>3. \A d \in Callers \ {c} : pc'[d] = pc[d] /\ req'[d] = req[d]
    BY <1>0, <1>15 DEF BeginFails, Fault, Done
  <2>4. CallerGood(c)'
    BY <1>0, <1>15, <2>1, <2>2
       DEF BeginFails, Fault, Done, CallerGood, Opening, Commanding, Locked, RevisionIds,
           Rewritten
  <2>. QED
    BY <1>15, <2>1, <2>2, <2>3, <2>4, StepGood DEF BeginFails, Before, Locked
<1>16. ASSUME NEW c \in Callers, WriteFails(c) PROVE Attempts' /\ AttemptsAgree'
  <2>1. Rewritten(c, "failed", "internal")
    BY <1>16, InternalEffect DEF WriteFails
  <2>2. history' = history
    BY <1>16 DEF WriteFails, AttemptInternal, Fault, Done, Unlock, drawing
  <2>3. \A d \in Callers \ {c} : pc'[d] = pc[d] /\ req'[d] = req[d]
    BY <1>0, <1>16 DEF WriteFails, AttemptInternal, Fault, Done, Unlock
  <2>4. CallerGood(c)'
    BY <1>0, <1>16, <2>1, <2>2
       DEF WriteFails, AttemptInternal, Fault, Done, Unlock, CallerGood, Opening,
           Commanding, Locked, RevisionIds, Rewritten
  <2>. QED
    BY <1>16, <2>1, <2>2, <2>3, <2>4, StepGood DEF WriteFails, Before, Locked
<1>17. ASSUME NEW c \in Callers, CommitUnheard(c) PROVE Attempts' /\ AttemptsAgree'
  <2>1. Rewritten(c, "failed", "internal")
    BY <1>17, InternalEffect DEF CommitUnheard
  <2>2. CommitRevision(c)
    BY <1>17 DEF CommitUnheard
  <2>3. \A d \in Callers \ {c} : pc'[d] = pc[d] /\ req'[d] = req[d]
    BY <1>0, <1>17 DEF CommitUnheard, CommitRevision, AttemptInternal, Fault, Done
  <2>4. CallerGood(c)'
    BY <1>0, <1>17, <2>1, <2>2
       DEF CommitUnheard, CommitRevision, AttemptInternal, Fault, Done, CallerGood,
           Opening, Commanding, Locked, RevisionIds, Rewritten
  <2>. QED
    BY <1>17, <2>1, <2>2, <2>3, <2>4, StepGood DEF CommitUnheard, Before, Locked
<1>18. ASSUME NEW c \in Callers, LockTimedOut(c) PROVE Attempts' /\ AttemptsAgree'
  <2>1. Rewritten(c, "failed", "lock_timeout")
    BY <1>18, FinalizeEffect DEF LockTimedOut
  <2>2. history' = history
    BY <1>18 DEF LockTimedOut, Finalize, Fault, Done, Goto, drawing
  <2>3. \A d \in Callers \ {c} : pc'[d] = pc[d] /\ req'[d] = req[d]
    BY <1>0, <1>18 DEF LockTimedOut, Finalize, Fault, Done, Goto
  <2>4. CallerGood(c)'
    <3>0. pc[c] = "locking"
      BY <1>18 DEF LockTimedOut
    <3>1. pc'[c] = "idle" \/ (pc'[c] = "recording" /\ req'[c] = req[c])
      <4>1. CASE req[c].command = NoCommand
        BY <1>0, <1>18, <4>1 DEF LockTimedOut, Done
      <4>2. CASE req[c].command # NoCommand
        BY <1>0, <1>18, <4>2 DEF LockTimedOut, Goto
      <4>. QED
        BY <4>1, <4>2
    <3>2. CallerGood(c)
      BY <1>0
    <3>. QED
      BY <2>1, <2>2, <3>0, <3>1, <3>2, ZenonT(60)
         DEF CallerGood, Opening, Commanding, Locked, RevisionIds, Rewritten
  <2>. QED
    BY <1>18, <2>1, <2>2, <2>3, <2>4, StepGood DEF LockTimedOut, Before, Locked
<1>19. ASSUME NEW c \in Callers, WaitTimedOut(c) PROVE Attempts' /\ AttemptsAgree'
  <2>1. history' = history /\ attempt' = attempt
    BY <1>19 DEF WaitTimedOut, Done, Unlock, drawing, ledger
  <2>2. \A d \in Callers \ {c} : pc'[d] = pc[d] /\ req'[d] = req[d]
    BY <1>0, <1>19 DEF WaitTimedOut, Done, Unlock
  <2>3. CallerGood(c)'
    BY <1>0, <1>19, <2>1
       DEF WaitTimedOut, Done, Unlock, CallerGood, Opening, Commanding, Locked,
           RevisionIds
  <2>. QED
    BY <2>1, <2>2, <2>3, StillGood
<1>20. ASSUME NEW c \in Callers, UpdateDrawing(c) PROVE Attempts' /\ AttemptsAgree'
  <2>1. history' = history /\ attempt' = attempt
    BY <1>20 DEF UpdateDrawing, Done, drawing, ledger
  <2>2. \A d \in Callers \ {c} : pc'[d] = pc[d] /\ req'[d] = req[d]
    BY <1>0, <1>20 DEF UpdateDrawing, Done
  <2>3. CallerGood(c)'
    BY <1>0, <1>20, <2>1
       DEF UpdateDrawing, Done, CallerGood, Opening, Commanding, Locked, RevisionIds
  <2>. QED
    BY <2>1, <2>2, <2>3, StillGood
<1>21. ASSUME NEW c \in Callers, AuditRow(c) PROVE Attempts' /\ AttemptsAgree'
  <2>1. history' = history /\ attempt' = attempt
    BY <1>21 DEF AuditRow, Goto, drawing, ledger
  <2>2. \A d \in Callers \ {c} : pc'[d] = pc[d] /\ req'[d] = req[d]
    BY <1>0, <1>21 DEF AuditRow, Goto
  <2>3. CallerGood(c)'
    BY <1>0, <1>21, <2>1
       DEF AuditRow, Goto, CallerGood, Opening, Commanding, Locked, RevisionIds
  <2>. QED
    BY <2>1, <2>2, <2>3, StillGood
<1>22. ASSUME NEW c \in Callers, AuditLatest(c) PROVE Attempts' /\ AttemptsAgree'
  <2>1. history' = history /\ attempt' = attempt
    BY <1>22 DEF AuditLatest, Goto, drawing, ledger
  <2>2. \A d \in Callers \ {c} : pc'[d] = pc[d] /\ req'[d] = req[d]
    BY <1>0, <1>22 DEF AuditLatest, Goto
  <2>3. CallerGood(c)'
    BY <1>0, <1>22, <2>1
       DEF AuditLatest, Goto, CallerGood, Opening, Commanding, Locked, RevisionIds
  <2>. QED
    BY <2>1, <2>2, <2>3, StillGood
<1>23. ASSUME NEW c \in Callers, AuditIndex(c) PROVE Attempts' /\ AttemptsAgree'
  <2>1. history' = history /\ attempt' = attempt
    BY <1>23 DEF AuditIndex, Goto, drawing, ledger
  <2>2. \A d \in Callers \ {c} : pc'[d] = pc[d] /\ req'[d] = req[d]
    BY <1>0, <1>23 DEF AuditIndex, Goto
  <2>3. CallerGood(c)'
    BY <1>0, <1>23, <2>1
       DEF AuditIndex, Goto, CallerGood, Opening, Commanding, Locked, RevisionIds
  <2>. QED
    BY <2>1, <2>2, <2>3, StillGood
<1>24. ASSUME NEW c \in Callers, AuditSync(c) PROVE Attempts' /\ AttemptsAgree'
  <2>1. history' = history /\ attempt' = attempt
    BY <1>24 DEF AuditSync, AuditUpsert, AuditResolve, Done, drawing, ledger
  <2>2. \A d \in Callers \ {c} : pc'[d] = pc[d] /\ req'[d] = req[d]
    BY <1>0, <1>24 DEF AuditSync, AuditUpsert, AuditResolve, Done
  <2>3. CallerGood(c)'
    BY <1>0, <1>24, <2>1
       DEF AuditSync, AuditUpsert, AuditResolve, Done, CallerGood, Opening, Commanding, Locked, RevisionIds
  <2>. QED
    BY <2>1, <2>2, <2>3, StillGood
<1>25. ASSUME NEW c \in Callers, Deadline(c) PROVE Attempts' /\ AttemptsAgree'
  <2>1. history' = history /\ attempt' = attempt
    BY <1>25 DEF Deadline, Done, Unlock, drawing, ledger
  <2>2. \A d \in Callers \ {c} : pc'[d] = pc[d] /\ req'[d] = req[d]
    BY <1>0, <1>25 DEF Deadline, Done, Unlock
  <2>3. CallerGood(c)'
    BY <1>0, <1>25, <2>1
       DEF Deadline, Done, Unlock, CallerGood, Opening, Commanding, Locked, RevisionIds
  <2>. QED
    BY <2>1, <2>2, <2>3, StillGood
<1>26. ASSUME NEW c \in Callers, AuditTick(c) PROVE Attempts' /\ AttemptsAgree'
  <2>1. history' = history /\ attempt' = attempt
    BY <1>26 DEF AuditTick, Goto, drawing, ledger
  <2>2. \A d \in Callers \ {c} : pc'[d] = pc[d] /\ req'[d] = req[d]
    BY <1>0, <1>26 DEF AuditTick, Goto
  <2>3. CallerGood(c)'
    BY <1>0, <1>26, <2>1
       DEF AuditTick, Goto, CallerGood, Opening, Commanding, Locked, RevisionIds
  <2>. QED
    BY <2>1, <2>2, <2>3, StillGood
<1>27. CASE UNCHANGED <<history, attempt>> /\ (UNCHANGED callers \/ \A c \in Callers : pc'[c] = "idle")
  <2>1. RevisionIds' = RevisionIds
    BY <1>27 DEF RevisionIds
  <2>2. \A c \in Callers : CallerGood(c)'
    BY <1>0, <1>27, <2>1, ZenonT(60) DEF CallerGood, Opening, Commanding, Locked, callers
  <2>3. \A n \in 1..MaxCalls : AttemptGood(n)'
    BY <1>0, <1>27, <2>1, ZenonT(60) DEF AttemptGood
  <2>. QED
    BY <2>2, <2>3, AttemptPartsAfter
<1>28. Crash \/ UNCHANGED vars \/ ResolveFindings \/ (\E mode \in RepairModes : Repair(mode))
       => UNCHANGED <<history, attempt>> /\ (UNCHANGED callers \/ \A c \in Callers : pc'[c] = "idle")
  BY DEF Crash, vars, ResolveFindings, Repair, drawing, ledger, callers
<1>. QED
  BY <1>1, <1>2, <1>3, <1>4, <1>5, <1>6, <1>7, <1>8, <1>9, <1>10, <1>11, <1>12, <1>13,
     <1>14, <1>15,
     <1>16, <1>17, <1>18, <1>19, <1>20, <1>21, <1>22, <1>23, <1>24, <1>25, <1>26, <1>27, <1>28 DEF Next, Start, Continue

-----------------------------------------------------------------------------
(* -- proofs: theorems *)

(* A new drawing satisfies the invariant. *)
LEMMA InitIInv == Init => IInv
<1>. SUFFICES ASSUME Init PROVE IInv
  OBVIOUS
<1>1. TypeOK
  BY TypeInit
<1>2. /\ Len(history) = 1 /\ RevisionIds = {1}
      /\ history[1] = [parent |-> 0, command |-> NoCommand, text |-> {}, at |-> 0]
  BY DEF Init, RevisionIds
<1>3. history[1].at = 0 /\ history[1].text = {}
  BY <1>2
<1>4. /\ \A c \in Callers : pc[c] = "idle" /\ req[c].at = 0
      /\ \A n \in 1..MaxCalls : attempt[n].status = "none" /\ attempt[n].outcome = ""
      /\ calls = 0
  BY DEF Init, NoRequest, NoAttempt
<1>5. LockHeld /\ Times
  <2>1. \A i \in RevisionIds : history[i].at = 0
    BY <1>2, <1>3
  <2>2. \A c \in Callers : pc[c] \notin Before /\ pc[c] \notin Locked
    BY <1>4 DEF Before, Locked
  <2>3. 0 <= 0
    OBVIOUS
  <2>4. LockHeld
    BY <2>2 DEF LockHeld
  <2>. QED
    BY <1>4, <2>1, <2>2, <2>3, <2>4 DEF Times
<1>7. Attempts /\ AttemptsAgree
  BY <1>4 DEF Attempts, AttemptsAgree, Before, Locked
<1>6. RowAgrees
  BY <1>2, <1>3, FS_EmptySet DEF Init, RowAgrees
<1>. QED
  BY <1>1, <1>5, <1>6, <1>7 DEF IInv

(* Every step preserves it. *)
LEMMA NextIInv == IInv /\ [Next]_vars => IInv'
BY TypeStep, LockStep, RowStep, TimesStep, AttemptsStep DEF IInv

(* The invariant holds in every reachable state. *)
LEMMA Invariant == Spec => []IInv
BY InitIInv, NextIInv, PTL DEF Spec

(* Rows, requests and attempts keep the values the tables and the code     *)
(* allow, for any number of callers, commands, connections, faults and     *)
(* crashes.                                                                *)
THEOREM DrawingTypeCorrect == Spec => []TypeOK
<1>1. IInv => TypeOK
  BY DEF IInv
<1>. QED
  BY <1>1, Invariant, PTL

(* The row of the drawing and the entity index describe the head in every  *)
(* reachable state, between any commits, reverts, crashes and repairs of   *)
(* either mode.                                                            *)
THEOREM DrawingRowAgrees == Spec => []RowAgrees
<1>1. IInv => RowAgrees
  BY DEF IInv
<1>. QED
  BY <1>1, Invariant, PTL

(* An attempt that succeeded names the revision its own call committed and *)
(* one that was rejected left none, whatever is finalized late, fails to   *)
(* be finalized or expires.                                                *)
THEOREM DrawingAttemptsAgree == Spec => []AttemptsAgree
<1>1. IInv => AttemptsAgree
  BY DEF IInv
<1>. QED
  BY <1>1, Invariant, PTL
=============================================================================
