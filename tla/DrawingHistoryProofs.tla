------------------------- MODULE DrawingHistoryProofs -------------------------
(***************************************************************************)
(* Proofs about the history of DrawingRevision: nothing is committed to an *)
(* archived drawing; and, as long as the operator does not repair the head *)
(* from the times of the revisions, the history is linear and the service  *)
(* implements LinearHistory.                                               *)
(***************************************************************************)
EXTENDS DrawingRevisionProofs, SequenceTheorems

USE DrawingRevisionAssumption

(* A call that is writing has passed the verdict, and nothing has changed. *)
Accepted ==
    \A c \in Callers : pc[c] = "writing" =>
        /\ ~IsStaleBase(req[c].base, req[c].version)
        /\ req[c].command \notin CommittedCommands
        /\ ~archived

(* The steps at which a call carries a snapshot and has not committed. *)
Carrying == {"read", "opening", "begin", "locking", "writing", "archived", "duplicate", "stale", "recording"}

(* What a call carries is a snapshot of the history, for a command with    *)
(* the command applied.                                                    *)
Carries(r) ==
    IF r.command = NoCommand
    THEN \E i \in RevisionIds : r.text = history[i].text
    ELSE /\ r.version \in RevisionIds /\ r.base \in {0} \cup RevisionIds
         /\ r.text = Applied(r.command, history[IF r.base = 0 THEN r.version ELSE r.base].text)

RequestsGood == \A c \in Callers : pc[c] \in Carrying => Carries(req[c])

(* The operator does not rebuild the head from the times of the revisions. *)
HeadsKept == "head-and-index" \notin RepairModes

LInv == HistoryLinear /\ RequestsGood

-----------------------------------------------------------------------------
(* How a call comes to carry a snapshot, and to write. *)

CarryStep(d) ==
    \/ pc[d] \in Carrying /\ req'[d] \in {req[d], [req[d] EXCEPT !.at = calls + 1]}
    \/ \E k \in Commands, b \in {0} \cup RevisionIds : ReadForCommand(d, k, b)
    \/ \E i \in RevisionIds : ReadForRevert(d, i)

CallerSteps ==
    \A d \in Callers : /\ pc'[d] \in Carrying => CarryStep(d)
                       /\ pc'[d] = "writing" => (pc[d] = "writing" /\ req'[d] = req[d]) \/ LockRow(d)

(* A call carries a snapshot since it has read the drawing, and writes     *)
(* since it has locked the row.                                            *)
LEMMA CallersStep == TypeOK /\ [Next]_vars => CallerSteps
<1>. SUFFICES ASSUME TypeOK, [Next]_vars PROVE CallerSteps
  OBVIOUS
<1>0. pc \in [Callers -> Steps] /\ req \in [Callers -> CallRequest]
  BY DEF TypeOK, RequestTypeOK
<1>. USE DEF CallerSteps, CarryStep, Carrying
<1>1. ASSUME NEW c \in Callers, NEW k \in Commands, NEW b \in {0} \cup RevisionIds, ReadForCommand(c, k, b)
      PROVE  CallerSteps
  BY <1>1, <1>0 DEF ReadForCommand, Goto
<1>2. ASSUME NEW c \in Callers, NEW i \in RevisionIds, ReadForRevert(c, i)
      PROVE  CallerSteps
  BY <1>2, <1>0 DEF ReadForRevert, Goto
<1>3. ASSUME NEW c \in Callers, NEW status \in BOOLEAN, ReadForUpdate(c, status)
      PROVE  CallerSteps
  BY <1>3, <1>0 DEF ReadForUpdate, Goto
<1>4. ASSUME NEW c \in Callers, Enter(c) PROVE CallerSteps
  BY <1>4, <1>0 DEF Enter, Goto
<1>5. ASSUME NEW c \in Callers, OpenAttempt(c) PROVE CallerSteps
  BY <1>5, <1>0 DEF OpenAttempt, Goto
<1>6. ASSUME NEW c \in Callers, Begin(c) PROVE CallerSteps
  BY <1>6, <1>0 DEF Begin, Goto
<1>7. ASSUME NEW c \in Callers, LockRow(c) PROVE CallerSteps
  BY <1>7, <1>0 DEF LockRow, Goto, Verdict
<1>8. ASSUME NEW c \in Callers, RefuseArchived(c) PROVE CallerSteps
  BY <1>8, <1>0 DEF RefuseArchived, Refuse, Finalize, Fault, Done, Unlock
<1>9. ASSUME NEW c \in Callers, RefuseDuplicate(c) PROVE CallerSteps
  BY <1>9, <1>0 DEF RefuseDuplicate, Refuse, Finalize, Fault, Done, Unlock
<1>10. ASSUME NEW c \in Callers, RefuseStale(c) PROVE CallerSteps
  BY <1>10, <1>0 DEF RefuseStale, Finalize, Fault, Goto
<1>11. ASSUME NEW c \in Callers, RecordConflict(c) PROVE CallerSteps
  BY <1>11, <1>0 DEF RecordConflict, Done
<1>12. ASSUME NEW c \in Callers, Commit(c) PROVE CallerSteps
  BY <1>12, <1>0 DEF Commit, CommitRevision, Goto
<1>13. ASSUME NEW c \in Callers, FinalizeCommitted(c) PROVE CallerSteps
  BY <1>13, <1>0 DEF FinalizeCommitted, Finalize, Fault, Goto
<1>14. ASSUME NEW c \in Callers, CallFails(c) PROVE CallerSteps
  BY <1>14, <1>0 DEF CallFails, Fault, Done
<1>15. ASSUME NEW c \in Callers, BeginFails(c) PROVE CallerSteps
  BY <1>15, <1>0 DEF BeginFails, Fault, Done
<1>16. ASSUME NEW c \in Callers, WriteFails(c) PROVE CallerSteps
  BY <1>16, <1>0 DEF WriteFails, AttemptInternal, Fault, Done, Unlock
<1>17. ASSUME NEW c \in Callers, CommitUnheard(c) PROVE CallerSteps
  BY <1>17, <1>0 DEF CommitUnheard, CommitRevision, AttemptInternal, Fault, Done
<1>18. ASSUME NEW c \in Callers, LockTimedOut(c) PROVE CallerSteps
  BY <1>18, <1>0 DEF LockTimedOut, Finalize, Fault, Done, Goto
<1>19. ASSUME NEW c \in Callers, WaitTimedOut(c) PROVE CallerSteps
  BY <1>19, <1>0 DEF WaitTimedOut, Done, Unlock
<1>20. ASSUME NEW c \in Callers, UpdateDrawing(c) PROVE CallerSteps
  BY <1>20, <1>0 DEF UpdateDrawing, Done
<1>21. ASSUME NEW c \in Callers, AuditRow(c) PROVE CallerSteps
  BY <1>21, <1>0 DEF AuditRow, Goto
<1>22. ASSUME NEW c \in Callers, AuditLatest(c) PROVE CallerSteps
  BY <1>22, <1>0 DEF AuditLatest, Goto
<1>23. ASSUME NEW c \in Callers, AuditIndex(c) PROVE CallerSteps
  BY <1>23, <1>0 DEF AuditIndex, Goto
<1>24. ASSUME NEW c \in Callers, AuditSync(c) PROVE CallerSteps
  BY <1>24, <1>0 DEF AuditSync, AuditUpsert, AuditResolve, Done
<1>25. ASSUME NEW c \in Callers, Deadline(c) PROVE CallerSteps
  BY <1>25, <1>0 DEF Deadline, Done, Unlock
<1>26. ASSUME NEW c \in Callers, AuditTick(c) PROVE CallerSteps
  BY <1>26, <1>0 DEF AuditTick, Goto
<1>27. CASE Crash
  BY <1>27, <1>0 DEF Crash
<1>28. ASSUME NEW mode \in RepairModes, Repair(mode) PROVE CallerSteps
  BY <1>28, <1>0 DEF Repair, callers
<1>29. CASE ResolveFindings
  BY <1>29, <1>0 DEF ResolveFindings, callers
<1>30. CASE UNCHANGED vars
  BY <1>30, <1>0 DEF vars, callers
<1>. QED
  BY <1>1, <1>2, <1>3, <1>4, <1>5, <1>6, <1>7, <1>8, <1>9, <1>10, <1>11, <1>12, <1>13,
     <1>14, <1>15, <1>16,
     <1>17, <1>18, <1>19, <1>20, <1>21, <1>22, <1>23, <1>24, <1>25, <1>26, <1>27, <1>28, <1>29, <1>30 DEF Next, Start, Continue

-----------------------------------------------------------------------------
(* An accepted call stays accepted: it holds the lock of the row. *)
LEMMA AcceptedStep == TypeOK /\ LockHeld /\ Accepted /\ [Next]_vars => Accepted'
<1>. SUFFICES ASSUME TypeOK, LockHeld, Accepted, [Next]_vars, NEW c \in Callers, pc'[c] = "writing"
              PROVE  /\ ~IsStaleBase(req[c].base, req[c].version)'
                     /\ (req[c].command \notin CommittedCommands)'
                     /\ ~archived'
  BY DEF Accepted
<1>1. (pc[c] = "writing" /\ req'[c] = req[c]) \/ LockRow(c)
  BY CallersStep DEF CallerSteps
<1>2. CASE LockRow(c)
  <2>1. UNCHANGED drawing /\ archived' = archived /\ req' = req
    BY <1>2 DEF LockRow
  <2>2. Verdict(req[c]) = "writing"
    BY <1>2 DEF LockRow, Goto, TypeOK, RequestTypeOK
  <2>3. ~archived /\ ~IsStaleBase(req[c].base, req[c].version) /\ req[c].command \notin CommittedCommands
    BY <2>2 DEF Verdict
  <2>. QED
    BY <2>1, <2>3 DEF IsStaleBase, CommittedCommands, drawing, RevisionIds
<1>3. CASE pc[c] = "writing" /\ req'[c] = req[c] /\ ~LockRow(c)
  <2>1. lock = c /\ c # Nobody
    BY <1>3 DEF LockHeld, Locked
  <2>2. /\ ~archived /\ ~IsStaleBase(req[c].base, req[c].version)
        /\ req[c].command \notin CommittedCommands
    BY <1>3 DEF Accepted
  <2>3. archived' = archived
    BY <2>1, DrawingSteps DEF DrawingStep, UpdateDrawing, RowFree
  <2>4. ASSUME NEW d \in Callers, Commit(d) \/ CommitUnheard(d) PROVE FALSE
    <3>1. pc[d] = "writing" /\ pc'[d] # "writing"
      BY <2>4 DEF Commit, CommitUnheard, CommitRevision, Goto, Done, TypeOK, RequestTypeOK
    <3>2. d = c
      BY <2>1, <3>1 DEF LockHeld, Locked
    <3>. QED
      BY <3>1, <3>2
  <2>5. UNCHANGED drawing
    BY <2>1, <2>4, DrawingSteps DEF DrawingStep, Repair, RowFree
  <2>. QED
    BY <1>3, <2>2, <2>3, <2>5 DEF IsStaleBase, CommittedCommands, drawing, RevisionIds
<1>. QED
  BY <1>1, <1>2, <1>3

(* Every reachable state keeps to it. *)
LEMMA AcceptedInvariant == Spec => []Accepted
<1>1. Init => Accepted
  BY DEF Init, Accepted
<1>2. IInv /\ Accepted /\ [Next]_vars => Accepted'
  BY AcceptedStep DEF IInv
<1>. QED
  BY <1>1, <1>2, Invariant, PTL DEF Spec

(* Nothing is committed to a drawing that is archived, even when the       *)
(* archiving races with a commit that has been accepted.                   *)
THEOREM DrawingArchivedIsClosed == Spec => ArchivedIsClosed
<1>1. Accepted /\ [Next]_vars => [history' # history => ~archived]_vars
  <2>. SUFFICES ASSUME Accepted, Next, history' # history PROVE ~archived
    BY DEF vars
  <2>1. DrawingStep
    BY DrawingSteps
  <2>2. PICK c \in Callers : CommitRevision(c)
    BY <2>1 DEF DrawingStep, Commit, CommitUnheard, Repair, drawing
  <2>. QED
    BY <2>2 DEF CommitRevision, Accepted
<1>. QED
  BY <1>1, AcceptedInvariant, PTL DEF Spec, ArchivedIsClosed

-----------------------------------------------------------------------------
(* The linear history *)

(* The history only grows. *)
Grows == RevisionIds \subseteq RevisionIds' /\ \A i \in RevisionIds : history'[i] = history[i]

(* No step takes a revision back or changes one. *)
LEMMA HistoryGrows == TypeOK /\ [Next]_vars => Grows
<1>. SUFFICES ASSUME TypeOK, [Next]_vars PROVE Grows
  OBVIOUS
<1>1. DrawingStep
  BY DrawingSteps
<1>2. CASE history' = history
  BY <1>2 DEF Grows, RevisionIds
<1>3. ASSUME NEW c \in Callers, CommitRevision(c) PROVE Grows
  BY <1>3, CommitTypes DEF Grows
<1>. QED
  BY <1>1, <1>2, <1>3 DEF DrawingStep, Commit, CommitUnheard, Repair, drawing

(* What a call carries stays a snapshot of the history. *)
LEMMA CarriesKept ==
    ASSUME Grows, NEW r, NEW s, Carries(r), RevisionIds \subseteq Nat \ {0},
           s.command = r.command, s.version = r.version, s.base = r.base, s.text = r.text
    PROVE  IF s.command = NoCommand
           THEN \E i \in RevisionIds' : s.text = history'[i].text
           ELSE /\ s.version \in RevisionIds' /\ s.base \in {0} \cup RevisionIds'
                /\ s.text = Applied(s.command, history'[IF s.base = 0 THEN s.version ELSE s.base].text)
<1>1. CASE r.command = NoCommand
  <2>1. PICK i \in RevisionIds : r.text = history[i].text
    BY <1>1 DEF Carries
  <2>2. i \in RevisionIds' /\ history'[i] = history[i]
    BY DEF Grows
  <2>. QED
    BY <1>1, <2>1, <2>2
<1>2. CASE r.command # NoCommand
  <2>. DEFINE i == IF r.base = 0 THEN r.version ELSE r.base
  <2>1. /\ r.version \in RevisionIds /\ r.base \in {0} \cup RevisionIds
        /\ r.text = Applied(r.command, history[i].text)
    BY <1>2 DEF Carries
  <2>2. i \in RevisionIds
    BY <2>1
  <2>3. history'[i] = history[i] /\ RevisionIds \subseteq RevisionIds'
    BY <2>2 DEF Grows
  <2>. QED
    BY <1>2, <2>1, <2>3
<1>. QED
  BY <1>1, <1>2

(* A call reads a head that is the last revision, and carries what it read *)
(* from then on.                                                           *)
LEMMA RequestsStep ==
    TypeOK /\ RowAgrees /\ HistoryLinear /\ RequestsGood /\ [Next]_vars => RequestsGood'
<1>. SUFFICES ASSUME TypeOK, RowAgrees, HistoryLinear, RequestsGood, [Next]_vars,
                     NEW d \in Callers, pc'[d] \in Carrying
              PROVE  Carries(req[d])'
  BY DEF RequestsGood
<1>0. /\ Grows /\ CarryStep(d) /\ RevisionIds \subseteq Nat \ {0}
      /\ req \in [Callers -> CallRequest] /\ req[d] \in CallRequest
      /\ head \in RevisionIds /\ count = head /\ RevisionIds = 1..Len(history)
  BY HistoryGrows, CallersStep, RevisionTypes
     DEF CallerSteps, TypeOK, HistoryTypeOK, RequestTypeOK, RowAgrees, HistoryLinear
<1>1. CASE pc[d] \in Carrying /\ req'[d] \in {req[d], [req[d] EXCEPT !.at = calls + 1]}
  <2>1. /\ req'[d].command = req[d].command /\ req'[d].version = req[d].version
        /\ req'[d].base = req[d].base /\ req'[d].text = req[d].text
    <3>1. \A r \in CallRequest : \A n : LET s == [r EXCEPT !.at = n] IN
             s.command = r.command /\ s.version = r.version /\ s.base = r.base /\ s.text = r.text
      BY DEF CallRequest
    <3>2. CASE req'[d] = [req[d] EXCEPT !.at = calls + 1]
      BY <1>0, <3>1, <3>2
    <3>. QED
      BY <1>1, <3>2
  <2>2. Carries(req[d])
    BY <1>1 DEF RequestsGood
  <2>. QED
    BY <1>0, <2>1, <2>2, CarriesKept DEF Carries
<1>2. ASSUME NEW k \in Commands, NEW b \in {0} \cup RevisionIds, ReadForCommand(d, k, b)
      PROVE  Carries(req[d])'
  <2>1. req'[d] = Request(k, b) /\ history' = history
    BY <1>0, <1>2 DEF ReadForCommand, drawing
  <2>2. /\ Request(k, b).command = k /\ Request(k, b).base = b /\ Request(k, b).version = count
        /\ Request(k, b).text = Applied(k, history[IF b = 0 THEN head ELSE b].text)
    BY DEF Request, NoRequest
  <2>3. k # NoCommand /\ RevisionIds' = RevisionIds
    BY <2>1 DEF RevisionIds
  <2>. QED
    BY <1>0, <2>1, <2>2, <2>3 DEF Carries
<1>3. ASSUME NEW i \in RevisionIds, ReadForRevert(d, i) PROVE Carries(req[d])'
  <2>1. req'[d] = [NoRequest EXCEPT !.text = history[i].text] /\ history' = history
    BY <1>0, <1>3 DEF ReadForRevert, drawing
  <2>2. req'[d].command = NoCommand /\ req'[d].text = history[i].text
    BY <2>1 DEF NoRequest
  <2>3. RevisionIds' = RevisionIds
    BY <2>1 DEF RevisionIds
  <2>. QED
    BY <2>1, <2>2, <2>3 DEF Carries
<1>. QED
  BY <1>0, <1>1, <1>2, <1>3 DEF CarryStep

(* Commits append to the head, and a repair of the index keeps it. *)
LEMMA LinearStep ==
    ASSUME HeadsKept PROVE TypeOK /\ HistoryLinear /\ [Next]_vars => HistoryLinear'
<1>. SUFFICES ASSUME TypeOK, HistoryLinear, [Next]_vars PROVE HistoryLinear'
  OBVIOUS
<1>1. DrawingStep
  BY DrawingSteps
<1>2. CASE history' = history /\ head' = head
  BY <1>2 DEF HistoryLinear, RevisionIds
<1>3. ASSUME NEW c \in Callers, CommitRevision(c) PROVE HistoryLinear'
  <2>1. /\ RevisionIds' = RevisionIds \cup {Len(history) + 1}
        /\ Len(history') = Len(history) + 1
        /\ \A i \in RevisionIds : history'[i] = history[i]
        /\ history'[Len(history) + 1] =
              [parent |-> head, command |-> req[c].command, text |-> req[c].text, at |-> req[c].at]
    BY <1>3, CommitTypes
  <2>2. history'[Len(history) + 1].parent = Len(history) /\ Len(history) \in Nat
    BY <2>1, RevisionTypes DEF HistoryLinear, TypeOK
  <2>3. head' = Len(history')
    BY <1>3, <2>1 DEF CommitRevision
  <2>. QED
    BY <2>1, <2>2, <2>3 DEF HistoryLinear
<1>4. ASSUME NEW mode \in RepairModes, Repair(mode)
      PROVE  history' = history /\ head' = head
  <2>1. mode = "entity-index"
    BY DEF HeadsKept
  <2>. QED
    BY <1>4, <2>1 DEF Repair, RepairedHead
<1>. QED
  BY <1>1, <1>2, <1>3, <1>4 DEF DrawingStep, Commit, CommitUnheard, drawing

(* A new drawing has a linear history. *)
LEMMA InitLInv == Init => LInv
<1>. SUFFICES ASSUME Init PROVE LInv
  OBVIOUS
<1>1. /\ Len(history) = 1 /\ RevisionIds = {1} /\ head = 1
      /\ history[1] = [parent |-> 0, command |-> NoCommand, text |-> {}, at |-> 0]
  BY DEF Init, RevisionIds
<1>2. history[1].parent = 0
  BY <1>1
<1>3. RequestsGood
  BY DEF Init, RequestsGood, Carrying
<1>. QED
  BY <1>1, <1>2, <1>3 DEF LInv, HistoryLinear

(* The history stays linear with what the calls carry. *)
LEMMA LinearInvariant == ASSUME HeadsKept PROVE Spec => []LInv
<1>1. IInv /\ LInv /\ [Next]_vars => LInv'
  BY LinearStep, RequestsStep DEF IInv, LInv
<1>. QED
  BY <1>1, InitLInv, Invariant, PTL DEF Spec

(* No commit forks the history: as long as heads are not rebuilt from      *)
(* times, each revision is committed on top of the one before it and the   *)
(* head is the last one, whatever callers, deadlines and crashes do.       *)
THEOREM DrawingHistoryLinear == ASSUME HeadsKept PROVE Spec => []HistoryLinear
<1>1. LInv => HistoryLinear
  BY DEF LInv
<1>. QED
  BY <1>1, LinearInvariant, PTL

-----------------------------------------------------------------------------
(* The refinement of LinearHistory *)

(* The history as its users see it. *)
Log == [i \in RevisionIds |-> [command |-> history[i].command, text |-> history[i].text]]

(* A new drawing starts an empty history. *)
LEMMA LinearInit == Init => Linear!Init
<1>. SUFFICES ASSUME Init PROVE Linear!Init
  OBVIOUS
<1>1. /\ RevisionIds = 1..1
      /\ history[1] = [parent |-> 0, command |-> NoCommand, text |-> {}, at |-> 0]
  BY DEF Init, RevisionIds
<1>2. [command |-> history[1].command, text |-> history[1].text] = [command |-> NoCommand, text |-> {}]
  BY <1>1
<1>3. Log = <<[command |-> NoCommand, text |-> {}]>>
  BY <1>1, <1>2 DEF Log
<1>. QED
  BY <1>3 DEF Log, Linear!Init, Linear!Entry

(* The log of a history is a sequence of its length. *)
LEMMA LogLength ==
    ASSUME TypeOK
    PROVE  /\ Len(Log) = Len(history) /\ DOMAIN Log = RevisionIds
           /\ \A i \in RevisionIds : Log[i].command = history[i].command /\ Log[i].text = history[i].text
<1>1. RevisionIds = 1..Len(history) /\ Len(history) \in Nat
  BY RevisionTypes DEF TypeOK
<1>. QED
  BY <1>1 DEF Log

(* A commit appends an entry to the log. *)
LEMMA LogCommit ==
    ASSUME TypeOK, NEW c \in Callers, CommitRevision(c)
    PROVE  Log' = Append(Log, [command |-> req[c].command, text |-> req[c].text])
<1>. DEFINE e == [command |-> req[c].command, text |-> req[c].text]
<1>1. /\ RevisionIds' = RevisionIds \cup {Len(history) + 1}
      /\ \A i \in RevisionIds : history'[i] = history[i]
      /\ history'[Len(history) + 1] =
            [parent |-> head, command |-> req[c].command, text |-> req[c].text, at |-> req[c].at]
  BY CommitTypes
<1>2. RevisionIds = 1..Len(history) /\ Len(history) \in Nat
  BY RevisionTypes DEF TypeOK
<1>3. Len(Log) = Len(history)
  BY LogLength
<1>4. [command |-> history'[Len(history) + 1].command, text |-> history'[Len(history) + 1].text] = e
  BY <1>1
<1>. HIDE DEF e
<1>. DEFINE S == [command : Commands \cup {NoCommand}, text : SUBSET Commands]
            n == Len(history)
<1>5. e \in S /\ \A i \in RevisionIds : Log[i] \in S
  <2>1. req[c] \in CallRequest
    BY DEF TypeOK, RequestTypeOK
  <2>. QED
    BY <2>1, RevisionTypes DEF e, Log, TypeOK, CallRequest
<1>6. /\ Log' \in [1..(n + 1) -> S] /\ Log'[n + 1] = e
      /\ \A i \in 1..n : Log'[i] = Log[i]
  <2>1. Log' = [i \in 1..(n + 1) |-> [command |-> history'[i].command, text |-> history'[i].text]]
    BY <1>1, <1>2 DEF Log
  <2>2. \A i \in 1..n : Log'[i] = Log[i]
    BY <1>1, <1>2, <2>1 DEF Log
  <2>3. Log'[n + 1] = e
    BY <1>2, <1>4, <2>1
  <2>4. \A i \in 1..(n + 1) : Log'[i] \in S
    BY <1>2, <1>5, <2>2, <2>3
  <2>. QED
    BY <2>1, <2>2, <2>3, <2>4
<1>. HIDE DEF S
<1>7. Log \in Seq(S) /\ Log' \in Seq(S) /\ Len(Log') = n + 1
  <2>1. Log \in [1..n -> S]
    BY <1>2, <1>5 DEF Log
  <2>2. n + 1 \in Nat
    BY <1>2
  <2>. QED
    BY <1>2, <1>6, <2>1, <2>2, SeqDef
<1>8. Log' = Append(Log, e)
  <2>1. /\ Append(Log, e) \in Seq(S) /\ Len(Append(Log, e)) = n + 1
        /\ \A i \in 1..n : Append(Log, e)[i] = Log[i]
        /\ Append(Log, e)[n + 1] = e
    BY <1>3, <1>5, <1>7, AppendProperties
  <2>2. \A i \in 1..(n + 1) : Log'[i] = Append(Log, e)[i]
    BY <1>2, <1>6, <2>1
  <2>. QED
    BY <1>7, <2>1, <2>2, SeqEqual
<1>. QED
  BY <1>8 DEF e

(* A commit is a step of the linear history: an accepted command applied   *)
(* to the latest snapshot, or the snapshot of an earlier revision.         *)
LEMMA CommitRefines ==
    ASSUME IInv, LInv, Accepted, NEW c \in Callers, CommitRevision(c)
    PROVE  Linear!Next
<1>. DEFINE k == req[c].command
<1>1. TypeOK /\ RowAgrees /\ HistoryLinear /\ RequestsGood /\ pc[c] = "writing"
  BY DEF IInv, LInv, CommitRevision
<1>2. Log' = Append(Log, [command |-> k, text |-> req[c].text])
  BY <1>1, LogCommit
<1>3. /\ Len(Log) = Len(history) /\ RevisionIds = 1..Len(history)
      /\ \A i \in RevisionIds : Log[i].command = history[i].command /\ Log[i].text = history[i].text
  BY <1>1, LogLength, RevisionTypes DEF TypeOK
<1>4. Carries(req[c])
  BY <1>1 DEF RequestsGood, Carrying
<1>5. CASE k = NoCommand
  <2>1. PICK i \in RevisionIds : req[c].text = history[i].text
    BY <1>4, <1>5 DEF Carries
  <2>2. Log' = Append(Log, [command |-> NoCommand, text |-> Log[i].text]) /\ i \in 1..Len(Log)
    BY <1>2, <1>3, <1>5, <2>1
  <2>. QED
    BY <2>2 DEF Log, Linear!Next, Linear!Revert, Linear!Entry
<1>6. CASE k # NoCommand
  <2>1. /\ req[c].version \in RevisionIds
        /\ req[c].text = Applied(k, history[IF req[c].base = 0 THEN req[c].version ELSE req[c].base].text)
    BY <1>4, <1>6 DEF Carries
  <2>2. ~IsStaleBase(req[c].base, req[c].version) /\ k \notin CommittedCommands
    BY <1>1 DEF Accepted
  <2>3. req[c].version = head /\ head = Len(history) /\ (req[c].base = 0 \/ req[c].base = head)
    BY <1>1, <1>3, <2>1, <2>2 DEF IsStaleBase, RowAgrees, HistoryLinear
  <2>4. req[c].text = Log[Len(Log)].text \cup {k}
    BY <1>3, <2>1, <2>3 DEF Applied
  <2>5. \A i \in 1..Len(Log) : Log[i].command # k
    BY <1>3, <1>6, <2>2 DEF CommittedCommands
  <2>6. k \in Commands
    BY <1>1, <1>6 DEF TypeOK, RequestTypeOK, CallRequest
  <2>7. Log' = Append(Log, [command |-> k, text |-> Log[Len(Log)].text \cup {k}])
    BY <1>2, <2>4
  <2>. QED
    BY <2>5, <2>6, <2>7 DEF Log, Linear!Next, Linear!Commit, Linear!Entry, Linear!Latest
<1>. QED
  BY <1>5, <1>6

(* Every other step leaves the log as it is. *)
LEMMA StepRefines == IInv /\ LInv /\ Accepted /\ [Next]_vars => Linear!Next \/ Log' = Log
<1>. SUFFICES ASSUME IInv, LInv, Accepted, [Next]_vars PROVE Linear!Next \/ Log' = Log
  OBVIOUS
<1>1. DrawingStep
  BY DrawingSteps
<1>2. CASE history' = history
  BY <1>2 DEF Log, RevisionIds
<1>3. ASSUME NEW c \in Callers, CommitRevision(c) PROVE Linear!Next
  BY <1>3, CommitRefines
<1>. QED
  BY <1>1, <1>2, <1>3 DEF DrawingStep, Commit, CommitUnheard, Repair, drawing

(* The service implements LinearHistory: as long as heads are not rebuilt  *)
(* from times, every user's command is applied once, to the snapshot of    *)
(* the revision before it, and no concurrent commit is lost.               *)
THEOREM DrawingRefinesLinear == ASSUME HeadsKept PROVE Spec => RefinesLinear
<1>1. IInv /\ LInv /\ Accepted /\ [Next]_vars => [Linear!Next]_Log
  BY StepRefines
<1>2. Spec => Linear!Init /\ [][Linear!Next]_Log
  BY <1>1, LinearInit, Invariant, LinearInvariant, AcceptedInvariant, PTL DEF Spec
<1>. QED
  BY <1>2, PTL DEF RefinesLinear, Linear!Spec, Log
=============================================================================
