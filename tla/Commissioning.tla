---------------------------- MODULE Commissioning ----------------------------
(***************************************************************************)
(* A checklist of commissioning-service: its items, the status recomputed  *)
(* from them, the sign-off and the hand-over.  Every call is a sequence of *)
(* statements without a transaction, and the status is written back from   *)
(* what an earlier statement read, whatever it has become since.           *)
(*                                                                         *)
(* The items are inserted without notes, and reading an item whose notes   *)
(* are NULL fails.  A call reads an item before it writes its notes, so    *)
(* the service can do nothing with an item until somebody has filled its   *)
(* notes in the database.                                                  *)
(***************************************************************************)
EXTENDS Naturals

CONSTANTS Engineers,   \* goroutines serving calls for the checklist
          Items,       \* items a checklist may have
          Standard,    \* those CreateChecklist seeds
          Required     \* those that must be resolved

ASSUME ChecklistAssumption == Standard \subseteq Items /\ Required \subseteq Items

(* CommissioningStatus, in its numeric order. *)
PENDING == 1
IN_PROGRESS == 2
COMPLETED == 3
SIGNED_OFF == 4
HANDED_OVER == 5

VARIABLES
    item,              \* per item: absent, pending, or resolved (PASS, FAIL, N/A)
    noted,             \* the items whose notes are not NULL
    status,            \* the status column
    signed, handed,    \* there is a sign-off, a hand-over record
    step, resolved,    \* per call: the next statement, allResolved as it read it
    everResolved       \* history: the items were all resolved at some time

checklistVars == <<item, noted, status, signed, handed, step, resolved, everResolved>>

(* What recomputeStatus asks of the items it has listed. *)
AllResolved(state) ==
    /\ \E i \in Items : state[i] # "absent"
    /\ \A i \in Required : state[i] # "pending"

(* scanItem puts the notes into a string: reading a NULL is an error. *)
Readable(i) == item[i] = "absent" \/ i \in noted

(* listItems reads all items or none. *)
AllReadable == \A i \in Items : Readable(i)

(* The checklist's row is there, and one call is about to seed its items. *)
ChecklistInit ==
    /\ item = [i \in Items |-> "absent"]
    /\ noted = {}
    /\ status = PENDING
    /\ signed = FALSE /\ handed = FALSE
    /\ \E creator \in Engineers :
          step = [c \in Engineers |-> IF c = creator THEN "seed" ELSE "idle"]
    /\ resolved = [c \in Engineers |-> FALSE]
    /\ everResolved = FALSE

SetItem(i, state) ==
    /\ item' = [item EXCEPT ![i] = state]
    /\ everResolved' = (everResolved \/ AllResolved(item'))
    /\ UNCHANGED <<noted, status, signed, handed, resolved>>

Step(c, from, to) == step[c] = from /\ step' = [step EXCEPT ![c] = to]

(* CreateChecklist inserts the standard items one by one. *)
SeedItem(c) ==
    \E i \in Standard :
        /\ item[i] = "absent"
        /\ SetItem(i, "pending")
        /\ Step(c, "seed", IF \A j \in Standard \ {i} : item[j] # "absent"
                           THEN "idle" ELSE "seed")

(* AddChecklistItem touches the checklist and does not recompute. *)
AddChecklistItem(c) ==
    /\ Step(c, "idle", "idle")
    /\ \E i \in Items \ Standard : item[i] = "absent" /\ SetItem(i, "pending")

(* Outside the service: UPDATE ... SET notes = '' WHERE notes IS NULL. *)
FillNotes ==
    /\ ~AllReadable
    /\ noted' = {i \in Items : item[i] # "absent"}
    /\ UNCHANGED <<item, status, signed, handed, step, resolved, everResolved>>

(* UpdateChecklistItem reads the item and writes it with its notes; any     *)
(* status may be given, PENDING again too.  For an item that cannot be     *)
(* read the answer is that it was not found, and nothing changes.          *)
UpdateItem(c) ==
    /\ Step(c, "idle", "list")
    /\ \E i \in Items, state \in {"pending", "resolved"} :
          item[i] # "absent" /\ Readable(i) /\ SetItem(i, state)

(* When one item cannot be read, recomputeStatus ends here: CallEnds. *)
ListItems(c) ==
    /\ AllReadable
    /\ Step(c, "list", "setStatus")
    /\ resolved' = [resolved EXCEPT ![c] = AllResolved(item)]
    /\ UNCHANGED <<item, noted, status, signed, handed, everResolved>>

(* Mutant: an open item takes the status back by one. *)
RecomputeStepsBack(c) ==
    /\ Step(c, "setStatus", "idle")
    /\ status' = IF resolved[c] THEN COMPLETED ELSE status - 1
    /\ UNCHANGED <<item, noted, signed, handed, resolved, everResolved>>

(* The end of recomputeStatus, over a status that may be anything by now. *)
Recompute(c) ==
    /\ Step(c, "setStatus", "idle")
    /\ status' = IF resolved[c] THEN COMPLETED ELSE IN_PROGRESS
    /\ UNCHANGED <<item, noted, signed, handed, resolved, everResolved>>

(* GetChecklistByID: the row, its items and its sign-offs. *)
SignOffLoad(c) ==
    /\ AllReadable
    /\ status >= COMPLETED
    /\ Step(c, "idle", "sign")
    /\ UNCHANGED <<item, noted, status, signed, handed, resolved, everResolved>>

(* Mutant: the status is written, and then the sign-off. *)
AddSignoffLate(c) ==
    /\ Step(c, "sign", "setSignedOff")
    /\ status' = SIGNED_OFF
    /\ UNCHANGED <<item, noted, signed, handed, resolved, everResolved>>

AddSignoff(c) ==
    /\ Step(c, "sign", "setSignedOff")
    /\ signed' = TRUE
    /\ UNCHANGED <<item, noted, status, handed, resolved, everResolved>>

SetSignedOff(c) ==
    /\ Step(c, "setSignedOff", "idle")
    /\ status' = SIGNED_OFF
    /\ UNCHANGED <<item, noted, signed, handed, resolved, everResolved>>

HandoverLoad(c) ==
    /\ AllReadable
    /\ status >= SIGNED_OFF
    /\ Step(c, "idle", "handOver")
    /\ UNCHANGED <<item, noted, status, signed, handed, resolved, everResolved>>

CreateHandover(c) ==
    /\ Step(c, "handOver", "setHandedOver")
    /\ handed' = TRUE
    /\ UNCHANGED <<item, noted, status, signed, resolved, everResolved>>

SetHandedOver(c) ==
    /\ Step(c, "setHandedOver", "idle")
    /\ status' = HANDED_OVER
    /\ UNCHANGED <<item, noted, signed, handed, resolved, everResolved>>

(* A statement fails, also a read of NULL, or the process ends: what was    *)
(* written stays.                                                          *)
CallEnds(c) ==
    /\ step[c] # "idle"
    /\ step' = [step EXCEPT ![c] = "idle"]
    /\ UNCHANGED <<item, noted, status, signed, handed, resolved, everResolved>>

ChecklistCall(c) ==
    \/ SeedItem(c) \/ AddChecklistItem(c)
    \/ UpdateItem(c) \/ ListItems(c) \/ Recompute(c)
    \/ SignOffLoad(c) \/ AddSignoff(c) \/ SetSignedOff(c)
    \/ HandoverLoad(c) \/ CreateHandover(c) \/ SetHandedOver(c)
    \/ CallEnds(c)

ChecklistNext == FillNotes \/ \E c \in Engineers : ChecklistCall(c)

ChecklistSpec == ChecklistInit /\ [][ChecklistNext]_checklistVars

-----------------------------------------------------------------------------
(* Properties *)

(* Type correctness of the checklist and its calls. *)
ChecklistTypeOK ==
    /\ item \in [Items -> {"absent", "pending", "resolved"}]
    /\ noted \subseteq {i \in Items : item[i] # "absent"}
    /\ status \in PENDING..HANDED_OVER
    /\ signed \in BOOLEAN /\ handed \in BOOLEAN
    /\ step \in [Engineers -> {"idle", "seed", "list", "setStatus", "sign",
                               "setSignedOff", "handOver", "setHandedOver"}]
    /\ resolved \in [Engineers -> BOOLEAN]
    /\ everResolved \in BOOLEAN

(* However sign-offs, hand-overs and recomputations overwrite each other's  *)
(* status, and wherever a call breaks off: who is signed off or handed over *)
(* has the record of a sign-off, and who is handed over that of a hand-over *)
(* ("The checklist must be SIGNED_OFF").                                    *)
StatusHasRecords ==
    /\ status >= SIGNED_OFF \/ handed => signed
    /\ status = HANDED_OVER => handed

(* A checklist is completed and signed off only if the items it had were    *)
(* all resolved at some time, not necessarily the last.                     *)
CompletedWasResolved == status >= COMPLETED \/ signed => everResolved

(* However calls overlap and wherever they break off, a status was earned  *)
(* by records and by items resolved at some time.                          *)
StatusIsEarned == StatusHasRecords /\ CompletedWasResolved
=============================================================================
