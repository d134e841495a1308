---------------------------- MODULE ScenarioStore ----------------------------
(***************************************************************************)
(* The financial scenario sets of compute-service: a map in memory with a  *)
(* history per layout, written as one file on every save and read at the   *)
(* start.  The file is truncated and written in place, and whatever goes   *)
(* wrong when it is read is taken for an empty store.                      *)
(*                                                                         *)
(* A set is the number of its save; the versions of a layout are its       *)
(* history, oldest first, and then the current set.                        *)
(***************************************************************************)
EXTENDS Naturals, Sequences, FiniteSets

CONSTANTS Layouts,
          NoLayout,
          HistoryLimit,   \* versions kept besides the current one
          MaxSaves        \* bound on the saves of a layout

ASSUME ScenarioAssumption ==
    HistoryLimit \in Nat \ {0} /\ MaxSaves \in Nat /\ NoLayout \notin Layouts

VARIABLES
    memory,   \* the versions of each layout in the running process
    disk,     \* the file: "absent", "torn" or "whole", and what it holds
    saver,    \* the layout whose save holds the lock, or NoLayout
    saves,    \* per layout: how many saves there have been
    answered, \* history: per layout the last save that was answered without error
    emptied   \* history: a start took an unreadable file for an empty store

scenarioVars == <<memory, disk, saver, saves, answered, emptied>>

Disk(state, sets) == [state |-> state, sets |-> sets]

NoVersions == [k \in Layouts |-> << >>]

ScenarioInit ==
    /\ memory = NoVersions
    /\ disk = Disk("absent", NoVersions)
    /\ saver = NoLayout
    /\ saves = [k \in Layouts |-> 0]
    /\ answered = [k \in Layouts |-> 0]
    /\ emptied = FALSE

(* Mutant: the history is newest first in the store too. *)
AddInFront(versions, v) ==
    SubSeq(<<v>> \o versions, 1, IF Len(versions) > HistoryLimit THEN HistoryLimit + 1
                                 ELSE Len(versions) + 1)

(* The current set becomes the newest of the history. *)
Add(versions, v) ==
    LET all == Append(versions, v)
    IN  SubSeq(all, IF Len(all) > HistoryLimit + 1 THEN 2 ELSE 1, Len(all))

(* Memory is changed before the file is written, and stays if that fails. *)
SaveSet(k) ==
    /\ saver = NoLayout
    /\ saves[k] < MaxSaves
    /\ saves' = [saves EXCEPT ![k] = @ + 1]
    /\ memory' = [memory EXCEPT ![k] = Add(@, saves'[k])]
    /\ saver' = k
    /\ UNCHANGED <<disk, answered, emptied>>

Truncate ==
    /\ saver # NoLayout /\ disk.state # "torn"
    /\ disk' = Disk("torn", NoVersions)
    /\ UNCHANGED <<memory, saver, saves, answered, emptied>>

WriteFile ==
    /\ saver # NoLayout /\ disk.state = "torn"
    /\ disk' = Disk("whole", memory)
    /\ answered' = [answered EXCEPT ![saver] = saves[saver]]
    /\ saver' = NoLayout
    /\ UNCHANGED <<memory, saves, emptied>>

(* The directory, the opening or the writing fails: the file is old or torn. *)
PersistFails ==
    /\ saver # NoLayout
    /\ saver' = NoLayout
    /\ UNCHANGED <<memory, disk, saves, answered, emptied>>

Restart ==
    /\ \E readable \in BOOLEAN :
          LET known == readable /\ disk.state = "whole"
          IN  /\ memory' = IF known THEN disk.sets ELSE NoVersions
              /\ emptied' = (emptied \/ ~known)
    /\ saver' = NoLayout
    /\ UNCHANGED <<disk, saves, answered>>

ScenarioNext ==
    (\E k \in Layouts : SaveSet(k)) \/ Truncate \/ WriteFile \/ PersistFails \/ Restart

ScenarioSpec == ScenarioInit /\ [][ScenarioNext]_scenarioVars

-----------------------------------------------------------------------------
(* Properties *)

Versions == UNION {[1..n -> 1..MaxSaves] : n \in 0..(HistoryLimit + 1)}

(* Type correctness of the map and the file, and at most HistoryLimit old  *)
(* versions of a layout.                                                   *)
ScenarioTypeOK ==
    /\ memory \in [Layouts -> Versions]
    /\ disk \in [state : {"absent", "torn", "whole"}, sets : [Layouts -> Versions]]
    /\ saver \in Layouts \cup {NoLayout}
    /\ saves \in [Layouts -> 0..MaxSaves] /\ answered \in [Layouts -> 0..MaxSaves]
    /\ emptied \in BOOLEAN

Ascending(versions) == \A i \in DOMAIN versions : i > 1 => versions[i - 1] < versions[i]

(* The versions of a layout are in the order of their saves, in memory and *)
(* in the file, across failed saves and restarts.                          *)
VersionsInOrder ==
    \A k \in Layouts : Ascending(memory[k]) /\ Ascending(disk.sets[k])

(* v is there, or HistoryLimit newer saves have pushed it out. *)
Keeps(versions, v) ==
    \/ \E i \in DOMAIN versions : versions[i] = v
    \/ Len(versions) = HistoryLimit + 1 /\ versions[1] > v

(* Until a start reads nothing, a save that was answered is kept: in memory *)
(* and, as long as no write was cut short, in the file.                    *)
AnsweredIsKept ==
    ~emptied => \A k \in Layouts :
        answered[k] > 0 => /\ Keeps(memory[k], answered[k])
                           /\ disk.state # "torn" => Keeps(disk.sets[k], answered[k])

(* Saves keep their order and are not lost, across failed and torn writes  *)
(* and restarts.                                                           *)
SavesAreKept == VersionsInOrder /\ AnsweredIsKept
=============================================================================
