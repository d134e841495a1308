---------------------------- MODULE LinearHistory ----------------------------
(***************************************************************************)
(* What the revisions of a drawing promise their users: one linear history *)
(* of snapshots.  A command is applied once, to the snapshot its           *)
(* predecessor left, and keeps every entity it does not touch; a revert    *)
(* appends the snapshot of an earlier revision.  Nothing is taken back.    *)
(***************************************************************************)
EXTENDS Naturals, Sequences

CONSTANTS Commands, NoCommand

VARIABLE log   \* the revisions: the command and the entities of the snapshot

Entry(k, text) == [command |-> k, text |-> text]

Latest == log[Len(log)]

Init == log = <<Entry(NoCommand, {})>>

Commit(k) ==
    /\ \A i \in 1..Len(log) : log[i].command # k
    /\ log' = Append(log, Entry(k, Latest.text \cup {k}))

Revert(i) == log' = Append(log, Entry(NoCommand, log[i].text))

Next == \/ \E k \in Commands : Commit(k)
        \/ \E i \in 1..Len(log) : Revert(i)

Spec == Init /\ [][Next]_log
=============================================================================
