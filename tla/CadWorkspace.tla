----------------------------- MODULE CadWorkspace -----------------------------
(***************************************************************************)
(* The CAD workspace of the web client: browser tabs that show a revision  *)
(* of one drawing and write to it through executeCadWrite, which retries a *)
(* write refused for a stale base.                                         *)
(*                                                                         *)
(* The revisions are the history LinearHistory describes, reached in two   *)
(* ways: a layer or block command names the revision it is based on and is *)
(* refused unless that is the head; a materialization stores a snapshot    *)
(* made from the revision the tab shows, with no base.  Every attempt has  *)
(* a command id of its own, so the server cannot tell a retry.             *)
(*                                                                         *)
(* The buttons of a busy tab are disabled.  A refresh makes it free again, *)
(* so another write can be started while the first waits for its retry.    *)
(***************************************************************************)
EXTENDS Naturals, Sequences

CONSTANTS Tabs,
          Writes, NoWrite,   \* the writes; each adds one entity
          MaxStaleRetries    \* MAX_STALE_RETRIES

ASSUME CadAssumption ==
    /\ NoWrite \notin Writes
    /\ MaxStaleRetries \in Nat

Kinds == {"command", "materialize"}

VARIABLES
    log,              \* the committed revisions
    shown,            \* per tab: the revision it shows
    busy, conflict,   \* isBusy, conflictState
    at, tab, kind,    \* per write: the step it is at, its tab, its kind
    base,             \* the revision it is sent with, was given, or refreshes
    attempt           \* retryAttempt

cadVars == <<log, shown, busy, conflict, at, tab, kind, base, attempt>>

Server == INSTANCE LinearHistory WITH Commands <- Writes, NoCommand <- NoWrite

UnderWay == {"sent", "committed", "refused", "refreshing", "waiting"}

CadInit ==
    /\ Server!Init
    /\ shown = [t \in Tabs |-> 1]
    /\ busy = [t \in Tabs |-> FALSE]
    /\ conflict = [t \in Tabs |-> "idle"]
    /\ at = [w \in Writes |-> "new"]
    /\ tab \in [Writes -> Tabs]
    /\ kind \in [Writes -> Kinds]
    /\ base = [w \in Writes |-> 1]
    /\ attempt = [w \in Writes |-> 0]

(* executeCadWrite is entered, and perform takes the revision shown now. *)
Send(w) ==
    /\ at' = [at EXCEPT ![w] = "sent"]
    /\ base' = [base EXCEPT ![w] = shown[tab[w]]]
    /\ busy' = [busy EXCEPT ![tab[w]] = TRUE]
    /\ conflict' = [conflict EXCEPT ![tab[w]] = "idle"]
    /\ UNCHANGED <<log, shown, tab, kind>>

(* A button: createCadLayer, createCadBlockDefinition, a materialization... *)
BeginWrite(w) ==
    /\ at[w] = "new" /\ ~busy[tab[w]]
    /\ Send(w)
    /\ UNCHANGED attempt

(* Mutant: a command with an old base is applied to it and stored. *)
StaleUnchecked(w) == FALSE

Stale(w) == kind[w] = "command" /\ base[w] # Len(log)

(* The server applies the write to the entities of its base. *)
ServerCommits(w) ==
    /\ at[w] = "sent" /\ ~Stale(w)
    /\ log' = Append(log, Server!Entry(w, log[base[w]].text \cup {w}))
    /\ at' = [at EXCEPT ![w] = "committed"]
    /\ base' = [base EXCEPT ![w] = Len(log')]
    /\ UNCHANGED <<shown, busy, conflict, tab, kind, attempt>>

ServerRefuses(w) ==
    /\ at[w] = "sent" /\ Stale(w)
    /\ at' = [at EXCEPT ![w] = "refused"]
    /\ UNCHANGED <<log, shown, busy, conflict, tab, kind, base, attempt>>

(* The write is over: setContext or setError has freed the tab. *)
End(w, outcome, state) ==
    /\ at' = [at EXCEPT ![w] = outcome]
    /\ busy' = [busy EXCEPT ![tab[w]] = FALSE]
    /\ conflict' = [conflict EXCEPT ![tab[w]] = state]
    /\ UNCHANGED <<log, tab, kind, base, attempt>>

(* applyResult lists the revisions and shows the one committed. *)
Apply(w) ==
    /\ at[w] = "committed"
    /\ shown' = [shown EXCEPT ![tab[w]] = base[w]]
    /\ End(w, "done", IF attempt[w] > 0 THEN "resolved" ELSE "idle")

(* A stale revision: the workspace is refreshed, at the revision it shows. *)
TryAgain(w) ==
    /\ at' = [at EXCEPT ![w] = "refreshing"]
    /\ base' = [base EXCEPT ![w] = shown[tab[w]]]
    /\ conflict' = [conflict EXCEPT ![tab[w]] = "retrying"]
    /\ UNCHANGED <<log, shown, busy, tab, kind, attempt>>

(* Mutant: whatever error perform ends with, it is performed again. *)
WriteErrorsRetried(w) ==
    /\ at[w] \in {"sent", "committed", "refused"}
    /\ \/ attempt[w] < MaxStaleRetries /\ TryAgain(w)
       \/ attempt[w] = MaxStaleRetries /\ End(w, "failed", "failed") /\ UNCHANGED shown

(* The request or its answer is lost, the server fails, or the listing in   *)
(* applyResult does: any error that is not a stale revision ends the write. *)
WriteErrors(w) ==
    /\ at[w] \in {"sent", "committed", "refused"}
    /\ End(w, "failed", "failed")
    /\ UNCHANGED shown

StaleError(w) ==
    /\ at[w] = "refused"
    /\ \/ attempt[w] < MaxStaleRetries /\ TryAgain(w)
       \/ attempt[w] = MaxStaleRetries /\ End(w, "failed", "failed") /\ UNCHANGED shown

(* The server answers with the revision it was asked for, not the head.    *)
Refresh(w) ==
    /\ at[w] = "refreshing"
    /\ shown' = [shown EXCEPT ![tab[w]] = base[w]]
    /\ at' = [at EXCEPT ![w] = "waiting"]
    /\ busy' = [busy EXCEPT ![tab[w]] = FALSE]
    /\ conflict' = [conflict EXCEPT ![tab[w]] = "retrying"]
    /\ UNCHANGED <<log, tab, kind, base, attempt>>

(* Mutant: the error of the refresh is swallowed. *)
RefreshFailsSilently(w) ==
    /\ at[w] = "refreshing"
    /\ at' = [at EXCEPT ![w] = "failed"]
    /\ UNCHANGED <<log, shown, busy, conflict, tab, kind, base, attempt>>

RefreshFails(w) ==
    /\ at[w] = "refreshing"
    /\ End(w, "failed", "failed")
    /\ UNCHANGED shown

(* Mutant: the recursive call is given the attempt it was called with. *)
RetryUncounted(w) ==
    /\ at[w] = "waiting"
    /\ Send(w)
    /\ UNCHANGED attempt

(* The delay is over: executeCadWrite calls itself. *)
Retry(w) ==
    /\ at[w] = "waiting"
    /\ attempt' = [attempt EXCEPT ![w] = @ + 1]
    /\ Send(w)

(* initializeCadWorkspace: the page is loaded again and shows the head; the *)
(* writes it was busy with are gone, though they may have been committed.   *)
Reopen(t) ==
    /\ shown' = [shown EXCEPT ![t] = Len(log)]
    /\ busy' = [busy EXCEPT ![t] = FALSE]
    /\ conflict' = [conflict EXCEPT ![t] = "idle"]
    /\ at' = [w \in Writes |-> IF tab[w] = t /\ at[w] \in UnderWay THEN "gone" ELSE at[w]]
    /\ UNCHANGED <<log, tab, kind, base, attempt>>

WriteStep(w) ==
    \/ ServerCommits(w) \/ ServerRefuses(w)
    \/ Apply(w) \/ WriteErrors(w) \/ StaleError(w)
    \/ Refresh(w) \/ RefreshFails(w) \/ Retry(w)

CadNext ==
    \/ \E w \in Writes : BeginWrite(w) \/ WriteStep(w)
    \/ \E t \in Tabs : Reopen(t)

CadSpec == CadInit /\ [][CadNext]_cadVars

(* Requests are answered or fail, and timers fire. *)
CadFairness == \A w \in Writes : WF_cadVars(WriteStep(w))

CadFairSpec == CadSpec /\ CadFairness

-----------------------------------------------------------------------------
(* Properties *)

Commits(w) == {i \in 1..Len(log) : log[i].command = w}

(* Type correctness of the history, the tabs and the writes. *)
CadTypeOK ==
    /\ log \in Seq([command : Writes \cup {NoWrite}, text : SUBSET Writes]) /\ Len(log) > 0
    /\ shown \in [Tabs -> 1..Len(log)]
    /\ busy \in [Tabs -> BOOLEAN]
    /\ conflict \in [Tabs -> {"idle", "retrying", "resolved", "failed"}]
    /\ at \in [Writes -> UnderWay \cup {"new", "done", "failed", "gone"}]
    /\ tab \in [Writes -> Tabs]
    /\ kind \in [Writes -> Kinds]
    /\ base \in [Writes -> 1..Len(log)]
    /\ attempt \in [Writes -> 0..MaxStaleRetries]

(* However often a write is retried, and whatever is lost on the way, it is *)
(* in the history once at most: only a refusal for a stale base is tried    *)
(* again ("Frontend retries only stale conflicts, never generic write       *)
(* failures").                                                              *)
CommittedOnce == \A w \in Writes : \A i, j \in Commits(w) : i = j

(* A write that ended without an error is in the history.                   *)
DoneIsStored == \A w \in Writes : at[w] = "done" => Commits(w) # {}

(* However the writes of a tab overlap, once the last has ended the tab can *)
(* be used and does not claim to be retrying.                               *)
TabsComeToRest ==
    \A t \in Tabs :
        (\A w \in Writes : tab[w] = t => at[w] \notin UnderWay)
            => ~busy[t] /\ conflict[t] # "retrying"

(* Entities disappear from the drawing only by a materialization in a tab   *)
(* that did not show them; commands keep what others have written.          *)
LosesOnlyUnseen ==
    \A e \in Writes :
        e \in Server!Latest.text /\ e \notin Server!Latest'.text =>
            \E w \in Writes : /\ at[w] = "sent" /\ at'[w] = "committed"
                              /\ kind[w] = "materialize" /\ e \notin log[base[w]].text

LostOnlyUnseen == [][LosesOnlyUnseen]_cadVars

(* Every write ends, whoever keeps the drawing busy.                        *)
WritesEnd == \A w \in Writes : at[w] \in UnderWay ~> at[w] \notin UnderWay

(* A write is tried again on a newer revision than the workspace showed     *)
(* when it was refused ("Retrying CAD operation on latest revision...").    *)
RetriesCatchUp ==
    [][\A w \in Writes : at[w] = "waiting" /\ at'[w] = "sent" => base'[w] > base[w]]_cadVars

(* Retries and lost answers neither double a write nor lose one reported   *)
(* as done.                                                                *)
StoredOnce == CommittedOnce /\ DoneIsStored
=============================================================================
