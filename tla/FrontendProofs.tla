---------------------------- MODULE FrontendProofs ----------------------------
(***************************************************************************)
(* What the CAD workspace keeps through stale bases, lost answers, retries *)
(* and reloads, for every number of tabs, writes and retries; and what the *)
(* workflow store keeps through late answers, for every number of projects *)
(* and requests.  That writes end and that the view catches up is left to  *)
(* the model checker.                                                      *)
(***************************************************************************)
EXTENDS CadWorkspace, WorkflowSync, TLAPS

(* A write that was not committed is not in the history, and one that was   *)
(* is; so it is not sent again.                                             *)
Uncommitted ==
    \A w \in Writes : at[w] \in {"new", "sent", "refused", "refreshing", "waiting"} =>
        \A i \in 1..Len(log) : log[i].command # w

Stored ==
    \A w \in Writes : at[w] \in {"committed", "done"} =>
        \E i \in 1..Len(log) : log[i].command = w

AtMostOnce == \A i, j \in 1..Len(log) :
    log[i].command \in Writes /\ log[i].command = log[j].command => i = j

(* A write that will be tried again has an attempt left. *)
RetriesLeft ==
    \A w \in Writes : at[w] \in {"refreshing", "waiting"} => attempt[w] < MaxStaleRetries

CadInv == CadTypeOK /\ RetriesLeft /\ Uncommitted /\ Stored /\ AtMostOnce /\ TabsComeToRest

(* The elements of a sequence. *)
LEMMA ElementOf ==
    ASSUME NEW S, NEW s \in Seq(S), NEW i \in 1..Len(s)
    PROVE  s[i] \in S
OBVIOUS

(* The history says nothing of a write before the first. *)
LEMMA CadStart == CadAssumption /\ CadInit => CadInv
<1>. SUFFICES ASSUME CadAssumption, CadInit PROVE CadInv
  OBVIOUS
<1>1. log = <<[command |-> NoWrite, text |-> {}]>>
  BY DEF CadInit, Server!Init, Server!Entry
<1>2. /\ log \in Seq([command : Writes \cup {NoWrite}, text : SUBSET Writes]) /\ Len(log) = 1
      /\ log[1].command = NoWrite
  BY <1>1
<1>3. CadTypeOK
  BY <1>2 DEF CadInit, CadTypeOK, CadAssumption, UnderWay
<1>4. Uncommitted /\ AtMostOnce
  BY <1>2 DEF Uncommitted, AtMostOnce, CadAssumption
<1>5. RetriesLeft /\ Stored /\ TabsComeToRest
  BY DEF CadInit, RetriesLeft, Stored, TabsComeToRest, UnderWay
<1>. QED
  BY <1>3, <1>4, <1>5 DEF CadInv

(* A commit appends one revision, of a write that is not in the history. *)
LEMMA CommitAppends ==
    ASSUME CadInv, NEW w \in Writes, ServerCommits(w)
    PROVE  /\ log' \in Seq([command : Writes \cup {NoWrite}, text : SUBSET Writes])
           /\ Len(log) \in Nat \ {0} /\ Len(log') = Len(log) + 1
           /\ \A i \in 1..Len(log) : log'[i] = log[i]
           /\ log'[Len(log) + 1].command = w
           /\ log'[Len(log) + 1].text = log[base[w]].text \cup {w}
<1>. DEFINE Revision == [command : Writes \cup {NoWrite}, text : SUBSET Writes]
            r == [command |-> w, text |-> log[base[w]].text \cup {w}]
<1>1. log \in Seq(Revision) /\ Len(log) > 0 /\ base[w] \in 1..Len(log)
  BY DEF CadInv, CadTypeOK
<1>2. log[base[w]] \in Revision
  <2>. HIDE DEF Revision
  <2>. QED
    BY <1>1, ElementOf
<1>3. r \in Revision
  BY <1>2
<1>4. log' = Append(log, r)
  BY DEF ServerCommits, Server!Entry
<1>5. r.command = w /\ r.text = log[base[w]].text \cup {w}
  OBVIOUS
<1>. HIDE DEF r, Revision
<1>6. log' \in Seq(Revision) /\ Len(log') = Len(log) + 1 /\ log'[Len(log) + 1] = r
      /\ Len(log) \in Nat \ {0} /\ \A i \in 1..Len(log) : log'[i] = log[i]
  BY <1>1, <1>3, <1>4
<1>. QED
  BY <1>5, <1>6 DEF Revision

(* Every step of a write or a reload keeps the history, the tabs and the    *)
(* writes in order.                                                         *)
LEMMA CadStep ==
    ASSUME CadAssumption, CadInv, [CadNext]_cadVars
    PROVE  CadInv'
<1>. DEFINE History == RetriesLeft' /\ Uncommitted' /\ Stored' /\ AtMostOnce'
            Rest == CadTypeOK' /\ TabsComeToRest'
<1>. SUFFICES History /\ Rest
  BY DEF CadInv
<1>. USE DEF CadInv, CadAssumption
<1>0. /\ at \in [Writes -> UnderWay \cup {"new", "done", "failed", "gone"}]
      /\ tab \in [Writes -> Tabs] /\ Len(log) \in Nat \ {0}
  BY DEF CadTypeOK
<1>1. ASSUME NEW w \in Writes, BeginWrite(w) PROVE History /\ Rest
  <2>1. History
    BY <1>0, <1>1 DEF BeginWrite, Send, RetriesLeft, Uncommitted, Stored, AtMostOnce
  <2>2. Rest
    BY <1>1 DEF BeginWrite, Send, CadTypeOK, TabsComeToRest, UnderWay
  <2>. QED
    BY <2>1, <2>2
<1>2. ASSUME NEW w \in Writes, ServerCommits(w) PROVE History /\ Rest
  <2>1. /\ \A v \in Writes : v # w => at'[v] = at[v]
        /\ at[w] = "sent" /\ at' = [at EXCEPT ![w] = "committed"] /\ at'[w] = "committed"
        /\ base' = [base EXCEPT ![w] = Len(log')]
        /\ UNCHANGED <<shown, busy, conflict, tab, kind, attempt>>
    BY <1>0, <1>2 DEF ServerCommits
  <2>2. /\ log' \in Seq([command : Writes \cup {NoWrite}, text : SUBSET Writes])
        /\ Len(log') = Len(log) + 1
        /\ \A i \in 1..Len(log) : log'[i] = log[i]
        /\ log'[Len(log) + 1].command = w
    BY <1>2, CommitAppends
  <2>3. \A i \in 1..Len(log) : log[i].command # w
    BY <2>1 DEF Uncommitted
  <2>4. \A i \in 1..Len(log') : i \in 1..Len(log) \/ i = Len(log) + 1
    BY <2>2, <1>0
  <2>5. Len(log) + 1 \in 1..Len(log') /\ \A i \in 1..Len(log) : i \in 1..Len(log')
    BY <2>2, <1>0
  <2>6. Uncommitted'
    <3>. SUFFICES ASSUME NEW v \in Writes,
                         at'[v] \in {"new", "sent", "refused", "refreshing", "waiting"},
                         NEW i \in 1..Len(log')
                  PROVE  log'[i].command # v
      BY DEF Uncommitted
    <3>. QED
      BY <2>1, <2>2, <2>4 DEF Uncommitted
  <2>7. Stored'
    BY <2>1, <2>2, <2>5 DEF Stored
  <2>8. AtMostOnce'
    BY <2>2, <2>3, <2>4 DEF AtMostOnce
  <2>11. RetriesLeft'
    BY <2>1 DEF RetriesLeft
  <2>9. CadTypeOK'
    BY <1>0, <2>1, <2>2, <2>5 DEF CadTypeOK, UnderWay
  <2>10. TabsComeToRest'
    BY <1>0, <2>1 DEF TabsComeToRest, UnderWay
  <2>. QED
    BY <2>6, <2>7, <2>8, <2>9, <2>10, <2>11
<1>3. ASSUME NEW w \in Writes, ServerRefuses(w) PROVE History /\ Rest
  <2>1. History
    BY <1>0, <1>3 DEF ServerRefuses, RetriesLeft, Uncommitted, Stored, AtMostOnce
  <2>2. Rest
    BY <1>3 DEF ServerRefuses, CadTypeOK, TabsComeToRest, UnderWay
  <2>. QED
    BY <2>1, <2>2
<1>4. ASSUME NEW w \in Writes, NEW outcome \in {"done", "failed"},
             NEW state \in {"idle", "resolved", "failed"}, End(w, outcome, state),
             outcome = "done" => at[w] = "committed",
             UNCHANGED shown \/ shown' = [shown EXCEPT ![tab[w]] = base[w]]
      PROVE  History /\ Rest
  <2>1. History
    BY <1>0, <1>4 DEF End, RetriesLeft, Uncommitted, Stored, AtMostOnce
  <2>2. Rest
    BY <1>4 DEF End, CadTypeOK, TabsComeToRest, UnderWay
  <2>. QED
    BY <2>1, <2>2
<1>5. ASSUME NEW w \in Writes, at[w] = "refused", attempt[w] < MaxStaleRetries, TryAgain(w)
      PROVE  History /\ Rest
  <2>1. History
    BY <1>0, <1>5 DEF TryAgain, RetriesLeft, Uncommitted, Stored, AtMostOnce
  <2>2. Rest
    BY <1>5 DEF TryAgain, CadTypeOK, TabsComeToRest, UnderWay
  <2>. QED
    BY <2>1, <2>2
<1>6. ASSUME NEW w \in Writes, Apply(w) PROVE History /\ Rest
  BY <1>4, <1>6 DEF Apply
<1>7. ASSUME NEW w \in Writes, WriteErrors(w) PROVE History /\ Rest
  BY <1>4, <1>7 DEF WriteErrors
<1>8. ASSUME NEW w \in Writes, StaleError(w) PROVE History /\ Rest
  BY <1>4, <1>5, <1>8 DEF StaleError
<1>9. ASSUME NEW w \in Writes, Refresh(w) PROVE History /\ Rest
  <2>1. History
    BY <1>0, <1>9 DEF Refresh, RetriesLeft, Uncommitted, Stored, AtMostOnce
  <2>2. Rest
    BY <1>9 DEF Refresh, CadTypeOK, TabsComeToRest, UnderWay
  <2>. QED
    BY <2>1, <2>2
<1>10. ASSUME NEW w \in Writes, RefreshFails(w) PROVE History /\ Rest
  BY <1>4, <1>10 DEF RefreshFails
<1>11. ASSUME NEW w \in Writes, Retry(w) PROVE History /\ Rest
  <2>1. History
    BY <1>0, <1>11 DEF Retry, Send, RetriesLeft, Uncommitted, Stored, AtMostOnce
  <2>2. TabsComeToRest'
    BY <1>11 DEF Retry, Send, CadTypeOK, TabsComeToRest, UnderWay
  <2>3. CadTypeOK'
    BY <1>11 DEF Retry, Send, RetriesLeft, CadTypeOK, UnderWay
  <2>. QED
    BY <2>1, <2>2, <2>3
<1>12. ASSUME NEW t \in Tabs, Reopen(t) PROVE History /\ Rest
  <2>1. History
    BY <1>0, <1>12 DEF Reopen, RetriesLeft, Uncommitted, Stored, AtMostOnce, UnderWay
  <2>2. CadTypeOK'
    BY <1>12 DEF Reopen, CadTypeOK, UnderWay
  <2>3. TabsComeToRest'
    BY <1>0, <1>12 DEF Reopen, CadTypeOK, TabsComeToRest, UnderWay
  <2>. QED
    BY <2>1, <2>2, <2>3
<1>13. CASE UNCHANGED cadVars
  BY <1>13 DEF cadVars, CadTypeOK, RetriesLeft, Uncommitted, Stored, AtMostOnce, TabsComeToRest
<1>. QED
  BY <1>1, <1>2, <1>3, <1>6, <1>7, <1>8, <1>9, <1>10, <1>11, <1>12, <1>13 DEF CadNext, WriteStep

(* Only a commit touches the history, and a command commits on the head. *)
LEMMA CadStepLoses ==
    ASSUME CadInv, [CadNext]_cadVars, NEW e \in Writes,
           e \in Server!Latest.text, e \notin Server!Latest'.text
    PROVE  \E w \in Writes : /\ at[w] = "sent" /\ at'[w] = "committed"
                             /\ kind[w] = "materialize" /\ e \notin log[base[w]].text
<1>1. \/ \E w \in Writes : ServerCommits(w)
      \/ UNCHANGED log
  BY DEF CadNext, WriteStep, cadVars, BeginWrite, Send, ServerRefuses, Apply, End, WriteErrors,
         StaleError, TryAgain, Refresh, RefreshFails, Retry, Reopen
<1>2. CASE UNCHANGED log
  BY <1>2 DEF Server!Latest
<1>3. CASE \E w \in Writes : ServerCommits(w)
  <2>1. PICK w \in Writes : ServerCommits(w)
    BY <1>3
  <2>2. at[w] = "sent" /\ at'[w] = "committed" /\ ~Stale(w)
    BY <2>1 DEF ServerCommits, CadInv, CadTypeOK
  <2>3. Server!Latest'.text = log[base[w]].text \cup {w}
    BY <2>1, CommitAppends DEF Server!Latest
  <2>4. e \notin log[base[w]].text
    BY <2>3
  <2>5. kind[w] = "materialize"
    BY <2>2, <2>4 DEF Stale, Kinds, Server!Latest, CadInv, CadTypeOK
  <2>. QED
    BY <2>2, <2>4, <2>5
<1>. QED
  BY <1>1, <1>2, <1>3

-----------------------------------------------------------------------------

(* The history, the tabs and the writes keep their types. *)
THEOREM CadTypeCorrect == CadSpec => []CadTypeOK
<1>1. CadInv => CadTypeOK
  BY DEF CadInv
<1>. QED
  BY <1>1, CadAssumption, CadStart, CadStep, PTL DEF CadSpec

(* No write is in the history twice, however often it is retried and        *)
(* whatever answer is lost.                                                 *)
THEOREM CadCommittedOnce == CadSpec => []CommittedOnce
<1>1. CadInv => CommittedOnce
  BY DEF CadInv, AtMostOnce, CommittedOnce, Commits
<1>. QED
  BY <1>1, CadAssumption, CadStart, CadStep, PTL DEF CadSpec

(* A write that ended without an error is in the history. *)
THEOREM CadDoneIsStored == CadSpec => []DoneIsStored
<1>1. CadInv => DoneIsStored
  BY DEF CadInv, Stored, DoneIsStored, Commits
<1>. QED
  BY <1>1, CadAssumption, CadStart, CadStep, PTL DEF CadSpec

(* Both together: no retry doubles a write, no lost answer loses one.       *)
THEOREM CadStoredOnce == CadSpec => []StoredOnce
  BY CadCommittedOnce, CadDoneIsStored, PTL DEF StoredOnce

(* A tab whose writes have all ended can be used again. *)
THEOREM CadTabsRest == CadSpec => []TabsComeToRest
<1>1. CadInv => TabsComeToRest
  BY DEF CadInv
<1>. QED
  BY <1>1, CadAssumption, CadStart, CadStep, PTL DEF CadSpec

(* An entity disappears only by a materialization that did not show it. *)
THEOREM CadLosesOnlyUnseen == CadSpec => LostOnlyUnseen
<1>1. CadAssumption /\ CadInv /\ [CadNext]_cadVars => CadInv' /\ [LosesOnlyUnseen]_cadVars
  BY CadStep, CadStepLoses DEF LosesOnlyUnseen
<1>. QED
  BY <1>1, CadAssumption, CadStart, PTL DEF CadSpec, LostOnlyUnseen

(* No engineering result is materialized. *)
OnlyCommands == \A w \in Writes : kind[w] = "command"

(* A command is committed on the head, and to a history that does not have  *)
(* it; nothing else touches the history or turns a command into a           *)
(* materialization.                                                         *)
LEMMA CommandsCommit ==
    ASSUME CadInv, OnlyCommands, [CadNext]_cadVars
    PROVE  [Server!Next]_log /\ OnlyCommands'
<1>1. \/ \E w \in Writes : ServerCommits(w)
      \/ UNCHANGED log
  BY DEF CadNext, WriteStep, cadVars, BeginWrite, Send, ServerRefuses, Apply, End, WriteErrors,
         StaleError, TryAgain, Refresh, RefreshFails, Retry, Reopen
<1>2. kind' = kind
  BY DEF CadNext, WriteStep, cadVars, BeginWrite, Send, ServerCommits, ServerRefuses, Apply, End,
         WriteErrors, StaleError, TryAgain, Refresh, RefreshFails, Retry, Reopen
<1>3. ASSUME NEW w \in Writes, ServerCommits(w) PROVE Server!Commit(w)
  <2>1. at[w] = "sent" /\ ~Stale(w) /\ log' = Append(log, Server!Entry(w, log[base[w]].text \cup {w}))
    BY <1>3 DEF ServerCommits
  <2>2. base[w] = Len(log)
    BY <2>1 DEF Stale, OnlyCommands
  <2>3. \A i \in 1..Len(log) : log[i].command # w
    BY <2>1 DEF CadInv, Uncommitted
  <2>. QED
    BY <2>1, <2>2, <2>3 DEF Server!Commit, Server!Latest
<1>. QED
  BY <1>1, <1>2, <1>3 DEF Server!Next, OnlyCommands

(* As long as no result is materialized, the client and the services        *)
(* together implement the linear history: each command of the users is      *)
(* applied once, to the revision before it, whatever is refused, retried or *)
(* lost on the way.                                                         *)
THEOREM CadCommandsAreLinear == CadSpec /\ OnlyCommands => Server!Spec
<1>1. CadInit => Server!Init
  BY DEF CadInit
<1>2. CadAssumption /\ CadInv /\ OnlyCommands /\ [CadNext]_cadVars
        => CadInv' /\ OnlyCommands' /\ [Server!Next]_log
  BY CadStep, CommandsCommit
<1>. QED
  BY <1>1, <1>2, CadAssumption, CadStart, PTL DEF CadSpec, Server!Spec

-----------------------------------------------------------------------------
(* The workflow store *)

SyncInv == SyncTypeOK /\ ProjectIsPolled

(* Nothing is bound, nothing is on its way. *)
LEMMA SyncStart == SyncInit => SyncInv
<1>. SUFFICES ASSUME SyncInit PROVE SyncInv
  OBVIOUS
<1>1. /\ view = [project |-> NoProject, loading |-> FALSE, error |-> FALSE, polling |-> TRUE]
      /\ bound = NoProject /\ timer = FALSE /\ listening = FALSE
      /\ request = [q \in Requests |-> [project |-> NoProject, binding |-> FALSE]]
  BY DEF SyncInit, InitialState, NoRequest
<1>2. SyncTypeOK
  BY <1>1 DEF SyncTypeOK
<1>3. ProjectIsPolled
  BY <1>1 DEF ProjectIsPolled
<1>. QED
  BY <1>2, <1>3 DEF SyncInv

(* A request that is sent is on its way, and so are those that were. *)
LEMMA SentIsOnItsWay ==
    ASSUME SyncTypeOK, NEW q \in Requests, q \notin OnTheirWay,
           NEW p \in Projects, NEW b \in BOOLEAN,
           request' = [request EXCEPT ![q] = [project |-> p, binding |-> b]]
    PROVE  /\ request' \in [Requests -> [project : Projects \cup {NoProject}, binding : BOOLEAN]]
           /\ q \in OnTheirWay' /\ request'[q].binding = b
           /\ \A r \in OnTheirWay : r \in OnTheirWay' /\ request'[r] = request[r]
  BY SyncAssumption DEF SyncTypeOK, OnTheirWay

(* When the awaited answer of a binding comes, the timer is set for the     *)
(* project that is active by then.                                          *)
LEMMA GoesOnKeeps ==
    ASSUME SyncInv, NEW q \in OnTheirWay, GoesOn(q)
    PROVE  /\ request' \in [Requests -> [project : Projects \cup {NoProject}, binding : BOOLEAN]]
           /\ timer' \in BOOLEAN /\ listening' \in BOOLEAN
           /\ timer' => bound # NoProject
           /\ bound # NoProject /\ view.polling =>
                 timer' \/ \E r \in OnTheirWay' : request'[r].binding
<1>1. /\ q \in Requests
      /\ request' = [request EXCEPT ![q] = [project |-> NoProject, binding |-> FALSE]]
      /\ timer' = IF request[q].binding THEN bound # NoProject ELSE timer
  BY DEF GoesOn, NoRequest, OnTheirWay
<1>2. /\ request' \in [Requests -> [project : Projects \cup {NoProject}, binding : BOOLEAN]]
      /\ timer' \in BOOLEAN /\ listening' \in BOOLEAN
      /\ timer' => bound # NoProject
  <2>1. request' \in [Requests -> [project : Projects \cup {NoProject}, binding : BOOLEAN]]
    BY <1>1 DEF SyncInv, SyncTypeOK
  <2>2. request[q].binding \in BOOLEAN
    BY <1>1 DEF SyncInv, SyncTypeOK
  <2>3. timer' \in BOOLEAN /\ (timer' => bound # NoProject)
    BY <1>1, <2>2 DEF SyncInv, SyncTypeOK, ProjectIsPolled
  <2>4. listening' \in BOOLEAN
    BY <2>2 DEF SyncInv, SyncTypeOK, GoesOn
  <2>. QED
    BY <2>1, <2>3, <2>4
<1>3. CASE request[q].binding
  BY <1>1, <1>2, <1>3
<1>4. CASE ~request[q].binding
  <2>1. \A r \in OnTheirWay : r # q => r \in OnTheirWay' /\ request'[r] = request[r]
    BY <1>1 DEF OnTheirWay, SyncInv, SyncTypeOK
  <2>. QED
    BY <1>1, <1>2, <1>4, <2>1 DEF SyncInv, ProjectIsPolled
<1>. QED
  BY <1>2, <1>3, <1>4

(* Every step keeps the polling of the active project. *)
LEMMA SyncStep == SyncInv /\ [SyncNext]_syncVars => SyncInv'
<1>. SUFFICES ASSUME SyncInv, [SyncNext]_syncVars PROVE SyncInv'
  OBVIOUS
<1>. USE DEF SyncInv
<1>1. ASSUME NEW q \in Requests, NEW p \in Projects, Bind(q, p) PROVE SyncInv'
  <2>1. /\ q \in OnTheirWay' /\ request'[q].binding
        /\ request' \in [Requests -> [project : Projects \cup {NoProject}, binding : BOOLEAN]]
    BY <1>1, SentIsOnItsWay DEF Bind
  <2>2. bound' = p /\ p # NoProject /\ timer' = timer /\ listening' = listening
    BY <1>1, SyncAssumption DEF Bind
  <2>3. view' \in [project : Projects \cup {NoProject}, loading : BOOLEAN,
                   error : BOOLEAN, polling : BOOLEAN]
    BY <1>1 DEF Bind, SyncTypeOK
  <2>. QED
    BY <2>1, <2>2, <2>3 DEF SyncTypeOK, ProjectIsPolled
<1>2. CASE Unbind
  BY <1>2 DEF Unbind, InitialState, SyncTypeOK, ProjectIsPolled
<1>3. ASSUME NEW q \in Requests, Poll(q) PROVE SyncInv'
  <2>1. bound \in Projects /\ request' = [request EXCEPT ![q] = [project |-> bound, binding |-> FALSE]]
    BY <1>3 DEF Poll, SyncTypeOK
  <2>2. /\ q \in OnTheirWay'
        /\ request' \in [Requests -> [project : Projects \cup {NoProject}, binding : BOOLEAN]]
        /\ \A r \in OnTheirWay : r \in OnTheirWay' /\ request'[r] = request[r]
    BY <1>3, <2>1, SentIsOnItsWay DEF Poll
  <2>3. /\ view' \in [project : Projects \cup {NoProject}, loading : BOOLEAN,
                      error : BOOLEAN, polling : BOOLEAN]
        /\ view'.polling = view.polling
        /\ bound' = bound /\ timer' = timer /\ listening' = listening
    BY <1>3 DEF Poll, SyncTypeOK
  <2>. QED
    BY <2>2, <2>3 DEF SyncTypeOK, ProjectIsPolled
<1>4. ASSUME NEW q \in Requests, ApplyState(q) \/ RequestFails(q) PROVE SyncInv'
  <2>1. q \in OnTheirWay /\ GoesOn(q)
    BY <1>4 DEF ApplyState, RequestFails
  <2>2. /\ view' \in [project : Projects \cup {NoProject}, loading : BOOLEAN,
                      error : BOOLEAN, polling : BOOLEAN]
        /\ view'.polling = view.polling /\ view'.loading = FALSE
    BY <1>4 DEF ApplyState, RequestFails, SyncTypeOK
  <2>3. bound' = bound
    BY <2>1 DEF GoesOn
  <2>. QED
    BY <2>1, <2>2, <2>3, GoesOnKeeps DEF SyncTypeOK, ProjectIsPolled
<1>5. CASE VisibilityChange
  BY <1>5 DEF VisibilityChange, SyncTypeOK, ProjectIsPolled, OnTheirWay
<1>6. ASSUME NEW enabled \in BOOLEAN, SetRealtimeSync(enabled) PROVE SyncInv'
  <2>1. /\ view' \in [project : Projects \cup {NoProject}, loading : BOOLEAN,
                      error : BOOLEAN, polling : BOOLEAN]
        /\ view'.polling = enabled /\ view'.loading = view.loading
    BY <1>6 DEF SetRealtimeSync, SyncTypeOK
  <2>2. /\ timer' \in BOOLEAN /\ timer' = (enabled /\ (timer \/ bound # NoProject))
        /\ bound' = bound /\ listening' = listening /\ request' = request
    BY <1>6 DEF SetRealtimeSync, SyncTypeOK
  <2>. QED
    BY <2>1, <2>2 DEF SyncTypeOK, ProjectIsPolled, OnTheirWay
<1>7. CASE UNCHANGED syncVars
  BY <1>7 DEF syncVars, SyncTypeOK, ProjectIsPolled, OnTheirWay
<1>. QED
  BY <1>1, <1>2, <1>3, <1>4, <1>5, <1>6, <1>7 DEF SyncNext

(* Whatever answers come late, the active project is polled or about to be, *)
(* and the timer stops with it.                                             *)
THEOREM SyncIsPolled == SyncSpec => []ProjectIsPolled
<1>1. SyncInv => ProjectIsPolled
  BY DEF SyncInv
<1>. QED
  BY <1>1, SyncStart, SyncStep, PTL DEF SyncSpec
=============================================================================
