--------------------------- MODULE TerminalWindow ---------------------------
(***************************************************************************)
(* The floating terminal window of the web UI: the tabs of                 *)
(* web/components/shell/TerminalWindow.tsx, the sessions of                *)
(* web/components/host/XTerm.tsx that its shell tabs mount, the log view   *)
(* (LogStream) that its logs tab mounts, and the SSH addresses and host    *)
(* keys the browser remembers (web/lib/customSsh.ts).                      *)
(*                                                                         *)
(* A run is one execution of XTerm's effect: it awaits the terminal        *)
(* library, then the fonts, then dials its socket; the cleanup that a      *)
(* closed tab or a reconnect runs may come during either await.  React     *)
(* renders and runs effects before the next event, so an event and the     *)
(* effects it leads to are one step.  Window geometry is left out.         *)
(***************************************************************************)
EXTENDS LogStream

CONSTANTS
    Shells,      \* targets of kind shell and exec
    Logs,        \* the target of kind logs
    Ssh,         \* addresses of the Custom SSH dialog
    HostKeys,    \* fingerprints an SSH server may present
    RecentMax,   \* addresses rememberSsh keeps
    MaxTabs,     \* bound: tabs opened
    MaxRuns      \* bound: executions of XTerm's effect

ASSUME TerminalConstants ==
    /\ Logs \notin Shells \cup Ssh /\ Shells \cap Ssh = {}
    /\ None \notin HostKeys /\ MaxTabs \in Nat /\ MaxRuns \in Nat /\ RecentMax \in Nat

VARIABLES
    tabs,        \* the tabs, each a key and a target
    tabSeq,      \* keys given out, over all windows
    active,      \* key of the tab in front; 0 while there is no window
    runs,        \* executions of XTerm's effect
    cur,         \* key -> the run of the mounted effect
    ended,       \* keys whose session shows "Session ended"
    tabStatus,   \* key -> state in the status bar
    terms,       \* key -> the run whose Terminal "copy output" reads
    recent,      \* dockhand.ssh.recent
    known        \* dockhand.ssh.known

termVars == <<tabs, tabSeq, active, runs, cur, ended, tabStatus, terms, recent, known>>
windowVars == <<logVars, termVars>>

TabIds == 1..MaxTabs
Targets == Shells \cup Ssh \cup {Logs}
Tab == [key : TabIds, target : Targets]
Run == [key : TabIds, at : {"import", "fonts", "dial", "open", "over", "closed"},
        disposed : BOOLEAN, hello : HostKeys \cup {None}]

TermTypeOK ==
    /\ LogTypeOK
    /\ tabs \in Seq(Tab) /\ tabSeq \in 0..MaxTabs /\ active \in 0..MaxTabs
    /\ runs \in Seq(Run) /\ Len(runs) <= MaxRuns
    /\ cur \in [TabIds -> 0..MaxRuns] /\ terms \in [TabIds -> 0..MaxRuns]
    /\ ended \subseteq TabIds
    /\ tabStatus \in [TabIds -> {"none", "connecting", "open", "ended"}]
    /\ recent \in Seq(Ssh) /\ Len(recent) <= RecentMax
    /\ known \in [Ssh -> HostKeys \cup {None}]

TermInit ==
    /\ LogInit
    /\ tabs = <<>> /\ tabSeq = 0 /\ active = 0
    /\ runs = <<>> /\ cur = [k \in TabIds |-> 0] /\ ended = {}
    /\ tabStatus = [k \in TabIds |-> "none"] /\ terms = [k \in TabIds |-> 0]
    /\ recent = <<>> /\ known = [a \in Ssh |-> None]

TabKeys == {tabs[i].key : i \in 1..Len(tabs)}
TabIndex(k) == (CHOOSE i \in 1..Len(tabs) : tabs[i].key = k)
IsMounted(r) == ~runs[r].disposed

-----------------------------------------------------------------------------
(* XTerm's effect starts: no run before it is left undisposed.             *)
StartRun(k, before) ==
    /\ Len(before) < MaxRuns
    /\ runs' = Append(before, [key |-> k, at |-> "import", disposed |-> FALSE, hello |-> None])
    /\ cur' = [cur EXCEPT ![k] = Len(before) + 1]
    /\ ended' = ended \ {k}
    /\ tabStatus' = [tabStatus EXCEPT ![k] = "connecting"]

(* The cleanup: what is behind the two awaits stops by itself later.       *)
Disposed(r) == [r EXCEPT !.disposed = TRUE,
                         !.at = IF r.at \in {"import", "fonts"} THEN r.at ELSE "closed"]
CleanRuns(ks) ==
    [r \in 1..Len(runs) |-> IF runs[r].key \in ks /\ cur[runs[r].key] = r THEN Disposed(runs[r]) ELSE runs[r]]

(* addTab: focus the tab that shows the target, or append one.             *)
FirstTab(t) == CHOOSE i \in 1..Len(tabs) : tabs[i].target = t /\ \A j \in 1..(i - 1) : tabs[j].target # t
HasTab(t) == \E i \in 1..Len(tabs) : tabs[i].target = t

Focus(t) ==
    /\ HasTab(t)
    /\ active' = tabs[FirstTab(t)].key
    /\ UNCHANGED <<logVars, tabs, tabSeq, runs, cur, ended, tabStatus, terms>>

NewTab(t) ==
    /\ tabSeq < MaxTabs
    /\ tabSeq' = tabSeq + 1 /\ active' = tabSeq + 1
    /\ tabs' = Append(tabs, [key |-> tabSeq + 1, target |-> t])
    /\ terms' = terms
    /\ IF t = Logs
       THEN LogMount /\ UNCHANGED <<runs, cur, ended, tabStatus>>
       ELSE StartRun(tabSeq + 1, runs) /\ UNCHANGED logVars

(* shell.openTerminal and the effect that serves its request.              *)
OpenTerminal(t) ==
    /\ Move
    /\ Focus(t) \/ (~HasTab(t) /\ NewTab(t))
    /\ UNCHANGED <<recent, known>>

(* The "+" menu: shells always in a tab of their own, logs never.          *)
PlusMenu(t) ==
    /\ tabs # <<>> /\ Spend(2)
    /\ IF t = Logs THEN Focus(t) \/ (~HasTab(t) /\ NewTab(t)) ELSE NewTab(t)
    /\ UNCHANGED <<recent, known>>

(* Connect of the Custom SSH dialog: a fresh id, so always a new tab.      *)
Remembered(a) == LET list == <<a>> \o SelectSeq(recent, LAMBDA x : x # a)
                 IN  SubSeq(list, 1, IF Len(list) > RecentMax THEN RecentMax ELSE Len(list))
ConnectSsh(a) == Spend(2) /\ NewTab(a) /\ recent' = Remembered(a) /\ known' = known

ForgetRecent(a) ==
    /\ recent # <<>> /\ Spend(2)
    /\ recent' = SelectSeq(recent, LAMBDA x : x # a)
    /\ UNCHANGED <<logVars, tabs, tabSeq, active, runs, cur, ended, tabStatus, terms, known>>
ForgetHostKey(a) ==
    /\ known[a] # None /\ Spend(2)
    /\ known' = [known EXCEPT ![a] = None]
    /\ UNCHANGED <<logVars, tabs, tabSeq, active, runs, cur, ended, tabStatus, terms, recent>>

SelectTab(k) ==
    /\ k \in TabKeys \ {active} /\ Spend(2)
    /\ active' = k
    /\ UNCHANGED <<logVars, tabs, tabSeq, runs, cur, ended, tabStatus, terms, recent, known>>

(* Unmounting the components of some tabs.                                 *)
Unmount(ks) ==
    /\ runs' = CleanRuns(ks)
    /\ cur' = [k \in TabIds |-> IF k \in ks THEN 0 ELSE cur[k]]
    /\ terms' = [k \in TabIds |-> IF k \in ks THEN 0 ELSE terms[k]]
    /\ ended' = ended \ ks
    /\ IF \E i \in 1..Len(tabs) : tabs[i].key \in ks /\ tabs[i].target = Logs
       THEN LogUnmount ELSE UNCHANGED logVars

(* onClose: the window and its state go away.                              *)
CloseWindow ==
    /\ tabs # <<>> /\ Spend(2)
    /\ Unmount(TabKeys)
    /\ tabs' = <<>> /\ active' = 0 /\ tabStatus' = [k \in TabIds |-> "none"]
    /\ UNCHANGED <<tabSeq, recent, known>>

(* closeTab: the neighbour comes to the front; the last tab closes all.    *)
(* Keys are never given out twice, so the filter takes out one tab.        *)
CloseTab(k) ==
    LET i    == TabIndex(k)
        next == SubSeq(tabs, 1, i - 1) \o SubSeq(tabs, i + 1, Len(tabs))
        j    == IF i < Len(next) THEN i ELSE Len(next)
    IN  /\ k \in TabKeys
        /\ IF next = <<>>
           THEN CloseWindow
           ELSE /\ Unmount({k})
                /\ tabs' = next
                /\ active' = IF active = k THEN next[j].key ELSE active
                /\ Spend(2) /\ UNCHANGED <<tabSeq, tabStatus, recent, known>>

-----------------------------------------------------------------------------
RunStep(r, at, key, st) ==
    /\ runs' = [runs EXCEPT ![r].at = at]
    /\ tabStatus' = [tabStatus EXCEPT ![key] = st]

(* The imports resolved.                                                   *)
Imported(r) ==
    LET k == runs[r].key IN
    /\ runs[r].at = "import"
    /\ runs' = [runs EXCEPT ![r].at = IF IsMounted(r) THEN "fonts" ELSE "closed"]
    /\ terms' = IF IsMounted(r) THEN [terms EXCEPT ![k] = r] ELSE terms
    /\ UNCHANGED <<moves, logVars, tabs, tabSeq, active, cur, ended, tabStatus, recent, known>>

(* (mutant) The wait for the fonts never ends.                             *)
FontsReady_Waits(r) ==
    /\ runs[r].at = "fonts" /\ ~IsMounted(r)
    /\ runs' = [runs EXCEPT ![r].at = "closed"]
    /\ UNCHANGED <<moves, logVars, tabs, tabSeq, active, cur, ended, tabStatus, terms, recent, known>>
(* document.fonts.ready resolved: dial unless disposed.                    *)
FontsReady(r) ==
    /\ runs[r].at = "fonts"
    /\ runs' = [runs EXCEPT ![r].at = IF IsMounted(r) THEN "dial" ELSE "closed"]
    /\ UNCHANGED <<moves, logVars, tabs, tabSeq, active, cur, ended, tabStatus, terms, recent, known>>

(* onopen: the hello of an SSH session carries the key known now.          *)
SessionOpens(r) ==
    LET k == runs[r].key
        t == tabs[TabIndex(k)].target
    IN  /\ runs[r].at = "dial"
        /\ runs' = [runs EXCEPT ![r].at = "open", ![r].hello = IF t \in Ssh THEN known[t] ELSE None]
        /\ tabStatus' = [tabStatus EXCEPT ![k] = "open"]
        /\ UNCHANGED <<moves, logVars, tabs, tabSeq, active, cur, ended, terms, recent, known>>

(* The server reports the key it accepted; only the first is saved.        *)
HostKeyMessage(r, fp) ==
    LET t == tabs[TabIndex(runs[r].key)].target IN
    /\ runs[r].at = "open" /\ IsMounted(r) /\ t \in Ssh
    /\ runs[r].hello \in {None, fp}
    /\ known' = IF known[t] = None THEN [known EXCEPT ![t] = fp] ELSE known
    /\ UNCHANGED <<moves, logVars, tabs, tabSeq, active, runs, cur, ended, tabStatus, terms, recent>>

(* The exit message ends the session before its socket closes.             *)
SessionExits(r) ==
    LET k == runs[r].key IN
    /\ runs[r].at = "open"
    /\ RunStep(r, "over", k, "ended")
    /\ ended' = ended \cup {k}
    /\ UNCHANGED <<moves, logVars, tabs, tabSeq, active, cur, terms, recent, known>>

(* onclose, after a failed dial, an exit or a lost connection.             *)
SessionCloses(r) ==
    LET k == runs[r].key IN
    /\ runs[r].at \in {"dial", "open", "over"}
    /\ RunStep(r, "closed", k, "ended")
    /\ ended' = ended \cup {k}
    /\ UNCHANGED <<moves, logVars, tabs, tabSeq, active, cur, terms, recent, known>>

(* Reconnect: the cleanup of the old run, then the effect again.           *)
Reconnect(k) ==
    /\ k \in ended /\ Spend(2)
    /\ StartRun(k, CleanRuns({k}))
    /\ terms' = [terms EXCEPT ![k] = 0]
    /\ UNCHANGED <<logVars, tabs, tabSeq, active, recent, known>>

LogView == LogStep /\ UNCHANGED termVars

TermStep ==
    \/ \E t \in Shells \cup {Logs} : OpenTerminal(t) \/ PlusMenu(t)
    \/ \E a \in Ssh : ConnectSsh(a) \/ ForgetRecent(a) \/ ForgetHostKey(a)
    \/ \E k \in TabIds : SelectTab(k) \/ CloseTab(k) \/ Reconnect(k)
    \/ CloseWindow
    \/ \E r \in 1..Len(runs) :
        \/ Imported(r) \/ FontsReady(r) \/ SessionOpens(r) \/ SessionExits(r) \/ SessionCloses(r)
        \/ \E fp \in HostKeys : HostKeyMessage(r, fp)
    \/ LogView

(* The browser resolves its promises, answers every dial and fires its     *)
(* timers; users and servers owe nothing.                                  *)
TermProceeds ==
    \/ \E r \in 1..Len(runs) :
        Imported(r) \/ FontsReady(r) \/ (runs[r].at = "dial" /\ (SessionOpens(r) \/ SessionCloses(r)))
    \/ FlushTimer /\ UNCHANGED termVars

-----------------------------------------------------------------------------
(* The tab in front is one of the tabs, however tabs are closed            *)
(* (TerminalWindow.tsx:174).                                               *)
ActiveIsATab == tabs # <<>> => active \in TabKeys

(* A session nobody can see holds no connection: a tab closed, or a        *)
(* session reconnected, while the library was loading never dials, and     *)
(* what had dialled is closed (XTerm.tsx:53, :118, :184).                  *)
NoHiddenSession ==
    \A r \in 1..Len(runs) :
        runs[r].at \in {"dial", "open", "over"} => runs[r].key \in TabKeys /\ cur[runs[r].key] = r

(* "Session ended" and the status bar speak of the run the tab shows,      *)
(* never of the one a reconnect left behind (XTerm.tsx:127, :167).         *)
StatusIsOfThisRun ==
    \A k \in TabKeys : cur[k] # 0 =>
        LET at == runs[cur[k]].at IN
        /\ (k \in ended) <=> (at \in {"over", "closed"})
        /\ tabStatus[k] = (IF at \in {"over", "closed"} THEN "ended" ELSE IF at = "open" THEN "open" ELSE "connecting")

(* "Copy output" never reads the terminal of a run that was disposed       *)
(* (XTerm.tsx:103, :189; TerminalWindow.tsx:544).                          *)
CopyReadsShownTerminal == \A k \in TabIds : terms[k] # 0 => k \in TabKeys /\ terms[k] = cur[k]

(* A saved host key is replaced only after the user forgot it, although    *)
(* several sessions to one address may be dialling before any is saved     *)
(* (TerminalWindow.tsx:538).                                               *)
KnownKeyIsKept == [][\A a \in Ssh : known[a] # None => known'[a] \in {known[a], None}]_windowVars

(* An address is listed once under Recent (customSsh.ts:49).               *)
RecentOnce == \A i, j \in 1..Len(recent) : recent[i] = recent[j] => i = j

(* No terminal tab is "connecting…", again and again: each one opens, ends *)
(* or is closed.                                                           *)
ConnectingSettles == \A k \in TabKeys : tabStatus[k] # "connecting"
============================================================================
