----------------------------- MODULE WatchPages -----------------------------
(***************************************************************************)
(* The two pages that watch a polled list and act on its rows: alerts      *)
(* (web/app/(app)/alerts/page.tsx with components/alerts/actions.ts) and   *)
(* uptime (web/app/(app)/uptime/page.tsx with MonitorCard.tsx).            *)
(*                                                                         *)
(* Each has two views of the list, with a key of SWR's cache each: the     *)
(* alerts that are unread next to all of them, two windows of uptime.      *)
(* useApi (lib/api.ts) goes on showing the old view until the new one is   *)
(* there; invalidate() drops every fetch on its way and asks for the views *)
(* on screen again.  A fetch that fails is asked again by SWR: it takes    *)
(* longer.                                                                 *)
(***************************************************************************)
EXTENDS WebBase

CONSTANTS
    Watched,    \* alerts, or monitors
    Labels      \* names of monitors

ASSUME WatchConstants ==
    Labels # {} /\ None \notin [list : [Watched -> [flag : BOOLEAN, there : BOOLEAN, name : Labels]], ver : Nat]

VARIABLES
    wkind,      \* which page it is
    wrows,      \* the server's rows: flag is "read" or "enabled", there is neither snoozed nor removed
    wver,       \* how often the server's rows have changed
    wview,      \* the view that is chosen
    wcache,     \* for each view what was fetched last
    wfetch,     \* for each view its fetch
    wshown,     \* what is on screen, with the view it is of
    wissues,    \* the uptime page shows only monitors with issues
    wops,       \* requests on their way
    wren,       \* the dialog that renames a monitor, or None
    wask,       \* the monitor the question "Remove?" is about, or None
    wdone,      \* the last change the page was told to be done, as a number of changes
    wlast       \* history: what was asked of a monitor last, None where requests crossed

watchVars == <<wkind, wrows, wver, wview, wcache, wfetch, wshown, wissues, wops, wren, wask, wdone, wlast>>

WViews == {"first", "second"}
WRow == [flag : BOOLEAN, there : BOOLEAN, name : Labels]
WList == [Watched -> WRow]
NoneAsked == [st |-> "none", got |-> None]
AskedNow == [st |-> "asked", got |-> None]

WatchTypeOK ==
    /\ wkind \in {"alerts", "uptime"} /\ wrows \in WList /\ wview \in WViews /\ wissues \in BOOLEAN
    /\ wshown.view \in WViews /\ wshown.list \in WList /\ wask \in Watched \cup {None}
    /\ \A v \in WViews :
        /\ wcache[v] # None => wcache[v].list \in WList /\ wcache[v].ver \in 0..wver
        /\ wfetch[v].st \in {"none", "asked", "read", "recent"} /\ (wfetch[v].got # None <=> wfetch[v].st = "read")
    /\ wren # None => wren.row \in Watched /\ wren.name \in Labels /\ wren.busy \in BOOLEAN
    /\ \A o \in wops : o.rows \subseteq Watched /\ o.ver \in 1..wver \cup {None} /\ o.card \in BOOLEAN
    /\ wdone \in 0..wver /\ wlast \in [Watched -> BOOLEAN \cup {None}]

\* List of the server: snoozed alerts are hidden, and read ones where only unread ones are asked for.
ListFor(v) ==
    IF wkind = "alerts" /\ v = "second"
    THEN [r \in Watched |-> [wrows[r] EXCEPT !.there = @ /\ ~wrows[r].flag]]
    ELSE wrows

WatchInit ==
    LET n == CHOOSE x \in Labels : TRUE IN
    /\ wkind \in {"alerts", "uptime"} /\ wver = 0 /\ wview = "first" /\ wissues = FALSE
    /\ wrows = [r \in Watched |-> [flag |-> wkind = "uptime", there |-> TRUE, name |-> n]]
    /\ wcache = [v \in WViews |-> IF v = "first" THEN [list |-> wrows, ver |-> 0] ELSE None]
    /\ wfetch = [v \in WViews |-> NoneAsked] /\ wshown = [view |-> "first", list |-> wrows]
    /\ wops = {} /\ wren = None /\ wask = None /\ wdone = 0 /\ wlast = [r \in Watched |-> None]

OnScreen == IF wkind = "alerts" THEN {"first", wview} ELSE {wview}
\* The cards of the uptime page; a card that goes takes its dialog along.
Cards(list, issues) == {r \in Watched : list[r].there /\ (issues => ~list[r].flag)}
ShowsCards(list, issues) ==
    /\ wren' = IF wren # None /\ wren.row \notin Cards(list, issues) THEN None ELSE wren
    /\ wops' = {[o EXCEPT !.card = @ /\ o.rows \subseteq Cards(list, issues)] : o \in wops}

Free == wren = None /\ wask = None

\* A filter or a window is chosen: its list is fetched unless that was done within two seconds.
ChooseView(v) ==
    /\ Free /\ wview # v /\ Move /\ wview' = v
    /\ wfetch' = IF wfetch[v].st = "none" THEN [wfetch EXCEPT ![v] = AskedNow] ELSE wfetch
    /\ wshown' = IF wcache[v] # None THEN [view |-> v, list |-> wcache[v].list] ELSE wshown
    /\ ShowsCards(wshown'.list, wissues)
    /\ UNCHANGED <<wkind, wrows, wver, wcache, wissues, wask, wdone, wlast>>
ChooseIssues ==
    /\ wkind = "uptime" /\ Free /\ Spend(2) /\ wissues' = ~wissues /\ ShowsCards(wshown.list, wissues')
    /\ UNCHANGED <<wkind, wrows, wver, wview, wcache, wfetch, wshown, wask, wdone, wlast>>

\* Every 15 seconds, and when the window has focus again.
PollView(v) ==
    /\ v \in OnScreen /\ wfetch[v].st = "none" /\ wfetch' = [wfetch EXCEPT ![v] = AskedNow]
    /\ UNCHANGED <<wkind, wrows, wver, wview, wcache, wshown, wissues, wops, wren, wask, wdone, wlast, moves>>
ViewRead(v) ==
    /\ wfetch[v].st = "asked"
    /\ wfetch' = [wfetch EXCEPT ![v] = [st |-> "read", got |-> [list |-> ListFor(v), ver |-> wver]]]
    /\ UNCHANGED <<wkind, wrows, wver, wview, wcache, wshown, wissues, wops, wren, wask, wdone, wlast, moves>>
ViewShown(v) ==
    /\ wfetch[v].st = "read" /\ wcache' = [wcache EXCEPT ![v] = wfetch[v].got]
    /\ wfetch' = [wfetch EXCEPT ![v] = [st |-> "recent", got |-> None]]
    /\ wshown' = IF v = wview THEN [view |-> v, list |-> wfetch[v].got.list] ELSE wshown
    /\ ShowsCards(wshown'.list, wissues)
    /\ UNCHANGED <<wkind, wrows, wver, wview, wissues, wask, wdone, wlast, moves>>
\* SWR forgets the fetch two seconds later.
ViewAged(v) ==
    /\ wfetch[v].st = "recent" /\ wfetch' = [wfetch EXCEPT ![v] = NoneAsked]
    /\ UNCHANGED <<wkind, wrows, wver, wview, wcache, wshown, wissues, wops, wren, wask, wdone, wlast, moves>>

Invalidated == [v \in WViews |-> IF v \in OnScreen THEN AskedNow ELSE NoneAsked]

Send(kind, S, x, nr) ==
    wops' = wops \cup {[kind |-> kind, rows |-> S, val |-> x, ver |-> None, card |-> TRUE, nr |-> nr]}
ActOn(kind, S, x) ==
    /\ Free /\ Spend(IF kind \in {"read", "enable"} THEN 2 ELSE 3) /\ Send(kind, S, x, moves')
    /\ UNCHANGED <<wkind, wrows, wver, wview, wcache, wfetch, wshown, wissues, wren, wask, wdone>>

\* Alerts: "Mark read", or "Open", which goes on to another page; "Mark all read"; a snooze.
MarkRead(r) ==
    /\ wkind = "alerts" /\ wshown.list[r].there /\ ~wshown.list[r].flag
    /\ ActOn("read", {r}, TRUE) /\ UNCHANGED wlast
MarkAllRead ==
    /\ wkind = "alerts" /\ wcache["first"] # None
    /\ \E r \in Watched : wcache["first"].list[r].there /\ ~wcache["first"].list[r].flag
    /\ ActOn("read", Watched, TRUE) /\ UNCHANGED wlast
SnoozeAlert(r) ==
    /\ wkind = "alerts" /\ wshown.list[r].there /\ ActOn("hide", {r}, TRUE) /\ UNCHANGED wlast
\* Uptime: "Pause" or "Resume", whichever the card says; "Check now".  Nothing keeps a second click back.
\* The card of a host has no "Remove" and behaves alike otherwise.
Card(r) == wkind = "uptime" /\ r \in Cards(wshown.list, wissues)
CrossesAnother(r, x) == \E o \in wops : o.kind = "enable" /\ r \in o.rows /\ o.val # x
SetEnabled(r) ==
    LET x == ~wshown.list[r].flag IN
    /\ Card(r) /\ ActOn("enable", {r}, x)
    /\ wlast' = [wlast EXCEPT ![r] = IF CrossesAnother(r, x) THEN None ELSE x]
CheckNow(r) == Card(r) /\ ActOn("check", {r}, TRUE) /\ UNCHANGED wlast
AskRemoval(r) ==
    /\ Card(r) /\ Free /\ Spend(3) /\ wask' = r
    /\ UNCHANGED <<wkind, wrows, wver, wview, wcache, wfetch, wshown, wissues, wops, wren, wdone, wlast>>
AnswerRemoval(yes) ==
    /\ wask # None /\ wask' = None
    /\ IF yes THEN Send("hide", {wask}, TRUE, moves) ELSE UNCHANGED wops
    /\ UNCHANGED <<wkind, wrows, wver, wview, wcache, wfetch, wshown, wissues, wren, wdone, wlast, moves>>

\* The dialog starts with the name as shown; what is polled later does not touch it.
renameOnly == <<wkind, wrows, wver, wview, wcache, wfetch, wshown, wissues, wask, wdone, wlast>>
OpenRename(r) ==
    /\ Card(r) /\ Free /\ Move
    /\ wren' = [row |-> r, name |-> wshown.list[r].name, busy |-> FALSE, nr |-> moves'] /\ UNCHANGED <<renameOnly, wops>>
TypeName(x) ==
    /\ wren # None /\ wren.name # x /\ Move /\ wren' = [wren EXCEPT !.name = x] /\ UNCHANGED <<renameOnly, wops>>
SaveName ==
    /\ wren # None /\ ~wren.busy /\ Move /\ UNCHANGED renameOnly
    /\ IF wren.name = wshown.list[wren.row].name
       THEN wren' = None /\ UNCHANGED wops
       ELSE wren' = [wren EXCEPT !.busy = TRUE] /\ Send("rename", {wren.row}, wren.name, wren.nr)
CancelRename == wren # None /\ wren' = None /\ UNCHANGED <<renameOnly, wops, moves>>

\* The server: MarkRead, MarkAllRead, Snooze; Update, Delete and CheckNow of a monitor that exists.
Changed(row, o) ==
    CASE o.kind \in {"read", "enable"} -> [row EXCEPT !.flag = o.val]
      [] o.kind = "hide" -> [row EXCEPT !.there = FALSE]
      [] o.kind = "rename" -> [row EXCEPT !.name = o.val]
      [] o.kind = "check" -> row
OpApplied(o) ==
    /\ o.ver = None /\ (wkind = "uptime" => \A r \in o.rows : wrows[r].there)
    /\ wver' = wver + 1 /\ wrows' = [r \in Watched |-> IF r \in o.rows THEN Changed(wrows[r], o) ELSE wrows[r]]
    /\ wops' = (wops \ {o}) \cup {[o EXCEPT !.ver = wver']}
    /\ UNCHANGED <<wkind, wview, wcache, wfetch, wshown, wissues, wren, wask, wdone, wlast, moves>>
\* The answer: the lists are fetched again, and the card that renamed closes its dialog.
OpAnswered(o) ==
    /\ o.ver # None /\ wops' = wops \ {o} /\ wdone' = (IF o.ver > wdone THEN o.ver ELSE wdone) /\ wfetch' = Invalidated
    /\ wren' = IF o.kind = "rename" /\ o.card /\ wren # None /\ wren.row \in o.rows THEN None ELSE wren
    /\ UNCHANGED <<wkind, wrows, wver, wview, wcache, wshown, wissues, wask, wlast, moves>>
\* Refused, or the answer is lost: a toast says so, and nothing is fetched.
OpFails(o) ==
    /\ wops' = wops \ {o}
    /\ wren' = IF o.kind = "rename" /\ wren # None /\ wren.nr = o.nr THEN [wren EXCEPT !.busy = FALSE] ELSE wren
    /\ wlast' = IF o.kind = "enable" THEN [r \in Watched |-> IF r \in o.rows THEN None ELSE wlast[r]] ELSE wlast
    /\ UNCHANGED <<wkind, wrows, wver, wview, wcache, wfetch, wshown, wissues, wask, wdone, moves>>

\* An alert is raised again or a snooze ends; another browser pauses, renames or removes a monitor.
ByOthers(row) ==
    IF wkind = "alerts" THEN {[row EXCEPT !.there = TRUE, !.flag = FALSE], [row EXCEPT !.there = TRUE]}
    ELSE {[row EXCEPT !.flag = ~@], [row EXCEPT !.there = FALSE]} \cup {[row EXCEPT !.name = x] : x \in Labels}
RowChanges(r, x) ==
    /\ (wkind = "uptime" => wrows[r].there) /\ x # wrows[r] /\ Spend(3)
    /\ wrows' = [wrows EXCEPT ![r] = x] /\ wver' = wver + 1
    /\ wlast' = [wlast EXCEPT ![r] = None]
    /\ UNCHANGED <<wkind, wview, wcache, wfetch, wshown, wissues, wops, wren, wask, wdone>>

WatchStep ==
    \/ \E v \in WViews : ChooseView(v) \/ PollView(v) \/ ViewRead(v) \/ ViewShown(v) \/ ViewAged(v)
    \/ ChooseIssues \/ MarkAllRead \/ SaveName \/ CancelRename
    \/ \E r \in Watched : MarkRead(r) \/ SnoozeAlert(r) \/ SetEnabled(r) \/ CheckNow(r) \/ AskRemoval(r) \/ OpenRename(r)
    \/ \E yes \in BOOLEAN : AnswerRemoval(yes)
    \/ \E x \in Labels : TypeName(x)
    \/ \E o \in wops : OpApplied(o) \/ OpAnswered(o) \/ OpFails(o)
    \/ \E r \in Watched : \E x \in ByOthers(wrows[r]) : RowChanges(r, x)
\* The list on screen is polled, whatever the others do.
WatchProceeds == PollView(wview) \/ ViewRead(wview) \/ ViewShown(wview) \/ ViewAged(wview)

-----------------------------------------------------------------------------
(* When no fetch of a list on screen is on its way, the list is at least   *)
(* as new as every change whose success was told: a poll that was under    *)
(* way during the change never has the last word (actions.ts:15,           *)
(* MonitorCard.tsx:58).                                                    *)
ToldIsShown == \A v \in OnScreen : wfetch[v].st \in {"none", "recent"} => wcache[v] # None /\ wcache[v].ver >= wdone

(* A monitor ends paused or running as its user asked last, also when the  *)
(* button was pressed several times before the list showed it, unless a    *)
(* request failed, someone else changed it, or the opposite request was    *)
(* still on its way (MonitorCard.tsx:70).                                  *)
PausedAsAsked ==
    \A r \in Watched :
        wlast[r] # None /\ (\A o \in wops : o.kind # "enable" \/ r \notin o.rows) => wrows[r].flag = wlast[r]

(* A monitor is renamed once per dialog, however often it is polled        *)
(* meanwhile (MonitorCard.tsx:184, 205).                                   *)
OneRenamePerDialog == \A o, q \in wops : o.kind = "rename" /\ q.kind = "rename" /\ o.nr = q.nr => o = q

(* What is typed as the new name of a monitor stays while the list is      *)
(* polled and others rename the monitor (MonitorCard.tsx:178).             *)
NameIsKept ==
    [][wren # None /\ wren' # None /\ wren.nr = wren'.nr /\ moves' = moves => wren'.name = wren.name]_<<wren, moves>>

(* In the end the screen shows the view that was chosen, not the one       *)
(* before it, and shows it as the server has it, whichever requests failed *)
(* (api.ts:62, uptime/page.tsx:39, alerts/page.tsx:25).                    *)
WatchedEndsTrue == wshown.view = wview /\ wshown.list = ListFor(wview)
============================================================================
