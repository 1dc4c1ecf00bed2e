------------------------------ MODULE HostDown ------------------------------
(***************************************************************************)
(* The polls of one host and its host_down alert: pollAll, PollHost and    *)
(* poll (server/internal/monitor/monitor.go), RecordSuccess/RecordFailure  *)
(* (server/internal/hosts/store.go) and Raise/Resolve                      *)
(* (server/internal/alerts/alerts.go), with the handlers of                *)
(* server/internal/api/hosts.go that poll outside the poll loop.           *)
(* A SQL statement, or a section under m.mu, is one step.                  *)
(***************************************************************************)
EXTENDS Naturals, FiniteSets

CONSTANTS
    Ticker,     \* the poll the loop runs, kept single by s.polling
    Extra,      \* polls started by the API: after a PATCH or a test
    Retries,    \* settings.Uptime.Retries
    MaxCrashes, \* bound: restarts of the server
    MaxErrors   \* bound: SQL statements that fail

ASSUME Pollers == Ticker \notin Extra
ASSUME RetriesRange == Retries \in Nat \ {0}
ASSUME BoundsRange == MaxCrashes \in Nat /\ MaxErrors \in Nat

VARIABLES
    reachable,          \* a poll of the host would succeed now
    status, failCount, monitored,  \* the host's row (degraded counts as online)
    alert,              \* the host_down alert: "none", "open" or "resolved"
    sent,               \* history: host_down notifications since it was last resolved
    polling, wasOffline,  \* the flags of hostState
    list,               \* the rows pollAll has listed and not yet handled
    pc,                 \* where each poll is
    row,                \* the copy of the row a poll was given
    met,                \* history: the API polls that ever ran
    crashes, errors

host == <<status, failCount>>
mail == <<alert, sent>>
vars == <<reachable, status, failCount, monitored, alert, sent, polling, wasOffline,
          list, pc, row, met, crashes, errors>>

Polls == {Ticker} \cup Extra
Copies == [offline : BOOLEAN, monitored : BOOLEAN]

TypeOK ==
    /\ reachable \in BOOLEAN
    /\ status \in {"pending", "online", "offline"}
    /\ failCount \in 0..Retries /\ monitored \in BOOLEAN
    /\ alert \in {"none", "open", "resolved"} /\ sent \in Nat
    /\ polling \in BOOLEAN /\ wasOffline \in BOOLEAN
    /\ list \subseteq Copies
    /\ pc \in [Polls -> {"idle", "test", "poll", "success", "resolve",
                         "failure", "mark", "raise", "upsert"}]
    /\ row \in [Polls -> Copies]
    /\ met \subseteq Extra /\ crashes \in Nat /\ errors \in Nat

(* A blank copy, for the polls that are not running.                       *)
Blank == [offline |-> FALSE, monitored |-> FALSE]

Init ==
    /\ reachable \in BOOLEAN
    /\ status = "pending" /\ failCount = 0 /\ monitored = TRUE
    /\ alert = "none" /\ sent = 0
    /\ polling = FALSE /\ wasOffline = FALSE
    /\ list = {}
    /\ pc = [p \in Polls |-> "idle"]
    /\ row = [p \in Polls |-> Blank]
    /\ met = {} /\ crashes = 0 /\ errors = 0

Goto(p, s) == pc' = [pc EXCEPT ![p] = s]

Continue(p, s) == Goto(p, s) /\ UNCHANGED <<polling, row>>

(* The poll ends; the loop's poll gives s.polling back.                    *)
Done(p) ==
    /\ Goto(p, "idle")
    /\ polling' = (polling /\ p # Ticker)
    /\ row' = [row EXCEPT ![p] = Blank]

(* The host's row, as a SELECT returns it.                                 *)
Row == [offline |-> status = "offline", monitored |-> monitored]

(* A SQL statement succeeds, or fails and counts against the bound.        *)
Sql(ok) ==
    /\ ok \/ errors < MaxErrors
    /\ errors' = IF ok THEN errors ELSE errors + 1

-----------------------------------------------------------------------------
(* pollAll lists the hosts ...                                             *)
List ==
    /\ list = {}
    /\ list' = {Row}
    /\ UNCHANGED <<reachable, host, monitored, mail, polling, wasOffline, pc, row, met, crashes, errors>>

(* ... and starts a poll with that row, unless one of its own is running:  *)
(* "never stack polls".                                                    *)
Tick ==
    /\ list # {}
    /\ list' = {}
    /\ polling' = TRUE
    /\ IF polling
       THEN UNCHANGED <<pc, row>>
       ELSE /\ Goto(Ticker, "poll")
            /\ \E r \in list : row' = [row EXCEPT ![Ticker] = r]
    /\ UNCHANGED <<reachable, host, monitored, mail, wasOffline, met, crashes, errors>>

(* PATCH /api/hosts/:id with new connection settings.                      *)
PatchPolls(p) ==
    /\ pc[p] = "idle"
    /\ row' = [row EXCEPT ![p] = Row]
    /\ Goto(p, "poll")
    /\ met' = met \cup {p}
    /\ UNCHANGED <<reachable, host, monitored, mail, polling, wasOffline, list, crashes, errors>>

(* PATCH /api/hosts/:id {monitored}.                                       *)
PatchMonitored ==
    /\ monitored' = ~monitored
    /\ UNCHANGED <<reachable, host, mail, polling, wasOffline, list, pc, row, met, crashes, errors>>

(* POST /api/hosts/:id/test succeeded: it records the host as online, then *)
(* loads the row again and polls.                                          *)
TestRecords(p) ==
    /\ pc[p] = "idle" /\ reachable
    /\ status' = "online" /\ failCount' = 0
    /\ Goto(p, "test")
    /\ met' = met \cup {p}
    /\ UNCHANGED <<reachable, monitored, mail, polling, wasOffline, list, row, crashes, errors>>

TestPolls(p) ==
    /\ pc[p] = "test"
    /\ row' = [row EXCEPT ![p] = Row]
    /\ Goto(p, "poll")
    /\ UNCHANGED <<reachable, host, monitored, mail, polling, wasOffline, list, met, crashes, errors>>

(* Mutant: the row the poll was given tells alone that the host was down.  *)
Recovered_RowOnly(p) == row[p].offline

Recovered(p) == wasOffline \/ row[p].offline

(* poll reached the host; the section under m.mu.  The local wasOffline    *)
(* takes the place of the row's offline, which is not read again.          *)
PollOK(p) ==
    /\ pc[p] = "poll" /\ reachable
    /\ row' = [row EXCEPT ![p].offline = Recovered(p)]
    /\ wasOffline' = FALSE
    /\ Goto(p, "success")
    /\ UNCHANGED <<reachable, host, monitored, mail, polling, list, met, crashes, errors>>

(* RecordSuccess; when it fails poll warns and goes on.                    *)
RecordSuccess(p, ok) ==
    /\ pc[p] = "success"
    /\ Sql(ok)
    /\ status' = IF ok THEN "online" ELSE status
    /\ failCount' = IF ok THEN 0 ELSE failCount
    /\ IF row[p].offline THEN Continue(p, "resolve") ELSE Done(p)
    /\ UNCHANGED <<reachable, monitored, mail, wasOffline, list, met, crashes>>

(* evaluateAlerts: Resolve the alert if it is open.                        *)
Resolve(p, ok) ==
    /\ pc[p] = "resolve"
    /\ Sql(ok)
    /\ alert' = IF ok /\ alert = "open" THEN "resolved" ELSE alert
    /\ sent' = IF ok /\ alert = "open" THEN 0 ELSE sent
    /\ Done(p)
    /\ UNCHANGED <<reachable, host, monitored, wasOffline, list, met, crashes>>

PollFails(p) ==
    /\ pc[p] = "poll" /\ ~reachable
    /\ Continue(p, "failure")
    /\ UNCHANGED <<reachable, host, monitored, mail, wasOffline, list, met, crashes, errors>>

(* The status after the n-th failure in a row; an offline host stays so.   *)
AfterFailure(n) == IF n >= Retries THEN "offline" ELSE status

(* RecordFailure; the count is capped at Retries, where it changes         *)
(* nothing any more.                                                       *)
RecordFailure(p, ok) ==
    /\ pc[p] = "failure"
    /\ Sql(ok)
    /\ IF ok
       THEN /\ failCount' = IF failCount < Retries THEN failCount + 1 ELSE Retries
            /\ status' = AfterFailure(failCount')
            /\ IF status' = "offline" THEN Continue(p, "mark") ELSE Done(p)
       ELSE UNCHANGED host /\ Done(p)
    /\ UNCHANGED <<reachable, monitored, mail, wasOffline, list, met, crashes>>

First(p) == ~wasOffline

(* Only the first failure of an outage that this process sees raises.      *)
Mark(p) ==
    /\ pc[p] = "mark"
    /\ wasOffline' = TRUE
    /\ IF First(p) /\ row[p].monitored THEN Continue(p, "raise") ELSE Done(p)
    /\ UNCHANGED <<reachable, host, monitored, mail, list, met, crashes, errors>>

(* Mutant: Raise opens the alert without looking.                          *)
WasOpen_Never == FALSE

WasOpen == alert = "open"

(* alerts.Raise: SELECT, and if it is open refresh the text only ...       *)
RaiseLookup(p, ok) ==
    /\ pc[p] = "raise"
    /\ Sql(ok)
    /\ IF ok /\ ~WasOpen THEN Continue(p, "upsert") ELSE Done(p)
    /\ UNCHANGED <<reachable, host, monitored, mail, wasOffline, list, met, crashes>>

(* ... else open it and notify.                                            *)
RaiseUpsert(p, ok) ==
    /\ pc[p] = "upsert"
    /\ Sql(ok)
    /\ alert' = IF ok THEN "open" ELSE alert
    /\ sent' = IF ok THEN sent + 1 ELSE sent
    /\ Done(p)
    /\ UNCHANGED <<reachable, host, monitored, wasOffline, list, met, crashes>>

-----------------------------------------------------------------------------
HostChanges ==
    /\ reachable' = ~reachable
    /\ UNCHANGED <<host, monitored, mail, polling, wasOffline, list, pc, row, met, crashes, errors>>

(* The server dies and is started again: the polls and hostState are gone. *)
Crash ==
    /\ crashes < MaxCrashes
    /\ crashes' = crashes + 1
    /\ polling' = FALSE /\ wasOffline' = FALSE
    /\ list' = {}
    /\ pc' = [p \in Polls |-> "idle"]
    /\ row' = [p \in Polls |-> Blank]
    /\ UNCHANGED <<reachable, host, monitored, mail, met, errors>>

Statement(p, ok) ==
    \/ RecordSuccess(p, ok) \/ Resolve(p, ok)
    \/ RecordFailure(p, ok) \/ RaiseLookup(p, ok) \/ RaiseUpsert(p, ok)

PollStep(p) ==
    \/ PollOK(p) \/ PollFails(p) \/ Mark(p)
    \/ \E ok \in BOOLEAN : Statement(p, ok)

Next ==
    \/ List \/ Tick
    \/ \E p \in Extra : PatchPolls(p) \/ TestRecords(p) \/ TestPolls(p)
    \/ PatchMonitored
    \/ \E p \in Polls : PollStep(p)
    \/ HostChanges \/ Crash

(* The loop ticks every 10 s; a poll ends within its 20 s.                 *)
Fairness ==
    /\ WF_vars(List) /\ WF_vars(Tick)
    /\ \A p \in Polls : WF_vars(PollStep(p))
    /\ \A p \in Extra : WF_vars(TestPolls(p))

Spec == Init /\ [][Next]_vars
FairSpec == Spec /\ Fairness

-----------------------------------------------------------------------------
(* Properties.                                                             *)

(* Raise is a SELECT and an UPSERT, so with polls of the API next to the   *)
(* loop's one outage can notify again: but at most once for each of those  *)
(* that run side by side, and never because of a restart or a failing      *)
(* statement.                                                              *)
NotificationsBounded == sent <= 1 + Cardinality(met)

(* A monitored host that stays unreachable gets an open host_down alert,   *)
(* wherever a restart interrupted the polls, as long as the statements     *)
(* succeed and only the loop polls.                                        *)
OutageIsAlerted ==
    [](monitored /\ errors = 0 /\ met = {}) /\ <>[]~reachable => <>[](alert = "open")

(* A host that stays reachable has no open host_down alert in the end,     *)
(* although the loop polls with rows read before the last poll ended; for  *)
(* one life of the server and statements that succeed.                     *)
RecoveryIsSeen ==
    [](crashes = 0 /\ errors = 0 /\ met = {}) /\ <>[]reachable => <>[](alert # "open")

(* The alert's row and its notifications keep to their bounds (Raise).     *)
AlertsAreSound == TypeOK /\ NotificationsBounded

(* In the end the alert says what the host does: open while it stays away, *)
(* closed while it stays there (PollHost, poll).                           *)
AlertFollowsTheHost == OutageIsAlerted /\ RecoveryIsSeen
=============================================================================
