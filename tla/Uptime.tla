------------------------------- MODULE Uptime -------------------------------
(***************************************************************************)
(* One uptime monitor (server/internal/uptime/uptime.go), of any type but  *)
(* "host" (those never alert): the checks of the scheduler and of "check   *)
(* now" requests, the incident and the alert they open and close, and a    *)
(* user who pauses, resumes and deletes the monitor.                       *)
(* Each SQL statement is one step.                                         *)
(***************************************************************************)
EXTENDS Naturals

CONSTANTS
    Scheduler,     \* the goroutine checkAll starts for the monitor
    Manual,        \* POST /api/uptime/monitors/:id/check requests
    User,          \* PATCH requests, one at a time
    Retries,       \* settings.Uptime.Retries
    MaxFails,      \* bound: fail counts above it are not told apart
    MaxCrashes     \* bound: restarts of the server

ASSUME Actors == Scheduler \notin Manual /\ User \notin Manual \cup {Scheduler}
ASSUME RetriesRange ==
    Retries \in Nat \ {0} /\ MaxFails \in Nat /\ MaxFails >= Retries /\ MaxCrashes \in Nat

VARIABLES
    exists, enabled, status, failCount,  \* the monitor's row
    patch,      \* the status a PATCH read
    incidents,  \* rows in incidents with ended_at IS NULL
    alert,      \* the monitor_down alert: "none", "open" or "resolved"
    running,    \* s.running holds the monitor
    service,    \* what a check of the target would find now
    pc,         \* where each actor is
    m,          \* the row each check was given
    seen,       \* the status its check returned, and its fail count
    downs,      \* history: checks in a row that recorded "down" in the row
    overlap,    \* history: checks given the row before the last pause
    skewed,     \* history: fail_count was last raised from a value that was out of date
    crashes

vars == <<exists, enabled, status, failCount, patch, incidents, alert, running,
          service, pc, m, seen, downs, overlap, skewed, crashes>>

Checkers == {Scheduler} \cup Manual
Results == {"up", "degraded", "down"}
Statuses == Results \cup {"unknown", "paused"}

TypeOK ==
    /\ exists \in BOOLEAN /\ enabled \in BOOLEAN
    /\ status \in Statuses /\ patch \in Statuses
    /\ failCount \in Nat /\ incidents \in Nat
    /\ alert \in {"none", "open", "resolved"}
    /\ running \in BOOLEAN /\ service \in Results
    /\ pc \in [Checkers \cup {User} -> {"idle", "given", "check", "insert", "update", "exists",
                                         "open", "raise", "upsert", "close", "resolve", "write"}]
    /\ m \in [Checkers \cup {User} -> Nat]
    /\ seen \in [Checkers -> Results \cup {"none"}]
    /\ downs \in Nat /\ overlap \subseteq Checkers /\ skewed \in BOOLEAN /\ crashes \in Nat

Init ==
    /\ exists = TRUE /\ enabled = TRUE /\ status = "unknown" /\ failCount = 0 /\ patch = "unknown"
    /\ incidents = 0 /\ alert = "none" /\ running = FALSE
    /\ service \in Results
    /\ pc = [p \in Checkers \cup {User} |-> "idle"]
    /\ m = [p \in Checkers \cup {User} |-> 0]
    /\ seen = [p \in Checkers |-> "none"]
    /\ downs = 0 /\ overlap = {} /\ skewed = FALSE /\ crashes = 0

monitor == <<exists, enabled, status, failCount, patch>>
history == <<downs, overlap, skewed, crashes>>

Goto(p, s) == pc' = [pc EXCEPT ![p] = s]

-----------------------------------------------------------------------------
(* Mutant: checkAll lists every monitor.                                   *)
Listed_All(p) == TRUE

Listed(p) == p = Scheduler => enabled

(* checkAll lists the enabled monitors; CheckNow loads the row whether it  *)
(* is enabled or not.  Either way the row is read before CheckOne.         *)
Load(p) ==
    /\ pc[p] = "idle" /\ exists /\ Listed(p)
    /\ m' = [m EXCEPT ![p] = failCount]
    /\ Goto(p, "given")
    /\ UNCHANGED <<monitor, incidents, alert, running, service, seen, history>>

(* Mutant: CheckOne does not look whether a check is running.              *)
MayCheck_Always == TRUE

MayCheck == ~running

(* CheckOne: LoadOrStore on s.running.                                     *)
CheckBegin(p) ==
    /\ pc[p] = "given" /\ MayCheck
    /\ running' = TRUE
    /\ Goto(p, "check")
    /\ UNCHANGED <<monitor, incidents, alert, service, m, seen, history>>

CheckBusy(p) ==
    /\ pc[p] = "given" /\ running
    /\ Goto(p, "idle")
    /\ m' = [m EXCEPT ![p] = 0]
    /\ overlap' = overlap \ {p}
    /\ UNCHANGED <<monitor, incidents, alert, running, service, seen, downs, skewed, crashes>>

Check(p) ==
    /\ pc[p] = "check"
    /\ seen' = [seen EXCEPT ![p] = service]
    /\ Goto(p, "insert")
    /\ UNCHANGED <<monitor, incidents, alert, running, service, m, history>>

CheckDone(p) ==
    /\ running' = FALSE
    /\ Goto(p, "idle")
    /\ m' = [m EXCEPT ![p] = 0]
    /\ seen' = [seen EXCEPT ![p] = "none"]
    /\ overlap' = overlap \ {p}

Capped(n) == IF n > MaxFails THEN MaxFails ELSE n

(* The new fail count, from the row the check was given.                   *)
Fails(p) == IF seen[p] = "down" THEN Capped(m[p] + 1) ELSE 0

(* The request of a "check now" is gone when its check returns.            *)
CheckCancelled(p) ==
    /\ pc[p] = "check" /\ p \in Manual
    /\ CheckDone(p)
    /\ UNCHANGED <<monitor, incidents, alert, service, downs, skewed, crashes>>

(* record: INSERT INTO check_results; when that fails, as it does for a    *)
(* deleted monitor, record gives up.                                       *)
RecordInsert(p) ==
    /\ pc[p] = "insert" /\ exists
    /\ Goto(p, "update")
    /\ UNCHANGED <<monitor, incidents, alert, running, service, m, seen, history>>

RecordInsertFails(p) ==
    /\ pc[p] = "insert"
    /\ CheckDone(p)
    /\ UNCHANGED <<monitor, incidents, alert, service, downs, skewed, crashes>>

(* Mutant: the threshold is missed by one.                                 *)
Reached_Early(n) == n + 1 >= Retries

Reached(n) == n >= Retries

Verdict(p) == seen[p]

(* UPDATE monitors; it does not look at enabled.                           *)
RecordUpdate(p) ==
    /\ pc[p] = "update"
    /\ IF exists THEN status' = Verdict(p) /\ failCount' = Fails(p) ELSE UNCHANGED <<status, failCount>>
    /\ downs' = IF seen[p] = "down" THEN Capped(downs + 1) ELSE 0
    /\ skewed' = (seen[p] = "down" /\ (skewed \/ m[p] # failCount))
    /\ \/ /\ seen[p] = "down" /\ Reached(Fails(p))
          /\ Goto(p, "exists")
          /\ UNCHANGED <<running, m, seen, overlap>>
       \/ /\ seen[p] = "down" /\ ~Reached(Fails(p))
          /\ CheckDone(p)
       \/ /\ seen[p] # "down"
          /\ Goto(p, "close")
          /\ UNCHANGED <<running, m, seen, overlap>>
    /\ UNCHANGED <<exists, enabled, patch, incidents, alert, service, crashes>>

(* SELECT EXISTS, then INSERT INTO incidents when there was none.  Errors  *)
(* of these statements are ignored.                                        *)
RecordExists(p) ==
    /\ pc[p] = "exists"
    /\ Goto(p, IF incidents = 0 THEN "open" ELSE "raise")
    /\ UNCHANGED <<monitor, incidents, alert, running, service, m, seen, history>>

RecordOpen(p) ==
    /\ pc[p] = "open"
    /\ incidents' = IF exists THEN incidents + 1 ELSE incidents
    /\ Goto(p, "raise")
    /\ UNCHANGED <<monitor, alert, running, service, m, seen, history>>

(* settings.Uptime.Notify is off.                                          *)
RecordQuiet(p) ==
    /\ pc[p] = "raise"
    /\ CheckDone(p)
    /\ UNCHANGED <<monitor, incidents, alert, service, downs, skewed, crashes>>

(* alerts.Raise: look whether the alert is open (then only its text is     *)
(* refreshed), and open it in a second statement.                          *)
RaiseLookup(p) ==
    /\ pc[p] = "raise"
    /\ \/ alert = "open" /\ CheckDone(p)
       \/ alert # "open" /\ Goto(p, "upsert") /\ UNCHANGED <<running, m, seen, overlap>>
    /\ UNCHANGED <<monitor, incidents, alert, service, downs, skewed, crashes>>

RaiseUpsert(p) ==
    /\ pc[p] = "upsert"
    /\ alert' = "open"
    /\ CheckDone(p)
    /\ UNCHANGED <<monitor, incidents, service, downs, skewed, crashes>>

(* Mutant: a degraded target does not end the incident's row.              *)
CloseIncident_Never == UNCHANGED incidents

CloseIncident == incidents' = 0

(* Mutant: the alert is left to the pause handler.                         *)
ResolveAlert_Never == UNCHANGED alert

ResolveAlert == alert' = IF alert = "open" THEN "resolved" ELSE alert

RecordClose(p) ==
    /\ pc[p] = "close" /\ p \in Checkers
    /\ CloseIncident
    /\ Goto(p, "resolve")
    /\ UNCHANGED <<monitor, alert, running, service, m, seen, history>>

RecordResolve(p) ==
    /\ pc[p] = "resolve" /\ p \in Checkers
    /\ ResolveAlert
    /\ CheckDone(p)
    /\ UNCHANGED <<monitor, incidents, service, downs, skewed, crashes>>

-----------------------------------------------------------------------------
(* PATCH: load the row, write it back with what the patch changes, and if  *)
(* the monitor is paused now, close the incident and resolve the alert.    *)
UserLoad ==
    /\ pc[User] = "idle" /\ exists
    /\ patch' = status
    /\ Goto(User, "write")
    /\ UNCHANGED <<exists, enabled, status, failCount, incidents, alert, running, service, m, seen, history>>

(* The checks that were given a row which is now another one.              *)
AtWork == {p \in Checkers : pc[p] # "idle"}

UserPause ==
    /\ pc[User] = "write"
    /\ enabled' = FALSE /\ status' = "paused" /\ patch' = "unknown"
    /\ overlap' = AtWork
    /\ Goto(User, "close")
    /\ UNCHANGED <<exists, failCount, incidents, alert, running, service, m, seen, downs, skewed, crashes>>

UserResume ==
    /\ pc[User] = "write"
    /\ enabled' = TRUE /\ patch' = "unknown"
    /\ status' = IF patch = "paused" THEN "unknown" ELSE patch
    /\ Goto(User, "idle")
    /\ UNCHANGED <<exists, failCount, incidents, alert, running, service, m, seen, history>>

(* DELETE: the incidents go with the monitor; the alert is resolved after. *)
UserDelete ==
    /\ pc[User] = "idle" /\ exists
    /\ exists' = FALSE /\ incidents' = 0
    /\ overlap' = AtWork
    /\ Goto(User, "resolve")
    /\ UNCHANGED <<enabled, status, failCount, patch, alert, running, service, m, seen, downs, skewed, crashes>>

UserClose ==
    /\ pc[User] = "close"
    /\ CloseIncident
    /\ Goto(User, "resolve")
    /\ UNCHANGED <<monitor, alert, running, service, m, seen, history>>

UserResolve ==
    /\ pc[User] = "resolve"
    /\ ResolveAlert
    /\ Goto(User, "idle")
    /\ UNCHANGED <<monitor, incidents, running, service, m, seen, history>>

(* The target changes.                                                     *)
ServiceChanges(s) ==
    /\ s # service
    /\ service' = s
    /\ UNCHANGED <<monitor, incidents, alert, running, pc, m, seen, history>>

(* The server dies and is started again: goroutines and s.running are      *)
(* gone, the rows stay.                                                    *)
Crash ==
    /\ crashes < MaxCrashes
    /\ crashes' = crashes + 1
    /\ running' = FALSE
    /\ pc' = [p \in Checkers \cup {User} |-> "idle"]
    /\ m' = [p \in Checkers \cup {User} |-> 0]
    /\ seen' = [p \in Checkers |-> "none"]
    /\ overlap' = {} /\ patch' = "unknown"
    /\ UNCHANGED <<exists, enabled, status, failCount, incidents, alert, service, downs, skewed>>

CheckStep(p) ==
    \/ CheckBegin(p) \/ CheckBusy(p) \/ Check(p) \/ RecordInsert(p) \/ RecordUpdate(p)
    \/ RecordExists(p) \/ RecordOpen(p) \/ RecordQuiet(p) \/ RaiseLookup(p) \/ RaiseUpsert(p) \/ RecordClose(p) \/ RecordResolve(p)

UserStep == UserPause \/ UserResume \/ UserClose \/ UserResolve

Next ==
    \/ \E p \in Checkers : Load(p) \/ CheckStep(p) \/ CheckCancelled(p) \/ RecordInsertFails(p)
    \/ UserLoad \/ UserDelete \/ UserStep
    \/ \E s \in Results : ServiceChanges(s)
    \/ Crash

(* The scheduler goes on checking an enabled monitor, checks have a 15 s   *)
(* timeout, and a handler that has started finishes.                       *)
Fairness ==
    /\ WF_vars(Load(Scheduler))
    /\ \A p \in Checkers : WF_vars(CheckStep(p))
    /\ SF_vars(RecordInsert(Scheduler))
    /\ WF_vars(UserStep)

Spec == Init /\ [][Next]_vars
FairSpec == Spec /\ Fairness

-----------------------------------------------------------------------------
(* Properties.                                                             *)

(* SELECT EXISTS and INSERT are two statements, yet a monitor never has    *)
(* two open incidents: s.running keeps its checks apart, also when the     *)
(* server is restarted between them.                                       *)
OneOpenIncident == incidents <= 1

(* "Consecutive failures before an alert fires": an incident is opened and *)
(* the alert raised only when the last Retries checks recorded "down",     *)
(* restarts included; the exception is a row whose fail_count a check has  *)
(* raised from a value that another check had changed in the meantime.     *)
AlertAfterRetries ==
    \A p \in Checkers : pc[p] \in {"open", "upsert"} => skewed \/ downs >= Retries

(* On a paused or deleted monitor an incident or an alert is opened only   *)
(* by a check that was given the row before the pause or the deletion, or  *)
(* by a later "check now": never by the scheduler of its own accord.       *)
PausedIsQuiet ==
    [][(~enabled \/ ~exists) /\ (incidents' > incidents \/ (alert' = "open" /\ alert # "open")) =>
          \E p \in overlap \cup Manual : pc[p] \in {"open", "upsert"}]_vars

(* The user is away.                                                       *)
OnlyScheduler == \A p \in Manual \cup {User} : pc[p] = "idle"

(* Once the target stays reachable, the monitor enabled and only the       *)
(* scheduler is left, the incident and its alert end for good, whatever a  *)
(* restart, a failing INSERT or a check given an old row left behind.      *)
RecoveryCloses ==
    <>[](service # "down" /\ exists /\ enabled /\ OnlyScheduler) =>
        <>[](incidents = 0 /\ alert # "open")

(* The rows of a monitor stay consistent with each other, across restarts  *)
(* and failing statements (Service.record).                                *)
IncidentsAreSound == TypeOK /\ OneOpenIncident
=============================================================================
