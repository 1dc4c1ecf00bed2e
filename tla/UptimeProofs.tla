---------------------------- MODULE UptimeProofs ----------------------------
(***************************************************************************)
(* Proofs about Uptime, for any number of "check now" requests, any        *)
(* settings.Uptime.Retries and any number of restarts.                     *)
(***************************************************************************)
EXTENDS Uptime, TLAPS

(* A check is between LoadOrStore and Delete on s.running.                 *)
Inside(p) == pc[p] \notin {"idle", "given"}

(* s.running keeps the checks apart, and each kind of actor is only where  *)
(* its code can be.                                                        *)
ChecksAreApart ==
    /\ \A p \in Checkers : pc[p] # "write" /\ (Inside(p) => running)
    /\ \A p, q \in Checkers : Inside(p) /\ Inside(q) => p = q
    /\ pc[User] \in {"idle", "write", "close", "resolve"}

(* A check about to INSERT an incident is right that there is none.        *)
OpensTheFirst == \A p \in Checkers : pc[p] = "open" => incidents = 0

(* A check records what it has found.                                      *)
RecordsAResult == \A p \in Checkers : pc[p] \in {"insert", "update"} => seen[p] \in Results

(* The inductive invariant behind IncidentsAreSound.                       *)
Inv == TypeOK /\ RecordsAResult /\ ChecksAreApart /\ OpensTheFirst /\ OneOpenIncident

(* No incident is open at first.                                           *)
LEMMA InitInv == Init => Inv
<1> SUFFICES ASSUME Init PROVE Inv
  OBVIOUS
<1>1. TypeOK
  BY DEF Init, TypeOK, Statuses
<1>2. ChecksAreApart
  BY DEF Init, ChecksAreApart, Inside
<1>3. RecordsAResult /\ OpensTheFirst /\ OneOpenIncident
  BY DEF Init, RecordsAResult, OpensTheFirst, OneOpenIncident
<1> QED
  BY <1>1, <1>2, <1>3 DEF Inv

(* The fail counts stay natural numbers.                                   *)
LEMMA CappedNat == \A n \in Nat : Capped(n) \in Nat /\ Capped(n) <= MaxFails
BY RetriesRange DEF Capped

(* Every step keeps at most one open incident of a monitor.                *)
LEMMA NextInv == Inv /\ [Next]_vars => Inv'
<1> SUFFICES ASSUME Inv, [Next]_vars PROVE Inv'
  OBVIOUS
<1>a. Scheduler \in Checkers /\ Manual \subseteq Checkers /\ User \notin Checkers
  BY Actors DEF Checkers
<1>b. Results \subseteq Statuses /\ {"unknown", "paused"} \subseteq Statuses
  BY DEF Statuses
<1> USE <1>a, <1>b DEF Inv, TypeOK, RecordsAResult, ChecksAreApart, Inside, OpensTheFirst, OneOpenIncident, monitor, history,
        Goto, CheckDone
<1>1. ASSUME NEW p \in Checkers, Load(p) PROVE Inv'
  BY <1>1 DEF Load
<1>2. ASSUME NEW p \in Checkers, CheckBegin(p) PROVE Inv'
  BY <1>2 DEF CheckBegin, MayCheck
<1>3. ASSUME NEW p \in Checkers, CheckBusy(p) PROVE Inv'
  BY <1>3 DEF CheckBusy
<1>4. ASSUME NEW p \in Checkers, Check(p) PROVE Inv'
  BY <1>4 DEF Check
<1>5. ASSUME NEW p \in Checkers, CheckCancelled(p) PROVE Inv'
  BY <1>5 DEF CheckCancelled
<1>6. ASSUME NEW p \in Checkers, RecordInsert(p) PROVE Inv'
  BY <1>6 DEF RecordInsert
<1>7. ASSUME NEW p \in Checkers, RecordInsertFails(p) PROVE Inv'
  BY <1>7 DEF RecordInsertFails
<1>8. ASSUME NEW p \in Checkers, RecordUpdate(p) PROVE Inv'
  <2>1. Fails(p) \in Nat /\ Capped(downs + 1) \in Nat
    BY CappedNat DEF Fails
  <2>2. seen[p] \in Statuses
    BY <1>8 DEF RecordUpdate
  <2>3. (status \in Statuses /\ failCount \in Nat /\ downs \in Nat /\ skewed \in BOOLEAN)'
    BY <1>8, <2>1, <2>2 DEF RecordUpdate, Verdict
  <2>4. pc[p] = "update" /\ UNCHANGED <<exists, enabled, patch, incidents, alert, service, crashes>>
    BY <1>8 DEF RecordUpdate
  <2>5. ASSUME Goto(p, "exists") \/ Goto(p, "close"), UNCHANGED <<running, m, seen, overlap>> PROVE Inv'
    BY <1>8, <2>3, <2>4, <2>5 DEF RecordUpdate
  <2>6. ASSUME CheckDone(p) PROVE Inv'
    BY <2>3, <2>4, <2>6
  <2> QED
    BY <1>8, <2>5, <2>6 DEF RecordUpdate
<1>9. ASSUME NEW p \in Checkers, RecordExists(p) PROVE Inv'
  BY <1>9 DEF RecordExists
<1>10. ASSUME NEW p \in Checkers, RecordOpen(p) PROVE Inv'
  BY <1>10 DEF RecordOpen
<1>11. ASSUME NEW p \in Checkers, RecordQuiet(p) PROVE Inv'
  BY <1>11 DEF RecordQuiet
<1>12. ASSUME NEW p \in Checkers, RaiseLookup(p) PROVE Inv'
  <2>1. CASE alert = "open" /\ CheckDone(p)
    BY <1>12, <2>1 DEF RaiseLookup
  <2>2. CASE alert # "open" /\ Goto(p, "upsert") /\ UNCHANGED <<running, m, seen, overlap>>
    BY <1>12, <2>2 DEF RaiseLookup
  <2> QED
    BY <1>12, <2>1, <2>2 DEF RaiseLookup
<1>13. ASSUME NEW p \in Checkers, RaiseUpsert(p) PROVE Inv'
  BY <1>13 DEF RaiseUpsert
<1>14. ASSUME NEW p \in Checkers, RecordClose(p) PROVE Inv'
  BY <1>14 DEF RecordClose, CloseIncident
<1>15. ASSUME NEW p \in Checkers, RecordResolve(p) PROVE Inv'
  BY <1>15 DEF RecordResolve, ResolveAlert
<1>16. CASE UserLoad
  BY <1>16 DEF UserLoad
<1>17. CASE UserPause
  BY <1>17 DEF UserPause, AtWork
<1>18. CASE UserResume
  BY <1>18 DEF UserResume
<1>19. CASE UserDelete
  <2>1. TypeOK'
    BY <1>19 DEF UserDelete, AtWork
  <2>2. ChecksAreApart'
    BY <1>19 DEF UserDelete, AtWork
  <2>3. RecordsAResult' /\ OpensTheFirst' /\ OneOpenIncident'
    BY <1>19 DEF UserDelete, AtWork
  <2> QED
    BY <2>1, <2>2, <2>3
<1>20. CASE UserClose
  BY <1>20 DEF UserClose, CloseIncident
<1>21. CASE UserResolve
  BY <1>21 DEF UserResolve, ResolveAlert
<1>22. CASE Crash
  <2>1. (pc \in [Checkers \cup {User} -> {"idle", "given", "check", "insert", "update", "exists",
                "open", "raise", "upsert", "close", "resolve", "write"}])'
    BY <1>22 DEF Crash
  <2>2. (m \in [Checkers \cup {User} -> Nat] /\ seen \in [Checkers -> Results \cup {"none"}])'
    BY <1>22 DEF Crash
  <2>3. running' = FALSE /\ patch' \in Statuses /\ crashes' \in Nat
    BY <1>22 DEF Crash
  <2>a. overlap' \subseteq Checkers
    BY <1>22 DEF Crash
  <2>4. UNCHANGED <<exists, enabled, status, failCount, incidents, alert, service, downs, skewed>>
    BY <1>22 DEF Crash
  <2>5. TypeOK'
    BY <2>1, <2>2, <2>3, <2>a, <2>4
  <2>6. ChecksAreApart'
    BY <1>22 DEF Crash
  <2>7. RecordsAResult' /\ OpensTheFirst' /\ OneOpenIncident'
    BY <1>22 DEF Crash
  <2> QED
    BY <2>5, <2>6, <2>7
<1>23. CASE UNCHANGED vars
  BY <1>23 DEF vars
<1>24. ASSUME NEW s \in Results, ServiceChanges(s) PROVE Inv'
  BY <1>24 DEF ServiceChanges
<1> QED
  BY <1>1, <1>2, <1>3, <1>4, <1>5, <1>6, <1>7, <1>8, <1>9, <1>10, <1>11, <1>12,
     <1>13, <1>14, <1>15, <1>16, <1>17, <1>18, <1>19, <1>20, <1>21, <1>22, <1>23, <1>24
     DEF Next, CheckStep, UserStep

(* The rows of a monitor stay consistent with each other, across restarts  *)
(* and failing statements: SELECT EXISTS and INSERT never make a second    *)
(* open incident (Service.record, CheckOne).                               *)
THEOREM IncidentsSound == Spec => []IncidentsAreSound
<1>1. Inv => IncidentsAreSound
  BY DEF Inv, IncidentsAreSound
<1> QED
  BY InitInv, NextInv, <1>1, PTL DEF Spec

-----------------------------------------------------------------------------
(* The fail count of the row is never ahead of the failures in a row,      *)
(* unless it was raised from an old value.  A deleted monitor has no row:  *)
(* there it matters only to a check that is about to UPDATE.               *)
CountIsEarned ==
    /\ downs <= MaxFails
    /\ exists \/ (\E p \in Checkers : pc[p] = "update") => skewed \/ failCount <= downs

(* Past the threshold test, a check still has the failures behind it.      *)
AlarmIsEarned ==
    \A p \in Checkers : pc[p] \in {"exists", "open", "raise", "upsert"} => skewed \/ downs >= Retries

RetryInv == Inv /\ CountIsEarned /\ AlarmIsEarned

(* No check has failed at first.                                           *)
LEMMA InitRetryInv == Init => RetryInv
BY InitInv, RetriesRange DEF Init, RetryInv, CountIsEarned, AlarmIsEarned

(* Every step keeps the count of failures behind an alert.                 *)
LEMMA NextRetryInv == RetryInv /\ [Next]_vars => RetryInv'
<1> SUFFICES ASSUME RetryInv, [Next]_vars PROVE RetryInv'
  OBVIOUS
<1>0. Inv'
  BY NextInv DEF RetryInv
<1> USE <1>0, RetriesRange DEF RetryInv, Inv, TypeOK, ChecksAreApart, Inside, CountIsEarned, AlarmIsEarned, monitor, history, Goto,
        CheckDone
<1>1. ASSUME NEW p \in Checkers, Load(p) PROVE RetryInv'
  BY <1>1 DEF Load, Listed
<1>2. ASSUME NEW p \in Checkers, CheckBegin(p) PROVE RetryInv'
  BY <1>2 DEF CheckBegin
<1>3. ASSUME NEW p \in Checkers, CheckBusy(p) PROVE RetryInv'
  BY <1>3 DEF CheckBusy
<1>4. ASSUME NEW p \in Checkers, Check(p) PROVE RetryInv'
  BY <1>4 DEF Check
<1>5. ASSUME NEW p \in Checkers, CheckCancelled(p) PROVE RetryInv'
  BY <1>5 DEF CheckCancelled
<1>6. ASSUME NEW p \in Checkers, RecordInsert(p) PROVE RetryInv'
  BY <1>6 DEF RecordInsert
<1>7. ASSUME NEW p \in Checkers, RecordInsertFails(p) PROVE RetryInv'
  BY <1>7 DEF RecordInsertFails
<1>8. ASSUME NEW p \in Checkers, RecordUpdate(p) PROVE RetryInv'
  <2>1. pc[p] = "update" /\ (skewed \/ failCount <= downs) /\ downs <= MaxFails
    BY <1>8 DEF RecordUpdate
  <2>2. \A q \in Checkers : q # p => pc'[q] = pc[q] /\ pc[q] \in {"idle", "given"}
    BY <1>8, <2>1 DEF RecordUpdate
  <2>3. CASE seen[p] = "down"
    <3>1. downs' <= MaxFails /\ downs' >= downs
          /\ (skewed' \/ (~skewed /\ m[p] = failCount /\ Capped(m[p] + 1) <= downs'))
      BY <1>8, <2>1, <2>3 DEF RecordUpdate, Capped
    <3>2. pc'[p] = "exists" => Capped(m[p] + 1) >= Retries
      BY <1>8, <2>3 DEF RecordUpdate, Fails, Reached
    <3>3. pc'[p] \in {"exists", "idle"}
      BY <1>8, <2>3 DEF RecordUpdate
    <3>4. Capped(m[p] + 1) \in Nat /\ downs' \in Nat
      BY <1>0, CappedNat
    <3>5. skewed' \/ failCount' <= downs'
      BY <1>8, <2>1, <2>3, <3>1, <3>4 DEF RecordUpdate, Fails
    <3> QED
      BY <1>8, <2>2, <3>1, <3>2, <3>3, <3>4, <3>5
  <2>4. CASE seen[p] # "down"
    BY <1>8, <2>1, <2>2, <2>4 DEF RecordUpdate, Fails
  <2> QED
    BY <2>3, <2>4
<1>9. ASSUME NEW p \in Checkers, RecordExists(p) PROVE RetryInv'
  BY <1>9 DEF RecordExists
<1>10. ASSUME NEW p \in Checkers, RecordOpen(p) PROVE RetryInv'
  BY <1>10 DEF RecordOpen
<1>11. ASSUME NEW p \in Checkers, RecordQuiet(p) PROVE RetryInv'
  BY <1>11 DEF RecordQuiet
<1>12. ASSUME NEW p \in Checkers, RaiseLookup(p) PROVE RetryInv'
  BY <1>12 DEF RaiseLookup
<1>13. ASSUME NEW p \in Checkers, RaiseUpsert(p) PROVE RetryInv'
  BY <1>13 DEF RaiseUpsert
<1>14. ASSUME NEW p \in Checkers, RecordClose(p) PROVE RetryInv'
  BY <1>14 DEF RecordClose
<1>15. ASSUME NEW p \in Checkers, RecordResolve(p) PROVE RetryInv'
  BY <1>15 DEF RecordResolve
<1>16. CASE UserLoad
  BY <1>16 DEF UserLoad
<1>17. CASE UserPause
  BY <1>17 DEF UserPause, AtWork
<1>18. CASE UserResume
  BY <1>18 DEF UserResume
<1>19. CASE UserDelete
  BY <1>19 DEF UserDelete, AtWork
<1>20. CASE UserClose
  BY <1>20 DEF UserClose
<1>21. CASE UserResolve
  BY <1>21 DEF UserResolve
<1>22. CASE Crash
  BY <1>22 DEF Crash
<1>23. CASE UNCHANGED vars
  BY <1>23 DEF vars
<1>24. ASSUME NEW s \in Results, ServiceChanges(s) PROVE RetryInv'
  BY <1>24 DEF ServiceChanges
<1> QED
  BY <1>1, <1>2, <1>3, <1>4, <1>5, <1>6, <1>7, <1>8, <1>9, <1>10, <1>11, <1>12,
     <1>13, <1>14, <1>15, <1>16, <1>17, <1>18, <1>19, <1>20, <1>21, <1>22, <1>23, <1>24
     DEF Next, CheckStep, UserStep

(* An incident is opened and the alert raised only when the last Retries   *)
(* checks recorded "down", restarts included, unless fail_count was raised *)
(* from a value out of date (Service.record).                              *)
THEOREM AlertsAfterRetries == Spec => []AlertAfterRetries
<1>1. RetryInv => AlertAfterRetries
  BY DEF RetryInv, AlarmIsEarned, AlertAfterRetries
<1> QED
  BY InitRetryInv, NextRetryInv, <1>1, PTL DEF Spec

-----------------------------------------------------------------------------
(* The scheduler works on a paused or deleted monitor only when it was     *)
(* given the row before.                                                   *)
SchedulerOverlaps ==
    (~enabled \/ ~exists) /\ pc[Scheduler] # "idle" => Scheduler \in overlap

PauseInv == Inv /\ SchedulerOverlaps

(* The scheduler is idle at first.                                            *)
LEMMA InitPauseInv == Init => PauseInv
BY InitInv DEF Init, PauseInv, SchedulerOverlaps, Checkers

(* Every step keeps the scheduler off a paused monitor.                   *)
LEMMA NextPauseInv == PauseInv /\ [Next]_vars => PauseInv'
<1> SUFFICES ASSUME PauseInv, [Next]_vars PROVE PauseInv'
  OBVIOUS
<1>0. Inv' /\ Scheduler \in Checkers /\ User \notin Checkers
  BY NextInv, Actors DEF PauseInv, Checkers
<1> USE <1>0 DEF PauseInv, Inv, TypeOK, ChecksAreApart, SchedulerOverlaps, monitor, history, Goto, CheckDone
<1>1. ASSUME NEW p \in Checkers, Load(p) PROVE PauseInv'
  BY <1>1 DEF Load, Listed
<1>2. ASSUME NEW p \in Checkers, CheckBegin(p) PROVE PauseInv'
  BY <1>2 DEF CheckBegin
<1>3. ASSUME NEW p \in Checkers, CheckBusy(p) PROVE PauseInv'
  BY <1>3 DEF CheckBusy
<1>4. ASSUME NEW p \in Checkers, Check(p) PROVE PauseInv'
  BY <1>4 DEF Check
<1>5. ASSUME NEW p \in Checkers, CheckCancelled(p) PROVE PauseInv'
  BY <1>5 DEF CheckCancelled
<1>6. ASSUME NEW p \in Checkers, RecordInsert(p) PROVE PauseInv'
  BY <1>6 DEF RecordInsert
<1>7. ASSUME NEW p \in Checkers, RecordInsertFails(p) PROVE PauseInv'
  BY <1>7 DEF RecordInsertFails
<1>8. ASSUME NEW p \in Checkers, RecordUpdate(p) PROVE PauseInv'
  BY <1>8 DEF RecordUpdate
<1>9. ASSUME NEW p \in Checkers, RecordExists(p) PROVE PauseInv'
  BY <1>9 DEF RecordExists
<1>10. ASSUME NEW p \in Checkers, RecordOpen(p) PROVE PauseInv'
  BY <1>10 DEF RecordOpen
<1>11. ASSUME NEW p \in Checkers, RecordQuiet(p) PROVE PauseInv'
  BY <1>11 DEF RecordQuiet
<1>12. ASSUME NEW p \in Checkers, RaiseLookup(p) PROVE PauseInv'
  BY <1>12 DEF RaiseLookup
<1>13. ASSUME NEW p \in Checkers, RaiseUpsert(p) PROVE PauseInv'
  BY <1>13 DEF RaiseUpsert
<1>14. ASSUME NEW p \in Checkers, RecordClose(p) PROVE PauseInv'
  BY <1>14 DEF RecordClose
<1>15. ASSUME NEW p \in Checkers, RecordResolve(p) PROVE PauseInv'
  BY <1>15 DEF RecordResolve
<1>16. CASE UserLoad
  BY <1>16 DEF UserLoad
<1>17. CASE UserPause
  BY <1>17 DEF UserPause, AtWork
<1>18. CASE UserResume
  BY <1>18 DEF UserResume
<1>19. CASE UserDelete
  BY <1>19 DEF UserDelete, AtWork
<1>20. CASE UserClose
  BY <1>20 DEF UserClose
<1>21. CASE UserResolve
  BY <1>21 DEF UserResolve
<1>22. CASE Crash
  BY <1>22 DEF Crash
<1>23. CASE UNCHANGED vars
  BY <1>23 DEF vars
<1>24. ASSUME NEW s \in Results, ServiceChanges(s) PROVE PauseInv'
  BY <1>24 DEF ServiceChanges
<1> QED
  BY <1>1, <1>2, <1>3, <1>4, <1>5, <1>6, <1>7, <1>8, <1>9, <1>10, <1>11, <1>12,
     <1>13, <1>14, <1>15, <1>16, <1>17, <1>18, <1>19, <1>20, <1>21, <1>22, <1>23, <1>24
     DEF Next, CheckStep, UserStep

(* On a paused or deleted monitor an incident or an alert is opened only   *)
(* by a check given the row before, or by a later "check now": never by    *)
(* the scheduler of its own accord (checkAll, CheckOne, updateMonitor).    *)
THEOREM PausedStaysQuiet == Spec => PausedIsQuiet
<1>1. PauseInv /\ [Next]_vars =>
        [(~enabled \/ ~exists) /\ (incidents' > incidents \/ (alert' = "open" /\ alert # "open")) =>
            \E p \in overlap \cup Manual : pc[p] \in {"open", "upsert"}]_vars
  <2> SUFFICES ASSUME PauseInv, Next, ~enabled \/ ~exists,
                      incidents' > incidents \/ (alert' = "open" /\ alert # "open")
               PROVE  \E p \in overlap \cup Manual : pc[p] \in {"open", "upsert"}
    OBVIOUS
  <2>1. \E p \in Checkers : RecordOpen(p) \/ RaiseUpsert(p)
    BY DEF PauseInv, Inv, TypeOK, Next, CheckStep, UserStep, Load, CheckBegin, CheckBusy, Check, CheckCancelled, RecordInsert,
           RecordInsertFails, RecordUpdate, RecordExists, RecordOpen, RecordQuiet, RaiseLookup, RaiseUpsert,
           RecordClose, RecordResolve, UserLoad, UserPause, UserResume, UserDelete, UserClose, UserResolve,
           ServiceChanges, Crash, CloseIncident, ResolveAlert, monitor
  <2>2. PICK p \in Checkers : pc[p] \in {"open", "upsert"}
    BY <2>1 DEF RecordOpen, RaiseUpsert
  <2>3. p \in overlap \cup Manual
    BY <2>2 DEF PauseInv, SchedulerOverlaps, Checkers
  <2> QED
    BY <2>2, <2>3
<1> QED
  BY InitPauseInv, NextPauseInv, <1>1, PTL DEF Spec, PausedIsQuiet

=============================================================================
