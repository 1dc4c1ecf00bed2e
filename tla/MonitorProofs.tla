---------------------------- MODULE MonitorProofs ---------------------------
(***************************************************************************)
(* Proofs about the two halves of server/internal/monitor: HostDown, for   *)
(* any set of API polls, any number of retries, restarts and failing       *)
(* statements, and EventStreams, for any set of streams.                   *)
(***************************************************************************)
EXTENDS HostDown, EventStreams, FiniteSetTheorems, TLAPS

-----------------------------------------------------------------------------
(* HostDown.                                                               *)

(* Where a poll can be.                                                    *)
PCs == {"idle", "test", "poll", "success", "resolve", "failure", "mark", "raise", "upsert"}

(* Both rows a poll can read are rows.                                     *)
LEMMA RowTypes == TypeOK => Row \in Copies /\ Blank \in Copies
BY DEF TypeOK, Row, Copies, Blank

(* The two ways a statement of poll leaves its locals.                     *)
LEMMA DoneType ==
    ASSUME TypeOK, NEW p \in Polls, Done(p)
    PROVE  (polling \in BOOLEAN /\ pc \in [Polls -> PCs] /\ row \in [Polls -> Copies])'
BY RowTypes DEF TypeOK, Done, Goto, PCs

(* A statement of poll that goes on keeps the types.                       *)
LEMMA ContinueType ==
    ASSUME TypeOK, NEW p \in Polls, NEW s \in PCs, Continue(p, s)
    PROVE  (polling \in BOOLEAN /\ pc \in [Polls -> PCs] /\ row \in [Polls -> Copies])'
BY DEF TypeOK, Continue, Goto, PCs

(* The types at first.                                                     *)
LEMMA InitType == Init => TypeOK
<1> SUFFICES ASSUME Init PROVE TypeOK
  OBVIOUS
<1>1. pc \in [Polls -> PCs] /\ row \in [Polls -> Copies]
  BY DEF Init, PCs, Copies, Blank
<1>2. failCount \in 0..Retries
  BY RetriesRange DEF Init
<1>3. list \subseteq Copies /\ met \subseteq Extra
  BY DEF Init
<1> QED
  BY <1>1, <1>2, <1>3 DEF Init, TypeOK, PCs

(* The types after every step.                                             *)
LEMMA NextType == TypeOK /\ [Next]_vars => TypeOK'
<1> SUFFICES ASSUME TypeOK, [Next]_vars PROVE TypeOK'
  OBVIOUS
<1>a. Ticker \in Polls /\ Extra \subseteq Polls
  BY DEF Polls
<1> USE <1>a, RowTypes, RetriesRange DEF TypeOK, host, mail, Goto, Continue, Done, Sql
<1>1. CASE List
  BY <1>1 DEF List
<1>2. CASE Tick
  BY <1>2 DEF Tick
<1>3. CASE PatchMonitored
  BY <1>3 DEF PatchMonitored
<1>4. CASE HostChanges
  BY <1>4 DEF HostChanges
<1>5. CASE Crash
  <2>1. (pc \in [Polls -> PCs] /\ row \in [Polls -> Copies])'
    BY <1>5 DEF Crash, PCs
  <2>2. list' \subseteq Copies
    BY <1>5 DEF Crash
  <2>3. polling' = FALSE /\ wasOffline' = FALSE /\ crashes' \in Nat
    BY <1>5 DEF Crash
  <2>4. UNCHANGED <<reachable, host, monitored, mail, met, errors>>
    BY <1>5 DEF Crash
  <2> QED
    BY <2>1, <2>2, <2>3, <2>4 DEF PCs
<1>6. CASE UNCHANGED vars
  BY <1>6 DEF vars
<1>7. ASSUME NEW p \in Extra, PatchPolls(p) PROVE TypeOK'
  BY <1>7 DEF PatchPolls
<1>8. ASSUME NEW p \in Extra, TestRecords(p) PROVE TypeOK'
  BY <1>8 DEF TestRecords
<1>9. ASSUME NEW p \in Extra, TestPolls(p) PROVE TypeOK'
  BY <1>9 DEF TestPolls
<1>10. ASSUME NEW p \in Polls, PollOK(p) PROVE TypeOK'
  <2>1. Recovered(p) \in BOOLEAN
    BY DEF Recovered, Copies
  <2>2. [row[p] EXCEPT !.offline = Recovered(p)] \in Copies
    BY <2>1 DEF Copies
  <2>3. row' \in [Polls -> Copies]
    BY <1>10, <2>2 DEF PollOK
  <2> QED
    BY <1>10, <2>3 DEF PollOK
<1>11. ASSUME NEW p \in Polls, PollFails(p) PROVE TypeOK'
  BY <1>11 DEF PollFails
<1>12. ASSUME NEW p \in Polls, Mark(p) PROVE TypeOK'
  BY <1>12 DEF Mark, First
<1>13. ASSUME NEW p \in Polls, NEW ok \in BOOLEAN, RecordSuccess(p, ok) PROVE TypeOK'
  <2>1. (polling \in BOOLEAN /\ pc \in [Polls -> PCs] /\ row \in [Polls -> Copies])'
    BY <1>13, DoneType, ContinueType DEF RecordSuccess, PCs
  <2>2. status' \in {"online", status} /\ failCount' \in {0, failCount} /\ errors' \in Nat
    BY <1>13 DEF RecordSuccess
  <2> QED
    BY <1>13, <2>1, <2>2 DEF RecordSuccess, PCs
<1>14. ASSUME NEW p \in Polls, NEW ok \in BOOLEAN, Resolve(p, ok) PROVE TypeOK'
  BY <1>14 DEF Resolve
<1>15. ASSUME NEW p \in Polls, NEW ok \in BOOLEAN, RecordFailure(p, ok) PROVE TypeOK'
  <2>1. (polling \in BOOLEAN /\ pc \in [Polls -> PCs] /\ row \in [Polls -> Copies])'
    BY <1>15, DoneType, ContinueType DEF RecordFailure, PCs
  <2>2. status' \in {"offline", status} /\ failCount' \in 0..Retries /\ errors' \in Nat
    BY <1>15 DEF RecordFailure, AfterFailure
  <2> QED
    BY <1>15, <2>1, <2>2 DEF RecordFailure, PCs
<1>16. ASSUME NEW p \in Polls, NEW ok \in BOOLEAN, RaiseLookup(p, ok) PROVE TypeOK'
  <2>1. (polling \in BOOLEAN /\ pc \in [Polls -> PCs] /\ row \in [Polls -> Copies])'
    BY <1>16, DoneType, ContinueType DEF RaiseLookup, PCs
  <2>2. errors' \in Nat
    BY <1>16 DEF RaiseLookup
  <2> QED
    BY <1>16, <2>1, <2>2 DEF RaiseLookup, PCs
<1>17. ASSUME NEW p \in Polls, NEW ok \in BOOLEAN, RaiseUpsert(p, ok) PROVE TypeOK'
  BY <1>17 DEF RaiseUpsert
<1> QED
  BY <1>1, <1>2, <1>3, <1>4, <1>5, <1>6, <1>7, <1>8, <1>9, <1>10, <1>11, <1>12, <1>13, <1>14, <1>15, <1>16, <1>17
     DEF Next, PollStep, Statement

-----------------------------------------------------------------------------
(* The polls between the SELECT and the UPSERT of Raise.                   *)
Upserting == {p \in Polls : pc[p] = "upsert"}

(* The argument: a poll passes the SELECT only while the alert is closed,  *)
(* when nothing has been sent; all that can be sent before it closes again *)
(* is then one notification for each poll already past the SELECT, and     *)
(* only the loop's poll and polls of the API that ran are.                 *)
AlertInv ==
    /\ TypeOK
    /\ IsFiniteSet(met)
    /\ \A p \in Extra : pc[p] # "idle" => p \in met
    /\ alert # "open" => sent = 0
    /\ sent + Cardinality(Upserting) <= 1 + Cardinality(met)

(* No more polls are past the SELECT than the loop's and those that ran.   *)
LEMMA UpsertingFinite ==
    ASSUME IsFiniteSet(met), \A p \in Extra : pc[p] # "idle" => p \in met
    PROVE  /\ IsFiniteSet(Upserting) /\ Cardinality(Upserting) \in Nat
           /\ Cardinality(Upserting) <= 1 + Cardinality(met) /\ Cardinality(met) \in Nat
<1>1. IsFiniteSet(met \cup {Ticker}) /\ Cardinality(met \cup {Ticker}) <= 1 + Cardinality(met) /\ Cardinality(met) \in Nat
  BY FS_AddElement, FS_CardinalityType
<1>2. Upserting \subseteq met \cup {Ticker}
  BY DEF Upserting, Polls
<1>3. IsFiniteSet(Upserting) /\ Cardinality(Upserting) <= Cardinality(met \cup {Ticker})
  BY <1>1, <1>2, FS_Subset
<1> QED
  BY <1>1, <1>3, FS_CardinalityType

(* The same of the next state.                                             *)
LEMMA UpsertingAfter ==
    ASSUME IsFiniteSet(met'), \A p \in Extra : pc'[p] # "idle" => p \in met'
    PROVE  /\ Cardinality(Upserting') \in Nat
           /\ Cardinality(Upserting') <= 1 + Cardinality(met')
<1>1. IsFiniteSet(met' \cup {Ticker}) /\ Cardinality(met' \cup {Ticker}) <= 1 + Cardinality(met') /\ Cardinality(met') \in Nat
  BY FS_AddElement, FS_CardinalityType
<1>2. Upserting' \subseteq met' \cup {Ticker}
  BY DEF Upserting, Polls
<1>3. IsFiniteSet(Upserting') /\ Cardinality(Upserting') <= Cardinality(met' \cup {Ticker})
  BY <1>1, <1>2, FS_Subset
<1> QED
  BY <1>1, <1>3, FS_CardinalityType

(* No outage has been seen at first.                                       *)
LEMMA InitAlertInv == Init => AlertInv
<1> SUFFICES ASSUME Init PROVE AlertInv
  OBVIOUS
<1>1. IsFiniteSet(met) /\ \A p \in Extra : pc[p] # "idle" => p \in met
  BY FS_EmptySet DEF Init, Polls
<1> QED
  BY <1>1, InitType, UpsertingFinite DEF Init, AlertInv

(* A step that leaves the alert alone and lets no poll past the SELECT.    *)
LEMMA QuietStep ==
    ASSUME AlertInv, TypeOK', UNCHANGED mail, met \subseteq met', IsFiniteSet(met'),
           \A p \in Extra : pc'[p] # "idle" => p \in met', Upserting' \subseteq Upserting
    PROVE  AlertInv'
<1>1. IsFiniteSet(Upserting) /\ Cardinality(Upserting) \in Nat
  BY UpsertingFinite DEF AlertInv
<1>2. Cardinality(Upserting') <= Cardinality(Upserting) /\ Cardinality(Upserting') \in Nat
  BY <1>1, FS_Subset, FS_CardinalityType
<1>3. Cardinality(met) <= Cardinality(met') /\ Cardinality(met) \in Nat /\ Cardinality(met') \in Nat
  BY FS_Subset, FS_CardinalityType DEF AlertInv
<1>4. sent + Cardinality(Upserting') <= 1 + Cardinality(met')
  BY <1>1, <1>2, <1>3 DEF AlertInv, TypeOK
<1> QED
  BY <1>4 DEF AlertInv, mail

(* Every step keeps the alerts sound.                                      *)
LEMMA NextAlertInv == AlertInv /\ [Next]_vars => AlertInv'
<1> SUFFICES ASSUME AlertInv, [Next]_vars PROVE AlertInv'
  OBVIOUS
<1>a. TypeOK /\ TypeOK' /\ IsFiniteSet(met) /\ (\A p \in Extra : pc[p] # "idle" => p \in met)
  BY NextType DEF AlertInv
<1>b. Ticker \in Polls /\ Extra \subseteq Polls /\ Ticker \notin Extra
  BY Pollers DEF Polls
<1>c. pc \in [Polls -> PCs]
  BY <1>a DEF TypeOK, PCs
<1> USE <1>a, <1>b, <1>c, QuietStep DEF host, mail, Goto, Continue, Done, Upserting
<1>1. CASE List
  BY <1>1 DEF List
<1>2. CASE Tick
  BY <1>2 DEF Tick
<1>3. CASE PatchMonitored
  BY <1>3 DEF PatchMonitored
<1>4. CASE HostChanges
  BY <1>4 DEF HostChanges
<1>5. CASE Crash
  BY <1>5 DEF Crash
<1>6. CASE UNCHANGED vars
  BY <1>6 DEF vars
<1>7. ASSUME NEW p \in Extra, PatchPolls(p) PROVE AlertInv'
  <2>1. IsFiniteSet(met')
    BY <1>7, FS_AddElement DEF PatchPolls
  <2> QED
    BY <1>7, <2>1 DEF PatchPolls
<1>8. ASSUME NEW p \in Extra, TestRecords(p) PROVE AlertInv'
  <2>1. IsFiniteSet(met')
    BY <1>8, FS_AddElement DEF TestRecords
  <2> QED
    BY <1>8, <2>1 DEF TestRecords
<1>9. ASSUME NEW p \in Extra, TestPolls(p) PROVE AlertInv'
  BY <1>9 DEF TestPolls
<1>10. ASSUME NEW p \in Polls, PollOK(p) PROVE AlertInv'
  BY <1>10 DEF PollOK, Recovered
<1>11. ASSUME NEW p \in Polls, PollFails(p) PROVE AlertInv'
  BY <1>11 DEF PollFails
<1>12. ASSUME NEW p \in Polls, Mark(p) PROVE AlertInv'
  BY <1>12 DEF Mark, First
<1>13. ASSUME NEW p \in Polls, NEW ok \in BOOLEAN, RecordSuccess(p, ok) PROVE AlertInv'
  BY <1>13 DEF RecordSuccess
<1>14. ASSUME NEW p \in Polls, NEW ok \in BOOLEAN, Resolve(p, ok) PROVE AlertInv'
  <2>1. met' = met /\ (\A q \in Extra : pc'[q] # "idle" => q \in met')
    BY <1>14 DEF Resolve
  <2>2. CASE ok /\ alert = "open"
    <3>1. sent' = 0 /\ Cardinality(Upserting') \in Nat /\ Cardinality(Upserting') <= 1 + Cardinality(met')
      BY <1>14, <2>1, <2>2, UpsertingAfter DEF Resolve
    <3>2. sent' + Cardinality(Upserting') <= 1 + Cardinality(met')
      BY <3>1
    <3> QED
      BY <2>1, <3>1, <3>2 DEF AlertInv
  <2>3. CASE ~(ok /\ alert = "open")
    BY <1>14, <2>3 DEF Resolve
  <2> QED
    BY <2>2, <2>3
<1>15. ASSUME NEW p \in Polls, NEW ok \in BOOLEAN, RecordFailure(p, ok) PROVE AlertInv'
  BY <1>15 DEF RecordFailure, AfterFailure
<1>16. ASSUME NEW p \in Polls, NEW ok \in BOOLEAN, RaiseLookup(p, ok) PROVE AlertInv'
  <2>1. met' = met /\ (\A q \in Extra : pc'[q] # "idle" => q \in met')
    BY <1>16 DEF RaiseLookup, AlertInv
  <2>2. CASE ok /\ ~WasOpen
    <3>1. sent' = 0 /\ alert' # "open"
      BY <1>16, <2>2 DEF RaiseLookup, WasOpen, AlertInv
    <3>2. Cardinality(Upserting') \in Nat /\ Cardinality(Upserting') <= 1 + Cardinality(met')
      BY <2>1, UpsertingAfter
    <3>3. sent' + Cardinality(Upserting') <= 1 + Cardinality(met')
      BY <3>1, <3>2
    <3> QED
      BY <2>1, <3>1, <3>3 DEF AlertInv
  <2>3. CASE ~(ok /\ ~WasOpen)
    BY <1>16, <2>3 DEF RaiseLookup
  <2> QED
    BY <2>2, <2>3
<1>17. ASSUME NEW p \in Polls, NEW ok \in BOOLEAN, RaiseUpsert(p, ok) PROVE AlertInv'
  <2>1. met' = met /\ (\A q \in Extra : pc'[q] # "idle" => q \in met') /\ p \in Upserting
    BY <1>17 DEF RaiseUpsert, AlertInv
  <2>2. Upserting' = Upserting \ {p}
    BY <1>17 DEF RaiseUpsert
  <2>3. CASE ok
    <3>1. Cardinality(Upserting') = Cardinality(Upserting) - 1
      BY <2>1, <2>2, UpsertingFinite, FS_RemoveElement
    <3>2. sent' = sent + 1 /\ alert' = "open"
      BY <1>17, <2>3 DEF RaiseUpsert
    <3>3. sent' + Cardinality(Upserting') <= 1 + Cardinality(met')
      <4>1. sent \in Nat /\ Cardinality(Upserting) \in Nat /\ Cardinality(met) \in Nat
            /\ sent + Cardinality(Upserting) <= 1 + Cardinality(met)
        BY UpsertingFinite DEF AlertInv, TypeOK
      <4> QED
        BY <2>1, <3>1, <3>2, <4>1
    <3> QED
      BY <2>1, <3>2, <3>3 DEF AlertInv
  <2>4. CASE ~ok
    BY <1>17, <2>2, <2>4 DEF RaiseUpsert
  <2> QED
    BY <2>3, <2>4
<1> QED
  BY <1>1, <1>2, <1>3, <1>4, <1>5, <1>6, <1>7, <1>8, <1>9, <1>10, <1>11, <1>12, <1>13, <1>14, <1>15, <1>16, <1>17
     DEF Next, PollStep, Statement

(* One outage notifies at most once for the loop's poll and once for each  *)
(* API poll that ever ran, whatever restarts and failing statements do to  *)
(* the SELECT and the UPSERT of Raise; type correctness is part of it.     *)
THEOREM AlertsSound == Spec => []AlertsAreSound
<1>1. AlertInv => AlertsAreSound
  <2> SUFFICES ASSUME AlertInv PROVE sent <= 1 + Cardinality(met)
    BY DEF AlertInv, AlertsAreSound, NotificationsBounded
  <2>1. sent \in Nat /\ Cardinality(Upserting) \in Nat /\ Cardinality(met) \in Nat
    BY UpsertingFinite DEF AlertInv, TypeOK
  <2> QED
    BY <2>1 DEF AlertInv
<1> QED
  BY InitAlertInv, NextAlertInv, <1>1, PTL DEF Spec

-----------------------------------------------------------------------------
(* EventStreams.                                                           *)

(* A stream is registered, and its context ends, only once it was started. *)
CancelledWereStarted ==
    /\ \A s \in cancelled : stage[s] # "none"
    /\ evCancel # None => stage[evCancel] # "none"

(* The server's context is the parent of every stream's.                   *)
DoneCancelsAll ==
    sup = "done" => \A s \in Streams : stage[s] # "none" => s \in cancelled

(* The inductive invariant: RegisteredIsAlive needs CancelledWereStarted   *)
(* (a stream starts uncancelled), and LeavesOthersAlone needs              *)
(* DoneCancelsAll for the streams that end after the shutdown.             *)
StreamInv == StreamTypeOK /\ RegisteredIsAlive /\ CancelledWereStarted /\ DoneCancelsAll

USE NoneIsNoStream

(* No stream runs at first.                                                *)
LEMMA InitStreamInv == StreamInit => StreamInv
BY DEF StreamInit, StreamInv, StreamTypeOK, RegisteredIsAlive, Alive, CancelledWereStarted, DoneCancelsAll

(* Every step of the supervisor and the streams keeps the invariant.       *)
LEMMA NextStreamInv == StreamInv /\ [StreamNext]_streamVars => StreamInv'
<1> SUFFICES ASSUME StreamInv, [StreamNext]_streamVars PROVE StreamInv'
  OBVIOUS
<1> USE DEF StreamInv, StreamTypeOK, RegisteredIsAlive, Alive, CancelledWereStarted, DoneCancelsAll, env
<1>1. CASE ListHosts
  BY <1>1 DEF ListHosts
<1>2. CASE SyncCancel
  BY <1>2 DEF SyncCancel, Cancel
<1>3. CASE SyncKeep
  BY <1>3 DEF SyncKeep
<1>4. ASSUME NEW s \in Streams, SyncStart(s) PROVE StreamInv'
  BY <1>4 DEF SyncStart, MayStart
<1>5. ASSUME NEW s \in Streams, Connect(s) PROVE StreamInv'
  BY <1>5 DEF Connect
<1>6. ASSUME NEW s \in Streams, ConnectFails(s) PROVE StreamInv'
  BY <1>6 DEF ConnectFails
<1>7. ASSUME NEW s \in Streams, ReadCancelled(s) \/ ReadBreaks(s) PROVE StreamInv'
  BY <1>7 DEF ReadCancelled, ReadBreaks
<1>8. ASSUME NEW s \in Streams, Leave(s) PROVE StreamInv'
  BY <1>8 DEF Leave, Own, Cancel
<1>9. CASE Poll
  BY <1>9 DEF Poll
<1>10. CASE DeleteHost
  BY <1>10 DEF DeleteHost
<1>11. CASE StopEvents
  BY <1>11 DEF StopEvents, Cancel
<1>12. CASE Shutdown
  BY <1>12 DEF Shutdown
<1>13. CASE UNCHANGED streamVars
  BY <1>13 DEF streamVars
<1> QED
  BY <1>1, <1>2, <1>3, <1>4, <1>5, <1>6, <1>7, <1>8, <1>9, <1>10, <1>11, <1>12, <1>13
     DEF StreamNext, SyncStep, StreamStep

(* A step that takes stream s from "returned" to "gone" is its Leave.      *)
LEMMA LeaveStep ==
    ASSUME StreamInv, [StreamNext]_streamVars, NEW s \in Streams,
           stage[s] = "returned", stage'[s] = "gone"
    PROVE  /\ cancelled' \subseteq cancelled \cup {s}
           /\ evCancel' # evCancel => evCancel = s
<1>1. Leave(s)
  BY DEF StreamInv, StreamTypeOK, StreamNext, SyncStep, StreamStep, ListHosts, SyncCancel, SyncKeep, SyncStart, Connect,
         ConnectFails, ReadCancelled, ReadBreaks, Leave, Poll, DeleteHost, StopEvents,
         Shutdown, streamVars, env
<1>2. evCancel # None /\ Own(s) => evCancel = s
  BY DEF StreamInv, StreamTypeOK, RegisteredIsAlive, Alive, DoneCancelsAll, Own
<1> QED
  BY <1>1, <1>2 DEF Leave, Cancel

(* Type correctness.                                                       *)
THEOREM StreamTypes == StreamSpec => []StreamTypeOK
<1>1. StreamInv => StreamTypeOK
  BY DEF StreamInv
<1> QED
  BY InitStreamInv, NextStreamInv, <1>1, PTL DEF StreamSpec

(* While the server runs, a stream of the host that was not cancelled is   *)
(* the registered one, and the registered one runs: evCancel neither       *)
(* leaks a stream nor names a dead one (syncEventStreams, stopEvents).     *)
THEOREM RegistrationIsExact == StreamSpec => []RegisteredIsAlive
<1>1. StreamInv => RegisteredIsAlive
  BY DEF StreamInv
<1> QED
  BY InitStreamInv, NextStreamInv, <1>1, PTL DEF StreamSpec

(* "Only remove our own registration": the sctx.Err() test of the stream   *)
(* goroutine, which then calls whatever is registered, never hits a newer  *)
(* stream.                                                                 *)
THEOREM OwnRegistrationOnly == StreamSpec => LeavesOthersAlone
<1>1. StreamInv /\ [StreamNext]_streamVars =>
        [\A s \in Streams : stage[s] = "returned" /\ stage'[s] = "gone" =>
            /\ cancelled' \subseteq cancelled \cup {s}
            /\ evCancel' # evCancel => evCancel = s]_streamVars
  BY LeaveStep
<1> QED
  BY InitStreamInv, NextStreamInv, <1>1, PTL DEF StreamSpec, LeavesOthersAlone

=============================================================================
