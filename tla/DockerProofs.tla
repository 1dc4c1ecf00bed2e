---------------------------- MODULE DockerProofs ----------------------------
(***************************************************************************)
(* Proofs about what the server does with a Docker host: about HostConn,   *)
(* for any number of callers, editors, deleters, testers, dials and        *)
(* addresses, and about Recreate, for any number of jobs on the container, *)
(* of faults and of restarts.                                              *)
(***************************************************************************)
EXTENDS HostConn, Recreate, SequenceTheorems, TLAPS

(* What a dial goroutine and a test read of the row, with the key seen.    *)
Settings == [addr : Addrs, key : Keys \cup {NoKey}, seen : Keys \cup {NoKey}]

(* What the locals hold: a dial that has loaded the row holds settings, an *)
(* editor between read and write a row, a tester its settings; only        *)
(* callers come back from Invalidate to lock again.                        *)
Locals ==
    /\ target \in [Conns -> Settings \cup {NoKey}]
    /\ \A d \in Conns : stage[d] \notin {"none", "load"} => target[d] \in Settings
    /\ cur \in [Procs -> Row \cup Settings \cup {NoKey}]
    /\ \A p \in Procs : phase[p] = "write" => p \in Editors /\ cur[p] \in Row
    /\ \A p \in Procs : phase[p] \in {"connect", "pin"} => cur[p] \in Settings

(* A connection that Invalidate or CloseIdle is about to close has left    *)
(* m.conns, and only installed connections were closed: a dial installs a  *)
(* connection that nobody has closed or is closing.                        *)
ClosingIsForgotten ==
    /\ \A p \in Procs : phase[p] = "close" => ref[p] \in Conns /\ ref[p] # cache /\ stage[ref[p]] = "ok"
    /\ \A d \in closed : stage[d] = "ok"

(* A caller works with a connection whose dial succeeded, or waits for a   *)
(* dial that was started; m.dials never names a dial that has ended.       *)
GotIsDialled ==
    /\ \A p \in Procs : phase[p] \in {"alive", "have"} => ref[p] \in Conns /\ stage[ref[p]] = "ok"
    /\ \A p \in Procs : phase[p] = "wait" => ref[p] \in Conns /\ stage[ref[p]] # "none"
    /\ dials # None => stage[dials] \in Running

(* The inductive invariant of the cache.                                   *)
Inv == ConnTypeOK /\ Locals /\ CachedIsOpen /\ OneDial /\ ClosingIsForgotten /\ GotIsDialled

(* None stands for no connection.                                          *)
LEMMA NoneIsNoConn == None \notin Conns
BY Actors

(* The cache is empty and nobody dials at first.                           *)
LEMMA InitInv == ConnInit => Inv
<1> SUFFICES ASSUME ConnInit PROVE Inv
  OBVIOUS
<1> USE NoneIsNoConn DEF ConnInit
<1>1. rec \in Row
  BY DEF Row
<1>2. ConnTypeOK
  BY <1>1 DEF ConnTypeOK
<1>3. Locals
  BY DEF Locals
<1>4. CachedIsOpen /\ OneDial /\ ClosingIsForgotten /\ GotIsDialled
  BY DEF CachedIsOpen, OneDial, ClosingIsForgotten, GotIsDialled, Running
<1> QED
  BY <1>2, <1>3, <1>4 DEF Inv

(* No step of a request, of an edit or of a dial breaks it.                *)
LEMMA NextInv == Inv /\ [ConnNext]_connVars => Inv'
<1> SUFFICES ASSUME Inv, [ConnNext]_connVars PROVE Inv'
  OBVIOUS
<1> USE NoneIsNoConn DEF Inv, ConnTypeOK, Locals, CachedIsOpen, OneDial, ClosingIsForgotten, GotIsDialled, row, Return, MoveDial, Running
<1>1. ASSUME NEW c \in Callers, GetLookup(c) PROVE Inv'
  BY <1>1 DEF GetLookup, JoinOrDial, Procs
<1>2. ASSUME NEW c \in Callers, GetAlive(c) PROVE Inv'
  BY <1>2 DEF GetAlive, Procs
<1>3. ASSUME NEW c \in Callers, GetDead(c) PROVE Inv'
  BY <1>3 DEF GetDead, Procs
<1>4. ASSUME NEW c \in Callers, GetRelock(c) PROVE Inv'
  BY <1>4 DEF GetRelock, JoinOrDial, Procs
<1>5. ASSUME NEW c \in Callers, GetDialed(c) PROVE Inv'
  BY <1>5 DEF GetDialed, Procs
<1>6. ASSUME NEW c \in Callers, GetCancelled(c) PROVE Inv'
  BY <1>6 DEF GetCancelled, Procs
<1>7. ASSUME NEW c \in Callers, Use(c) PROVE Inv'
  BY <1>7 DEF Use, Procs
<1>8. ASSUME NEW c \in Callers, UseFails(c) PROVE Inv'
  BY <1>8 DEF UseFails, Procs
<1>9. ASSUME NEW p \in Procs, InvalidateForget(p) PROVE Inv'
  BY ZenonT(30), <1>9 DEF InvalidateForget, Forgotten
<1>10. ASSUME NEW p \in Procs, InvalidateClose(p) PROVE Inv'
  BY <1>10 DEF InvalidateClose
<1>11. CASE CloseIdle
  BY <1>11 DEF CloseIdle, Procs
<1>12. CASE GoIdle
  BY <1>12 DEF GoIdle
<1>13. ASSUME NEW d \in Conns, DialLoad(d) PROVE Inv'
  <2>1. [addr |-> rec.addr, key |-> rec.key, seen |-> NoKey] \in Settings
        /\ [addr |-> rec.addr, key |-> NoKey, seen |-> NoKey] \in Settings
    BY DEF Settings, Row
  <2>2. PICK t \in Settings : target' = [target EXCEPT ![d] = t]
    BY <1>13, <2>1 DEF DialLoad
  <2>3. ConnTypeOK' /\ Locals'
    BY <1>13, <2>2 DEF DialLoad, Settings
  <2> QED
    BY <1>13, <2>3 DEF DialLoad
<1>14. ASSUME NEW d \in Conns, DialConnect(d) PROVE Inv'
  <2>1. ServerKey(target[d].addr) \in Keys
    BY <1>14 DEF DialConnect, Settings, ServerKey, Keys
  <2>2. [target[d] EXCEPT !.seen = ServerKey(target[d].addr)] \in Settings
    BY <1>14, <2>1 DEF DialConnect, Settings
  <2>3. PICK t \in Settings : target' = [target EXCEPT ![d] = t]
    BY <1>14, <2>2 DEF DialConnect
  <2>4. ConnTypeOK' /\ Locals'
    BY <1>14, <2>3 DEF DialConnect, Settings
  <2> QED
    BY <1>14, <2>4 DEF DialConnect
<1>15. ASSUME NEW d \in Conns, DialConnectFails(d) PROVE Inv'
  BY <1>15 DEF DialConnectFails
<1>16. ASSUME NEW d \in Conns, DialPin(d) PROVE Inv'
  BY <1>16 DEF DialPin, PinHostKey, Settings, Row
<1>17. ASSUME NEW d \in Conns, DialInstall(d) PROVE Inv'
  BY ZenonT(30), <1>17 DEF DialInstall
<1>18. ASSUME NEW d \in Conns, DialGivesUp(d) PROVE Inv'
  BY <1>18 DEF DialGivesUp, FailedDial
<1>19. ASSUME NEW e \in Editors, EditRead(e) PROVE Inv'
  BY <1>19 DEF EditRead, Procs
<1>20. ASSUME NEW e \in Editors, NEW a \in Addrs, NEW reset \in BOOLEAN, NEW login \in BOOLEAN,
              EditWrite(e, a, reset, login)
       PROVE  Inv'
  BY <1>20 DEF EditWrite, Overlapped, Row, Procs
<1>21. ASSUME NEW e \in Editors, EditGone(e) PROVE Inv'
  BY <1>21 DEF EditGone, Procs
<1>22. ASSUME NEW e \in Deleters, DeleteHost(e) PROVE Inv'
  BY <1>22 DEF DeleteHost, Overlapped, Procs
<1>23. ASSUME NEW t \in Testers, TestRead(t) PROVE Inv'
  BY <1>23 DEF TestRead, Settings, Row, Procs
<1>24. ASSUME NEW t \in Testers, TestConnect(t) PROVE Inv'
  BY <1>24 DEF TestConnect, Settings, ServerKey, Keys, Procs
<1>25. ASSUME NEW t \in Testers, TestFails(t) PROVE Inv'
  BY <1>25 DEF TestFails, Procs
<1>26. ASSUME NEW t \in Testers, TestPin(t) PROVE Inv'
  BY <1>26 DEF TestPin, PinHostKey, Settings, Row, Procs
<1>27. ASSUME NEW a \in Addrs, Reinstall(a) PROVE Inv'
  BY <1>27 DEF Reinstall
<1>28. CASE UNCHANGED connVars
  BY <1>28 DEF connVars
<1> HIDE DEF Inv, ConnTypeOK, Locals, CachedIsOpen, OneDial, ClosingIsForgotten, GotIsDialled, row, Return, MoveDial, Running
<1> QED
  BY <1>1, <1>2, <1>3, <1>4, <1>5, <1>6, <1>7, <1>8, <1>9, <1>10, <1>11, <1>12, <1>13, <1>14, <1>15,
     <1>16, <1>17, <1>18, <1>19, <1>20, <1>21, <1>22, <1>23, <1>24, <1>25, <1>26, <1>27, <1>28
     DEF ConnNext, GetStep, Invalidate, DialStep, EditStep, TestStep

(* The manager's two maps tell the truth together: conns holds an open     *)
(* connection and dials the one dial in flight (Manager.Get, Invalidate,   *)
(* CloseIdle), for any number of goroutines.                               *)
THEOREM CacheSound == ConnSpec => []CacheIsSound
<1>1. Inv => CacheIsSound
  BY DEF Inv, CacheIsSound
<1> QED
  BY InitInv, NextInv, <1>1, PTL DEF ConnSpec

(* Manager.Get returns connections whose dial succeeded, and a caller that *)
(* waits does so on a dial that was started.                               *)
THEOREM GetReturnsDialled == ConnSpec => []GotIsDialled
<1>1. Inv => GotIsDialled
  BY DEF Inv
<1> QED
  BY InitInv, NextInv, <1>1, PTL DEF ConnSpec

-----------------------------------------------------------------------------
(* What follows is for one PATCH of the host at a time.                    *)
OnePatch == \A e, f \in Editors : e = f

(* A row that an editor has read changes under it only in that a dial or a *)
(* test pins a key it did not have.                                        *)
ReadIsCurrent ==
    \A e \in Editors : phase[e] = "write" =>
        cur[e].addr = rec.addr /\ cur[e].key \in {NoKey, rec.key}

(* A dial under way has read the row as it is now, or is on record as      *)
(* overlapped.                                                             *)
DialsAreCurrent ==
    \A d \in Conns : stage[d] \in {"connect", "pin", "install"} =>
        (exists /\ target[d].addr = rec.addr) \/ d \in overlap

EditInv == Inv /\ ReadIsCurrent /\ DialsAreCurrent /\ StaleOnlyByOverlap

(* Before the first edit.                                                  *)
LEMMA InitEditInv == ConnInit => EditInv
BY InitInv DEF ConnInit, EditInv, ReadIsCurrent, DialsAreCurrent, StaleOnlyByOverlap, Procs

(* While one PATCH runs at a time, no step breaks it.                      *)
LEMMA NextEditInv == OnePatch /\ EditInv /\ [ConnNext]_connVars => EditInv'
<1> SUFFICES ASSUME OnePatch, EditInv, [ConnNext]_connVars PROVE EditInv'
  OBVIOUS
<1>0. Inv'
  BY NextInv DEF EditInv
<1> USE <1>0, NoneIsNoConn DEF EditInv, Inv, ConnTypeOK, Locals, ReadIsCurrent, DialsAreCurrent, StaleOnlyByOverlap,
        row, Return, MoveDial, Running
<1>1. ASSUME NEW c \in Callers, GetLookup(c) PROVE EditInv'
  BY <1>1 DEF GetLookup, JoinOrDial, Procs
<1>2. ASSUME NEW c \in Callers, GetAlive(c) PROVE EditInv'
  BY <1>2 DEF GetAlive, Procs
<1>3. ASSUME NEW c \in Callers, GetDead(c) PROVE EditInv'
  BY <1>3 DEF GetDead, Procs
<1>4. ASSUME NEW c \in Callers, GetRelock(c) PROVE EditInv'
  BY <1>4 DEF GetRelock, JoinOrDial, Procs
<1>5. ASSUME NEW c \in Callers, GetDialed(c) PROVE EditInv'
  BY <1>5 DEF GetDialed, Procs
<1>6. ASSUME NEW c \in Callers, GetCancelled(c) PROVE EditInv'
  BY <1>6 DEF GetCancelled, Procs
<1>7. ASSUME NEW c \in Callers, Use(c) PROVE EditInv'
  BY <1>7 DEF Use, Procs
<1>8. ASSUME NEW c \in Callers, UseFails(c) PROVE EditInv'
  BY <1>8 DEF UseFails, Procs
<1>9. ASSUME NEW p \in Procs, InvalidateForget(p) PROVE EditInv'
  BY <1>9 DEF InvalidateForget, Forgotten
<1>10. ASSUME NEW p \in Procs, InvalidateClose(p) PROVE EditInv'
  BY <1>10 DEF InvalidateClose
<1>11. CASE CloseIdle
  BY <1>11 DEF CloseIdle, Procs
<1>12. CASE GoIdle
  BY <1>12 DEF GoIdle
<1>13. ASSUME NEW d \in Conns, DialLoad(d) PROVE EditInv'
  <2>1. target' = [target EXCEPT ![d] = target'[d]] /\ target'[d].addr = rec.addr
        /\ stage' = [stage EXCEPT ![d] = stage'[d]] /\ stage'[d] \in {"connect", "fail"}
        /\ (stage'[d] = "connect" => exists)
    BY <1>13 DEF DialLoad
  <2> QED
    BY <1>13, <2>1 DEF DialLoad
<1>14. ASSUME NEW d \in Conns, DialConnect(d) PROVE EditInv'
  BY <1>14 DEF DialConnect, Settings
<1>15. ASSUME NEW d \in Conns, DialConnectFails(d) PROVE EditInv'
  BY <1>15 DEF DialConnectFails
<1>16. ASSUME NEW d \in Conns, DialPin(d) PROVE EditInv'
  BY <1>16 DEF DialPin, PinHostKey, Settings, Row
<1>17. ASSUME NEW d \in Conns, DialInstall(d) PROVE EditInv'
  BY <1>17 DEF DialInstall
<1>18. ASSUME NEW d \in Conns, DialGivesUp(d) PROVE EditInv'
  BY <1>18 DEF DialGivesUp, FailedDial
<1>19. ASSUME NEW e \in Editors, EditRead(e) PROVE EditInv'
  BY <1>19 DEF EditRead, Procs
<1>20. ASSUME NEW e \in Editors, NEW a \in Addrs, NEW reset \in BOOLEAN, NEW login \in BOOLEAN,
              EditWrite(e, a, reset, login)
       PROVE  EditInv'
  BY <1>20 DEF OnePatch, EditWrite, ConnChanged, Overlapped, Row, Procs
<1>21. ASSUME NEW e \in Editors, EditGone(e) PROVE EditInv'
  BY <1>21 DEF EditGone, Procs
<1>22. ASSUME NEW e \in Deleters, DeleteHost(e) PROVE EditInv'
  BY <1>22 DEF DeleteHost, Overlapped, Procs
<1>23. ASSUME NEW t \in Testers, TestRead(t) PROVE EditInv'
  BY <1>23 DEF TestRead, Settings, Row, Procs
<1>24. ASSUME NEW t \in Testers, TestConnect(t) PROVE EditInv'
  BY <1>24 DEF TestConnect, Settings, ServerKey, Keys, Procs
<1>25. ASSUME NEW t \in Testers, TestFails(t) PROVE EditInv'
  BY <1>25 DEF TestFails, Procs
<1>26. ASSUME NEW t \in Testers, TestPin(t) PROVE EditInv'
  BY <1>26 DEF TestPin, PinHostKey, Settings, Row, Procs
<1>27. ASSUME NEW a \in Addrs, Reinstall(a) PROVE EditInv'
  BY <1>27 DEF Reinstall
<1>28. CASE UNCHANGED connVars
  BY <1>28 DEF connVars
<1> HIDE DEF EditInv, Inv, ConnTypeOK, Locals, ReadIsCurrent, DialsAreCurrent, StaleOnlyByOverlap, row, Return, MoveDial, Running
<1> QED
  BY <1>1, <1>2, <1>3, <1>4, <1>5, <1>6, <1>7, <1>8, <1>9, <1>10, <1>11, <1>12, <1>13, <1>14, <1>15,
     <1>16, <1>17, <1>18, <1>19, <1>20, <1>21, <1>22, <1>23, <1>24, <1>25, <1>26, <1>27, <1>28
     DEF ConnNext, GetStep, Invalidate, DialStep, EditStep, TestStep

(* After an edit or a deletion the cached connection is to the host as it  *)
(* is now, unless its dial was under way when the row changed or the       *)
(* handler has yet to invalidate (updateHost, deleteHost, Invalidate), for *)
(* one PATCH at a time.                                                    *)
THEOREM StaleBound == ASSUME OnePatch PROVE ConnSpec => []StaleOnlyByOverlap
<1>1. EditInv /\ [ConnNext]_connVars => EditInv'
  BY OnePatch, NextEditInv
<1>2. EditInv => StaleOnlyByOverlap
  BY DEF EditInv
<1> QED
  BY InitEditInv, <1>1, <1>2, PTL DEF ConnSpec

(* However dials, tests and reinstalls interleave with one PATCH at a      *)
(* time, a pinned host key is never replaced by another one (PinHostKey's  *)
(* "AND host_key = ''", Update).                                           *)
THEOREM KeyPinnedOnce == ASSUME OnePatch PROVE ConnSpec => KeyIsNeverReplaced
<1>1. EditInv /\ [ConnNext]_connVars => EditInv'
  BY OnePatch, NextEditInv
<1>2. EditInv /\ [ConnNext]_connVars => [rec.key # NoKey /\ rec'.key # NoKey => rec'.key = rec.key]_connVars
  <2> SUFFICES ASSUME EditInv, ConnNext PROVE rec.key # NoKey /\ rec'.key # NoKey => rec'.key = rec.key
    OBVIOUS
  <2>1. ASSUME NEW d \in Conns, DialPin(d) PROVE rec.key # NoKey => rec'.key = rec.key
    BY <2>1 DEF DialPin, PinHostKey, EditInv, Inv, ConnTypeOK, Row
  <2>2. ASSUME NEW t \in Testers, TestPin(t) PROVE rec.key # NoKey => rec'.key = rec.key
    BY <2>2 DEF TestPin, PinHostKey, EditInv, Inv, ConnTypeOK, Row
  <2>3. ASSUME NEW e \in Editors, NEW a \in Addrs, NEW reset \in BOOLEAN, NEW login \in BOOLEAN,
               EditWrite(e, a, reset, login)
        PROVE  rec'.key \in {NoKey, rec.key}
    BY <2>3 DEF EditWrite, EditInv, ReadIsCurrent
  <2>4. \/ rec' = rec
        \/ \E d \in Conns : DialPin(d)
        \/ \E t \in Testers : TestPin(t)
        \/ \E e \in Editors, a \in Addrs, reset, login \in BOOLEAN : EditWrite(e, a, reset, login)
    BY DEF ConnNext, GetStep, Invalidate, DialStep, EditStep, TestStep, GetLookup, GetAlive, GetDead, GetRelock,
           GetDialed, GetCancelled, Use, UseFails, InvalidateForget, InvalidateClose, CloseIdle, GoIdle,
           DialLoad, DialConnect, DialConnectFails, DialInstall, DialGivesUp, EditRead, EditGone, DeleteHost,
           TestRead, TestConnect, TestFails, Reinstall, row
  <2> QED
    BY <2>1, <2>2, <2>3, <2>4
<1> QED
  BY InitEditInv, <1>1, <1>2, PTL DEF ConnSpec, KeyIsNeverReplaced

-----------------------------------------------------------------------------
(* Replacing a container.                                                  *)
PCs == {"new", "pull", "rename", "stop", "create", "connect", "start", "remove"} \cup Rollback \cup Ended

USE DEF Results, Rollback, Ended, PCs

(* What a call of a job leaves alone, and where the job goes.              *)
LEMMA Moves ==
    ASSUME TypeOK, NEW j \in Jobs, NEW s \in PCs, Goto(j, s)
    PROVE  pc' \in [Jobs -> PCs] /\ pc'[j] = s /\ \A k \in Jobs : k # j => pc'[k] = pc[k]
BY DEF TypeOK, Goto

(* The counters and the container's state after a call.                    *)
LEMMA CallType ==
    ASSUME TypeOK, NEW j \in Jobs, NEW r \in Results, NEW possible \in BOOLEAN, Call(j, r, possible)
    PROVE  faults' \in Nat /\ broken' \in BOOLEAN
BY DEF TypeOK, Call, Done

(* Each call to the Docker daemon keeps the types.                         *)
LEMMA DockerType ==
    ASSUME TypeOK, NEW j \in Jobs, NEW c \in Ids, NEW n \in Seq(Nat), NEW r \in Results,
           \/ ContainerRename(j, c, n, r) \/ ContainerStop(j, c, r) \/ ContainerStart(j, c, r) \/ ContainerRemove(j, c, r)
           \/ c = j /\ ContainerCreate(j, n, r)
    PROVE  /\ there' \subseteq Ids /\ running' \subseteq there' /\ name' \in [Ids -> Seq(Nat)]
           /\ faults' \in Nat /\ broken' \in BOOLEAN
<1>a. there \subseteq Ids /\ running \subseteq there /\ name \in [Ids -> Seq(Nat)]
  BY DEF TypeOK
<1>b. (c \in there) \in BOOLEAN /\ Free(n) \in BOOLEAN /\ (running \subseteq {c}) \in BOOLEAN
  BY DEF Free
<1>1. CASE ContainerRename(j, c, n, r)
  BY <1>a, <1>b, <1>1, CallType DEF ContainerRename
<1>2. CASE ContainerStop(j, c, r)
  BY <1>a, <1>b, <1>2, CallType DEF ContainerStop
<1>3. CASE ContainerStart(j, c, r)
  <2>1. PICK ports \in BOOLEAN : Call(j, r, c \in there /\ (ports => running \subseteq {c}))
    BY <1>3 DEF ContainerStart
  <2>2. faults' \in Nat /\ broken' \in BOOLEAN
    BY <2>1, CallType
  <2>3. Done(r) => c \in there
    BY <2>1 DEF Call
  <2> QED
    BY <1>a, <1>3, <2>2, <2>3 DEF ContainerStart
<1>4. CASE ContainerRemove(j, c, r)
  BY <1>a, <1>b, <1>4, CallType DEF ContainerRemove
<1>5. CASE c = j /\ ContainerCreate(j, n, r)
  BY <1>a, <1>b, <1>5, CallType DEF ContainerCreate
<1> QED
  BY <1>1, <1>2, <1>3, <1>4, <1>5

(* A backup name is a name.                                                *)
LEMMA BackupName == TypeOK => \A j \in Jobs : /\ ins[j] \in Inspected /\ ins[j].target \in Ids /\ ins[j].base \in Seq(Nat)
                                              /\ Backup(ins[j].base) \in Seq(Nat) /\ Backup(ins[j].base) # App
<1> SUFFICES ASSUME TypeOK, NEW j \in Jobs
             PROVE  /\ ins[j] \in Inspected /\ ins[j].target \in Ids /\ ins[j].base \in Seq(Nat)
                    /\ Backup(ins[j].base) \in Seq(Nat) /\ Backup(ins[j].base) # App
  OBVIOUS
<1>1. ins[j] \in Inspected /\ sec \in Nat
  BY DEF TypeOK
<1>2. ins[j].target \in Ids /\ ins[j].base \in Seq(Nat)
  BY <1>1 DEF Inspected
<1>3. Backup(ins[j].base) \in Seq(Nat) /\ Len(Backup(ins[j].base)) = Len(ins[j].base) + 1 /\ Len(ins[j].base) \in Nat
  BY <1>1, <1>2, AppendProperties, LenProperties DEF Backup
<1>4. Len(App) = 0
  BY DEF App
<1> QED
  BY <1>1, <1>2, <1>3, <1>4

(* Types are kept.                                                         *)
LEMMA NextType == TypeOK /\ [Next]_vars => TypeOK'
<1> SUFFICES ASSUME TypeOK, [Next]_vars PROVE TypeOK'
  OBVIOUS
<1>a. pc \in [Jobs -> PCs] /\ ins \in [Jobs -> Inspected] /\ App \in Seq(Nat)
  BY DEF TypeOK, App
<1>1. ASSUME NEW j \in Jobs, NEW c \in Ids, NEW pull \in BOOLEAN, Inspect(j, c, pull) PROVE TypeOK'
  <2>1. pc' \in [Jobs -> PCs]
    BY <1>1, Moves DEF Inspect
  <2>2. [target |-> c, base |-> name[c], was |-> c \in running, pull |-> pull] \in Inspected
    BY DEF TypeOK, Inspected
  <2>3. ins' \in [Jobs -> Inspected]
    BY <1>a, <1>1, <2>2 DEF Inspect
  <2>4. clash' \in BOOLEAN
    BY <1>1 DEF Inspect, TypeOK, Replacing
  <2> QED
    BY <1>1, <2>1, <2>3, <2>4 DEF Inspect, TypeOK, docker
<1>2. ASSUME NEW j \in Jobs, NEW ok \in BOOLEAN, Pull(j, ok) \/ Connect(j, ok) PROVE TypeOK'
  <2>1. pc' \in [Jobs -> PCs]
    <3>1. CASE Pull(j, ok)
      BY <3>1, Moves DEF Pull
    <3>2. CASE Connect(j, ok)
      BY <3>2, Moves DEF Connect
    <3> QED
      BY <1>2, <3>1, <3>2
  <2> QED
    BY <1>2, <2>1 DEF Pull, Connect, TypeOK, docker, context
<1>3. ASSUME NEW j \in Jobs, NEW r \in Results, DockerStep(j, r) PROVE TypeOK'
  <2>a. j \in Ids /\ ins[j].target \in Ids /\ ins[j].base \in Seq(Nat) /\ Backup(ins[j].base) \in Seq(Nat)
    BY BackupName DEF Ids
  <2>1. PICK s \in PCs : Goto(j, s)
    BY <1>3 DEF DockerStep, Rename, Stop, Unrename, Create, Start, Remove, RollbackRemove, RollbackRename, RollbackStart, AfterRollback
  <2>2. pc' \in [Jobs -> PCs]
    BY <2>1, Moves
  <2>3. UNCHANGED context
    BY <1>3 DEF DockerStep, Rename, Stop, Unrename, Create, Start, Remove, RollbackRemove, RollbackRename, RollbackStart
  <2>4. PICK c \in Ids, n \in Seq(Nat) :
           \/ ContainerRename(j, c, n, r) \/ ContainerStop(j, c, r) \/ ContainerStart(j, c, r) \/ ContainerRemove(j, c, r)
           \/ c = j /\ ContainerCreate(j, n, r)
    BY <1>3, <2>a DEF DockerStep, Rename, Stop, Unrename, Create, Start, Remove, RollbackRemove, RollbackRename, RollbackStart, Doomed
  <2>5. /\ there' \subseteq Ids /\ running' \subseteq there' /\ name' \in [Ids -> Seq(Nat)]
        /\ faults' \in Nat /\ broken' \in BOOLEAN
    BY <2>4, DockerType
  <2> QED
    BY <2>2, <2>3, <2>5 DEF TypeOK, context
<1>4. CASE Elapse
  BY <1>4 DEF Elapse, TypeOK, docker
<1>5. CASE Crash
  <2>1. pc' \in [Jobs -> PCs]
    BY <1>a, <1>5 DEF Crash
  <2> QED
    BY <1>5, <2>1 DEF Crash, TypeOK, docker
<1>6. CASE UNCHANGED vars
  BY <1>6 DEF vars, TypeOK
<1> QED
  BY <1>1, <1>2, <1>3, <1>4, <1>5, <1>6 DEF Next

-----------------------------------------------------------------------------
(* The container is never lost.                                            *)

(* A job that has not created its container, and one whose container may   *)
(* still be removed by its rollback; a job that has or will have replaced. *)
Early == {"new", "pull", "rename", "stop", "create", "unrename"}
OnTrial == {"connect", "start", "rbRemove"}
GoesOn == {"connect", "start", "remove", "ok"}

(* The containers that no rollback removes.                                *)
Kept == {c \in there : c \in Jobs => pc[c] \notin OnTrial}

(* Containers are created after the ones they replace: the age of one is   *)
(* the number of replacements behind it.  The container of a job that goes *)
(* on is there, or a later one is kept.                                    *)
Descent(age) ==
    /\ \A j \in Jobs : pc[j] # "new" => age[ins[j].target] < age[j]
    /\ \A j \in Jobs : pc[j] \in GoesOn /\ j \notin there => \E c \in Kept : age[c] > age[j]

CreatedLate == \A j \in Jobs : pc[j] \in Early => j \notin there
TargetsExisted == \A j \in Jobs : pc[j] # "new" /\ ins[j].target \in Jobs => pc[ins[j].target] \notin Early

SafeInv ==
    /\ TypeOK /\ CreatedLate /\ TargetsExisted
    /\ Kept # {}
    /\ \E age \in [Ids -> Nat] : Descent(age)

(* What a call does to the set of containers.                              *)
LEMMA ThereAfter ==
    ASSUME TypeOK, NEW j \in Jobs, NEW r \in Results
    PROVE  /\ \/ Rename(j, r) \/ Stop(j, r) \/ Unrename(j, r) \/ RollbackRename(j, r) \/ RollbackStart(j, r) => there' = there
           /\ Start(j, r) => there' = there /\ (r = "ok" => j \in there)
           /\ Create(j, r) => there' \in {there, there \cup {j}} /\ (r = "ok" => j \in there')
           /\ RollbackRemove(j, r) => there' \in {there, there \ {j}}
           /\ Remove(j, r) => there' \in {there, there \ {ins[j].target}}
BY DEF Rename, Stop, Unrename, RollbackRename, RollbackStart, Start, Create, RollbackRemove, Remove, ContainerRename, ContainerStop,
   ContainerStart, ContainerCreate, ContainerRemove, Doomed, Call, Done

(* Where a call leads its job.                                             *)
LEMMA PcAfter ==
    ASSUME TypeOK, NEW j \in Jobs, NEW r \in Results, NEW ok \in BOOLEAN
    PROVE  /\ Pull(j, ok) => pc[j] = "pull" /\ pc'[j] \in {"rename", "failed"}
           /\ Rename(j, r) => pc[j] = "rename" /\ pc'[j] = IF r # "ok" THEN "failed" ELSE IF ins[j].was THEN "stop" ELSE "create"
           /\ Stop(j, r) => pc[j] = "stop" /\ pc'[j] = IF r = "ok" THEN "create" ELSE "unrename"
           /\ Unrename(j, r) => pc[j] = "unrename" /\ pc'[j] = "failed"
           /\ Create(j, r) => pc[j] = "create" /\ pc'[j] = IF r = "ok" THEN "connect" ELSE "rbRename"
           /\ Connect(j, ok) => pc[j] = "connect" /\ pc'[j] = IF ~ok THEN "rbRemove" ELSE IF MustStart(j) THEN "start" ELSE "remove"
           /\ Start(j, r) => pc[j] = "start" /\ pc'[j] = IF r = "ok" THEN "remove" ELSE "rbRemove"
           /\ Remove(j, r) => pc[j] = "remove" /\ pc'[j] = "ok"
           /\ RollbackRemove(j, r) => pc[j] = "rbRemove" /\ pc'[j] = "rbRename"
           /\ RollbackRename(j, r) => pc[j] = "rbRename" /\ pc'[j] = IF ins[j].was THEN "rbStart" ELSE "failed"
           /\ RollbackStart(j, r) => pc[j] = "rbStart" /\ pc'[j] = "failed"
           /\ Pull(j, ok) \/ Connect(j, ok) \/ DockerStep(j, r) => \A k \in Jobs : k # j => pc'[k] = pc[k]
<1>a. pc \in [Jobs -> PCs]
  BY DEF TypeOK
<1>1. Pull(j, ok) \/ Connect(j, ok) \/ DockerStep(j, r) => \A k \in Jobs : k # j => pc'[k] = pc[k]
  BY <1>a DEF Goto, DockerStep, Pull, Rename, Stop, Unrename, Create, Connect, Start, Remove, RollbackRemove, RollbackRename, RollbackStart
<1>2. /\ Pull(j, ok) => pc[j] = "pull" /\ pc'[j] \in {"rename", "failed"}
      /\ Rename(j, r) => pc[j] = "rename" /\ pc'[j] = IF r # "ok" THEN "failed" ELSE IF ins[j].was THEN "stop" ELSE "create"
      /\ Stop(j, r) => pc[j] = "stop" /\ pc'[j] = IF r = "ok" THEN "create" ELSE "unrename"
      /\ Unrename(j, r) => pc[j] = "unrename" /\ pc'[j] = "failed"
  BY <1>a DEF Goto, Pull, Rename, Stop, Unrename
<1>3. /\ Create(j, r) => pc[j] = "create" /\ pc'[j] = IF r = "ok" THEN "connect" ELSE "rbRename"
      /\ Connect(j, ok) => pc[j] = "connect" /\ pc'[j] = IF ~ok THEN "rbRemove" ELSE IF MustStart(j) THEN "start" ELSE "remove"
      /\ Start(j, r) => pc[j] = "start" /\ pc'[j] = IF r = "ok" THEN "remove" ELSE "rbRemove"
      /\ Remove(j, r) => pc[j] = "remove" /\ pc'[j] = "ok"
  BY <1>a DEF Goto, Create, Connect, Start, Remove
<1>4. /\ RollbackRemove(j, r) => pc[j] = "rbRemove" /\ pc'[j] = "rbRename"
      /\ RollbackRename(j, r) => pc[j] = "rbRename" /\ pc'[j] = IF ins[j].was THEN "rbStart" ELSE "failed"
      /\ RollbackStart(j, r) => pc[j] = "rbStart" /\ pc'[j] = "failed"
  BY <1>a DEF Goto, RollbackRemove, RollbackRename, RollbackStart, AfterRollback
<1> QED
  BY <1>1, <1>2, <1>3, <1>4

(* Only Inspect chooses a target.                                          *)
LEMMA InsStays ==
    ASSUME NEW j \in Jobs, NEW r \in Results, NEW ok \in BOOLEAN, Pull(j, ok) \/ Connect(j, ok) \/ DockerStep(j, r)
    PROVE  ins' = ins
BY DEF DockerStep, Pull, Rename, Stop, Unrename, Create, Connect, Start, Remove, RollbackRemove, RollbackRename, RollbackStart, context

(* What is kept stays kept unless a job removes its target.                *)
LEMMA SafeStays ==
    ASSUME SafeInv, TypeOK', ins' = ins, Kept \subseteq Kept',
           \A j \in Jobs : /\ pc'[j] \in GoesOn => j \in there' \/ (pc[j] \in GoesOn /\ j \notin there)
                           /\ (pc'[j] = "new" <=> pc[j] = "new") /\ (pc'[j] \in Early => pc[j] \in Early /\ (j \in there' => j \in there))
    PROVE  SafeInv'
<1>1. CreatedLate' /\ TargetsExisted'
  BY DEF SafeInv, CreatedLate, TargetsExisted
<1>2. PICK age \in [Ids -> Nat] : Descent(age)
  BY DEF SafeInv
<1>3. \A j \in Jobs : pc'[j] # "new" => age[ins'[j].target] < age[j]
  BY <1>2 DEF Descent
<1>4. \A j \in Jobs : pc'[j] \in GoesOn /\ j \notin there' => \E c \in Kept' : age[c] > age[j]
  BY <1>2 DEF Descent
<1> QED
  BY <1>1, <1>2, <1>3, <1>4 DEF SafeInv, Descent

(* Every step keeps it.                                                    *)
LEMMA NextSafeInv == SafeInv /\ [Next]_vars => SafeInv'
<1> SUFFICES ASSUME SafeInv, [Next]_vars PROVE SafeInv'
  OBVIOUS
<1>t. TypeOK /\ TypeOK'
  BY NextType DEF SafeInv
<1>a. CreatedLate /\ TargetsExisted /\ Jobs \subseteq Ids /\ Old \notin Jobs /\ pc \in [Jobs -> PCs]
  BY Identities DEF SafeInv, Ids, TypeOK
<1> DEFINE Steady == \A j \in Jobs : /\ pc'[j] \in GoesOn => j \in there' \/ (pc[j] \in GoesOn /\ j \notin there)
                                     /\ pc'[j] = "new" <=> pc[j] = "new"
                                     /\ pc'[j] \in Early => pc[j] \in Early /\ (j \in there' => j \in there)
<1> USE DEF GoesOn, OnTrial, Early
<1>1. ASSUME NEW j \in Jobs, NEW c \in Ids, NEW pull \in BOOLEAN, Inspect(j, c, pull) PROVE SafeInv'
  <2>1. /\ pc[j] = "new" /\ pc'[j] \in {"pull", "rename"} /\ (\A k \in Jobs : k # j => pc'[k] = pc[k])
        /\ there' = there /\ c \in there /\ j \notin there
    BY <1>a, <1>1 DEF Inspect, Goto, docker, CreatedLate
  <2>2. ins'[j].target = c /\ \A k \in Jobs : k # j => ins'[k] = ins[k]
    BY <1>t, <1>1 DEF Inspect, TypeOK
  <2>3. Kept' = Kept
    BY <2>1 DEF Kept
  <2>4. CreatedLate' /\ TargetsExisted'
    BY <1>a, <2>1, <2>2 DEF CreatedLate, TargetsExisted
  <2>5. PICK age \in [Ids -> Nat] : Descent(age)
    BY DEF SafeInv
  <2> DEFINE newer == [age EXCEPT ![j] = age[c] + 1]
  <2>6. newer \in [Ids -> Nat] /\ newer[j] = age[c] + 1 /\ \A d \in Ids : d # j => newer[d] = age[d]
    BY <1>a
  <2>7. Kept \subseteq Ids /\ j \notin Kept
    BY <1>t, <2>1 DEF Kept, TypeOK
  <2> HIDE DEF newer
  <2>8. \A k \in Jobs : pc'[k] # "new" => newer[ins'[k].target] < newer[k]
    <3>1. c # j /\ age[c] \in Nat
      BY <2>1
    <3>2. ASSUME NEW k \in Jobs, k # j, pc[k] # "new" PROVE ins[k].target # j /\ ins[k].target \in Ids
      BY <1>a, <1>t, <2>1, <3>2, BackupName DEF TargetsExisted
    <3> QED
      BY <1>a, <2>1, <2>2, <2>5, <2>6, <3>1, <3>2 DEF Descent
  <2>9. \A k \in Jobs : pc'[k] \in GoesOn /\ k \notin there' => \E d \in Kept' : newer[d] > newer[k]
    BY <1>a, <2>1, <2>3, <2>5, <2>6, <2>7 DEF Descent
  <2> QED
    BY <1>t, <2>3, <2>4, <2>6, <2>8, <2>9 DEF SafeInv, Descent
<1>2. ASSUME NEW j \in Jobs, NEW ok \in BOOLEAN, Pull(j, ok) \/ Connect(j, ok) PROVE SafeInv'
  <2>1. there' = there /\ ins' = ins
    BY <1>2 DEF Pull, Connect, docker, context
  <2>2. Steady /\ Kept \subseteq Kept'
    BY <1>a, <1>2, <1>t, <2>1, PcAfter DEF Kept, CreatedLate
  <2> QED
    BY <1>t, <2>1, <2>2, SafeStays
<1>3. ASSUME NEW j \in Jobs, NEW r \in Results,
             Rename(j, r) \/ Stop(j, r) \/ Unrename(j, r) \/ RollbackRename(j, r) \/ RollbackStart(j, r) \/ Start(j, r)
      PROVE  SafeInv'
  <2>1. there' = there /\ ins' = ins /\ DockerStep(j, r)
    BY <1>3, <1>t, ThereAfter, InsStays DEF DockerStep
  <2>2. \A k \in Jobs : k # j => pc'[k] = pc[k]
    BY <1>t, <2>1, PcAfter
  <2>3. /\ pc[j] # "new" /\ pc'[j] # "new" /\ pc[j] # "rbRemove" /\ (pc'[j] \in Early => pc[j] \in Early)
        /\ pc'[j] \in OnTrial => pc[j] \in OnTrial
        /\ pc'[j] \in GoesOn => j \in there
    BY <1>3, <1>t, PcAfter, ThereAfter
  <2>4. Steady
    BY <2>1, <2>2, <2>3
  <2>5. Kept \subseteq Kept'
    BY <1>a, <2>1, <2>2, <2>3 DEF Kept
  <2> QED
    BY <1>t, <2>1, <2>4, <2>5, SafeStays
<1>4. ASSUME NEW j \in Jobs, NEW r \in Results, Create(j, r) \/ RollbackRemove(j, r) PROVE SafeInv'
  <2>1. ins' = ins /\ DockerStep(j, r)
    BY <1>4, InsStays DEF DockerStep
  <2>2. Create(j, r) => j \notin there
    BY <1>a, <1>t, PcAfter DEF CreatedLate
  <2>3. \A k \in Jobs : k # j => pc'[k] = pc[k]
    BY <1>t, <2>1, PcAfter
  <2>4. /\ pc[j] \in {"create", "rbRemove"} /\ pc'[j] \in {"connect", "rbRename"} /\ (pc'[j] = "connect" => j \in there')
        /\ j \notin Kept /\ (\A c \in Ids : c # j => (c \in there' <=> c \in there)) /\ there' \subseteq there \cup {j}
    <3>1. CASE Create(j, r)
      <4>1. pc[j] = "create" /\ pc'[j] = (IF r = "ok" THEN "connect" ELSE "rbRename")
        BY <1>t, <3>1, PcAfter
      <4>2. there' \in {there, there \cup {j}} /\ (r = "ok" => j \in there')
        BY <1>t, <3>1, ThereAfter
      <4> QED
        BY <2>2, <3>1, <4>1, <4>2 DEF Kept
    <3>2. CASE RollbackRemove(j, r)
      <4>1. pc[j] = "rbRemove" /\ pc'[j] = "rbRename"
        BY <1>t, <3>2, PcAfter
      <4>2. there' \in {there, there \ {j}}
        BY <1>t, <3>2, ThereAfter
      <4> QED
        BY <4>1, <4>2 DEF Kept
    <3> QED
      BY <1>4, <3>1, <3>2
  <2>5. Steady
    BY <1>a, <2>3, <2>4
  <2>6. Kept \subseteq Kept'
    BY <1>a, <1>t, <2>3, <2>4 DEF Kept, TypeOK
  <2> QED
    BY <1>t, <2>1, <2>5, <2>6, SafeStays
<1>5. ASSUME NEW j \in Jobs, NEW r \in Results, Remove(j, r) PROVE SafeInv'
  <2>1. ins' = ins /\ pc[j] = "remove" /\ pc'[j] = "ok" /\ (\A k \in Jobs : k # j => pc'[k] = pc[k])
    BY <1>5, <1>t, InsStays, PcAfter DEF DockerStep
  <2> DEFINE t == ins[j].target
  <2>2. there' \in {there, there \ {t}}
    BY <1>5, <1>t, ThereAfter
  <2>3. CreatedLate' /\ TargetsExisted'
    BY <1>a, <2>1, <2>2 DEF CreatedLate, TargetsExisted
  <2>4. PICK age \in [Ids -> Nat] : Descent(age)
    BY DEF SafeInv
  <2>5. t \in Ids /\ j \in Ids /\ age[t] \in Nat /\ age[j] \in Nat /\ age[t] < age[j] /\ Kept \subseteq Ids
    BY <1>a, <1>t, <2>1, <2>4, BackupName DEF Descent, Kept, TypeOK
  <2>6. Kept \ {t} \subseteq Kept'
    BY <2>1, <2>2 DEF Kept
  <2>7. PICK h \in Kept' : age[h] \in Nat /\ age[h] > age[t]
    <3>1. CASE j \in there
      BY <1>a, <2>1, <2>5, <2>6, <3>1 DEF Kept
    <3>2. CASE j \notin there
      <4>1. PICK c \in Kept : age[c] > age[j]
        BY <2>1, <2>4, <3>2 DEF Descent
      <4> QED
        BY <2>5, <2>6, <4>1
    <3> QED
      BY <3>1, <3>2
  <2>8. ASSUME NEW k \in Jobs, pc'[k] \in GoesOn, k \notin there' PROVE \E c \in Kept' : age[c] > age[k]
    <3>1. pc[k] \in GoesOn /\ age[k] \in Nat
      BY <1>a, <2>1, <2>8
    <3>2. CASE k = t
      BY <2>7, <3>2
    <3>3. CASE k # t
      <4>1. PICK c \in Kept : age[c] > age[k]
        BY <2>2, <2>4, <2>8, <3>1, <3>3 DEF Descent
      <4> QED
        BY <2>5, <2>6, <2>7, <3>1, <4>1
    <3> QED
      BY <3>2, <3>3
  <2>9. \A k \in Jobs : pc'[k] # "new" => age[ins'[k].target] < age[k]
    BY <2>1, <2>4 DEF Descent
  <2> QED
    BY <1>t, <2>3, <2>4, <2>7, <2>8, <2>9 DEF SafeInv, Descent
<1>6. CASE Elapse \/ UNCHANGED vars
  <2>1. pc' = pc /\ there' = there /\ ins' = ins
    BY <1>6 DEF Elapse, vars, docker
  <2> QED
    BY <1>t, <2>1, SafeStays DEF Kept
<1>7. CASE Crash
  <2>1. there' = there /\ ins' = ins /\ \A j \in Jobs : pc'[j] = IF pc[j] \in {"new", "ok"} THEN pc[j] ELSE "failed"
    BY <1>7 DEF Crash, docker
  <2>2. Steady /\ Kept \subseteq Kept'
    BY <1>a, <2>1 DEF Kept
  <2> QED
    BY <1>t, <2>1, <2>2, SafeStays
<1> QED
  BY <1>1, <1>2, <1>3, <1>4, <1>5, <1>6, <1>7 DEF Next, DockerStep

(* At first the container is kept.                                         *)
LEMMA InitSafeInv == Init => SafeInv
<1> SUFFICES ASSUME Init PROVE SafeInv
  OBVIOUS
<1>1. TypeOK
  <2>1. App \in Seq(Nat) /\ NotYet \in Inspected
    BY DEF App, NotYet, Inspected, Ids
  <2>2. there \subseteq Ids /\ running \subseteq there /\ sec \in Nat /\ faults \in Nat /\ crashes \in Nat
    BY DEF Init, Ids
  <2>3. initially \in BOOLEAN /\ clash \in BOOLEAN /\ broken \in BOOLEAN
    <3>1. (Old \in running) \in BOOLEAN /\ FALSE \in BOOLEAN
      OBVIOUS
    <3>2. initially = (Old \in running) /\ clash = FALSE /\ broken = FALSE
      BY DEF Init
    <3> QED
      BY <3>1, <3>2
  <2>4. pc \in [Jobs -> PCs]
    BY DEF Init
  <2>5. name \in [Ids -> Seq(Nat)] /\ ins \in [Jobs -> Inspected]
    BY <2>1 DEF Init
  <2> QED
    BY <2>2, <2>3, <2>4, <2>5 DEF TypeOK
<1>2. CreatedLate /\ TargetsExisted /\ Kept # {}
  BY Identities DEF Init, CreatedLate, TargetsExisted, Kept, Early
<1>3. [c \in Ids |-> 0] \in [Ids -> Nat] /\ Descent([c \in Ids |-> 0])
  BY DEF Init, Descent, GoesOn
<1> QED
  BY <1>1, <1>2, <1>3 DEF SafeInv

(* Whatever fails, is lost, crashes or overlaps, some copy of the          *)
(* container is left.                                                      *)
THEOREM NeverLost == Spec => []ContainerIsSafe
<1>1. SafeInv => ContainerIsSafe
  BY DEF SafeInv, ContainerIsSafe, NeverGone, Kept
<1> QED
  BY <1>1, InitSafeInv, NextSafeInv, PTL DEF Spec

-----------------------------------------------------------------------------
(* One container ends in place.                                            *)

Started(j) == pc[j] \notin {"new"} \cup Ended
(* Its container has been created and may take the place of the old one.   *)
Holds(j) == pc[j] \in {"connect", "start", "remove", "rbRemove"}
(* It will give the old container its name back, or start it again, or     *)
(* take its place.                                                         *)
Renames(j) == Holds(j) \/ pc[j] \in {"stop", "create", "unrename", "rbRename"}
Restarts(j) == Holds(j) \/ pc[j] \in {"create", "rbRename", "rbStart"}

(* The job works on container t as it was found: w says whether it ran.    *)
(* Or what it works on has been replaced.                                  *)
On(t, w, j) == ins[j].target = t /\ ins[j].was = w
Stale(j) == ins[j].target \notin there /\ ~Holds(j)

(* Apart from t, there is only what jobs have put beside it.               *)
Contents(t) == t \in there /\ \A c \in there : c = t \/ (c \in Jobs /\ Holds(c))
NamesApart == \A c, d \in there : name[c] = name[d] => c = d
Works(t, w) ==
    \A j \in Jobs : Started(j) => /\ On(t, w, j) \/ Stale(j)
                                  /\ ins[j].base = App
                                  /\ pc[j] = "rbStart" => ins[j].was
Holders(t) ==
    \A j \in Jobs : Holds(j) => /\ j \in there /\ name[j] = App /\ j # t
                                /\ j \in running <=> pc[j] = "remove" /\ MustStart(j)
                                /\ pc[j] = "start" => MustStart(j)
(* Nobody starts on t before the last job on the one before is done.       *)
StaleTogether ==
    \A j, k \in Jobs : Started(j) /\ Stale(j) /\ pc[j] \notin {"pull", "rename"} /\ Started(k) => Stale(k)
Named(t, w) == name[t] = App \/ \E j \in Jobs : On(t, w, j) /\ Renames(j)
Runs(t, w) ==
    /\ w => t \in running \/ \E j \in Jobs : On(t, w, j) /\ Restarts(j)
    /\ t \in running => w
Wanted(t, w) ==
    /\ initially => w
    /\ (\A j \in Jobs : pc[j] # "ok") => t = Old /\ w = initially

(* Container t is the one that counts, and w whether it is to run.         *)
InPlace(t, w) ==
    /\ Contents(t) /\ NamesApart /\ Works(t, w) /\ Holders(t) /\ StaleTogether
    /\ Named(t, w) /\ Runs(t, w) /\ Wanted(t, w)

PlaceInv == SafeInv /\ (Orderly => \E t \in Ids, w \in BOOLEAN : InPlace(t, w))

(* Disorder is never forgotten.                                            *)
LEMMA OrderlyBefore ==
    ASSUME TypeOK, [Next]_vars, Orderly'
    PROVE  Orderly /\ ~Crash
<1>1. ASSUME NEW j \in Jobs, NEW r \in Results, DockerStep(j, r) PROVE Orderly
  <2>1. UNCHANGED context
    BY <1>1 DEF DockerStep, Rename, Stop, Unrename, Create, Start, Remove, RollbackRemove, RollbackRename, RollbackStart
  <2>2. ASSUME NEW possible, Call(j, r, possible) PROVE ~broken
    BY <2>2 DEF Call, Orderly
  <2>3. ~broken
    <3>1. \/ \E c \in Ids : \E n : ContainerRename(j, c, n, r)
          \/ \E c \in Ids : ContainerStop(j, c, r) \/ ContainerStart(j, c, r) \/ ContainerRemove(j, c, r)
          \/ \E n : ContainerCreate(j, n, r)
      BY <1>1, BackupName DEF DockerStep, Rename, Stop, Unrename, Create, Start, Remove, RollbackRemove, RollbackRename, RollbackStart,
         Doomed, Ids
    <3>2. ASSUME NEW c \in Ids, ContainerStop(j, c, r) \/ ContainerStart(j, c, r) \/ ContainerRemove(j, c, r) PROVE ~broken
      BY <2>2, <3>2 DEF ContainerStop, ContainerStart, ContainerRemove
    <3> QED
      BY <2>2, <3>1, <3>2 DEF ContainerRename, ContainerCreate
  <2> QED
    BY <2>1, <2>3 DEF Orderly, context
<1>2. ~Crash
  BY DEF TypeOK, Orderly, Crash
<1>3. ASSUME NEW j \in Jobs, NEW c \in Ids, NEW pull \in BOOLEAN, Inspect(j, c, pull) PROVE Orderly
  BY <1>3 DEF Inspect, Orderly
<1>4. ASSUME NEW j \in Jobs, NEW ok \in BOOLEAN, Pull(j, ok) \/ Connect(j, ok) PROVE Orderly
  BY <1>4 DEF Pull, Connect, Orderly, context
<1>5. CASE Elapse \/ UNCHANGED vars
  <2>1. crashes' = crashes /\ clash' = clash /\ broken' = broken
    BY <1>5 DEF Elapse, vars
  <2> QED
    BY <1>2, <2>1 DEF Orderly
<1> QED
  BY <1>1, <1>2, <1>3, <1>4, <1>5 DEF Next

(* An orderly call is refused, or does what it says.                       *)
LEMMA OrderlyCall ==
    ASSUME TypeOK, Orderly', NEW j \in Jobs, NEW r \in Results, NEW possible \in BOOLEAN, Call(j, r, possible)
    PROVE  /\ r \in {"ok", "refused"} /\ (r = "ok" => possible)
           /\ pc[j] \in Rollback \cup {"remove"} => (r = "ok" <=> possible)
BY DEF Orderly, Call, Done

(* The old container's name is free only if nobody has taken its place,    *)
(* and the name is taken either by itself or by a job that goes on.        *)
LEMMA AppTaken ==
    ASSUME TypeOK, NEW t \in Ids, NEW w \in BOOLEAN, InPlace(t, w)
    PROVE  /\ Free(App) => name[t] # App /\ \A j \in Jobs : ~Holds(j)
           /\ ~Free(App) => name[t] = App \/ \E j \in Jobs : On(t, w, j) /\ Holds(j)
<1>1. Free(App) => name[t] # App /\ \A j \in Jobs : ~Holds(j)
  BY DEF InPlace, Contents, Holders, Free
<1>2. ASSUME NEW j \in Jobs, Holds(j) PROVE On(t, w, j)
  BY <1>2 DEF InPlace, Works, Stale, Started, Holds
<1> QED
  BY <1>1, <1>2 DEF InPlace, Contents, Free

(* A step of a job whose container has been replaced, or of one that goes  *)
(* from the pull to the rename or fails there, changes no container.       *)
LEMMA QuietStep ==
    ASSUME TypeOK, NEW t \in Ids, NEW w \in BOOLEAN, InPlace(t, w), NEW j \in Jobs, UNCHANGED <<docker, ins, initially>>,
           \A k \in Jobs : k # j => pc'[k] = pc[k],
           \/ Stale(j) /\ Started(j) /\ pc[j] \notin {"pull", "rename"}
              /\ pc'[j] \in {"unrename", "rbRename", "rbStart", "failed"} /\ (pc'[j] = "rbStart" => ins[j].was)
           \/ pc[j] \in {"pull", "rename"} /\ pc'[j] \in {"rename", "failed"}
    PROVE  InPlace(t, w)'
<1>s. /\ \A k \in Jobs : Holds(k)' = Holds(k) /\ (Started(k)' => Started(k)) /\ On(t, w, k)' = On(t, w, k) /\ MustStart(k)' = MustStart(k)
      /\ \A k \in Jobs : pc'[k] = "ok" <=> pc[k] = "ok"
  BY DEF Holds, Started, On, Stale, MustStart
<1>u. there' = there /\ running' = running /\ name' = name
  BY DEF docker
<1>x. /\ \A k \in Jobs : pc[k] \in {"stop", "create", "unrename", "rbRename"} /\ ~Stale(k) => pc'[k] = pc[k]
      /\ \A k \in Jobs : pc[k] \in {"create", "rbRename", "rbStart"} /\ ~Stale(k) => pc'[k] = pc[k]
      /\ \A k \in Jobs : On(t, w, k) => ~Stale(k)
  BY DEF InPlace, Contents, On, Stale
<1>1. Contents(t)' /\ NamesApart'
  BY <1>s, <1>u DEF InPlace, Contents, NamesApart
<1>2. Works(t, w)'
  BY <1>s, <1>u DEF InPlace, Works, Stale, Started
<1>3. Holders(t)'
  BY <1>s, <1>u DEF InPlace, Holders, Holds, Stale
<1>4. StaleTogether'
  BY <1>s, <1>u DEF InPlace, StaleTogether, Stale, Started
<1>5. Named(t, w)' /\ Runs(t, w)'
  BY <1>s, <1>u, <1>x DEF InPlace, Named, Runs, Renames, Restarts
<1>6. Wanted(t, w)'
  BY <1>s DEF InPlace, Wanted
<1> QED
  BY <1>1, <1>2, <1>3, <1>4, <1>5, <1>6 DEF InPlace

(* A job that works on t renames it, and takes the renaming back.          *)
LEMMA RenameStep ==
    ASSUME SafeInv, TypeOK', Orderly', NEW t \in Ids, NEW w \in BOOLEAN, InPlace(t, w), NEW j \in Jobs, NEW r \in Results,
           Rename(j, r) \/ Unrename(j, r) \/ RollbackRename(j, r)
    PROVE  InPlace(t, w)'
<1>t. TypeOK /\ Started(j) /\ ~Holds(j) /\ ins[j].base = App
  <2>1. TypeOK
    BY DEF SafeInv
  <2>2. Started(j) /\ ~Holds(j)
    BY <2>1, PcAfter DEF Started, Holds
  <2> QED
    BY <2>1, <2>2 DEF InPlace, Works
<1>i. UNCHANGED <<there, running, ins, initially>> /\ \A k \in Jobs : k # j => pc'[k] = pc[k]
  <2>1. DockerStep(j, r) /\ UNCHANGED context
    BY DEF DockerStep, Rename, Unrename, RollbackRename
  <2>2. UNCHANGED <<there, running>>
    BY DEF Rename, Unrename, RollbackRename, ContainerRename
  <2> QED
    BY <1>t, <2>1, <2>2, PcAfter DEF context
<1> DEFINE n == IF pc[j] = "rename" THEN Backup(App) ELSE App
<1>n. /\ r \in {"ok", "refused"} /\ (r = "ok" => ins[j].target \in there /\ Free(n))
      /\ pc[j] # "rename" => (r = "ok" <=> ins[j].target \in there /\ Free(n))
      /\ name' = IF r = "ok" THEN [name EXCEPT ![ins[j].target] = n] ELSE name
  <2>1. ContainerRename(j, ins[j].target, n, r) /\ pc[j] \in {"rename", "unrename", "rbRename"}
    BY <1>t DEF Rename, Unrename, RollbackRename
  <2>2. (ins[j].target \in there /\ Free(n)) \in BOOLEAN
    BY DEF Free
  <2> HIDE DEF n
  <2> QED
    BY <1>t, <2>1, <2>2, OrderlyCall DEF ContainerRename, Done
<1>p. /\ pc[j] = "rename" => pc'[j] = IF r # "ok" THEN "failed" ELSE IF ins[j].was THEN "stop" ELSE "create"
      /\ pc[j] = "unrename" => pc'[j] = "failed"
      /\ pc[j] = "rbRename" => pc'[j] = IF ins[j].was THEN "rbStart" ELSE "failed"
      /\ pc[j] \in {"rename", "unrename", "rbRename"}
  BY <1>t, PcAfter
<1>b. n \in Seq(Nat) /\ (pc[j] = "rename" => n # App)
  BY <1>t, BackupName DEF App
<1> HIDE DEF n
<1>d. n = App \/ pc[j] = "rename"
  BY DEF n
<1>1. CASE Stale(j) /\ (pc[j] # "rename" \/ r # "ok")
  <2>1. r = "refused"
    BY <1>n, <1>1 DEF Stale
  <2>2. UNCHANGED <<docker, ins, initially>>
    BY <1>i, <1>n, <2>1 DEF docker
  <2> QED
    BY <1>1, <1>t, <1>i, <1>p, <2>1, <2>2, QuietStep
<1>2. CASE Stale(j) /\ pc[j] = "rename" /\ r = "ok"
  BY <1>2, <1>n DEF Stale
<1>3. CASE pc[j] = "rename" /\ r = "refused"
  <2>1. UNCHANGED <<docker, ins, initially>>
    BY <1>i, <1>n, <1>3 DEF docker
  <2> QED
    BY <1>3, <1>t, <1>i, <1>p, <2>1, QuietStep
<1>4. CASE On(t, w, j) /\ (pc[j] = "rename" => r = "ok")
  <2>t. ins[j].target = t /\ t \in there /\ ins[j].was = w
    BY <1>4 DEF InPlace, Contents, On
  <2>s. /\ \A k \in Jobs : Holds(k)' = Holds(k) /\ (Started(k)' => Started(k)) /\ On(t, w, k)' = On(t, w, k)
                           /\ MustStart(k)' = MustStart(k) /\ Stale(k)' = Stale(k)
        /\ \A k \in Jobs : pc'[k] = "ok" <=> pc[k] = "ok"
    BY <1>t, <1>i, <1>p DEF Holds, Started, On, Stale, MustStart
  <2>n. /\ r = "ok" => name'[t] = n /\ \A c \in Ids : c # t => name'[c] = name[c]
        /\ r # "ok" => name' = name
    BY <1>t, <1>n, <2>t DEF TypeOK
  <2>i. there \subseteq Ids
    BY <1>t DEF TypeOK
  <2>1. Contents(t)'
    BY <1>i, <2>s DEF InPlace, Contents
  <2>2. NamesApart'
    BY <1>i, <1>n, <2>n, <2>i, <2>t DEF InPlace, NamesApart, Free
  <2>3. Works(t, w)'
    BY <1>i, <1>p, <2>s DEF InPlace, Works
  <2>4. Holders(t)'
    <3>1. \A k \in Jobs : Holds(k) => name'[k] = name[k] /\ pc'[k] = pc[k]
      BY <1>t, <1>i, <2>n DEF InPlace, Holders, Ids
    <3> QED
      BY <1>i, <2>s, <3>1 DEF InPlace, Holders
  <2>5. StaleTogether'
    BY <1>i, <2>s, <2>t DEF InPlace, StaleTogether, Stale
  <2>6. Named(t, w)'
    <3>1. CASE pc[j] = "rename"
      BY <1>p, <1>4, <2>s, <3>1 DEF Named, Renames
    <3>2. CASE pc[j] # "rename" /\ r = "ok"
      BY <1>d, <2>n, <3>2 DEF Named
    <3>3. CASE pc[j] # "rename" /\ r # "ok"
      <4>1. ~Free(App)
        BY <1>d, <1>n, <2>t, <3>3
      <4>2. name[t] = App \/ \E k \in Jobs : On(t, w, k) /\ Holds(k)
        BY <1>t, <4>1, AppTaken
      <4> QED
        BY <2>n, <2>s, <3>3, <4>2 DEF Named, Renames
    <3> QED
      BY <3>1, <3>2, <3>3
  <2>7. Runs(t, w)'
    <3>1. ASSUME w PROVE t \in running' \/ \E k \in Jobs : On(t, w, k)' /\ Restarts(k)'
      <4>1. CASE t \in running
        BY <1>i, <4>1
      <4>2. ASSUME NEW k \in Jobs, On(t, w, k), Restarts(k) PROVE On(t, w, k)' /\ Restarts(k)'
        <5>1. CASE k = j
          BY <1>p, <1>t, <2>s, <2>t, <3>1, <4>2, <5>1 DEF Restarts
        <5>2. CASE k # j
          BY <1>i, <2>s, <4>2, <5>2 DEF Restarts
        <5> QED
          BY <5>1, <5>2
      <4> QED
        BY <3>1, <4>1, <4>2 DEF InPlace, Runs
    <3> QED
      BY <1>i, <3>1 DEF InPlace, Runs
  <2>8. Wanted(t, w)'
    BY <1>i, <2>s DEF InPlace, Wanted
  <2> QED
    BY <2>1, <2>2, <2>3, <2>4, <2>5, <2>6, <2>7, <2>8 DEF InPlace
<1> QED
  BY <1>t, <1>n, <1>p, <1>1, <1>2, <1>3, <1>4 DEF InPlace, Works

(* A job that works on t stops it, or starts it again.                     *)
LEMMA StopStep ==
    ASSUME SafeInv, TypeOK', Orderly', NEW t \in Ids, NEW w \in BOOLEAN, InPlace(t, w), NEW j \in Jobs, NEW r \in Results,
           Stop(j, r) \/ RollbackStart(j, r)
    PROVE  InPlace(t, w)'
<1>t. TypeOK /\ Started(j) /\ ~Holds(j)
  <2>1. TypeOK
    BY DEF SafeInv
  <2> QED
    BY <2>1, PcAfter DEF Started, Holds
<1>i. UNCHANGED <<there, name, ins, initially>> /\ \A k \in Jobs : k # j => pc'[k] = pc[k]
  <2>1. DockerStep(j, r) /\ UNCHANGED context
    BY DEF DockerStep, Stop, RollbackStart
  <2>2. UNCHANGED <<there, name>>
    BY DEF Stop, RollbackStart, ContainerStop, ContainerStart
  <2> QED
    BY <1>t, <2>1, <2>2, PcAfter DEF context
<1>p. /\ Stop(j, r) => pc[j] = "stop" /\ pc'[j] = IF r = "ok" THEN "create" ELSE "unrename"
      /\ RollbackStart(j, r) => pc[j] = "rbStart" /\ pc'[j] = "failed"
  BY <1>t, PcAfter
<1>r. /\ r \in {"ok", "refused"} /\ (r = "ok" => ins[j].target \in there)
      /\ RollbackStart(j, r) /\ r # "ok" => ins[j].target \notin there \/ ~(running \subseteq {ins[j].target})
      /\ r # "ok" => running' = running
      /\ Stop(j, r) /\ r = "ok" => running' = running \ {ins[j].target}
      /\ RollbackStart(j, r) /\ r = "ok" => running' = running \cup {ins[j].target}
  <2>1. CASE Stop(j, r)
    <3>1. Call(j, r, ins[j].target \in there) /\ running' = IF Done(r) THEN running \ {ins[j].target} ELSE running
      BY <2>1 DEF Stop, ContainerStop
    <3>0. (ins[j].target \in there) \in BOOLEAN
      OBVIOUS
    <3>2. r \in {"ok", "refused"} /\ (r = "ok" => ins[j].target \in there)
      BY <1>t, <3>0, <3>1, OrderlyCall
    <3>3. ~RollbackStart(j, r)
      BY <1>p, <2>1
    <3> QED
      BY <2>1, <3>1, <3>2, <3>3 DEF Done
  <2>2. CASE RollbackStart(j, r)
    <3>1. running' = IF Done(r) THEN running \cup {ins[j].target} ELSE running
      BY <2>2 DEF RollbackStart, ContainerStart
    <3>2. PICK ports \in BOOLEAN : Call(j, r, ins[j].target \in there /\ (ports => running \subseteq {ins[j].target}))
      BY <2>2 DEF RollbackStart, ContainerStart
    <3>3. /\ r \in {"ok", "refused"}
          /\ r = "ok" <=> ins[j].target \in there /\ (ports => running \subseteq {ins[j].target})
      BY <1>t, <1>p, <2>2, <3>2, OrderlyCall
    <3> QED
      BY <1>p, <2>2, <3>1, <3>3 DEF Done
  <2> QED
    BY <2>1, <2>2
<1>1. CASE Stale(j)
  <2>1. r = "refused" /\ UNCHANGED <<docker, ins, initially>>
    BY <1>i, <1>r, <1>1 DEF Stale, docker
  <2> QED
    BY <1>1, <1>t, <1>i, <1>p, <2>1, QuietStep
<1>2. CASE On(t, w, j)
  <2>t. ins[j].target = t /\ t \in there /\ ins[j].was = w
    BY <1>2 DEF InPlace, Contents, On
  <2>s. /\ \A k \in Jobs : Holds(k)' = Holds(k) /\ (Started(k)' => Started(k)) /\ On(t, w, k)' = On(t, w, k)
                           /\ MustStart(k)' = MustStart(k) /\ Stale(k)' = Stale(k)
        /\ \A k \in Jobs : pc'[k] = "ok" <=> pc[k] = "ok"
    BY <1>t, <1>i, <1>p DEF Holds, Started, On, Stale, MustStart
  <2>1. Contents(t)' /\ NamesApart'
    BY <1>i, <2>s DEF InPlace, Contents, NamesApart
  <2>2. Works(t, w)'
    BY <1>i, <1>p, <2>s DEF InPlace, Works
  <2>3. Holders(t)'
    <3>1. \A k \in Jobs : Holds(k) => pc'[k] = pc[k] /\ (k \in running' <=> k \in running)
      BY <1>t, <1>i, <1>r, <2>t DEF InPlace, Holders
    <3> QED
      BY <1>i, <2>s, <3>1 DEF InPlace, Holders
  <2>4. StaleTogether'
    BY <1>i, <2>s, <2>t DEF InPlace, StaleTogether, Stale
  <2>5. Named(t, w)'
    <3>1. ASSUME NEW k \in Jobs, On(t, w, k), Renames(k) PROVE On(t, w, k)' /\ Renames(k)'
      BY <1>i, <1>p, <2>s, <3>1 DEF Renames
    <3> QED
      BY <1>i, <3>1 DEF InPlace, Named
  <2>6. Runs(t, w)'
    <3>1. CASE Stop(j, r) /\ r = "ok"
      <4>1. On(t, w, j)' /\ Restarts(j)' /\ t \notin running'
        BY <1>2, <1>p, <1>r, <2>s, <2>t, <3>1 DEF Restarts
      <4> QED
        BY <4>1 DEF Runs
    <3>2. CASE Stop(j, r) /\ r # "ok"
      <4>1. ASSUME NEW k \in Jobs, On(t, w, k), Restarts(k) PROVE On(t, w, k)' /\ Restarts(k)'
        BY <1>t, <1>i, <1>p, <2>s, <3>2, <4>1 DEF Restarts
      <4> QED
        BY <1>r, <3>2, <4>1 DEF InPlace, Runs
    <3>3. CASE RollbackStart(j, r) /\ r = "ok"
      <4>1. t \in running' /\ w
        BY <1>t, <1>p, <1>r, <2>t, <3>3 DEF InPlace, Works
      <4> QED
        BY <4>1 DEF Runs
    <3>4. CASE RollbackStart(j, r) /\ r # "ok"
      <4>1. PICK k \in Jobs : Holds(k)
        BY <1>t, <1>r, <2>t, <3>4 DEF InPlace, Contents, TypeOK
      <4>2. On(t, w, k)
        BY <4>1 DEF InPlace, Works, Stale, Started, Holds
      <4>3. On(t, w, k)' /\ Restarts(k)'
        BY <2>s, <4>1, <4>2 DEF Restarts
      <4> QED
        BY <1>r, <3>4, <4>3 DEF InPlace, Runs
    <3> QED
      BY <1>r, <3>1, <3>2, <3>3, <3>4
  <2>7. Wanted(t, w)'
    BY <1>i, <2>s DEF InPlace, Wanted
  <2> QED
    BY <2>1, <2>2, <2>3, <2>4, <2>5, <2>6, <2>7 DEF InPlace
<1> QED
  BY <1>t, <1>1, <1>2 DEF InPlace, Works

(* A job creates its container, and connects and starts it.                *)
LEMMA CreateStep ==
    ASSUME SafeInv, TypeOK', Orderly', NEW t \in Ids, NEW w \in BOOLEAN, InPlace(t, w), NEW j \in Jobs, NEW r \in Results, Create(j, r)
    PROVE  InPlace(t, w)'
<1>t. TypeOK /\ Started(j) /\ ~Holds(j) /\ ins[j].base = App /\ j \notin there /\ pc[j] = "create"
      /\ pc'[j] = IF r = "ok" THEN "connect" ELSE "rbRename"
  <2>1. TypeOK
    BY DEF SafeInv
  <2>2. Started(j) /\ ~Holds(j) /\ pc[j] = "create" /\ pc'[j] = IF r = "ok" THEN "connect" ELSE "rbRename"
    BY <2>1, PcAfter DEF Started, Holds
  <2> QED
    BY <2>1, <2>2 DEF InPlace, Works, SafeInv, CreatedLate, Early
<1>i. UNCHANGED <<running, ins, initially>> /\ \A k \in Jobs : k # j => pc'[k] = pc[k]
  <2>1. DockerStep(j, r) /\ UNCHANGED context /\ UNCHANGED running
    BY DEF DockerStep, Create, ContainerCreate
  <2> QED
    BY <1>t, <2>1, PcAfter DEF context
<1>r. /\ r \in {"ok", "refused"} /\ (r = "ok" => Free(App))
      /\ there' = IF r = "ok" THEN there \cup {j} ELSE there
      /\ name' = IF r = "ok" THEN [name EXCEPT ![j] = App] ELSE name
  <2>1. ContainerCreate(j, App, r) /\ Free(App) \in BOOLEAN
    BY <1>t DEF Create, Free
  <2>2. Call(j, r, Free(App))
    BY <2>1 DEF ContainerCreate
  <2>3. r \in {"ok", "refused"} /\ (r = "ok" => Free(App))
    BY <1>t, <2>1, <2>2, OrderlyCall
  <2> QED
    BY <2>1, <2>3 DEF ContainerCreate, Done
<1>1. CASE Stale(j)
  <2>1. r = "refused"
    <3>1. ~\E k \in Jobs : On(t, w, k) /\ Renames(k)
      BY <1>t, <1>1 DEF InPlace, Contents, StaleTogether, On, Stale, Renames, Holds, Started
    <3>2. name[t] = App /\ t \in there
      BY <3>1 DEF InPlace, Named, Contents
    <3> QED
      BY <1>r, <3>2 DEF Free
  <2>2. UNCHANGED <<docker, ins, initially>>
    BY <1>i, <1>r, <2>1 DEF docker
  <2> QED
    BY <1>1, <1>t, <1>i, <2>1, <2>2, QuietStep
<1>2. CASE On(t, w, j) /\ r = "refused"
  <2>u. UNCHANGED <<there, running, name, ins, initially>>
    BY <1>i, <1>r, <1>2
  <2>p. pc'[j] = "rbRename"
    BY <1>t, <1>2
  <2>s. /\ \A k \in Jobs : Holds(k)' = Holds(k) /\ (Started(k)' => Started(k)) /\ On(t, w, k)' = On(t, w, k)
                           /\ MustStart(k)' = MustStart(k) /\ Stale(k)' = Stale(k)
                           /\ (Renames(k) => Renames(k)') /\ (Restarts(k) => Restarts(k)')
        /\ \A k \in Jobs : pc'[k] = "ok" <=> pc[k] = "ok"
    BY <1>t, <1>i, <2>p, <2>u DEF Holds, Started, On, Stale, MustStart, Renames, Restarts
  <2>1. Contents(t)' /\ NamesApart' /\ Named(t, w)' /\ Runs(t, w)' /\ Wanted(t, w)'
    BY <2>u, <2>s DEF InPlace, Contents, NamesApart, Named, Runs, Wanted
  <2>2. Works(t, w)'
    BY <1>i, <2>p, <2>u, <2>s DEF InPlace, Works
  <2>3. Holders(t)'
    <3>1. \A k \in Jobs : Holds(k) => pc'[k] = pc[k]
      BY <1>t, <1>i
    <3> QED
      BY <2>u, <2>s, <3>1 DEF InPlace, Holders
  <2>4. StaleTogether'
    <3>1. ~Stale(j)
      BY <1>2 DEF InPlace, Contents, On, Stale
    <3> QED
      BY <1>i, <2>s, <3>1 DEF InPlace, StaleTogether
  <2> QED
    BY <2>1, <2>2, <2>3, <2>4 DEF InPlace
<1>3. CASE On(t, w, j) /\ r = "ok"
  <2>t. ins[j].target = t /\ t \in there /\ ins[j].was = w /\ j # t /\ j \in Ids
    BY <1>t, <1>3 DEF InPlace, Contents, On, Ids
  <2>u. there' = there \cup {j} /\ name'[j] = App /\ (\A c \in Ids : c # j => name'[c] = name[c]) /\ pc'[j] = "connect" /\ Free(App)
    BY <1>t, <1>r, <1>3, <2>t DEF TypeOK
  <2>h. \A k \in Jobs : ~Holds(k)
    BY <1>t, <2>u, AppTaken
  <2>i. there \subseteq Ids /\ running \subseteq there
    BY <1>t DEF TypeOK
  <2>x. \A k \in Jobs : Started(k) => ins[k].target # j
    BY <1>t DEF SafeInv, TargetsExisted, Started, Early
  <2>s. /\ \A k \in Jobs : (Started(k)' => Started(k)) /\ On(t, w, k)' = On(t, w, k) /\ (k # j => Holds(k)' = Holds(k))
                           /\ (k # j /\ Started(k) => Stale(k)' = Stale(k))
        /\ \A k \in Jobs : pc'[k] = "ok" <=> pc[k] = "ok"
    BY <1>t, <1>i, <2>u, <2>x DEF Holds, Started, On, Stale
  <2>j. Holds(j)' /\ ~Stale(j)' /\ ~Stale(j)
    BY <2>t, <2>u DEF Holds, Stale
  <2>1. Contents(t)'
    BY <2>u, <2>h, <2>j DEF InPlace, Contents
  <2>2. NamesApart'
    BY <2>u, <2>i DEF InPlace, NamesApart, Free
  <2>3. Works(t, w)'
    BY <1>3, <1>i, <2>u, <2>s, <2>j DEF InPlace, Works
  <2>4. Holders(t)'
    <3>1. \A k \in Jobs : Holds(k)' => k = j
      BY <2>h, <2>s
    <3>2. j \notin running
      BY <1>t, <2>i
    <3> QED
      BY <1>i, <2>t, <2>u, <3>1, <3>2 DEF Holders
  <2>5. StaleTogether'
    BY <1>i, <2>s, <2>j DEF InPlace, StaleTogether
  <2>6. Named(t, w)' /\ Runs(t, w)'
    BY <1>3, <1>i, <2>s, <2>j DEF InPlace, Named, Runs, Renames, Restarts
  <2>7. Wanted(t, w)'
    BY <1>i, <2>s DEF InPlace, Wanted
  <2> QED
    BY <2>1, <2>2, <2>3, <2>4, <2>5, <2>6, <2>7 DEF InPlace
<1> QED
  BY <1>t, <1>r, <1>1, <1>2, <1>3 DEF InPlace, Works

(* A job connects its container and starts it.                             *)
LEMMA StartStep ==
    ASSUME SafeInv, TypeOK', Orderly', NEW t \in Ids, NEW w \in BOOLEAN, InPlace(t, w), NEW j \in Jobs,
           (\E ok \in BOOLEAN : Connect(j, ok)) \/ (\E r \in Results : Start(j, r))
    PROVE  InPlace(t, w)'
<1>t. TypeOK
  BY DEF SafeInv
<1> DEFINE Effect ==
      /\ UNCHANGED <<there, name, ins, initially>> /\ (\A k \in Jobs : k # j => pc'[k] = pc[k])
      /\ pc[j] \in {"connect", "start"} /\ pc'[j] \in {"start", "remove", "rbRemove"}
      /\ pc'[j] = "start" => MustStart(j)
      /\ pc'[j] = "remove" /\ MustStart(j) => running' = running \cup {j}
      /\ ~(pc'[j] = "remove" /\ MustStart(j)) => running' = running
<1>1. Effect
  <2>1. ASSUME NEW ok \in BOOLEAN, Connect(j, ok)
        PROVE  /\ UNCHANGED <<docker, ins, initially>> /\ (\A k \in Jobs : k # j => pc'[k] = pc[k])
               /\ pc[j] = "connect" /\ pc'[j] = IF ~ok THEN "rbRemove" ELSE IF MustStart(j) THEN "start" ELSE "remove"
    <3>1. UNCHANGED <<docker, ins, initially>>
      BY <2>1 DEF Connect, docker, context
    <3> QED
      BY <1>t, <2>1, <3>1, PcAfter
  <2>2. ASSUME NEW r \in Results, Start(j, r)
        PROVE  /\ UNCHANGED <<there, name, ins, initially>> /\ (\A k \in Jobs : k # j => pc'[k] = pc[k])
               /\ pc[j] = "start" /\ r \in {"ok", "refused"} /\ pc'[j] = IF r = "ok" THEN "remove" ELSE "rbRemove"
               /\ running' = IF r = "ok" THEN running \cup {j} ELSE running
    <3>1. UNCHANGED <<there, name, ins, initially>> /\ DockerStep(j, r) /\ ContainerStart(j, j, r)
      BY <2>2 DEF Start, ContainerStart, context, DockerStep
    <3>2. PICK ports \in BOOLEAN : Call(j, r, j \in there /\ (ports => running \subseteq {j}))
      BY <3>1 DEF ContainerStart
    <3>3. r \in {"ok", "refused"}
      BY <1>t, <3>2, OrderlyCall
    <3>4. pc[j] = "start" /\ (pc'[j] = IF r = "ok" THEN "remove" ELSE "rbRemove") /\ (\A k \in Jobs : k # j => pc'[k] = pc[k])
      BY <1>t, <2>2, <3>1, PcAfter
    <3> QED
      BY <3>1, <3>3, <3>4 DEF ContainerStart, Done
  <2>3. pc[j] = "start" => MustStart(j)
    BY DEF InPlace, Holders, Holds
  <2>4. ASSUME NEW ok \in BOOLEAN, Connect(j, ok) PROVE Effect
    BY <2>1, <2>4 DEF docker
  <2>5. ASSUME NEW r \in Results, Start(j, r) PROVE Effect
    BY <2>2, <2>3, <2>5
  <2> QED
    BY <2>4, <2>5
<1>s. /\ \A k \in Jobs : Holds(k)' = Holds(k) /\ Started(k)' = Started(k) /\ On(t, w, k)' = On(t, w, k)
                         /\ MustStart(k)' = MustStart(k) /\ Stale(k)' = Stale(k)
                         /\ Renames(k)' = Renames(k) /\ Restarts(k)' = Restarts(k)
      /\ \A k \in Jobs : pc'[k] = "ok" <=> pc[k] = "ok"
  BY <1>1 DEF Holds, Started, On, Stale, MustStart, Renames, Restarts
<1>j. j # t /\ Holds(j) /\ ~Stale(j)
  BY <1>1 DEF InPlace, Holders, Holds, Stale
<1>2. Contents(t)' /\ NamesApart'
  BY <1>1, <1>s DEF InPlace, Contents, NamesApart
<1>3. Works(t, w)'
  BY <1>1, <1>s DEF InPlace, Works
<1>4. Holders(t)'
  <2>1. j \notin running
    BY <1>1 DEF InPlace, Holders, Holds
  <2>2. \A k \in Jobs : k # j => (k \in running' <=> k \in running)
    BY <1>1
  <2>3. ASSUME NEW k \in Jobs, Holds(k)'
        PROVE  /\ k \in there' /\ name'[k] = App /\ k # t
               /\ k \in running' <=> pc'[k] = "remove" /\ MustStart(k)'
               /\ pc'[k] = "start" => MustStart(k)'
    <3>1. CASE k = j
      BY <1>1, <1>s, <1>j, <2>1, <3>1 DEF InPlace, Holders
    <3>2. CASE k # j
      BY <1>1, <1>s, <2>2, <2>3, <3>2 DEF InPlace, Holders
    <3> QED
      BY <3>1, <3>2
  <2> QED
    BY <2>3 DEF Holders
<1>5. StaleTogether'
  BY <1>1, <1>s, <1>j DEF InPlace, StaleTogether
<1>6. Named(t, w)' /\ Runs(t, w)'
  BY <1>1, <1>s, <1>j DEF InPlace, Named, Runs
<1>7. Wanted(t, w)'
  BY <1>1, <1>s DEF InPlace, Wanted
<1> QED
  BY <1>2, <1>3, <1>4, <1>5, <1>6, <1>7 DEF InPlace

(* A job puts its container in the place of t.                             *)
LEMMA RemoveStep ==
    ASSUME SafeInv, TypeOK', Orderly', NEW t \in Ids, NEW w \in BOOLEAN, InPlace(t, w), NEW j \in Jobs, NEW r \in Results, Remove(j, r),
           NEW v \in BOOLEAN, v <=> j \in running
    PROVE  InPlace(j, v)'
<1>t. TypeOK /\ Holds(j) /\ pc[j] = "remove" /\ pc'[j] = "ok"
  <2>1. TypeOK
    BY DEF SafeInv
  <2> QED
    BY <2>1, PcAfter DEF Holds
<1>h. /\ ins[j].target = t /\ ins[j].was = w /\ t \in there /\ j \in there /\ name[j] = App /\ j # t
      /\ j \in running <=> MustStart(j)
  BY <1>t DEF InPlace, Contents, Works, Holders, On, Stale, Started, Holds
<1>1. /\ UNCHANGED <<name, ins, initially>> /\ (\A k \in Jobs : k # j => pc'[k] = pc[k])
      /\ there' = there \ {t} /\ running' = running \ {t}
  <2>1. ContainerRemove(j, t, r) /\ DockerStep(j, r) /\ UNCHANGED context
    BY <1>h DEF Remove, DockerStep
  <2>2. Call(j, r, t \in there) /\ (t \in there) \in BOOLEAN
    BY <2>1 DEF ContainerRemove
  <2>3. r = "ok"
    BY <1>t, <1>h, <2>2, OrderlyCall
  <2> QED
    BY <1>t, <2>1, <2>3, PcAfter DEF ContainerRemove, Done, context
<1>a. \A k \in Jobs : Holds(k) => k = j
  BY <1>h DEF InPlace, NamesApart, Holders
<1>b. there' = {j}
  BY <1>h, <1>1, <1>a DEF InPlace, Contents
<1>n. \A k \in Jobs : ~Holds(k)'
  BY <1>t, <1>1, <1>a DEF Holds
<1>w. j \in running' <=> j \in running
  BY <1>1, <1>h
<1>2. \A k \in Jobs : Started(k)' => /\ Started(k) /\ k # j /\ Stale(k)' /\ ins'[k].base = App /\ pc'[k] = pc[k]
                                     /\ pc'[k] = "rbStart" => ins'[k].was
  <2>1. ASSUME NEW k \in Jobs, Started(k)' PROVE k # j /\ Started(k) /\ pc'[k] = pc[k]
    BY <1>t, <1>1, <2>1 DEF Started
  <2>2. ASSUME NEW k \in Jobs, Started(k)' PROVE ins[k].target # j
    BY <1>h, <2>1, <2>2 DEF InPlace, Works, On, Stale
  <2> QED
    BY <1>1, <1>b, <1>n, <2>1, <2>2 DEF InPlace, Works, Stale
<1>3. Contents(j)' /\ NamesApart'
  BY <1>b DEF Contents, NamesApart
<1>4. \A k \in Jobs : Started(k)' => /\ On(j, v, k)' \/ Stale(k)'
                                     /\ ins'[k].base = App
                                     /\ pc'[k] = "rbStart" => ins'[k].was
  BY <1>2
<1>5. Holders(j)' /\ StaleTogether'
  BY <1>2, <1>n DEF Holders, StaleTogether
<1>6. Named(j, v)' /\ Runs(j, v)'
  BY <1>h, <1>1, <1>w DEF Named, Runs
<1>7. Wanted(j, v)'
  <2>1. initially' => v
    BY <1>h, <1>1 DEF InPlace, Wanted, MustStart
  <2> QED
    BY <1>t, <2>1 DEF Wanted
<1> QED
  BY <1>3, <1>4, <1>5, <1>6, <1>7 DEF InPlace, Works

(* A rollback removes the new container.                                   *)
LEMMA RollbackRemoveStep ==
    ASSUME SafeInv, TypeOK', Orderly', NEW t \in Ids, NEW w \in BOOLEAN, InPlace(t, w), NEW j \in Jobs, NEW r \in Results,
           RollbackRemove(j, r)
    PROVE  InPlace(t, w)'
<1>t. TypeOK /\ Holds(j) /\ pc[j] = "rbRemove" /\ pc'[j] = "rbRename"
  <2>1. TypeOK
    BY DEF SafeInv
  <2> QED
    BY <2>1, PcAfter DEF Holds
<1>h. ins[j].target = t /\ ins[j].was = w /\ t \in there /\ j \in there /\ j # t /\ j \notin running
  BY <1>t DEF InPlace, Contents, Works, Holders, On, Stale, Started, Holds
<1>1. /\ UNCHANGED <<name, ins, initially>> /\ (\A k \in Jobs : k # j => pc'[k] = pc[k])
      /\ there' = there \ {j} /\ running' = running
  <2>1. ContainerRemove(j, j, r) /\ DockerStep(j, r) /\ UNCHANGED context
    BY DEF RollbackRemove, Doomed, DockerStep
  <2>2. Call(j, r, j \in there) /\ (j \in there) \in BOOLEAN
    BY <2>1 DEF ContainerRemove
  <2>3. r = "ok"
    BY <1>t, <1>h, <2>2, OrderlyCall
  <2> QED
    BY <1>t, <1>h, <2>1, <2>3, PcAfter DEF ContainerRemove, Done, context
<1>x. \A k \in Jobs : Started(k) => ins[k].target # j
  BY <1>h DEF InPlace, Works, On, Stale
<1>s. /\ \A k \in Jobs : /\ (k # j => Holds(k)' = Holds(k)) /\ (Started(k)' <=> Started(k)) /\ On(t, w, k)' = On(t, w, k)
                         /\ MustStart(k)' = MustStart(k) /\ (k # j /\ Started(k) => Stale(k)' = Stale(k))
                         /\ (Renames(k) => Renames(k)') /\ (Restarts(k) => Restarts(k)')
      /\ \A k \in Jobs : pc'[k] = "ok" <=> pc[k] = "ok"
  BY <1>t, <1>1, <1>x DEF Holds, Started, On, Stale, MustStart, Renames, Restarts
<1>j. On(t, w, j)' /\ ~Stale(j)' /\ ~Stale(j) /\ ~Holds(j)'
  BY <1>t, <1>h, <1>1 DEF On, Stale, Holds
<1>2. Contents(t)' /\ NamesApart'
  BY <1>h, <1>1, <1>s DEF InPlace, Contents, NamesApart
<1>3. Works(t, w)'
  BY <1>t, <1>1, <1>s, <1>j DEF InPlace, Works
<1>4. Holders(t)'
  BY <1>1, <1>s, <1>j DEF InPlace, Holders
<1>5. StaleTogether'
  BY <1>1, <1>s, <1>j DEF InPlace, StaleTogether
<1>6. Named(t, w)' /\ Runs(t, w)'
  BY <1>1, <1>s DEF InPlace, Named, Runs
<1>7. Wanted(t, w)'
  BY <1>1, <1>s DEF InPlace, Wanted
<1> QED
  BY <1>2, <1>3, <1>4, <1>5, <1>6, <1>7 DEF InPlace

(* A job finds the container as it is to be.                               *)
LEMMA InspectStep ==
    ASSUME SafeInv, TypeOK', Orderly', NEW t \in Ids, NEW w \in BOOLEAN, InPlace(t, w),
           NEW j \in Jobs, NEW c \in Ids, NEW pull \in BOOLEAN, Inspect(j, c, pull)
    PROVE  InPlace(t, w)'
<1>1. \A k \in Jobs : pc[k] \in {"new", "pull", "rename"} \cup Ended
  BY DEF Inspect, Orderly, Replacing
<1>t. TypeOK
  BY DEF SafeInv
<1>2. /\ UNCHANGED <<there, running, name, initially>> /\ pc[j] = "new" /\ pc'[j] \in {"pull", "rename"}
      /\ \A k \in Jobs : k # j => pc'[k] = pc[k] /\ ins'[k] = ins[k]
      /\ ins'[j] = [target |-> c, base |-> name[c], was |-> c \in running, pull |-> pull] /\ c \in there
  BY <1>t DEF Inspect, docker, Goto, TypeOK
<1>n. \A k \in Jobs : ~Holds(k) /\ ~Renames(k) /\ ~Restarts(k)
  BY <1>1 DEF Holds, Renames, Restarts
<1>n2. \A k \in Jobs : ~Holds(k)'
  BY <1>1, <1>2 DEF Holds
<1>3. c = t /\ name[t] = App /\ (t \in running <=> w)
  BY <1>2, <1>n DEF InPlace, Contents, Named, Runs
<1>4. On(t, w, j)'
  BY <1>2, <1>3 DEF On
<1>s. \A k \in Jobs : k # j => On(t, w, k)' = On(t, w, k) /\ Stale(k)' = Stale(k) /\ Started(k)' = Started(k)
  BY <1>2, <1>n, <1>n2 DEF On, Stale, Started
<1>5. Contents(t)' /\ NamesApart' /\ Holders(t)'
  BY <1>2, <1>3, <1>n, <1>n2 DEF InPlace, Contents, NamesApart, Holders
<1>6. Works(t, w)'
  BY <1>2, <1>3, <1>4, <1>s DEF InPlace, Works
<1>7. StaleTogether'
  BY <1>1, <1>2 DEF StaleTogether, Started
<1>8. Named(t, w)' /\ Runs(t, w)'
  BY <1>2, <1>3 DEF Named, Runs
<1>9. Wanted(t, w)'
  BY <1>2 DEF InPlace, Wanted
<1> QED
  BY <1>5, <1>6, <1>7, <1>8, <1>9 DEF InPlace

(* Every step keeps one container in place.                                *)
LEMMA NextPlaceInv == PlaceInv /\ [Next]_vars => PlaceInv'
<1> SUFFICES ASSUME PlaceInv, [Next]_vars PROVE PlaceInv'
  OBVIOUS
<1>1. SafeInv /\ SafeInv' /\ TypeOK /\ TypeOK'
  BY NextSafeInv DEF PlaceInv, SafeInv
<1> SUFFICES ASSUME Orderly' PROVE \E t \in Ids, w \in BOOLEAN : InPlace(t, w)'
  BY <1>1 DEF PlaceInv
<1>2. Orderly /\ ~Crash
  BY <1>1, OrderlyBefore
<1>3. PICK t \in Ids, w \in BOOLEAN : InPlace(t, w)
  BY <1>2 DEF PlaceInv
<1>4. ASSUME NEW j \in Jobs, NEW r \in Results, Remove(j, r) PROVE \E u \in Ids, v \in BOOLEAN : InPlace(u, v)'
  <2>0. PICK v \in BOOLEAN : v <=> j \in running
    OBVIOUS
  <2>1. InPlace(j, v)' /\ j \in Ids
    BY <1>1, <1>3, <1>4, <2>0, RemoveStep DEF Ids
  <2> QED
    BY <2>1
<1>5. ASSUME NEW j \in Jobs, NEW ok \in BOOLEAN, Pull(j, ok) PROVE InPlace(t, w)'
  <2>1. UNCHANGED <<docker, ins, initially>>
    BY <1>5 DEF Pull, context
  <2>2. pc[j] = "pull" /\ pc'[j] \in {"rename", "failed"} /\ \A k \in Jobs : k # j => pc'[k] = pc[k]
    BY <1>1, <1>5, PcAfter
  <2> QED
    BY <1>1, <1>3, <2>1, <2>2, QuietStep
<1>6. CASE Elapse \/ UNCHANGED vars
  <2>1. UNCHANGED <<there, running, name, pc, ins, initially>>
    BY <1>6 DEF Elapse, vars, docker
  <2> QED
    BY <1>3, <2>1 DEF InPlace, Contents, NamesApart, Works, Holders, StaleTogether, Named, Runs, Wanted, On, Stale, Started, Holds,
       Renames, Restarts, MustStart
<1> QED
  BY <1>1, <1>2, <1>3, <1>4, <1>5, <1>6, RenameStep, StopStep, CreateStep, StartStep, RollbackRemoveStep, InspectStep DEF Next, DockerStep

(* At first the container that counts is Old.                              *)
LEMMA InitPlaceInv == Init => PlaceInv
<1> SUFFICES ASSUME Init PROVE InPlace(Old, initially) /\ Old \in Ids /\ initially \in BOOLEAN
  BY InitSafeInv DEF PlaceInv
<1>1. Old \in Ids /\ initially \in BOOLEAN
  BY InitSafeInv DEF SafeInv, TypeOK, Ids
<1>2. \A j \in Jobs : ~Started(j) /\ ~Holds(j) /\ pc[j] # "ok"
  BY DEF Init, Started, Holds
<1>3. there = {Old} /\ name[Old] = App /\ (initially <=> Old \in running)
  BY <1>1 DEF Init
<1> QED
  BY <1>1, <1>2, <1>3 DEF InPlace, Contents, NamesApart, Works, Holders, StaleTogether, Named, Runs, Wanted

(* When the jobs are done and nothing went wrong that no one could put     *)
(* right, one container has the name and runs if the first did; if no job  *)
(* succeeded it is the old one, as it was.                                 *)
THEOREM LeftInPlace == Spec => []EndsInPlace
<1>1. PlaceInv => EndsInPlace
  <2> SUFFICES ASSUME PlaceInv, Quiet, Orderly
               PROVE  /\ \E c \in Ids : there = {c} /\ name[c] = App /\ (initially => c \in running)
                      /\ (\A j \in Jobs : pc[j] # "ok") => Old \in there /\ (Old \in running <=> initially)
    BY DEF EndsInPlace, OneIsInPlace, FailureRestores
  <2>1. PICK t \in Ids, w \in BOOLEAN : InPlace(t, w)
    BY DEF PlaceInv
  <2>2. \A j \in Jobs : ~Holds(j) /\ ~Renames(j) /\ ~Restarts(j)
    BY DEF Quiet, Holds, Renames, Restarts
  <2>3. there = {t} /\ name[t] = App /\ (t \in running <=> w)
    BY <2>1, <2>2 DEF InPlace, Contents, Named, Runs
  <2> QED
    BY <2>1, <2>3 DEF InPlace, Wanted
<1> QED
  BY <1>1, InitPlaceInv, NextPlaceInv, PTL DEF Spec

=============================================================================
