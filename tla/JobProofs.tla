------------------------------ MODULE JobProofs ------------------------------
(***************************************************************************)
(* Proofs about the background jobs.  JobFlush first, for any set of       *)
(* goroutines and timers and any bounds: flush's mutual exclusion, that no *)
(* change is lost, that the row only goes forward and is the record        *)
(* JobRecord promises.  Then JobSteps, for any labels, plan and length of  *)
(* the list.                                                               *)
(***************************************************************************)
EXTENDS JobFlush, JobSteps, TLAPS

(* Whoever is between marshalling and giving the claim back holds it.      *)
ClaimHeld == \A p \in Procs : pc[p] \in {"exec", "leave"} => flushing

(* No goroutine touches a job that has not started or died with its        *)
(* process.                                                                *)
QuietWithoutJob ==
    /\ ~up => fn = "none"
    /\ fn = "none" =>
        /\ status = "running" /\ content = 0
        /\ ~dirty /\ ~flushing /\ ~scheduled
        /\ \A p \in Procs : pc[p] = "idle"

(* The row is behind the job, never ahead of it or in disagreement.        *)
RowBehindJob ==
    /\ fn = "running" => status = "running"
    /\ fn # "none" =>
        /\ row.content <= content
        /\ row.status \in Terminal => row.status = status

(* A marshalled snapshot lies between the row and the job.                 *)
SnapBetween ==
    \A p \in Procs : pc[p] = "exec" =>
        /\ row.content <= snap[p].content /\ snap[p].content <= content
        /\ snap[p].status \in Terminal => snap[p].status = status
        /\ row.status \in Terminal => snap[p].status = row.status

(* A clean job is in the row, or in the snapshot on its way there.         *)
CleanIsOnItsWay ==
    fn # "none" /\ ~dirty /\ dbErrors = 0 =>
        \/ row.content = content
        \/ \E p \in Procs : pc[p] = "exec" /\ snap[p].content = content

Inv ==
    /\ TypeOK /\ OneFlusher /\ ClaimHeld /\ QuietWithoutJob
    /\ RowBehindJob /\ SnapBetween /\ CleanIsOnItsWay

(* The initial state of JobFlush satisfies the inductive invariant.        *)
LEMMA InitInv == Init => Inv
<1> SUFFICES ASSUME Init PROVE Inv
  OBVIOUS
<1>1. NoRow \in Saved
  BY DEF NoRow, Saved
<1>2. TypeOK
  BY <1>1 DEF Init, TypeOK, Terminal
<1>3. OneFlusher /\ ClaimHeld /\ QuietWithoutJob
  BY DEF Init, OneFlusher, ClaimHeld, QuietWithoutJob
<1>4. RowBehindJob /\ SnapBetween /\ CleanIsOnItsWay
  BY DEF Init, RowBehindJob, SnapBetween, CleanIsOnItsWay
<1> QED
  BY <1>2, <1>3, <1>4 DEF Inv

(* Every step of JobFlush, one action at a time, preserves the invariant.  *)
LEMMA NextInv == Inv /\ [Next]_vars => Inv'
<1> SUFFICES ASSUME Inv, [Next]_vars PROVE Inv'
  OBVIOUS
<1> USE Goroutines, Bounds
    DEF Inv, TypeOK, OneFlusher, ClaimHeld, QuietWithoutJob, RowBehindJob, SnapBetween,
        CleanIsOnItsWay, Procs, Workers, Saved, NoRow, Terminal
<1>1. CASE Start
  <2>1. TypeOK'
    BY <1>1 DEF Start
  <2>2. \A p \in Procs : pc'[p] = "idle"
    BY <1>1 DEF Start
  <2>3. OneFlusher' /\ ClaimHeld' /\ SnapBetween'
    BY <2>2
  <2>4. status = "running"
    BY <1>1 DEF Start
  <2>5. row'.content = 0 /\ content' = 0 /\ row'.status = "running" /\ up' /\ fn' = "running"
    BY <1>1 DEF Start
  <2>6. QuietWithoutJob' /\ RowBehindJob' /\ CleanIsOnItsWay'
    BY <1>1, <2>4, <2>5 DEF Start
  <2> QED
    BY <2>1, <2>3, <2>6
<1>2. ASSUME NEW p \in Workers, StepCall(p) PROVE Inv'
  BY <1>2 DEF StepCall, InFn, Change, CallFlush
<1>3. ASSUME NEW p \in Workers, LogCall(p) PROVE Inv'
  BY <1>3 DEF LogCall, InFn, Change, CallFlush
<1>4. ASSUME NEW p \in Workers, IdleSubCall(p) PROVE Inv'
  BY <1>4 DEF IdleSubCall, InFn, CallFlush
<1>5. ASSUME NEW p \in Workers, SetCall(p) PROVE Inv'
  BY <1>5 DEF SetCall, InFn, Change
<1>6. ASSUME NEW p \in Procs, FlushDefer(p) PROVE Inv'
  BY <1>6 DEF FlushDefer, MayNotFlush, ArmTimer
<1>7. ASSUME NEW p \in Procs, FlushBegin(p) PROVE Inv'
  <2>1. TypeOK'
    BY <1>7 DEF FlushBegin, MayNotFlush
  <2>2. ~flushing /\ fn # "none" /\ \A q \in Procs : pc[q] \notin {"exec", "leave"}
    BY <1>7 DEF FlushBegin, MayNotFlush
  <2>3. OneFlusher' /\ ClaimHeld' /\ QuietWithoutJob' /\ RowBehindJob'
    BY <1>7, <2>2 DEF FlushBegin
  <2>4. pc'[p] = "exec" /\ snap'[p] = [status |-> status, content |-> content]
    BY <1>7 DEF FlushBegin
  <2>5. \A q \in Procs : pc'[q] = "exec" => q = p
    BY <1>7, <2>2 DEF FlushBegin
  <2>6. SnapBetween' /\ CleanIsOnItsWay'
    BY <1>7, <2>2, <2>4, <2>5 DEF FlushBegin
  <2> QED
    BY <2>1, <2>3, <2>6
<1>8. ASSUME NEW p \in Procs, FlushExec(p) PROVE Inv'
  BY <1>8 DEF FlushExec
<1>9. ASSUME NEW p \in Procs, FlushExecFails(p) PROVE Inv'
  BY <1>9 DEF FlushExecFails
<1>10. ASSUME NEW p \in Procs, FlushLeave(p) PROVE Inv'
  <2>1. TypeOK'
    BY <1>10 DEF FlushLeave, Release
  <2>2. \A q \in Procs : q # p => pc'[q] = pc[q] /\ pc[q] \notin {"exec", "leave"}
    BY <1>10 DEF FlushLeave
  <2>3. pc'[p] \in {"enter", "idle"}
    BY <1>10 DEF FlushLeave
  <2>4. OneFlusher' /\ ClaimHeld' /\ SnapBetween'
    BY <2>2, <2>3
  <2>5. fn # "none" /\ up
    BY <1>10 DEF FlushLeave
  <2>6. QuietWithoutJob' /\ RowBehindJob'
    BY <1>10, <2>5 DEF FlushLeave
  <2>7. CleanIsOnItsWay'
    BY <1>10, <2>2 DEF FlushLeave, Release
  <2> QED
    BY <2>1, <2>4, <2>6, <2>7
<1>11. ASSUME NEW t \in Timers, TimerFires(t) PROVE Inv'
  BY ZenonT(30), <1>11 DEF TimerFires, CallFlush
<1>12. CASE Elapse
  BY ZenonT(30), <1>12 DEF Elapse
<1>13. CASE FnFails
  BY <1>13 DEF FnFails, InFn, Change, CallFlush
<1>14. CASE FnSucceeds
  BY <1>14 DEF FnSucceeds, InFn, CallFlush
<1>15. CASE Deregister
  BY ZenonT(30), <1>15 DEF Deregister
<1>16. CASE RunHooks
  BY <1>16 DEF RunHooks
<1>17. CASE Crash
  <2>1. row' \in Saved
    BY <1>17 DEF Crash
  <2>2. TypeOK'
    BY <1>17, <2>1 DEF Crash
  <2>3. \A p \in Procs : pc'[p] = "idle"
    BY <1>17 DEF Crash
  <2>4. OneFlusher' /\ ClaimHeld' /\ SnapBetween'
    BY <2>3
  <2>5. QuietWithoutJob' /\ RowBehindJob' /\ CleanIsOnItsWay'
    BY <1>17, <2>3 DEF Crash
  <2> QED
    BY <2>2, <2>4, <2>5
<1>18. CASE Boot
  BY <1>18 DEF Boot, FailStale, memory
<1>19. CASE BootFailStaleFails
  BY <1>19 DEF BootFailStaleFails, memory
<1>20. CASE UNCHANGED vars
  BY <1>20 DEF vars, memory
<1> QED
  BY <1>1, <1>2, <1>3, <1>4, <1>5, <1>6, <1>7, <1>8, <1>9, <1>10, <1>11, <1>12, <1>13,
     <1>14, <1>15, <1>16, <1>17, <1>18, <1>19, <1>20
  DEF Next, FlushStep

(* flush's claim and its throttling keep every variable in its type.       *)
THEOREM TypeCorrect == Spec => []TypeOK
<1>1. Inv => TypeOK
  BY DEF Inv
<1> QED
  BY InitInv, NextInv, <1>1, PTL DEF Spec

(* At most one goroutine is inside the UPDATE of a job, whatever number of *)
(* goroutines and timers call flush.                                       *)
THEOREM FlushIsExclusive == Spec => []OneFlusher
<1>1. Inv => OneFlusher
  BY DEF Inv
<1> QED
  BY InitInv, NextInv, <1>1, PTL DEF Spec

(* While no UPDATE has failed, a job that is neither dirty nor being       *)
(* flushed is saved: clearing dirty before the UPDATE loses no change.     *)
THEOREM NoChangeIsLost == Spec => []CleanMeansSaved
<1>1. Inv => CleanMeansSaved
  BY DEF Inv, CleanMeansSaved, CleanIsOnItsWay, ClaimHeld
<1> QED
  BY InitInv, NextInv, <1>1, PTL DEF Spec

(* A step that changes the row brings it forward: flush, a crash in the    *)
(* middle of an UPDATE and FailStale included.                             *)
LEMMA RowStep ==
    Inv /\ [Next]_vars =>
        [/\ row'.content >= row.content
         /\ row.status \in Terminal => row'.status = row.status]_vars
<1> SUFFICES ASSUME Inv, Next
             PROVE  /\ row'.content >= row.content
                    /\ row.status \in Terminal => row'.status = row.status
  OBVIOUS
<1>0. row.content \in Nat /\ \A p \in Procs : snap[p].content \in Nat
  BY DEF Inv, TypeOK, Saved
<1>1. CASE Start
  BY <1>0, <1>1 DEF Start, NoRow, Terminal
<1>2. ASSUME NEW p \in Procs, FlushExec(p) PROVE row' = snap[p] /\ pc[p] = "exec"
  BY <1>2 DEF FlushExec
<1>3. ASSUME NEW p \in Procs, row' = snap[p], pc[p] = "exec"
      PROVE  /\ row'.content >= row.content
             /\ row.status \in Terminal => row'.status = row.status
  BY <1>0, <1>3 DEF Inv, SnapBetween
<1>4. CASE Crash
  <2>1. row' = row \/ \E p \in Procs : row' = snap[p] /\ pc[p] = "exec"
    BY <1>4 DEF Crash
  <2> QED
    BY <1>0, <1>3, <2>1
<1>5. CASE Boot
  BY <1>0, <1>5 DEF Boot, FailStale, Terminal, Inv, TypeOK, Saved
<1>6. CASE row' = row
  BY <1>0, <1>6
<1>7. \/ Start \/ Crash \/ Boot \/ row' = row
      \/ \E p \in Procs : FlushExec(p)
  BY DEF Next, FlushStep, StepCall, LogCall, IdleSubCall, SetCall, FlushDefer, FlushBegin,
         FlushExecFails, FlushLeave, TimerFires, Elapse, FnFails, FnSucceeds, Deregister,
         RunHooks, BootFailStaleFails
<1> QED
  BY <1>1, <1>2, <1>3, <1>4, <1>5, <1>6, <1>7

(* The row's log and steps never shrink, and a finished row stays          *)
(* finished with the same outcome, across flushes, crashes and restarts.   *)
THEOREM RowIsMonotone == Spec => RowNeverGoesBack
<1> QED
  BY InitInv, NextInv, RowStep, PTL DEF Spec, RowNeverGoesBack

-----------------------------------------------------------------------------
(* JobFlush implements JobRecord.  What Inv does not say: a job that       *)
(* started has a row, and what is closed is complete.                      *)

RowIsOpen ==
    /\ fn # "none" => row.status # "none"
    /\ \A p \in Procs : pc[p] = "exec" => snap[p].status # "none"

(* A finished row, or snapshot, holds all that the job holds.              *)
FinalIsComplete ==
    /\ fn # "none" /\ row.status \in Terminal => row.content = content
    /\ \A p \in Procs : pc[p] = "exec" /\ snap[p].status \in Terminal => snap[p].content = content

(* Every step of JobFlush keeps a started job's row open or complete.      *)
LEMMA RecordInv == Inv /\ RowIsOpen /\ FinalIsComplete /\ [Next]_vars => RowIsOpen' /\ FinalIsComplete'
<1> SUFFICES ASSUME Inv, RowIsOpen, FinalIsComplete, [Next]_vars PROVE RowIsOpen' /\ FinalIsComplete'
  OBVIOUS
<1> USE Goroutines, Bounds
    DEF Inv, TypeOK, QuietWithoutJob, RowBehindJob, SnapBetween, RowIsOpen, FinalIsComplete,
        Procs, Workers, Saved, NoRow, Terminal
<1>1. CASE Start
  BY <1>1 DEF Start
<1>2. ASSUME NEW p \in Workers, StepCall(p) \/ LogCall(p) \/ IdleSubCall(p) \/ SetCall(p)
      PROVE  RowIsOpen' /\ FinalIsComplete'
  <2>1. fn = "running" /\ status = "running"
    BY <1>2 DEF StepCall, LogCall, IdleSubCall, SetCall, InFn
  <2>2. row.status \notin Terminal /\ \A q \in Procs : pc[q] = "exec" => snap[q].status \notin Terminal
    BY <2>1
  <2>3. row' = row /\ snap' = snap /\ fn' = fn /\ \A q \in Procs : pc'[q] = "exec" => pc[q] = "exec"
    BY <1>2 DEF StepCall, LogCall, IdleSubCall, SetCall, CallFlush
  <2> QED
    BY <2>1, <2>2, <2>3
<1>3. ASSUME NEW p \in Procs, FlushDefer(p) PROVE RowIsOpen' /\ FinalIsComplete'
  BY <1>3 DEF FlushDefer
<1>4. ASSUME NEW p \in Procs, FlushBegin(p) PROVE RowIsOpen' /\ FinalIsComplete'
  <2>1. snap'[p] = [status |-> status, content |-> content] /\ content' = content
    BY <1>4 DEF FlushBegin
  <2>2. \A q \in Procs : q # p => snap'[q] = snap[q] /\ pc'[q] = pc[q]
    BY <1>4 DEF FlushBegin
  <2> QED
    BY <1>4, <2>1, <2>2 DEF FlushBegin
<1>5. ASSUME NEW p \in Procs, FlushExec(p) PROVE RowIsOpen' /\ FinalIsComplete'
  BY <1>5 DEF FlushExec
<1>6. ASSUME NEW p \in Procs, FlushExecFails(p) \/ FlushLeave(p) PROVE RowIsOpen' /\ FinalIsComplete'
  BY <1>6 DEF FlushExecFails, FlushLeave
<1>7. ASSUME NEW t \in Timers, TimerFires(t) PROVE RowIsOpen' /\ FinalIsComplete'
  BY <1>7 DEF TimerFires, CallFlush
<1>8. CASE FnFails \/ FnSucceeds
  <2>1. fn = "running" /\ status = "running"
    BY <1>8 DEF FnFails, FnSucceeds, InFn
  <2>2. row.status \notin Terminal /\ \A q \in Procs : pc[q] = "exec" => snap[q].status \notin Terminal
    BY <2>1
  <2>3. row' = row /\ snap' = snap /\ \A q \in Procs : pc'[q] = "exec" => pc[q] = "exec"
    BY <1>8 DEF FnFails, FnSucceeds, CallFlush
  <2> QED
    BY <2>1, <2>2, <2>3
<1>9. CASE Elapse \/ Deregister \/ RunHooks
  BY <1>9 DEF Elapse, Deregister, RunHooks
<1>10. CASE Crash
  <2>1. fn' = "none" /\ \A p \in Procs : pc'[p] = "idle"
    BY <1>10 DEF Crash
  <2> QED
    BY <2>1
<1>11. CASE Boot \/ BootFailStaleFails
  BY <1>11 DEF Boot, BootFailStaleFails, FailStale, memory
<1>12. CASE UNCHANGED vars
  BY <1>12 DEF vars, memory
<1> QED
  BY <1>1, <1>2, <1>3, <1>4, <1>5, <1>6, <1>7, <1>8, <1>9, <1>10, <1>11, <1>12 DEF Next, FlushStep

(* Under the mapping a step of JobFlush opens, extends or closes the       *)
(* record, or leaves it alone.                                             *)
LEMMA RecordStep == Inv /\ RowIsOpen /\ FinalIsComplete /\ [Next]_vars => [Record!Next]_(Record!vars)
<1> SUFFICES ASSUME Inv, RowIsOpen, FinalIsComplete, [Next]_vars
             PROVE  Record!Next \/ (row'.status = row.status /\ row'.content = row.content)
  BY DEF Record!vars
<1>0. row \in Saved /\ \A p \in Procs : snap[p] \in Saved
  BY DEF Inv, TypeOK
<1>1. CASE Start
  BY <1>1 DEF Start, NoRow, Record!Next, Record!Open
<1>2. ASSUME NEW p \in Procs, pc[p] = "exec", row' = snap[p], fn # "none"
      PROVE  Record!Next \/ (row'.status = row.status /\ row'.content = row.content)
  <2>1. row.status # "none" /\ snap[p].status # "none"
    BY <1>2 DEF RowIsOpen
  <2>2. row.content <= snap[p].content /\ snap[p].content <= content
    BY <1>2 DEF Inv, SnapBetween
  <2>3. CASE row.status \in Terminal
    <3>1. snap[p].status = row.status
      BY <1>2, <2>3 DEF Inv, SnapBetween
    <3>2. snap[p].content = row.content
      BY <1>2, <2>3, <3>1 DEF FinalIsComplete
    <3> QED
      BY <1>2, <3>1, <3>2
  <2>4. CASE row.status = "running" /\ snap[p].status \in Terminal
    BY <1>0, <1>2, <2>2, <2>4 DEF Record!Next, Record!Close, Terminal, Saved
  <2>5. CASE row.status = "running" /\ snap[p].status = "running"
    BY <1>0, <1>2, <2>2, <2>5 DEF Record!Next, Record!Grow, Saved
  <2> QED
    BY <1>0, <2>1, <2>3, <2>4, <2>5 DEF Saved, Terminal
<1>3. ASSUME NEW p \in Procs, FlushExec(p)
      PROVE  pc[p] = "exec" /\ row' = snap[p] /\ fn # "none"
  BY <1>3 DEF FlushExec, Inv, QuietWithoutJob
<1>4. CASE Crash
  <2>1. row' = row \/ \E p \in Procs : row' = snap[p] /\ pc[p] = "exec"
    BY <1>4 DEF Crash
  <2>2. fn # "none"
    BY <1>4 DEF Crash
  <2> QED
    BY <1>2, <2>1, <2>2
<1>5. CASE Boot
  BY <1>0, <1>5 DEF Boot, FailStale, Saved, Terminal, Record!Next, Record!Close
<1>6. \/ Start \/ Crash \/ Boot \/ row' = row
      \/ \E p \in Procs : FlushExec(p)
  BY DEF Next, FlushStep, StepCall, LogCall, IdleSubCall, SetCall, FlushDefer, FlushBegin,
         FlushExecFails, FlushLeave, TimerFires, Elapse, FnFails, FnSucceeds, Deregister,
         RunHooks, BootFailStaleFails, vars
<1> QED
  BY <1>1, <1>2, <1>3, <1>4, <1>5, <1>6

(* JobFlush implements JobRecord: for any number of goroutines, timers,    *)
(* failing statements, crashes and restarts, the row a job is read from is *)
(* opened once, only grows, and once it is closed never changes again.     *)
THEOREM JobRowIsARecord == Spec => ImplementsRecord
<1>1. Init => RowIsOpen /\ FinalIsComplete
  BY DEF Init, RowIsOpen, FinalIsComplete, NoRow, Procs, Terminal
<1>2. Init => Record!Init
  BY DEF Init, NoRow, Record!Init
<1> QED
  BY <1>1, <1>2, InitInv, NextInv, RecordInv, RecordStep, PTL DEF Spec, ImplementsRecord, Record!Spec

-----------------------------------------------------------------------------
(* The step list of a job.                                                 *)

(* The inductive invariant of the step list.                               *)
ListInv == ListTypeOK /\ RunningIsCurrent /\ FinishedIsClosed

(* No step has run at first.                                               *)
LEMMA ListStarts == ListInit => ListInv
<1> SUFFICES ASSUME ListInit PROVE ListInv
  OBVIOUS
<1>1. steps \in Seq(JobStep) /\ Len(steps) = Len(Plan)
  BY PlanIsLabels DEF ListInit, JobStep, Statuses
<1> QED
  BY <1>1 DEF ListInit, ListInv, ListTypeOK, RunningIsCurrent, FinishedIsClosed

(* finishCurrent keeps the list's length, labels and other steps.          *)
LEMMA FinishCurrentType ==
    ASSUME ListTypeOK, NEW s \in {"done", "failed"}
    PROVE  /\ FinishCurrent(s) \in Seq(JobStep)
           /\ Len(FinishCurrent(s)) = Len(steps)
           /\ \A i \in 1..Len(steps) :
                 /\ FinishCurrent(s)[i].label = steps[i].label
                 /\ FinishCurrent(s)[i].status = IF i = cur THEN s ELSE steps[i].status
                 /\ i # cur => FinishCurrent(s)[i] = steps[i]
<1> DEFINE g(i) == IF i = cur THEN [steps[i] EXCEPT !.status = s] ELSE steps[i]
<1>1. \A i \in 1..Len(steps) : steps[i] \in JobStep
  BY DEF ListTypeOK
<1>2. \A i \in 1..Len(steps) :
        /\ g(i) \in JobStep /\ g(i).label = steps[i].label
        /\ g(i).status = IF i = cur THEN s ELSE steps[i].status
        /\ i # cur => g(i) = steps[i]
  BY <1>1 DEF JobStep, Statuses
<1>3. FinishCurrent(s) = [i \in 1..Len(steps) |-> g(i)] /\ Len(steps) \in Nat
  BY DEF FinishCurrent, ListTypeOK
<1> HIDE DEF g
<1>4. FinishCurrent(s) \in Seq(JobStep) /\ Len(FinishCurrent(s)) = Len(steps)
  BY <1>2, <1>3
<1> QED
  BY <1>2, <1>3, <1>4

(* Step or Skip that reuses step i.                                        *)
LEMMA ReuseInv ==
    ASSUME ListInv, jobStatus = "running", jobStatus' = jobStatus,
           NEW i \in 1..Len(steps), steps[i].status = "pending",
           NEW s \in {"running", "skipped"},
           steps' = [Before EXCEPT ![i].status = s],
           cur' = IF s = "running" THEN i ELSE 0
    PROVE  ListInv'
<1>1. /\ Before \in Seq(JobStep) /\ Len(Before) = Len(steps)
      /\ \A k \in 1..Len(steps) : Before[k].status = IF k = cur THEN "done" ELSE steps[k].status
  BY FinishCurrentType DEF Before, ListInv
<1> DEFINE new == [Before[i] EXCEPT !.status = s]
<1>2. new \in JobStep /\ new.status = s
  <2>1. Before[i] \in JobStep
    BY <1>1
  <2> QED
    BY <2>1 DEF JobStep, Statuses
<1>3. steps' = [Before EXCEPT ![i] = new]
  BY <1>1
<1> HIDE DEF new
<1>4. steps' \in Seq(JobStep) /\ Len(steps') = Len(steps)
  BY <1>1, <1>2, <1>3
<1>5. \A k \in 1..Len(steps) : steps'[k].status = IF k = i THEN s ELSE Before[k].status
  BY <1>1, <1>2, <1>3
<1> QED
  BY <1>1, <1>4, <1>5 DEF ListInv, ListTypeOK, RunningIsCurrent, FinishedIsClosed

(* An index of a sequence that has grown by one.                           *)
LEMMA LastOrBefore ==
    ASSUME NEW n \in Nat, NEW k \in 1..(n + 1)
    PROVE  k \in 1..n \/ k = n + 1
OBVIOUS

(* Step or Skip that appends a step.                                       *)
LEMMA AppendInv ==
    ASSUME ListInv, jobStatus = "running", jobStatus' = jobStatus,
           NEW l \in Labels, NEW s \in {"running", "skipped"},
           steps' = Append(Before, [label |-> l, status |-> s]),
           cur' = IF s = "running" THEN Len(steps) + 1 ELSE 0
    PROVE  ListInv'
<1>1. /\ Before \in Seq(JobStep) /\ Len(Before) = Len(steps)
      /\ \A k \in 1..Len(steps) : Before[k].status = IF k = cur THEN "done" ELSE steps[k].status
  BY FinishCurrentType DEF Before, ListInv
<1>2. [label |-> l, status |-> s] \in JobStep
  BY DEF JobStep, Statuses
<1>3. steps' \in Seq(JobStep) /\ Len(steps') = Len(steps) + 1
  BY <1>1, <1>2
<1>4. /\ \A k \in 1..Len(steps) : steps'[k].status = Before[k].status
      /\ steps'[Len(steps) + 1].status = s
  BY <1>1
<1>5. cur \in 0..Len(steps) /\ Len(steps) \in Nat
  BY DEF ListInv, ListTypeOK
<1>6. ListTypeOK'
  BY <1>3, <1>5 DEF ListInv, ListTypeOK
<1>7. RunningIsCurrent'
  <2> SUFFICES ASSUME NEW k \in 1..(Len(steps) + 1)
               PROVE  steps'[k].status = "running" <=> k = cur'
    BY <1>3 DEF RunningIsCurrent
  <2>1. CASE k = Len(steps) + 1
    <3>1. s = "running" \/ s = "skipped"
      OBVIOUS
    <3>2. k # 0
      OBVIOUS
    <3>3. steps'[k].status = s
      BY <1>4, <2>1
    <3> QED
      BY <2>1, <3>1, <3>2, <3>3
  <2>2. CASE k \in 1..Len(steps)
    BY <1>1, <1>4, <1>5, <2>2 DEF ListInv, RunningIsCurrent
  <2> QED
    BY <1>5, <2>1, <2>2, LastOrBefore
<1> QED
  BY <1>6, <1>7 DEF ListInv, FinishedIsClosed

(* The end of a job keeps the invariant.                                   *)
LEMMA FinishInv ==
    ASSUME ListInv, NEW r \in {"success", "failed"}, NEW s \in {"done", "failed"}, Finish(r, s)
    PROVE  ListInv'
<1> DEFINE F == FinishCurrent(s)
<1>1. /\ F \in Seq(JobStep) /\ Len(F) = Len(steps)
      /\ \A k \in 1..Len(steps) : F[k].status = IF k = cur THEN s ELSE steps[k].status
  BY FinishCurrentType DEF ListInv
<1>2. \A k \in 1..Len(steps) : F[k] \in JobStep
  BY <1>1
<1>3. steps' = [k \in 1..Len(steps) |-> Closed(F[k])] /\ cur' = 0 /\ jobStatus' = r
  BY DEF Finish
<1> HIDE DEF F
<1>4. \A k \in 1..Len(steps) : Closed(F[k]) \in JobStep
  BY <1>2 DEF Closed, JobStep, Statuses
<1>5. steps' \in Seq(JobStep) /\ Len(steps') = Len(steps)
  BY <1>3, <1>4 DEF ListInv, ListTypeOK
<1>6. \A k \in 1..Len(steps) : Closed(F[k]).status \in Ended
  <2> TAKE k \in 1..Len(steps)
  <2>1. F[k].status \in Statuses \ {"running"}
    BY <1>1, <1>2 DEF ListInv, RunningIsCurrent, JobStep, Statuses
  <2> QED
    BY <1>2, <2>1 DEF Closed, Ended, Statuses, JobStep
<1> QED
  BY <1>3, <1>5, <1>6 DEF ListInv, ListTypeOK, RunningIsCurrent, FinishedIsClosed, Ended

(* Every call of the job keeps the invariant.                              *)
LEMMA ListStep == ListInv /\ [ListNext]_listVars => ListInv'
<1> SUFFICES ASSUME ListInv, [ListNext]_listVars PROVE ListInv'
  OBVIOUS
<1>1. ASSUME NEW l \in Labels, StepPlanned(l) PROVE ListInv'
  BY <1>1, ReuseInv DEF StepPlanned, First, Reusable
<1>2. ASSUME NEW l \in Labels, StepNew(l) PROVE ListInv'
  BY <1>2, AppendInv DEF StepNew, Appended
<1>3. ASSUME NEW l \in Labels, SkipPlanned(l) PROVE ListInv'
  BY <1>3, ReuseInv DEF SkipPlanned, First, Reusable
<1>4. ASSUME NEW l \in Labels, SkipNew(l) PROVE ListInv'
  BY <1>4, AppendInv DEF SkipNew
<1>5. ASSUME NEW s \in {"done", "failed"}, End(s) PROVE ListInv'
  <2>1. steps' = FinishCurrent(s) /\ cur' = 0 /\ jobStatus' = jobStatus /\ jobStatus = "running"
    BY <1>5 DEF End
  <2>2. /\ steps' \in Seq(JobStep) /\ Len(steps') = Len(steps)
        /\ \A i \in 1..Len(steps) : steps'[i].status = IF i = cur THEN s ELSE steps[i].status
    BY <2>1, FinishCurrentType DEF ListInv
  <2> QED
    BY <2>1, <2>2 DEF ListInv, ListTypeOK, RunningIsCurrent, FinishedIsClosed
<1>6. CASE Finish("success", "done") \/ Finish("failed", "failed")
  BY <1>6, FinishInv
<1>7. CASE UNCHANGED listVars
  BY <1>7 DEF listVars, ListInv, ListTypeOK, RunningIsCurrent, FinishedIsClosed
<1> QED
  BY <1>1, <1>2, <1>3, <1>4, <1>5, <1>6, <1>7 DEF ListNext

(* The list only grows, and a step that ended stays as it is: a label is   *)
(* reused only while its step is pending, and finishCurrent only touches   *)
(* the running one.                                                        *)
LEMMA StepsStep ==
    ASSUME ListInv, ListNext
    PROVE  /\ Len(steps') >= Len(steps)
           /\ \A i \in 1..Len(steps) :
                /\ steps'[i].label = steps[i].label
                /\ steps[i].status \in Ended => steps'[i] = steps[i]
<1> DEFINE Kept == /\ Len(steps') >= Len(steps)
                   /\ \A i \in 1..Len(steps) :
                        /\ steps'[i].label = steps[i].label
                        /\ steps[i].status \in Ended => steps'[i] = steps[i]
<1>1. cur # 0 => steps[cur].status = "running"
  BY DEF ListInv, ListTypeOK, RunningIsCurrent
<1>2. \A s \in {"done", "failed"} :
        /\ FinishCurrent(s) \in Seq(JobStep) /\ Len(FinishCurrent(s)) = Len(steps)
        /\ \A i \in 1..Len(steps) :
             /\ FinishCurrent(s)[i].label = steps[i].label
             /\ steps[i].status \in Ended => FinishCurrent(s)[i] = steps[i]
  BY <1>1, FinishCurrentType DEF ListInv, ListTypeOK, Ended
<1>3. ASSUME NEW i \in 1..Len(steps), steps[i].status = "pending", NEW s,
             steps' = [Before EXCEPT ![i].status = s]
      PROVE  Kept
  BY <1>2, <1>3 DEF Before, Ended, JobStep
<1>4. ASSUME NEW st, steps' = Append(Before, st) PROVE Kept
  BY <1>2, <1>4 DEF Before
<1>5. ASSUME NEW s \in {"done", "failed"}, End(s) PROVE Kept
  BY <1>2, <1>5 DEF End, ListInv, ListTypeOK
<1>6. ASSUME NEW r, NEW s \in {"done", "failed"}, Finish(r, s) PROVE Kept
  <2> DEFINE F == FinishCurrent(s)
  <2>1. steps' = [k \in 1..Len(steps) |-> Closed(F[k])]
    BY <1>6 DEF Finish
  <2>2. /\ F \in Seq(JobStep) /\ Len(F) = Len(steps)
        /\ \A i \in 1..Len(steps) : /\ F[i].label = steps[i].label
                                    /\ steps[i].status \in Ended => F[i] = steps[i]
    BY <1>2
  <2> HIDE DEF F
  <2>3. \A i \in 1..Len(steps) : /\ Closed(F[i]).label = F[i].label
                                 /\ F[i].status \in Ended => Closed(F[i]) = F[i]
    BY <2>2 DEF Closed, Ended, JobStep
  <2> QED
    BY <2>1, <2>2, <2>3 DEF ListInv, ListTypeOK
<1> QED
  BY <1>3, <1>4, <1>5, <1>6
     DEF ListNext, StepPlanned, StepNew, SkipPlanned, SkipNew, First, Reusable

(* Type correctness: j.cur is always an index of the list, so the methods  *)
(* never index out of range.                                               *)
THEOREM ListTypeCorrect == ListSpec => []ListTypeOK
<1>1. ListInv => ListTypeOK
  BY DEF ListInv
<1> QED
  BY ListStarts, ListStep, <1>1, PTL DEF ListSpec

(* The running steps of a job are exactly j.cur.                           *)
THEOREM OneStepRuns == ListSpec => []RunningIsCurrent
<1>1. ListInv => RunningIsCurrent
  BY DEF ListInv
<1> QED
  BY ListStarts, ListStep, <1>1, PTL DEF ListSpec

(* Runner.run leaves no step of a finished job pending or running.         *)
THEOREM NothingLeftOpen == ListSpec => []FinishedIsClosed
<1>1. ListInv => FinishedIsClosed
  BY DEF ListInv
<1> QED
  BY ListStarts, ListStep, <1>1, PTL DEF ListSpec

(* A step's outcome is never rewritten, and the list only grows.           *)
THEOREM OutcomesAreFinal == ListSpec => EndedIsFinal
<1>1. ListInv /\ [ListNext]_listVars =>
        [/\ Len(steps') >= Len(steps)
         /\ \A i \in 1..Len(steps) :
              /\ steps'[i].label = steps[i].label
              /\ steps[i].status \in Ended => steps'[i] = steps[i]]_listVars
  BY StepsStep
<1> QED
  BY ListStarts, ListStep, <1>1, PTL DEF ListSpec, EndedIsFinal

=============================================================================
