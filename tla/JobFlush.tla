------------------------------ MODULE JobFlush ------------------------------
(***************************************************************************)
(* How a background job keeps its `deployments` row up to date             *)
(* (server/internal/jobs/jobs.go).  One job, from Start to its finish      *)
(* hooks; the jobs of a Runner share nothing but the active map.           *)
(*                                                                         *)
(* The job's methods run on several goroutines: the one that runs the job  *)
(* function (Main), the ones that copy command output into the job's log   *)
(* (Loggers) and the callbacks of time.AfterFunc (Timers).  Everything a   *)
(* goroutine does between j.mu.Lock and j.mu.Unlock is one step; flush is  *)
(* four of them, because it lets go of the mutex around the UPDATE.        *)
(***************************************************************************)
EXTENDS Naturals

CONSTANTS
    Main,         \* the goroutine of Runner.run
    Loggers,      \* other goroutines that call the job's methods inside fn
    Timers,       \* goroutines that run AfterFunc callbacks
    MaxContent,   \* bound: method calls that change the job
    MaxDbErrors   \* bound: statements Postgres fails or times out on

ASSUME Goroutines ==
    /\ Main \notin Loggers \cup Timers
    /\ Loggers \cap Timers = {}

ASSUME Bounds == MaxContent \in Nat /\ MaxDbErrors \in Nat

VARIABLES
    up,         \* the API process is running
    fn,         \* how far Runner.run has come with this job
    active,     \* r.active[j.id] = j
    status,     \* j.status; j.finished is set in the same critical section
    content,    \* j.steps, j.log and j.result: changes by the job's methods
                \*   (run's closing of the step list goes with status)
    dirty, flushing, scheduled,  \* the flags of the same name
    recent,     \* time.Since(j.lastFlush) < flushEvery
    pc,         \* where each goroutine is inside flush
    force,      \* the argument of the flush it is in
    snap,       \* what it marshalled to send to Postgres
    row,        \* the job's row in deployments
    dbErrors,
    crashed     \* the process that ran the job died

memory == <<fn, active, status, content, dirty, flushing, scheduled, recent, pc, force, snap>>
vars == <<up, memory, row, dbErrors, crashed>>

Procs == {Main} \cup Loggers \cup Timers
Workers == {Main} \cup Loggers
Terminal == {"success", "failed"}
Saved == [status : {"none", "running"} \cup Terminal, content : Nat]
NoRow == [status |-> "none", content |-> 0]

TypeOK ==
    /\ up \in BOOLEAN
    /\ fn \in {"none", "running", "returned", "hooks", "done"}
    /\ active \in BOOLEAN
    /\ status \in {"running"} \cup Terminal
    /\ content \in Nat
    /\ dirty \in BOOLEAN /\ flushing \in BOOLEAN
    /\ scheduled \in BOOLEAN /\ recent \in BOOLEAN
    /\ pc \in [Procs -> {"idle", "enter", "exec", "leave"}]
    /\ force \in [Procs -> BOOLEAN]
    /\ snap \in [Procs -> Saved]
    /\ row \in Saved
    /\ dbErrors \in Nat /\ crashed \in BOOLEAN

Init ==
    /\ up = TRUE
    /\ fn = "none" /\ active = FALSE
    /\ status = "running" /\ content = 0
    /\ dirty = FALSE /\ flushing = FALSE /\ scheduled = FALSE /\ recent = FALSE
    /\ pc = [p \in Procs |-> "idle"]
    /\ force = [p \in Procs |-> FALSE]
    /\ snap = [p \in Procs |-> NoRow]
    /\ row = NoRow
    /\ dbErrors = 0 /\ crashed = FALSE

-----------------------------------------------------------------------------
(* Runner.Start: INSERT the row as running, register the job, start run.   *)
(* When the INSERT fails no job exists, which is the state before it.      *)
Start ==
    /\ up /\ fn = "none" /\ row = NoRow
    /\ row' = [status |-> "running", content |-> 0]
    /\ fn' = "running" /\ active' = TRUE
    /\ UNCHANGED <<up, status, content, dirty, flushing, scheduled, recent, pc, force, snap, dbErrors, crashed>>

InFn(p) == up /\ fn = "running" /\ p \in Workers /\ pc[p] = "idle"

CallFlush(p, forced) ==
    /\ pc' = [pc EXCEPT ![p] = "enter"]
    /\ force' = [force EXCEPT ![p] = forced]

(* Mutant: a log line that does not mark the job dirty.                    *)
Change_NotDirty ==
    /\ content' = content + 1
    /\ UNCHANGED dirty

Change ==
    /\ content' = content + 1
    /\ dirty' = TRUE

(* Step, Done, Skip, Fail and SetStack change the job and force a flush;   *)
(* what they do to the step list is the subject of JobSteps.               *)
StepCall(p) ==
    /\ InFn(p) /\ content < MaxContent /\ Change /\ CallFlush(p, TRUE)
    /\ UNCHANGED <<up, fn, active, status, flushing, scheduled, recent, snap, row, dbErrors, crashed>>

(* Log, and Sub while a step runs: an unforced flush.                      *)
LogCall(p) ==
    /\ InFn(p) /\ content < MaxContent /\ Change /\ CallFlush(p, FALSE)
    /\ UNCHANGED <<up, fn, active, status, flushing, scheduled, recent, snap, row, dbErrors, crashed>>

(* Sub with no step running changes nothing, but still asks for a flush.   *)
IdleSubCall(p) ==
    /\ InFn(p) /\ CallFlush(p, FALSE)
    /\ UNCHANGED <<up, fn, active, status, content, dirty, flushing, scheduled, recent, snap, row, dbErrors, crashed>>

(* Set stores a result value and leaves the flush to whoever comes next.   *)
SetCall(p) ==
    /\ InFn(p) /\ content < MaxContent /\ Change
    /\ UNCHANGED <<up, fn, active, status, flushing, scheduled, recent, pc, force, snap, row, dbErrors, crashed>>

-----------------------------------------------------------------------------
(* Job.flush.                                                              *)
(* Mutant: a forced flush does not look at the claim.                      *)
MayNotFlush_Unclaimed(p) == ~dirty \/ (~force[p] /\ (flushing \/ recent))

MayNotFlush(p) == ~dirty \/ flushing \/ (~force[p] /\ recent)

(* Mutant: the timer is not armed while another flush is in flight.        *)
ArmTimer_OnlyIfFree == scheduled' = (scheduled \/ (dirty /\ ~flushing))

ArmTimer == scheduled' = (scheduled \/ dirty)

(* Not now: arm the trailing timer if there is something to write and none *)
(* is armed, and return.                                                   *)
FlushDefer(p) ==
    /\ up /\ pc[p] = "enter"
    /\ MayNotFlush(p)
    /\ ArmTimer
    /\ pc' = [pc EXCEPT ![p] = "idle"]
    /\ UNCHANGED <<up, fn, active, status, content, dirty, flushing, recent, force, snap, row, dbErrors, crashed>>

(* Claim the flush, clear dirty and marshal the job, all under j.mu.       *)
FlushBegin(p) ==
    /\ up /\ pc[p] = "enter"
    /\ ~MayNotFlush(p)
    /\ flushing' = TRUE /\ dirty' = FALSE /\ recent' = TRUE
    /\ snap' = [snap EXCEPT ![p] = [status |-> status, content |-> content]]
    /\ pc' = [pc EXCEPT ![p] = "exec"]
    /\ UNCHANGED <<up, fn, active, status, content, scheduled, force, row, dbErrors, crashed>>

(* The UPDATE, outside the mutex.                                          *)
FlushExec(p) ==
    /\ up /\ pc[p] = "exec"
    /\ row' = snap[p]
    /\ pc' = [pc EXCEPT ![p] = "leave"]
    /\ UNCHANGED <<up, fn, active, status, content, dirty, flushing, scheduled, recent, force, snap, dbErrors, crashed>>

(* An UPDATE that fails is logged; nothing marks the job dirty again.      *)
FlushExecFails(p) ==
    /\ up /\ pc[p] = "exec"
    /\ dbErrors < MaxDbErrors
    /\ dbErrors' = dbErrors + 1
    /\ pc' = [pc EXCEPT ![p] = "leave"]
    /\ UNCHANGED <<up, fn, active, status, content, dirty, flushing, scheduled, recent, force, snap, row, crashed>>

(* Mutant: dirty is cleared once the UPDATE is through.                    *)
Release_Clean == flushing' = FALSE /\ dirty' = FALSE

Release == flushing' = FALSE /\ UNCHANGED dirty

(* Give the claim back; a finished job that became dirty is flushed again. *)
FlushLeave(p) ==
    /\ up /\ pc[p] = "leave"
    /\ Release
    /\ LET again == dirty /\ status \in Terminal
       IN  /\ pc' = [pc EXCEPT ![p] = IF again THEN "enter" ELSE "idle"]
           /\ force' = [force EXCEPT ![p] = again]
    /\ UNCHANGED <<up, fn, active, status, content, scheduled, recent, snap, row, dbErrors, crashed>>

(* The trailing timer fires: its callback clears scheduled, then flushes.  *)
TimerFires(t) ==
    /\ up /\ scheduled /\ t \in Timers /\ pc[t] = "idle"
    /\ scheduled' = FALSE
    /\ CallFlush(t, FALSE)
    /\ UNCHANGED <<up, fn, active, status, content, dirty, flushing, recent, snap, row, dbErrors, crashed>>

(* flushEvery passes since the last flush.                                 *)
Elapse ==
    /\ up /\ recent
    /\ recent' = FALSE
    /\ UNCHANGED <<up, fn, active, status, content, dirty, flushing, scheduled, pc, force, snap, row, dbErrors, crashed>>

-----------------------------------------------------------------------------
(* Runner.run once fn has returned.  The goroutines fn started have been   *)
(* waited for.  An error (a panic and a timeout are errors too) appends a  *)
(* log line, which marks the job dirty.                                    *)
FnFails ==
    /\ InFn(Main) /\ \A p \in Loggers : pc[p] = "idle"
    /\ fn' = "returned" /\ status' = "failed"
    /\ Change
    /\ CallFlush(Main, TRUE)
    /\ UNCHANGED <<up, active, flushing, scheduled, recent, snap, row, dbErrors, crashed>>

(* Success closes the step list and sets the status; nothing marks the job *)
(* dirty on this path.                                                     *)
FnSucceeds ==
    /\ InFn(Main) /\ \A p \in Loggers : pc[p] = "idle"
    /\ fn' = "returned" /\ status' = "success"
    /\ CallFlush(Main, TRUE)
    /\ UNCHANGED <<up, active, content, dirty, flushing, scheduled, recent, snap, row, dbErrors, crashed>>

(* Snapshot for the hooks, then leave the active map.                      *)
Deregister ==
    /\ up /\ fn = "returned" /\ pc[Main] = "idle"
    /\ fn' = "hooks" /\ active' = FALSE
    /\ UNCHANGED <<up, status, content, dirty, flushing, scheduled, recent, pc, force, snap, row, dbErrors, crashed>>

RunHooks ==
    /\ up /\ fn = "hooks"
    /\ fn' = "done"
    /\ UNCHANGED <<up, active, status, content, dirty, flushing, scheduled, recent, pc, force, snap, row, dbErrors, crashed>>

-----------------------------------------------------------------------------
(* The process dies, by a crash or at the end of the 20 s shutdown grace:  *)
(* memory is gone and an UPDATE in flight reaches Postgres or does not.    *)
Crash ==
    /\ up /\ fn # "none"
    /\ up' = FALSE /\ crashed' = TRUE
    /\ row' \in {row} \cup {snap[p] : p \in {q \in Procs : pc[q] = "exec"}}
    /\ fn' = "none" /\ active' = FALSE /\ status' = "running" /\ content' = 0
    /\ dirty' = FALSE /\ flushing' = FALSE /\ scheduled' = FALSE /\ recent' = FALSE
    /\ pc' = [p \in Procs |-> "idle"]
    /\ force' = [p \in Procs |-> FALSE]
    /\ snap' = [p \in Procs |-> NoRow]
    /\ UNCHANGED dbErrors

(* Mutant: FailStale without its WHERE clause.                             *)
FailStale_All(r) == [r EXCEPT !.status = "failed"]

(* FailStale: the next process fails what the last one left running.       *)
FailStale(r) == IF r.status = "running" THEN [r EXCEPT !.status = "failed"] ELSE r

Boot ==
    /\ ~up /\ up' = TRUE
    /\ row' = FailStale(row)
    /\ UNCHANGED <<memory, dbErrors, crashed>>

(* The UPDATE of FailStale fails; main only logs it.                       *)
BootFailStaleFails ==
    /\ ~up /\ up' = TRUE
    /\ dbErrors < MaxDbErrors
    /\ dbErrors' = dbErrors + 1
    /\ UNCHANGED <<memory, row, crashed>>

FlushStep(p) ==
    \/ FlushDefer(p) \/ FlushBegin(p) \/ FlushExec(p) \/ FlushExecFails(p) \/ FlushLeave(p)

Next ==
    \/ Start
    \/ \E p \in Workers : StepCall(p) \/ LogCall(p) \/ IdleSubCall(p) \/ SetCall(p)
    \/ \E p \in Procs : FlushStep(p)
    \/ \E t \in Timers : TimerFires(t)
    \/ Elapse
    \/ FnFails \/ FnSucceeds
    \/ Deregister \/ RunHooks
    \/ Crash \/ Boot \/ BootFailStaleFails

(* Goroutines that can run do, timers fire, time passes, and a dead server *)
(* is started again (restart: unless-stopped).  fn need not return.        *)
Fairness ==
    /\ \A p \in Procs : WF_vars(FlushStep(p))
    /\ WF_vars(\E t \in Timers : TimerFires(t))
    /\ WF_vars(Elapse)
    /\ WF_vars(Deregister \/ RunHooks)
    /\ WF_vars(Boot \/ BootFailStaleFails)

Spec == Init /\ [][Next]_vars
FairSpec == Spec /\ Fairness

-----------------------------------------------------------------------------
(* Properties.                                                             *)

(* The flushing flag is a lock: of all goroutines that may call flush at   *)
(* once, at most one is between marshalling the job and giving the claim   *)
(* back, so two UPDATEs of one job are never in flight together.           *)
OneFlusher ==
    \A p, q \in Procs :
        pc[p] \in {"exec", "leave"} /\ pc[q] \in {"exec", "leave"} => p = q

(* A job that is not dirty and not being flushed has everything its        *)
(* methods changed in its row, as long as no UPDATE failed: clearing dirty *)
(* before the UPDATE never loses a change made during it.                  *)
CleanMeansSaved ==
    up /\ fn # "none" /\ ~dirty /\ ~flushing /\ dbErrors = 0 => row.content = content

(* A stale snapshot never overwrites a newer one: a row's log and steps    *)
(* only grow, and a row that is finished is never running again.           *)
RowNeverGoesBack ==
    [][/\ row'.content >= row.content
       /\ row.status \in Terminal => row'.status = row.status]_vars

(* The row is a record as JobRecord promises it: opened once, growing,     *)
(* closed once, and never touched again, whichever goroutine writes it,    *)
(* whatever dies and whatever statement fails.                             *)
Record == INSTANCE JobRecord WITH status <- row.status, content <- row.content
ImplementsRecord == Record!Spec

(* Trailing flushes: what the job holds when a goroutine enters flush      *)
(* reaches the row, however that call is throttled or finds another one in *)
(* flight, unless the process dies or an UPDATE fails.  (Set alone         *)
(* promises nothing.)                                                      *)
FlushesLand ==
    \A n \in 1..MaxContent :
        (content >= n /\ \E p \in Procs : pc[p] = "enter") ~>
            (row.content >= n \/ ~up \/ dbErrors > 0)

(* A job that failed is recorded as failed even when the final flush found *)
(* another one in flight and returned at once, unless an UPDATE fails.     *)
FailureIsRecorded == (status = "failed") ~> (row.status = "failed" \/ dbErrors > 0)

(* Whatever kills the server, once it is back the row does not stay        *)
(* "running": FailStale fails it, unless its statement fails.              *)
InterruptedJobIsClosed == (~up) ~> (row.status # "running" \/ dbErrors > 0)

(* What changes a job reaches its row: its flushes, the failure of fn and  *)
(* the death of the process under it (jobs.go:366, 472).                   *)
ChangesLand == FlushesLand /\ FailureIsRecorded /\ InterruptedJobIsClosed

(* A job that ran to its end is not shown as running for ever: clients     *)
(* poll GET /api/jobs/:id until status is not "running".                   *)
CompletionIsRecorded == (fn = "done") ~> (row.status # "running")

=============================================================================
