------------------------------ MODULE JobSteps ------------------------------
(***************************************************************************)
(* The step list of a background job (server/internal/jobs/jobs.go): what  *)
(* Step, Done, Skip, Fail and the end of Runner.run do to it under j.mu.   *)
(* How the list reaches the job's row is the subject of JobFlush.          *)
(***************************************************************************)
EXTENDS Naturals, Sequences

CONSTANTS
    Labels,   \* the labels steps can have
    Plan,     \* Spec.Plan: the labels known beforehand
    MaxSteps  \* bound: steps in the list

ASSUME PlanIsLabels == Plan \in Seq(Labels)
ASSUME StepsBound == MaxSteps \in Nat

VARIABLES
    steps,     \* j.steps: label and status
    cur,       \* j.cur + 1: the running step, or 0
    jobStatus  \* j.status

listVars == <<steps, cur, jobStatus>>

Statuses == {"pending", "running", "done", "failed", "skipped"}
Ended == {"done", "failed", "skipped"}
JobStep == [label : Labels, status : Statuses]

ListTypeOK ==
    /\ steps \in Seq(JobStep)
    /\ cur \in 0..Len(steps)
    /\ jobStatus \in {"running", "success", "failed"}

(* Runner.Start.                                                           *)
ListInit ==
    /\ steps = [i \in 1..Len(Plan) |-> [label |-> Plan[i], status |-> "pending"]]
    /\ cur = 0
    /\ jobStatus = "running"

-----------------------------------------------------------------------------
(* finishCurrent(s), as the list it leaves.                                *)
FinishCurrent(s) ==
    [i \in 1..Len(steps) |->
        IF i = cur THEN [steps[i] EXCEPT !.status = s] ELSE steps[i]]

(* Mutant: any step of that name is reused, not only a pending one.        *)
Reusable_Any(i, l) == steps[i].label = l

Reusable(i, l) == steps[i].label = l /\ steps[i].status = "pending"

(* The step that Step and Skip use for label l is the first reusable one.  *)
First(i, l) ==
    /\ i \in 1..Len(steps) /\ Reusable(i, l)
    /\ \A k \in 1..(i - 1) : ~Reusable(k, l)

NoneReusable(l) == \A i \in 1..Len(steps) : ~Reusable(i, l)

(* Mutant: the step that was running is left as it is.                     *)
Before_Unfinished == steps

(* Step and Skip finish the running step before they go on.                *)
Before == FinishCurrent("done")

(* Where an appended step is.                                              *)
Appended == Len(steps) + 1

(* Step: finish the running step, then start the planned one of this name  *)
(* or a new one.                                                           *)
StepPlanned(l) ==
    /\ jobStatus = "running"
    /\ \E i \in 1..Len(steps) :
          /\ First(i, l)
          /\ steps' = [Before EXCEPT ![i].status = "running"]
          /\ cur' = i
    /\ UNCHANGED jobStatus

StepNew(l) ==
    /\ jobStatus = "running" /\ Len(steps) < MaxSteps
    /\ NoneReusable(l)
    /\ steps' = Append(Before, [label |-> l, status |-> "running"])
    /\ cur' = Appended
    /\ UNCHANGED jobStatus

SkipPlanned(l) ==
    /\ jobStatus = "running"
    /\ \E i \in 1..Len(steps) :
          /\ First(i, l)
          /\ steps' = [Before EXCEPT ![i].status = "skipped"]
    /\ cur' = 0
    /\ UNCHANGED jobStatus

SkipNew(l) ==
    /\ jobStatus = "running" /\ Len(steps) < MaxSteps
    /\ NoneReusable(l)
    /\ steps' = Append(Before, [label |-> l, status |-> "skipped"])
    /\ cur' = 0
    /\ UNCHANGED jobStatus

(* Done and Fail.                                                          *)
End(s) ==
    /\ jobStatus = "running"
    /\ steps' = FinishCurrent(s)
    /\ cur' = 0
    /\ UNCHANGED jobStatus

(* Mutant: what was not reached stays pending.                             *)
Closed_Pending(st) == st

(* A step that was not reached when the job ends.                          *)
Closed(st) == IF st.status = "pending" THEN [st EXCEPT !.status = "skipped"] ELSE st

(* Runner.run: fn returned, with or without an error.                      *)
Finish(result, s) ==
    /\ jobStatus = "running"
    /\ steps' = [i \in 1..Len(steps) |-> Closed(FinishCurrent(s)[i])]
    /\ cur' = 0
    /\ jobStatus' = result

ListNext ==
    \/ \E l \in Labels : StepPlanned(l) \/ StepNew(l) \/ SkipPlanned(l) \/ SkipNew(l)
    \/ \E s \in {"done", "failed"} : End(s)
    \/ Finish("success", "done") \/ Finish("failed", "failed")

ListSpec == ListInit /\ [][ListNext]_listVars

-----------------------------------------------------------------------------
(* Properties.                                                             *)

(* The job page shows one step at work: the running steps of the list are  *)
(* exactly j.cur, whatever order Step, Skip, Done and Fail are called in.  *)
RunningIsCurrent ==
    \A i \in 1..Len(steps) : steps[i].status = "running" <=> i = cur

(* A finished job has no step left pending or running.                     *)
FinishedIsClosed ==
    jobStatus # "running" => \A i \in 1..Len(steps) : steps[i].status \in Ended

(* What a step came to is never rewritten: a step that was done, failed or *)
(* skipped stays so although later steps have the same label, and the list *)
(* only grows at its end.                                                  *)
EndedIsFinal ==
    [][/\ Len(steps') >= Len(steps)
       /\ \A i \in 1..Len(steps) :
            /\ steps'[i].label = steps[i].label
            /\ steps[i].status \in Ended => steps'[i] = steps[i]]_listVars

=============================================================================
