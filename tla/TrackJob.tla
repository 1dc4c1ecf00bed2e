------------------------------ MODULE TrackJob ------------------------------
(***************************************************************************)
(* trackJob (web/components/host/jobs.ts): the promise that polls a job of *)
(* the server until it ends, then says so in a toast.  The jobs themselves *)
(* are modelled by JobFlush and JobSteps; here a job runs and ends.        *)
(***************************************************************************)
EXTENDS WebBase

CONSTANT
    MaxMisses   \* polls in a row that may fail before trackJob gives up

ASSUME TrackConstants == MaxMisses \in Nat

VARIABLES
    work,       \* the jobs of the server, in the order they were started: their status
    trackers,   \* the calls of trackJob that have not returned
    told        \* history: the toasts about the end of each job

trackVars == <<work, trackers, told>>

Statuses == {"running", "success", "failed"}
Toasts == {"ok", "failed", "lost"}
Jobs == 1..Len(work)

TrackTypeOK(Owners) ==
    /\ work \in Seq(Statuses)
    /\ trackers \subseteq [job : Jobs, owner : Owners, misses : 0..MaxMisses, silent : 0..MaxMisses, seen : {"none", "running"}]
    /\ told \in [Jobs -> Seq(Toasts)]

TrackInit == work = <<>> /\ trackers = {} /\ told = <<>>

StartJob == work' = Append(work, "running") /\ told' = Append(told, <<>>)
WorkIsDone(j) ==
    /\ work[j] = "running"
    /\ \E s \in {"success", "failed"} : work' = [work EXCEPT ![j] = s]

\* silent is a history: the polls in a row that went without an answer.
Tracker(j, o) == [job |-> j, owner |-> o, misses |-> 0, silent |-> 0, seen |-> "none"]

Tell(j, t) == told' = [told EXCEPT ![j] = Append(@, t)]
Verdict(s) == IF s = "success" THEN "ok" ELSE "failed"

\* (mutant) Misses are counted over the whole wait.
PollAnswered_Kept(t) == [t EXCEPT !.silent = 0, !.seen = "running"]
\* A poll that finds the job running.
PollAnswered(t) == [t EXCEPT !.misses = 0, !.silent = 0, !.seen = "running"]
PollRuns(t) ==
    /\ work[t.job] = "running"
    /\ trackers' = (trackers \ {t}) \cup {PollAnswered(t)}
    /\ UNCHANGED <<work, told>>
\* A poll that finds it ended: the loop is left, the lists are fetched again, a toast.
PollEnds(t) ==
    /\ work[t.job] # "running"
    /\ trackers' = trackers \ {t} /\ Tell(t.job, Verdict(work[t.job]))
    /\ UNCHANGED work
\* A poll that fails, and the one after which trackJob gives up: it has "lost track" only
\* if no poll was ever answered, and calls the job failed if the last answer said "running".
PollMisses(t) ==
    /\ t.misses < MaxMisses
    /\ trackers' = (trackers \ {t}) \cup {[t EXCEPT !.misses = @ + 1, !.silent = @ + 1]}
    /\ UNCHANGED <<work, told>>
GivesUp(t) ==
    /\ t.misses = MaxMisses
    /\ trackers' = trackers \ {t} /\ Tell(t.job, IF t.seen = "none" THEN "lost" ELSE "failed")
    /\ UNCHANGED work

-----------------------------------------------------------------------------
(* trackJob gives up only when MaxMisses + 1 polls in a row failed, however *)
(* many failed before an answer (jobs.ts:31).                              *)
GivesUpAfterSilence == \A t \in trackers : t.misses = t.silent

(* "done" is said only of a job that succeeded (jobs.ts:42).               *)
DoneIsSuccess ==
    \A j \in Jobs : \A i \in DOMAIN told[j] : told[j][i] = "ok" => work[j] = "success"
============================================================================
