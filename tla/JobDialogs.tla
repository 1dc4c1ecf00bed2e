----------------------------- MODULE JobDialogs -----------------------------
(***************************************************************************)
(* The dialogs that start a job and follow it: PullDialog.tsx, a new or an *)
(* edited stack of ComposeDialog.tsx, and PullRebuildDialog.tsx, which     *)
(* hands a job it saw running to trackJob when it is closed.               *)
(***************************************************************************)
EXTENDS TrackJob

CONSTANTS
    Contents,   \* compose files, image names
    FirstTemplate    \* the first template

VARIABLES
    jd,         \* the dialog on screen, or None
    jmounts,    \* dialogs opened so far
    jposts,     \* requests that start a job, on their way
    file,       \* the compose file of the stack on the host
    left        \* history: jobs whose dialog was closed while it showed them running

jobVars == <<jd, jmounts, jposts, file, left, trackVars>>

Kinds == {"pull", "new", "edit", "rebuild"}
JobTexts == Contents \cup {FirstTemplate, None}
JobDialog == [kind : Kinds, mount : 1..MaxMoves, step : 0..1, text : JobTexts, original : JobTexts,
              blocked : BOOLEAN, force : BOOLEAN, busy : BOOLEAN,
              job : 0..MaxMoves, shown : Statuses \cup {"none"}, notified : BOOLEAN]

JobTypeOK ==
    /\ TrackTypeOK({"rebuild"})
    /\ jd \in JobDialog \cup {None} /\ jmounts \in 0..MaxMoves /\ file \in Contents
    /\ jposts \subseteq [kind : Kinds, mount : 1..MaxMoves, text : JobTexts]
    /\ left \subseteq 1..MaxMoves

JobInit ==
    /\ TrackInit /\ file = (CHOOSE x \in Contents : TRUE)
    /\ jd = None /\ jmounts = 0 /\ jposts = {} /\ left = {}

-----------------------------------------------------------------------------
(* Opening and filling in.                                                 *)

\* The rebuild dialog can be opened on a job that runs.
OpenJobDialog(k, j) ==
    /\ jd = None /\ Move /\ jmounts' = jmounts + 1
    /\ j # 0 => k = "rebuild"
    /\ jd' = [kind |-> k, mount |-> jmounts', step |-> IF k = "new" THEN 0 ELSE 1, text |-> None, original |-> None,
              blocked |-> FALSE, force |-> FALSE, busy |-> FALSE, job |-> j, shown |-> "none", notified |-> FALSE]
    /\ UNCHANGED <<jposts, file, left, trackVars>>

\* The effects on what was fetched: the file (or the first template) is taken once.
\* A rebuild fetches the state of the checkout: local changes block it.
Unseeded(d) == d.original = None
Fetched ==
    /\ jd # None /\ jd.kind # "pull" /\ Unseeded(jd)
    /\ \E b \in IF jd.kind = "rebuild" THEN BOOLEAN ELSE {FALSE}, x \in {IF jd.kind = "new" THEN FirstTemplate ELSE file} :
         jd' = [jd EXCEPT !.text = x, !.original = x, !.blocked = b]
    /\ UNCHANGED <<jmounts, jposts, file, left, trackVars, moves>>

\* The image and its tag, the compose file, a template.
EditText(x) ==
    /\ jd # None /\ jd.job = 0 /\ jd.kind # "rebuild" /\ jd.text # x /\ Spend(2)
    /\ jd.kind = "edit" => jd.original # None
    /\ jd' = [jd EXCEPT !.text = x]
    /\ UNCHANGED <<jmounts, jposts, file, left, trackVars>>
\* "Discard local changes"
SetForce ==
    /\ jd # None /\ jd.job = 0 /\ jd.blocked /\ ~jd.force
    /\ jd' = [jd EXCEPT !.force = TRUE]
    /\ UNCHANGED <<jmounts, jposts, file, left, trackVars, moves>>
ToCompose ==
    /\ jd # None /\ jd.kind = "new" /\ jd.job = 0
    /\ jd' = [jd EXCEPT !.step = 1 - @]
    /\ UNCHANGED <<jmounts, jposts, file, left, trackVars, moves>>

-----------------------------------------------------------------------------
(* start(), apply(), go()                                                  *)

MayApply(d) ==
    /\ d.job = 0 /\ d.step = 1 /\ d.text # None /\ ~d.busy
    /\ d.blocked => d.force
    /\ d.kind = "edit" => d.text # d.original
Apply ==
    /\ jd # None /\ MayApply(jd) /\ Move
    /\ jposts' = jposts \cup {[kind |-> jd.kind, mount |-> jd.mount, text |-> jd.text]}
    /\ jd' = [jd EXCEPT !.busy = TRUE]
    /\ UNCHANGED <<jmounts, file, left, trackVars>>

DialogMounted(p) == jd # None /\ jd.mount = p.mount
Started(p) ==
    /\ jposts' = jposts \ {p} /\ StartJob
    /\ file' = IF p.kind = "edit" THEN p.text ELSE file
    /\ jd' = IF DialogMounted(p) THEN [jd EXCEPT !.busy = FALSE, !.job = Len(work) + 1, !.shown = "none", !.notified = FALSE]
             ELSE jd
    /\ UNCHANGED <<jmounts, left, trackers, moves>>
Refused(p) ==
    /\ jposts' = jposts \ {p}
    /\ jd' = IF DialogMounted(p) THEN [jd EXCEPT !.busy = FALSE] ELSE jd
    /\ UNCHANGED <<jmounts, file, left, trackVars, moves>>

-----------------------------------------------------------------------------
(* Following the job.                                                      *)

WorkEnds(j) == WorkIsDone(j) /\ UNCHANGED <<jd, jmounts, jposts, file, left, trackers, told, moves>>

\* (mutant) The effect does not remember that it has announced the end.
Announces_Again(d) == d.kind # "rebuild" /\ work[d.job] # "running"
\* useJob's poll and the effect that announces the end, which runs again whenever the
\* hosts or the form change; a rebuild's end is only shown.
Announces(d) == d.kind # "rebuild" /\ work[d.job] # "running" /\ ~d.notified
ShowJob ==
    /\ jd # None /\ jd.job # 0
    /\ jd' = [jd EXCEPT !.shown = work[jd.job], !.notified = @ \/ Announces(jd)]
    /\ IF Announces(jd) THEN Tell(jd.job, Verdict(work[jd.job])) ELSE UNCHANGED told
    /\ UNCHANGED <<jmounts, jposts, file, left, work, trackers, moves>>

TryAgain ==
    /\ jd # None /\ jd.shown = "failed"
    /\ jd' = [jd EXCEPT !.job = 0, !.shown = "none"]
    /\ UNCHANGED <<jmounts, jposts, file, left, trackVars, moves>>

\* (mutant) A dialog that is closed hands nothing over.
Tracked_Never(d) == FALSE
\* close(): a rebuild that was seen running is tracked; one that no poll has answered for is not.
Tracked(d) == d.kind = "rebuild" /\ d.shown = "running"
CloseJobDialog ==
    /\ jd # None /\ jd' = None
    /\ IF Tracked(jd) THEN trackers' = trackers \cup {Tracker(jd.job, "rebuild")} ELSE UNCHANGED trackers
    /\ left' = IF jd.kind = "rebuild" /\ jd.shown = "running" THEN left \cup {jd.job} ELSE left
    /\ UNCHANGED <<jmounts, jposts, file, work, told, moves>>

Polls(t) == PollRuns(t) \/ PollEnds(t) \/ PollMisses(t) \/ GivesUp(t)
TrackerPolls == \E t \in trackers : Polls(t) /\ UNCHANGED <<jd, jmounts, jposts, file, left, moves>>

JobStep ==
    \/ \E k \in Kinds, j \in {0} \cup {i \in Jobs : work[i] = "running"} : OpenJobDialog(k, j)
    \/ Fetched \/ SetForce \/ ToCompose \/ Apply \/ ShowJob \/ TryAgain \/ CloseJobDialog \/ TrackerPolls
    \/ \E x \in Contents : EditText(x)
    \/ \E p \in jposts : Started(p) \/ Refused(p)
    \/ \E j \in Jobs : WorkEnds(j)

-----------------------------------------------------------------------------
(* A dialog has at most one request to start its job on its way            *)
(* (ComposeDialog.tsx:146).                                                *)
OneStartPerDialog == \A p, q \in jposts : p.mount = q.mount => p = q

(* The end of a job that was not handed to trackJob is told at most once,  *)
(* whatever is polled, retried and reopened (PullDialog.tsx:51).           *)
ToldOnce == \A j \in Jobs : j \notin left => Len(told[j]) <= 1

(* "Closing mid-run keeps it going; a toast says when it's done."          *)
(* (PullRebuildDialog.tsx:55).  In the end it has been said.               *)
LeftIsTold == \A j \in left : told[j] # <<>>

(* A fetched file or template is taken once: SWR's revalidations never     *)
(* replace what was typed after it (ComposeDialog.tsx:32, 39).             *)
TextIsKept ==
    [][jd # None /\ jd.original # None /\ jd' # None /\ jd'.mount = jd.mount /\ moves' = moves => jd'.text = jd.text]_jobVars
============================================================================
