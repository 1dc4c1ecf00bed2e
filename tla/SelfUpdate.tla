---------------------------- MODULE SelfUpdate ----------------------------
(***************************************************************************)
(* Dockhand updating itself from its git checkout: the server              *)
(* (server/internal/system: gitupdate.go, system.go, auto.go), the         *)
(* detached updater container it hands off to, the restart that the        *)
(* updater causes, and the page that follows it                            *)
(* (web/components/settings/UpdatesTab.tsx with useJob of web/lib/api.ts). *)
(*                                                                         *)
(* A commit is its number; 0 is none, and as a version the release the     *)
(* binary was stamped with.  Release mode and rollback are left out.       *)
(***************************************************************************)
EXTENDS Naturals, Sequences, FiniteSets

CONSTANTS
    MaxCommit,   \* bound: commits on the branch
    MaxEvents,   \* bound: self-update jobs started, and faults of the API, together
    MaxLoad      \* bound: those, and the answers on their way to the updater
                 \* watch, which is always left room for one (0: it does not ask)

ASSUME UpdateConstants ==
    MaxCommit \in Nat \ {0} /\ MaxEvents \in Nat /\ MaxLoad \in Nat

VARIABLES
    remote,      \* head of the branch at GitHub
    checkout,    \* HEAD of the checkout Dockhand was built from
    image,       \* commit of the built image
    container,   \* commit of the image the API container runs
    up, crashes, \* faults: the API dies by itself, or cannot read its checkout
    owed,        \* history: the newest row, if it was pending when the API last ended;
                 \* 0 for none, or once a start could not read the checkout
    cut,         \* history: the API ended under an updater at work, or with a
                 \* checkout that its container was not built from
    boot, local, head,   \* bootSHA, gitLocal.SHA, gitRemote.SHA
    rows,        \* update_history, oldest first
    updates,     \* self-update jobs
    helper,      \* state of the updater container of each job
    recon,       \* the row reconcileGitUpdate works on
    autoPc,      \* autoUpdate: "idle" or "checked"
    avail,       \* updateAvailable as the page last read it
    tabJob, seen,        \* jobId, and the status useJob holds
    st, mark, live, down,  \* UpdaterWatch: updater state, log marker, commit, unreachable
    peak,        \* the most the progress bar has shown
    answers      \* answers of the watch's requests, not yet applied

past == <<owed, cut>>
server == <<boot, local, head, recon, autoPc>>
disk == <<checkout, image, container>>
tab == <<avail, tabJob, seen, st, mark, live, down, peak, answers>>
vars == <<remote, disk, up, crashes, past, server, rows, updates, helper, tab>>

Commits == 1..MaxCommit
Updates == 1..MaxEvents
Status == {"pending", "success", "failed"}
Row == [version : 0..MaxCommit, status : Status, old : BOOLEAN, of : 0..MaxEvents]
Stages == <<"prepare", "fetch", "build", "restart", "done">>
Answer == [kind : {"updater"}, st : {"none", "running", "succeeded", "failed"}, mark : {"prepare", "fetch", "build", "restart"}]
          \cup [kind : {"system"}, commit : 0..MaxCommit] \cup [kind : {"down"}]

TypeOK ==
    /\ remote \in Commits /\ checkout \in Commits /\ image \in Commits /\ container \in Commits
    /\ up \in BOOLEAN /\ crashes \in 0..MaxEvents /\ cut \in BOOLEAN
    /\ boot \in 0..MaxCommit /\ local \in 0..MaxCommit /\ head \in 0..MaxCommit
    /\ rows \in Seq(Row) /\ owed \in 0..Len(rows)
    /\ updates \in Seq([by : {"tab", "auto"}, target : Commits, at : {"prep", "row", "handed", "failed"}])
    /\ helper \in [Updates -> {"none", "started", "merged", "built", "ok", "failed", "gone"}]
    /\ recon \in 0..Len(rows) /\ autoPc \in {"idle", "checked"}
    /\ avail \in BOOLEAN /\ tabJob \in 0..MaxEvents /\ seen \in {"none", "running", "success", "failed"}
    /\ st \in {"none", "running", "succeeded", "failed"} /\ mark \in {"prepare", "fetch", "build", "restart"}
    /\ live \in 0..MaxCommit /\ down \in BOOLEAN /\ peak \in 1..Len(Stages)
    /\ answers \subseteq Answer /\ Cardinality(answers) <= MaxLoad

NoWatch == /\ st' = "none" /\ mark' = "prepare" /\ live' = 0 /\ down' = FALSE
           /\ peak' = 1 /\ answers' = {}

Init ==
    /\ remote = 1 /\ checkout = 1 /\ image = 1 /\ container = 1
    /\ up = TRUE /\ crashes = 0 /\ owed = 0 /\ cut = FALSE
    /\ boot = 0 /\ local = 0 /\ head = 0 /\ recon = 0 /\ autoPc = "idle"
    /\ rows = <<[version |-> 0, status |-> "success", old |-> FALSE, of |-> 0]>>
    /\ updates = <<>> /\ helper = [u \in Updates |-> "none"]
    /\ avail = FALSE /\ tabJob = 0 /\ seen = "none"
    /\ st = "none" /\ mark = "prepare" /\ live = 0 /\ down = FALSE /\ peak = 1 /\ answers = {}

-----------------------------------------------------------------------------
(* The server.                                                             *)

(* Someone pushes to the branch.                                           *)
Push ==
    /\ remote < MaxCommit /\ remote' = remote + 1
    /\ UNCHANGED <<disk, up, crashes, past, server, rows, updates, helper, tab>>

(* refreshGit: the first commit read is kept as the one this build came    *)
(* from; the head stays as it was when GitHub cannot be reached.           *)
RefreshGit(reachable) ==
    /\ local' = checkout
    /\ boot' = IF boot = 0 THEN checkout ELSE boot
    /\ head' = IF reachable THEN remote ELSE head

(* (mutant) The checkout's commit is reported as the running one.          *)
Current_Local(b, l) == l
(* GET /api/system: from memory within ten minutes, else after a refresh.  *)
GitInfo ==
    \/ \E r \in BOOLEAN : RefreshGit(r)
    \/ local # 0 /\ UNCHANGED <<boot, local, head>>

(* gitInfo: the running commit, and whether one is newer.  *)
Current(b, l) == IF b # 0 THEN b ELSE l
Available(b, h) == h > b

Refresh ==
    /\ up /\ \E r \in BOOLEAN : RefreshGit(r)
    /\ UNCHANGED <<remote, disk, up, crashes, past, recon, autoPc, rows, updates, helper, tab>>

(* startGit up to the job's goroutine: the target is fixed here.           *)
NewJob(by, l, h) ==
    /\ l # 0 /\ Len(updates) + crashes < MaxEvents
    /\ updates' = Append(updates, [by |-> by, target |-> IF h # 0 THEN h ELSE l, at |-> "prep"])

JobFails(u) ==
    /\ up /\ updates[u].at = "prep"
    /\ updates' = [updates EXCEPT ![u].at = "failed"]
    /\ UNCHANGED <<remote, disk, up, crashes, past, server, rows, helper, tab>>

JobInsertsRow(u) ==
    /\ up /\ updates[u].at = "prep"
    /\ updates' = [updates EXCEPT ![u].at = "row"]
    /\ rows' = Append(rows, [version |-> updates[u].target, status |-> "pending", old |-> FALSE, of |-> u])
    /\ UNCHANGED <<remote, disk, up, crashes, past, server, helper, tab>>

(* Exited updaters are removed, then the new one is created and started.   *)
JobHandsOff(u) ==
    /\ up /\ updates[u].at = "row"
    /\ updates' = [updates EXCEPT ![u].at = "handed"]
    /\ helper' = [v \in Updates |-> IF v = u THEN "started"
                                    ELSE IF helper[v] \in {"ok", "failed"} THEN "gone" ELSE helper[v]]
    /\ UNCHANGED <<remote, disk, up, crashes, past, server, rows, tab>>

JobCannotHandOff(u) ==
    /\ up /\ updates[u].at = "row"
    /\ updates' = [updates EXCEPT ![u].at = "failed"]
    /\ rows' = [i \in 1..Len(rows) |-> IF rows[i].of = u THEN [rows[i] EXCEPT !.status = "failed"] ELSE rows[i]]
    /\ UNCHANGED <<remote, disk, up, crashes, past, server, helper, tab>>

Working(u) == helper[u] \in {"started", "merged", "built"}

(* The updater: fetch and merge, build, up -d, which replaces the API's    *)
(* container when the image is another one.                                *)
HelperMerges(u) ==
    /\ helper[u] = "started"
    /\ helper' = [helper EXCEPT ![u] = "merged"] /\ checkout' = remote
    /\ UNCHANGED <<remote, image, container, up, crashes, past, server, rows, updates, tab>>
HelperBuilds(u) ==
    /\ helper[u] = "merged"
    /\ helper' = [helper EXCEPT ![u] = "built"] /\ image' = checkout
    /\ UNCHANGED <<remote, checkout, container, up, crashes, past, server, rows, updates, tab>>
HelperFails(u) ==
    /\ Working(u)
    /\ helper' = [helper EXCEPT ![u] = "failed"]
    /\ UNCHANGED <<remote, disk, up, crashes, past, server, rows, updates, tab>>

Last == rows[Len(rows)]
Stop ==
    /\ up' = FALSE /\ boot' = 0 /\ local' = 0 /\ head' = 0 /\ recon' = 0 /\ autoPc' = "idle"
    /\ owed' = IF Last.status = "pending" THEN Len(rows) ELSE 0

HelperRestartsApi(u) ==
    /\ helper[u] = "built"
    /\ helper' = [helper EXCEPT ![u] = "ok"] /\ container' = image
    /\ IF image # container
       THEN Stop /\ cut' = (cut \/ checkout # image \/ \E v \in Updates \ {u} : Working(v))
       ELSE UNCHANGED <<up, server, past>>
    /\ UNCHANGED <<remote, checkout, image, crashes, rows, updates, tab>>

Crash ==
    /\ up /\ Len(updates) + crashes < MaxEvents
    /\ Stop /\ crashes' = crashes + 1
    /\ cut' = (cut \/ checkout # container \/ \E u \in Updates : Working(u))
    /\ UNCHANGED <<remote, disk, rows, updates, helper, tab>>

(* Start-up: interrupted jobs are closed, and RecordBoot looks at the      *)
(* newest row only.                                                        *)
Boot ==
    /\ ~up /\ up' = TRUE
    /\ updates' = [u \in 1..Len(updates) |-> IF updates[u].at \in {"prep", "row"}
                                             THEN [updates[u] EXCEPT !.at = "failed"] ELSE updates[u]]
    /\ recon' = IF Last.status = "pending" THEN Len(rows) ELSE 0
    /\ rows' = IF Last.status # "pending" /\ Last.version # 0
               THEN Append(rows, [version |-> 0, status |-> "success", old |-> FALSE, of |-> 0])
               ELSE rows
    /\ UNCHANGED <<remote, disk, crashes, past, boot, local, head, autoPc, helper, tab>>

(* (mutant) Only an update that succeeded is recorded.                     *)
Reconcile_Success ==
    /\ up /\ recon # 0 /\ recon' = 0
    /\ \E r \in BOOLEAN : RefreshGit(r)
    /\ rows' = IF checkout = rows[recon].version THEN [rows EXCEPT ![recon].status = "success"] ELSE rows
    /\ UNCHANGED <<remote, disk, up, crashes, past, autoPc, updates, helper, tab>>
(* reconcileGitUpdate: the checkout decides how the update ended; one that *)
(* cannot be read leaves the row pending.                                  *)
Reconcile ==
    /\ up /\ recon # 0 /\ recon' = 0
    /\ \E r \in BOOLEAN : RefreshGit(r)
    /\ rows' = [rows EXCEPT ![recon].status = IF checkout = rows[recon].version THEN "success" ELSE "failed"]
    /\ UNCHANGED <<remote, disk, up, crashes, past, autoPc, updates, helper, tab>>

ReconcileFails ==
    /\ up /\ recon # 0 /\ recon' = 0 /\ local = 0
    /\ Len(updates) + crashes < MaxEvents /\ crashes' = crashes + 1 /\ owed' = 0
    /\ UNCHANGED <<cut, remote, disk, up, boot, local, head, autoPc, rows, updates, helper, tab>>

(* A row passes the 30 minutes autoUpdate looks at.  The model takes its   *)
(* hand-off and its updater to be over by then.                            *)
RowExpires(i) ==
    /\ rows[i].status = "pending" /\ ~rows[i].old
    /\ rows[i].of # 0 => /\ updates[rows[i].of].at # "row"
                         /\ ~Working(rows[i].of)
    /\ rows' = [rows EXCEPT ![i].old = TRUE]
    /\ UNCHANGED <<remote, disk, up, crashes, past, server, updates, helper, tab>>

(* (mutant) Only the jobs of this process count.                           *)
InProgress_Jobs == \E u \in 1..Len(updates) : updates[u].at \in {"prep", "row"}
InProgress ==
    \/ \E i \in 1..Len(rows) : rows[i].status = "pending" /\ ~rows[i].old
    \/ \E u \in 1..Len(updates) : updates[u].at \in {"prep", "row"}
FailedBefore(c) == \E i \in 1..Len(rows) : rows[i].status = "failed" /\ rows[i].version = c

(* autoUpdate: nothing in progress, then a forced check that takes its     *)
(* time, then the update.                                                  *)
AutoChecks ==
    /\ up /\ autoPc = "idle" /\ ~InProgress
    /\ autoPc' = "checked"
    /\ UNCHANGED <<remote, disk, up, crashes, past, boot, local, head, recon, rows, updates, helper, tab>>
AutoDecides ==
    /\ up /\ autoPc = "checked" /\ autoPc' = "idle"
    /\ \E r \in BOOLEAN :
         /\ RefreshGit(r)
         /\ IF r /\ Available(boot', head') /\ ~FailedBefore(head')
            THEN NewJob("auto", local', head') ELSE UNCHANGED updates
    /\ UNCHANGED <<remote, disk, up, crashes, past, recon, rows, helper, tab>>

-----------------------------------------------------------------------------
(* The page.                                                               *)

(* GET /api/system, or POST /api/system/check.                             *)
LoadSystem ==
    /\ up /\ GitInfo
    /\ avail' = Available(boot', head')
    /\ UNCHANGED <<remote, disk, up, crashes, past, recon, autoPc, rows, updates, helper>>
    /\ UNCHANGED <<tabJob, seen, st, mark, live, down, peak, answers>>

(* start(): the button is there until useJob has its first answer, so a    *)
(* second click starts a second update.  The request and its answer are    *)
(* one step; a request that fails changes nothing.                         *)
StartUpdate ==
    /\ avail /\ seen = "none"
    /\ up /\ NewJob("tab", local, head)
    /\ tabJob' = Len(updates) + 1 /\ NoWatch
    /\ UNCHANGED <<remote, disk, up, crashes, past, server, rows, helper, avail, seen>>

(* useJob: poll until the job is not running.                              *)
PollJob ==
    /\ up /\ tabJob # 0 /\ seen \in {"none", "running"}
    /\ LET at == updates[tabJob].at IN
       seen' = IF at \in {"prep", "row"} THEN "running" ELSE IF at = "handed" THEN "success" ELSE "failed"
    /\ UNCHANGED <<remote, disk, up, crashes, past, server, rows, updates, helper>>
    /\ UNCHANGED <<avail, tabJob, st, mark, live, down, peak, answers>>

Watching == seen = "success"
Done == live # 0 /\ live = updates[tabJob].target
Failed == st = "failed"

(* The newest updater, as UpdaterStatus reports it.                        *)
Exists(u) == helper[u] \notin {"none", "gone"}
Newest == {u \in Updates : Exists(u) /\ \A v \in Updates : Exists(v) => v <= u}
StateOf(u) == CASE helper[u] = "ok" -> "succeeded" [] helper[u] = "failed" -> "failed" [] OTHER -> "running"
(* The last 60 lines of its log: a long build pushes the markers out.      *)
Marks(u) == CASE helper[u] = "started" -> {"prepare", "fetch"}
              [] helper[u] \in {"merged", "built"} -> {"build", "prepare"}
              [] helper[u] = "ok" -> {"restart"}
              [] OTHER -> {"prepare", "fetch", "build"}

(* A tick asks for the updater; ticks do not wait for one another.         *)
TickAsks ==
    /\ Watching /\ ~Done /\ ~Failed
    /\ Cardinality(answers) + Len(updates) + crashes < MaxLoad \/ (answers = {} /\ MaxLoad # 0)
    /\ IF ~up THEN answers' = answers \cup {[kind |-> "down"]}
       ELSE IF Newest = {}
       THEN answers' = answers \cup {[kind |-> "updater", st |-> "none", mark |-> "prepare"]}
       ELSE \E u \in Newest : \E m \in Marks(u) :
                answers' = answers \cup {[kind |-> "updater", st |-> StateOf(u), mark |-> m]}
    /\ UNCHANGED <<remote, disk, up, crashes, past, server, rows, updates, helper>>
    /\ UNCHANGED <<avail, tabJob, seen, st, mark, live, down, peak>>

StageRank(done, d, s, m) ==
    IF done THEN Len(Stages)
    ELSE IF d \/ s = "succeeded" \/ m = "restart" THEN 4
    ELSE CASE m = "build" -> 3 [] m = "fetch" -> 2 [] OTHER -> 1
(* (mutant) The high-water mark of the bar is not raised.                  *)
RaisePeak_Never(done, d, s, m) == peak' = peak
RaisePeak(done, d, s, m) == peak' = IF StageRank(done, d, s, m) > peak THEN StageRank(done, d, s, m) ELSE peak

(* The updater's answer is shown, and the tick goes on to ask which        *)
(* commit the API runs.                                                    *)
TickUpdater(a) ==
    /\ a \in answers /\ a.kind = "updater"
    /\ st' = a.st /\ mark' = a.mark /\ down' = FALSE /\ live' = live
    /\ RaisePeak(Done, FALSE, a.st, a.mark)
    /\ IF a.st = "failed" THEN answers' = {} /\ UNCHANGED <<local, boot, head>>
       ELSE \/ /\ up /\ GitInfo
               /\ answers' = (answers \ {a}) \cup {[kind |-> "system", commit |-> Current(boot', local')]}
            \/ /\ ~up /\ answers' = (answers \ {a}) \cup {[kind |-> "down"]}
               /\ UNCHANGED <<local, boot, head>>
    /\ UNCHANGED <<remote, disk, up, crashes, past, recon, autoPc, rows, updates, helper, avail, tabJob, seen>>

(* (mutant) The first commit that was read is kept.                        *)
TickSystem_First(a) ==
    /\ a \in answers /\ a.kind = "system"
    /\ live' = IF live # 0 THEN live ELSE a.commit
    /\ answers' = IF live' = updates[tabJob].target THEN {} ELSE answers \ {a}
    /\ RaisePeak(live' = updates[tabJob].target, down, st, mark)
    /\ UNCHANGED <<remote, disk, up, crashes, past, server, rows, updates, helper>>
    /\ UNCHANGED <<avail, tabJob, seen, st, mark, down>>
TickSystem(a) ==
    /\ a \in answers /\ a.kind = "system"
    /\ live' = IF a.commit # 0 THEN a.commit ELSE live
    /\ answers' = IF live' = updates[tabJob].target THEN {} ELSE answers \ {a}
    /\ RaisePeak(live' = updates[tabJob].target, down, st, mark)
    /\ UNCHANGED <<remote, disk, up, crashes, past, server, rows, updates, helper>>
    /\ UNCHANGED <<avail, tabJob, seen, st, mark, down>>

TickDown(a) ==
    /\ a \in answers /\ a.kind = "down"
    /\ down' = TRUE /\ answers' = answers \ {a} /\ RaisePeak(Done, TRUE, st, mark)
    /\ UNCHANGED <<remote, disk, up, crashes, past, server, rows, updates, helper>>
    /\ UNCHANGED <<avail, tabJob, seen, st, mark, live>>

(* Dismiss: of a failed job, of a failed updater or of a slow one.         *)
Dismiss ==
    /\ seen = "failed" \/ (Watching /\ ~Done)
    /\ tabJob' = 0 /\ seen' = "none" /\ NoWatch
    /\ UNCHANGED <<remote, disk, up, crashes, past, server, rows, updates, helper, avail>>

(* The page reloads itself 2.5 s after it is done.                         *)
Reload ==
    /\ Watching /\ Done
    /\ tabJob' = 0 /\ seen' = "none" /\ avail' = FALSE /\ NoWatch
    /\ UNCHANGED <<remote, disk, up, crashes, past, server, rows, updates, helper>>

Next ==
    \/ Push \/ Refresh \/ Crash \/ Boot \/ Reconcile \/ ReconcileFails \/ AutoChecks \/ AutoDecides
    \/ \E u \in 1..Len(updates) : JobFails(u) \/ JobInsertsRow(u) \/ JobHandsOff(u) \/ JobCannotHandOff(u)
    \/ \E u \in Updates : HelperMerges(u) \/ HelperBuilds(u) \/ HelperFails(u) \/ HelperRestartsApi(u)
    \/ \E i \in 1..Len(rows) : RowExpires(i)
    \/ LoadSystem \/ StartUpdate \/ PollJob \/ TickAsks
    \/ \E a \in answers : TickUpdater(a) \/ TickSystem(a) \/ TickDown(a)
    \/ Dismiss \/ Reload

(* The updater's script, the job and the start-up run to their end, the    *)
(* page's timers fire and its requests are answered.                       *)
Fairness ==
    /\ WF_vars(Boot \/ Reconcile \/ ReconcileFails) /\ WF_vars(PollJob \/ TickAsks \/ Reload)
    /\ WF_vars(\E u \in 1..Len(updates) : JobFails(u) \/ JobInsertsRow(u) \/ JobHandsOff(u) \/ JobCannotHandOff(u))
    /\ WF_vars(\E u \in Updates : HelperMerges(u) \/ HelperBuilds(u) \/ HelperFails(u) \/ HelperRestartsApi(u))
    /\ WF_vars(\E a \in answers : TickUpdater(a)) /\ WF_vars(\E a \in answers : TickSystem(a))
    /\ WF_vars(\E a \in answers : TickDown(a))

Spec == Init /\ [][Next]_vars /\ Fairness

-----------------------------------------------------------------------------
(* The page says "Updated to ..." only after the API has been restarted:   *)
(* while the old process runs, the commit it reports is the one it was     *)
(* started from, whatever the updater did to the checkout                  *)
(* (gitupdate.go:49, UpdatesTab.tsx:224).  A server that ends after the    *)
(* merge of an updater other than the one that built its next container    *)
(* reads the new commit as its own, so that is left out.                   *)
DoneOnlyAfterRestart ==
    ~cut /\ Watching /\ Done => container >= updates[tabJob].target

(* Two updaters that automatic updates started never run at once, however  *)
(* long the forced check between looking and starting takes                *)
(* (auto.go:205), unless the server ended under an updater: the restart    *)
(* decides the row while its updater still works.                          *)
Active(u) == updates[u].at \in {"prep", "row"} \/ Working(u)
AutoNeverOverlapsAuto ==
    ~cut => Cardinality({u \in 1..Len(updates) : updates[u].by = "auto" /\ Active(u)}) <= 1

(* The progress bar never moves backwards although answers overtake one    *)
(* another and the log loses its markers (UpdatesTab.tsx:301).             *)
ShownPct == IF Failed THEN peak ELSE IF StageRank(Done, down, st, mark) > peak THEN StageRank(Done, down, st, mark) ELSE peak
BarNeverMovesBack == [][Watching /\ Watching' /\ tabJob' = tabJob => ShownPct' >= ShownPct]_vars

(* After a hand-off, and after the server died between the row and the     *)
(* hand-off (gitupdate.go:205), the next start decides the row that was    *)
(* the newest, whatever was started since, unless it cannot read the       *)
(* checkout.                                                               *)
RestartDecidesTheRow == up /\ recon = 0 /\ owed # 0 => rows[owed].status # "pending"

(* The page that follows an updater is told how it ended, unless a newer   *)
(* commit was merged than the one the page waits for, or another update    *)
(* took its place.                                                         *)
WatchEnds ==
    []<>(~Watching \/ Done \/ Failed \/ Len(updates) > tabJob \/ checkout > updates[tabJob].target)

(* What the page claims about an update is so (UpdatesTab.tsx:224).        *)
WatchIsHonest == TypeOK /\ DoneOnlyAfterRestart
============================================================================
