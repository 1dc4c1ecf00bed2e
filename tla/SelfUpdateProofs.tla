------------------------- MODULE SelfUpdateProofs -------------------------
(***************************************************************************)
(* Proofs about SelfUpdate, for any number of commits, of updates, of      *)
(* faults and of answers on their way.                                     *)
(***************************************************************************)
EXTENDS SelfUpdate, SequenceTheorems, FiniteSetTheorems, TLAPS

Job == [by : {"tab", "auto"}, target : Commits, at : {"prep", "row", "handed", "failed"}]
HelperStates == {"none", "started", "merged", "built", "ok", "failed", "gone"}
Marker == {"prepare", "fetch", "build", "restart"}

(* TypeOK in parts, by who changes them.                                   *)
DiskType ==
    /\ remote \in Commits /\ checkout \in Commits /\ image \in Commits /\ container \in Commits
    /\ up \in BOOLEAN /\ crashes \in 0..MaxEvents /\ cut \in BOOLEAN
    /\ helper \in [Updates -> HelperStates]
ServerType ==
    /\ boot \in 0..MaxCommit /\ local \in 0..MaxCommit /\ head \in 0..MaxCommit
    /\ autoPc \in {"idle", "checked"}
RowsType == rows \in Seq(Row) /\ recon \in 0..Len(rows) /\ owed \in 0..Len(rows)
JobsType == updates \in Seq(Job)
TabType ==
    /\ avail \in BOOLEAN /\ tabJob \in 0..MaxEvents /\ seen \in {"none", "running", "success", "failed"}
    /\ st \in {"none", "running", "succeeded", "failed"} /\ mark \in Marker
    /\ live \in 0..MaxCommit /\ down \in BOOLEAN /\ peak \in 1..5
AnswersType == answers \subseteq Answer /\ Cardinality(answers) <= MaxLoad

(* TypeOK is its parts.                                                    *)
LEMMA TypeParts ==
    TypeOK <=> DiskType /\ ServerType /\ RowsType /\ JobsType /\ TabType /\ AnswersType
BY DEF TypeOK, DiskType, ServerType, RowsType, JobsType, TabType, AnswersType, Job, HelperStates, Marker, Stages

-----------------------------------------------------------------------------
(* What the model's ways of changing a sequence do.                        *)

(* A job moves on: nothing else of it changes.                             *)
LEMMA JobMoves ==
    ASSUME JobsType, NEW u \in 1..Len(updates), NEW s \in {"prep", "row", "handed", "failed"},
           updates' = [updates EXCEPT ![u].at = s]
    PROVE  /\ JobsType' /\ Len(updates') = Len(updates)
           /\ \A v \in 1..Len(updates) :
                /\ updates'[v].by = updates[v].by /\ updates'[v].target = updates[v].target
                /\ updates'[v].at = IF v = u THEN s ELSE updates[v].at
<1>0. updates[u] \in Job
  BY ElementOfSeq DEF JobsType
<1>1. updates[u] \in Job /\ [updates[u] EXCEPT !.at = s] \in Job
  BY <1>0 DEF Job
<1>2. updates' = [updates EXCEPT ![u] = [updates[u] EXCEPT !.at = s]]
  OBVIOUS
<1>3. JobsType' /\ Len(updates') = Len(updates)
  BY <1>1, <1>2, ExceptSeq DEF JobsType
<1>4. \A v \in 1..Len(updates) : updates'[v] = IF v = u THEN [updates[u] EXCEPT !.at = s] ELSE updates[v]
  BY <1>1, <1>2, ExceptSeq DEF JobsType
<1> QED
  BY <1>1, <1>3, <1>4 DEF Job

(* A start closes the jobs that the last process left behind.              *)
LEMMA JobsClose ==
    ASSUME JobsType,
           updates' = [u \in 1..Len(updates) |-> IF updates[u].at \in {"prep", "row"}
                                                 THEN [updates[u] EXCEPT !.at = "failed"] ELSE updates[u]]
    PROVE  /\ JobsType' /\ Len(updates') = Len(updates)
           /\ \A v \in 1..Len(updates) :
                /\ updates'[v].by = updates[v].by /\ updates'[v].target = updates[v].target
                /\ updates'[v].at = IF updates[v].at \in {"prep", "row"} THEN "failed" ELSE updates[v].at
<1>1. Len(updates) \in Nat
  BY LenProperties DEF JobsType
<1>0. \A v \in 1..Len(updates) : updates[v] \in Job
  BY ElementOfSeq DEF JobsType
<1>2. \A v \in 1..Len(updates) : updates[v] \in Job /\ [updates[v] EXCEPT !.at = "failed"] \in Job
  BY <1>0 DEF Job
<1>3. \A v \in 1..Len(updates) : updates'[v] \in Job
  BY <1>2
<1>4. updates' \in [1..Len(updates) -> Job]
  BY <1>2
<1>5. JobsType' /\ Len(updates') = Len(updates)
  BY <1>1, <1>4, SeqDef, LenProperties DEF JobsType
<1> QED
  BY <1>2, <1>5 DEF Job

(* A start of an update appends a job.                                     *)
LEMMA JobAppended ==
    ASSUME JobsType, NEW j \in Job, updates' = Append(updates, j)
    PROVE  /\ JobsType' /\ Len(updates') = Len(updates) + 1 /\ updates'[Len(updates) + 1] = j
           /\ \A v \in 1..Len(updates) : updates'[v] = updates[v]
BY AppendProperties, LenProperties DEF JobsType

(* What a step does to updates that are there: they stay, to the same end  *)
(* and by the same hand.                                                   *)
JobsStay ==
    /\ Len(updates') >= Len(updates)
    /\ \A v \in 1..Len(updates) : updates'[v].by = updates[v].by /\ updates'[v].target = updates[v].target

(* A row of the history gets a status, or the age autoUpdate looks at.     *)
LEMMA RowDecided ==
    ASSUME RowsType, NEW i \in 1..Len(rows), NEW s \in Status, rows' = [rows EXCEPT ![i].status = s]
    PROVE  /\ rows' \in Seq(Row) /\ Len(rows') = Len(rows)
           /\ \A j \in 1..Len(rows) : j # i => rows'[j] = rows[j]
<1>0. rows[i] \in Row
  BY ElementOfSeq DEF RowsType
<1>1. [rows[i] EXCEPT !.status = s] \in Row
  BY <1>0 DEF Row
<1>2. rows' = [rows EXCEPT ![i] = [rows[i] EXCEPT !.status = s]]
  OBVIOUS
<1> QED
  BY <1>1, <1>2, ExceptSeq DEF RowsType

(* A row passes the age autoUpdate looks at.                               *)
LEMMA RowAges ==
    ASSUME RowsType, NEW i \in 1..Len(rows), rows' = [rows EXCEPT ![i].old = TRUE]
    PROVE  /\ rows' \in Seq(Row) /\ Len(rows') = Len(rows)
           /\ \A j \in 1..Len(rows) : j # i => rows'[j] = rows[j]
<1>0. rows[i] \in Row
  BY ElementOfSeq DEF RowsType
<1>1. [rows[i] EXCEPT !.old = TRUE] \in Row
  BY <1>0 DEF Row
<1>2. rows' = [rows EXCEPT ![i] = [rows[i] EXCEPT !.old = TRUE]]
  OBVIOUS
<1> QED
  BY <1>1, <1>2, ExceptSeq DEF RowsType

(* A job that cannot hand off fails its rows.                              *)
LEMMA RowsFail ==
    ASSUME RowsType, NEW u,
           rows' = [i \in 1..Len(rows) |-> IF rows[i].of = u THEN [rows[i] EXCEPT !.status = "failed"] ELSE rows[i]]
    PROVE  /\ rows' \in Seq(Row) /\ Len(rows') = Len(rows)
           /\ \A j \in 1..Len(rows) : rows[j].of # u => rows'[j] = rows[j]
<1>0. Len(rows) \in Nat /\ \A j \in 1..Len(rows) : rows[j] \in Row
  BY ElementOfSeq, LenProperties DEF RowsType
<1>1. \A j \in 1..Len(rows) : [rows[j] EXCEPT !.status = "failed"] \in Row
  BY <1>0 DEF Row, Status
<1>2. rows' \in [1..Len(rows) -> Row]
  BY <1>0, <1>1
<1>3. rows' \in Seq(Row) /\ Len(rows') = Len(rows)
  BY <1>0, <1>2, SeqDef, LenProperties
<1> QED
  BY <1>3

(* A start of an update or of the server appends a row.                    *)
LEMMA RowAppended ==
    ASSUME RowsType, NEW r \in Row, rows' = Append(rows, r)
    PROVE  /\ rows' \in Seq(Row) /\ Len(rows') = Len(rows) + 1 /\ rows'[Len(rows) + 1] = r
           /\ \A j \in 1..Len(rows) : rows'[j] = rows[j]
BY AppendProperties, LenProperties DEF RowsType

-----------------------------------------------------------------------------
(* Who changes what.                                                       *)
DiskVars == <<remote, disk, up, crashes, past, helper>>
ServerVars == <<boot, local, head, autoPc>>
RowVars == <<rows, recon, owed>>
TabVars == <<avail, tabJob, seen, st, mark, live, down, peak>>

USE DEF Next, vars, server, disk, tab, past, Push, Refresh, Crash, Boot, Reconcile, ReconcileFails, AutoChecks, AutoDecides,
     JobFails, JobInsertsRow, JobHandsOff, JobCannotHandOff, HelperMerges, HelperBuilds, HelperFails, HelperRestartsApi, RowExpires,
     LoadSystem, StartUpdate, PollJob, TickAsks, TickUpdater, TickSystem, TickDown, Dismiss, Reload, Stop, NoWatch

(* The checkout, the image, the containers and the faults.                 *)
LEMMA DiskFrame ==
    ASSUME [Next]_vars
    PROVE  \/ UNCHANGED DiskVars
           \/ Push \/ Crash \/ Boot \/ ReconcileFails
           \/ \E u \in 1..Len(updates) : JobHandsOff(u)
           \/ \E u \in Updates : HelperMerges(u) \/ HelperBuilds(u) \/ HelperFails(u) \/ HelperRestartsApi(u)
BY ZenonT(30) DEF DiskVars

(* What a process of the server has in memory.                             *)
LEMMA ServerFrame ==
    ASSUME [Next]_vars
    PROVE  \/ UNCHANGED ServerVars
           \/ Crash \/ Refresh \/ AutoChecks \/ AutoDecides \/ LoadSystem \/ Reconcile
           \/ \E u \in Updates : HelperRestartsApi(u)
           \/ \E a \in answers : TickUpdater(a)
BY DEF ServerVars

(* The history, and the row a start decides.                               *)
LEMMA RowsFrame ==
    ASSUME [Next]_vars
    PROVE  \/ UNCHANGED RowVars
           \/ Crash \/ Boot \/ Reconcile \/ ReconcileFails
           \/ \E u \in 1..Len(updates) : JobInsertsRow(u) \/ JobCannotHandOff(u)
           \/ \E u \in Updates : HelperRestartsApi(u)
           \/ \E i \in 1..Len(rows) : RowExpires(i)
BY DEF RowVars

(* The jobs.                                                               *)
LEMMA JobsFrame ==
    ASSUME [Next]_vars
    PROVE  \/ UNCHANGED updates
           \/ Boot \/ AutoDecides \/ StartUpdate
           \/ \E u \in 1..Len(updates) : JobFails(u) \/ JobInsertsRow(u) \/ JobHandsOff(u) \/ JobCannotHandOff(u)
OBVIOUS

(* What the page shows.                                                    *)
LEMMA TabFrame ==
    ASSUME [Next]_vars
    PROVE  \/ UNCHANGED TabVars
           \/ LoadSystem \/ StartUpdate \/ PollJob \/ Dismiss \/ Reload
           \/ \E a \in answers : TickUpdater(a) \/ TickSystem(a) \/ TickDown(a)
BY ZenonT(30) DEF TabVars

(* The answers on their way to the page.                                   *)
LEMMA AnswersFrame ==
    ASSUME [Next]_vars
    PROVE  \/ UNCHANGED answers
           \/ StartUpdate \/ TickAsks \/ Dismiss \/ Reload
           \/ \E a \in answers : TickUpdater(a) \/ TickSystem(a) \/ TickDown(a)
OBVIOUS

HIDE DEF Next, vars, server, disk, tab, past, Push, Refresh, Crash, Boot, Reconcile, ReconcileFails, AutoChecks, AutoDecides,
     JobFails, JobInsertsRow, JobHandsOff, JobCannotHandOff, HelperMerges, HelperBuilds, HelperFails, HelperRestartsApi, RowExpires,
     LoadSystem, StartUpdate, PollJob, TickAsks, TickUpdater, TickSystem, TickDown, Dismiss, Reload, Stop, NoWatch

-----------------------------------------------------------------------------
(* One process of the server: what it knows of the checkout goes with it,  *)
(* and an updater is started for a job that was handed off.                *)
Basics ==
    /\ Len(updates) + crashes <= MaxEvents /\ Len(rows) >= 1
    /\ container <= image /\ image <= checkout /\ checkout <= remote
    /\ local # 0 => boot # 0
    /\ ~up => boot = 0 /\ autoPc = "idle"
    /\ \A u \in Updates : helper[u] # "none" => u \in 1..Len(updates) /\ updates[u].at = "handed"

(* The page's job exists, and the watch shows nothing without one.         *)
WatchBasics ==
    /\ IsFiniteSet(answers)
    /\ tabJob \in 0..Len(updates)
    /\ tabJob = 0 => live = 0 /\ answers = {} /\ seen = "none"

(* A read of the checkout gives the process its commit, once.              *)
LEMMA GitReads ==
    ASSUME DiskType, ServerType, NEW r \in BOOLEAN, RefreshGit(r)
    PROVE  /\ boot' \in Commits /\ local' \in Commits /\ head' \in 0..MaxCommit
           /\ boot' = IF boot = 0 THEN checkout ELSE boot
BY UpdateConstants DEF DiskType, ServerType, RefreshGit, Commits

(* After GET /api/system too the process knows its commit.                 *)
LEMMA GitKnown ==
    ASSUME DiskType, ServerType, Basics, GitInfo
    PROVE  /\ boot' \in Commits /\ local' \in Commits /\ head' \in 0..MaxCommit
           /\ boot' = IF boot = 0 THEN checkout ELSE boot
BY GitReads, UpdateConstants DEF ServerType, Basics, GitInfo, Commits

(* A start of an update, as the job it appends.                            *)
LEMMA NewJobIs ==
    ASSUME NEW by \in {"tab", "auto"}, NEW l \in 0..MaxCommit, NEW h \in 0..MaxCommit, NewJob(by, l, h)
    PROVE  \E j \in Job : j.by = by /\ j.at = "prep" /\ updates' = Append(updates, j)
<1>1. [by |-> by, target |-> IF h # 0 THEN h ELSE l, at |-> "prep"] \in Job
  BY UpdateConstants DEF NewJob, Job, Commits
<1> QED
  BY <1>1 DEF NewJob

TypeInv == DiskType /\ ServerType /\ RowsType /\ JobsType /\ TabType /\ AnswersType /\ Basics /\ WatchBasics

(* Types and basics at first.                                              *)
LEMMA InitTypeInv == Init => TypeInv
<1> SUFFICES ASSUME Init PROVE TypeInv
  OBVIOUS
<1>1. helper \in [Updates -> HelperStates]
  BY DEF Init, HelperStates
<1>2. 1 \in Commits /\ 0 \in 0..MaxCommit /\ 0 \in 0..MaxEvents
  BY UpdateConstants DEF Commits
<1>3. DiskType /\ ServerType
  BY <1>1, <1>2 DEF Init, DiskType, ServerType
<1>4. RowsType /\ Len(rows) = 1
  <2>1. [version |-> 0, status |-> "success", old |-> FALSE, of |-> 0] \in Row
    BY UpdateConstants DEF Row, Status
  <2> QED
    BY <2>1 DEF Init, RowsType
<1>5. JobsType /\ Len(updates) = 0
  BY DEF Init, JobsType
<1>6. TabType
  <2>1. mark \in Marker /\ peak \in 1..5
    BY DEF Init, Marker
  <2> QED
    BY <1>2, <2>1 DEF Init, TabType
<1>7. AnswersType /\ IsFiniteSet(answers)
  BY UpdateConstants, FS_EmptySet DEF Init, AnswersType
<1>8. Basics /\ WatchBasics
  BY <1>4, <1>5, <1>7, UpdateConstants DEF Init, Basics, WatchBasics
<1> QED
  BY <1>3, <1>4, <1>5, <1>6, <1>7, <1>8 DEF TypeInv

(* Jobs only move on or are added, within the bound.                       *)
LEMMA JobsNext ==
    ASSUME TypeInv, [Next]_vars
    PROVE  /\ JobsType' /\ JobsStay
           /\ Len(updates') + crashes' <= MaxEvents /\ crashes' \in Nat
           /\ \A v \in 1..Len(updates) : updates[v].at = "handed" => updates'[v].at = "handed"
<1>a. Len(updates) \in Nat /\ crashes \in Nat
  BY LenProperties, UpdateConstants DEF TypeInv, DiskType, JobsType
<1>j. JobsType
  BY DEF TypeInv
<1>b. Len(updates) + crashes <= MaxEvents
  BY DEF TypeInv, Basics
<1>1. CASE UNCHANGED updates
  <2>1. crashes' \in {crashes, crashes + 1} /\ (crashes' # crashes => Len(updates) + crashes < MaxEvents)
    BY DiskFrame DEF DiskVars, Push, Crash, Boot, ReconcileFails, JobHandsOff, HelperMerges, HelperBuilds, HelperFails,
       HelperRestartsApi
  <2> QED
    BY <1>1, <1>a, <1>b, <2>1, UpdateConstants DEF JobsStay, TypeInv, JobsType
<1>2. ASSUME NEW u \in 1..Len(updates), JobFails(u) \/ JobInsertsRow(u) \/ JobCannotHandOff(u) \/ JobHandsOff(u)
      PROVE  JobsType' /\ JobsStay /\ Len(updates') = Len(updates) /\ crashes' = crashes
             /\ \A v \in 1..Len(updates) : updates[v].at = "handed" => updates'[v].at = "handed"
  <2>1. PICK s \in {"prep", "row", "handed", "failed"} : updates' = [updates EXCEPT ![u].at = s]
    BY <1>2 DEF JobFails, JobInsertsRow, JobCannotHandOff, JobHandsOff
  <2>2. crashes' = crashes /\ updates[u].at # "handed"
    BY <1>2 DEF JobFails, JobInsertsRow, JobCannotHandOff, JobHandsOff
  <2>3. /\ JobsType' /\ Len(updates') = Len(updates)
        /\ \A v \in 1..Len(updates) :
             /\ updates'[v].by = updates[v].by /\ updates'[v].target = updates[v].target
             /\ updates'[v].at = IF v = u THEN s ELSE updates[v].at
    BY <1>j, <2>1, JobMoves
  <2> QED
    BY <1>a, <2>2, <2>3 DEF JobsStay
<1>3. CASE Boot
  BY <1>3, <1>a, <1>b, JobsClose, UpdateConstants DEF Boot, JobsStay, TypeInv, past
<1>4. ASSUME NEW by \in {"tab", "auto"}, NEW l \in 0..MaxCommit, NEW h \in 0..MaxCommit, NewJob(by, l, h), crashes' = crashes
      PROVE  JobsType' /\ JobsStay /\ Len(updates') + crashes' <= MaxEvents
             /\ \A v \in 1..Len(updates) : updates[v].at = "handed" => updates'[v].at = "handed"
  <2>1. PICK j \in Job : updates' = Append(updates, j)
    BY <1>4, NewJobIs
  <2>2. Len(updates) + crashes < MaxEvents
    BY <1>4 DEF NewJob
  <2> QED
    BY <1>4, <1>a, <2>1, <2>2, JobAppended, UpdateConstants DEF JobsStay, TypeInv
<1>5. CASE AutoDecides
  <2>1. PICK r \in BOOLEAN : RefreshGit(r) /\ (NewJob("auto", local', head') \/ UNCHANGED updates)
    BY <1>5 DEF AutoDecides
  <2>2. local' \in 0..MaxCommit /\ head' \in 0..MaxCommit
    BY <2>1, GitReads DEF TypeInv, Commits
  <2> QED
    BY <1>5, <1>1, <1>4, <1>a, <2>1, <2>2 DEF AutoDecides
<1>6. CASE StartUpdate
  BY <1>6, <1>4, <1>a DEF StartUpdate, TypeInv, ServerType
<1> QED
  BY <1>a, <1>b, <1>1, <1>2, <1>3, <1>5, <1>6, JobsFrame

(* The types of the checkout and the containers.                           *)
LEMMA DiskNext == ASSUME TypeInv, [Next]_vars PROVE DiskType'
<1> USE UpdateConstants DEF TypeInv, DiskType
<1>a. crashes' \in 0..MaxEvents
  <2>1. Len(updates') \in Nat
    BY JobsNext, LenProperties DEF JobsType
  <2> QED
    BY <2>1, JobsNext
<1>1. CASE UNCHANGED DiskVars
  BY <1>1, <1>a DEF DiskVars, disk, past
<1>2. CASE Push
  BY <1>2, <1>a DEF Push, disk, past, Commits
<1>3. CASE Crash
  BY <1>3, <1>a DEF Crash, Stop, disk
<1>4. CASE Boot
  BY <1>4, <1>a DEF Boot, disk, past
<1>5. CASE ReconcileFails
  BY <1>5, <1>a DEF ReconcileFails, disk
<1>6. ASSUME NEW u \in 1..Len(updates), JobHandsOff(u) PROVE DiskType'
  <2>1. helper' \in [Updates -> HelperStates]
    BY <1>6 DEF JobHandsOff, HelperStates
  <2> QED
    BY <1>6, <1>a, <2>1 DEF JobHandsOff, disk, past
<1>7. ASSUME NEW u \in Updates, HelperMerges(u) PROVE DiskType'
  BY <1>7, <1>a DEF HelperMerges, past, HelperStates
<1>8. ASSUME NEW u \in Updates, HelperBuilds(u) PROVE DiskType'
  BY <1>8, <1>a DEF HelperBuilds, past, HelperStates
<1>9. ASSUME NEW u \in Updates, HelperFails(u) PROVE DiskType'
  BY <1>9, <1>a DEF HelperFails, past, disk, HelperStates
<1>10. ASSUME NEW u \in Updates, HelperRestartsApi(u) PROVE DiskType'
  <2>1. helper' \in [Updates -> HelperStates] /\ up' \in BOOLEAN
    BY <1>10 DEF HelperRestartsApi, Stop, HelperStates
  <2>2. cut' \in BOOLEAN
    BY <1>10 DEF HelperRestartsApi, past
  <2> QED
    BY <1>10, <1>a, <2>1, <2>2 DEF HelperRestartsApi
<1> QED
  BY <1>1, <1>2, <1>3, <1>4, <1>5, <1>6, <1>7, <1>8, <1>9, <1>10, DiskFrame

(* The types of the memory, which knows its commit once it has read one.   *)
LEMMA ServerNext == ASSUME TypeInv, [Next]_vars PROVE ServerType' /\ (local' # 0 => boot' # 0)
<1> USE UpdateConstants DEF ServerType
<1>a. ServerType /\ (local # 0 => boot # 0)
  BY DEF TypeInv, Basics
<1>b. ASSUME NEW r \in BOOLEAN, RefreshGit(r) PROVE {boot', local', head'} \subseteq 0..MaxCommit /\ (local' # 0 => boot' # 0)
  BY <1>b, GitReads DEF TypeInv, Commits
<1>c. ASSUME GitInfo PROVE {boot', local', head'} \subseteq 0..MaxCommit /\ (local' # 0 => boot' # 0)
  BY <1>c, GitKnown DEF TypeInv, Commits
<1>1. CASE UNCHANGED ServerVars
  BY <1>a, <1>1 DEF ServerVars
<1>2. CASE Crash \/ AutoChecks
  BY <1>a, <1>2 DEF Crash, Stop, AutoChecks
<1>3. CASE Refresh \/ AutoDecides \/ Reconcile
  BY <1>a, <1>b, <1>3 DEF Refresh, AutoDecides, Reconcile
<1>4. CASE LoadSystem
  BY <1>a, <1>c, <1>4 DEF LoadSystem
<1>5. ASSUME NEW u \in Updates, HelperRestartsApi(u) PROVE ServerType' /\ (local' # 0 => boot' # 0)
  BY <1>a, <1>5 DEF HelperRestartsApi, Stop, server
<1>6. ASSUME NEW a \in answers, TickUpdater(a) PROVE ServerType' /\ (local' # 0 => boot' # 0)
  BY <1>a, <1>c, <1>6 DEF TickUpdater
<1> QED
  BY <1>1, <1>2, <1>3, <1>4, <1>5, <1>6, ServerFrame

(* The types of the history, which is never empty.                         *)
LEMMA RowsNext == ASSUME TypeInv, [Next]_vars PROVE RowsType' /\ Len(rows') >= 1
<1>a. RowsType /\ rows \in Seq(Row) /\ Len(rows) \in Nat /\ Len(rows) >= 1 /\ recon \in 0..Len(rows) /\ owed \in 0..Len(rows)
  BY LenProperties DEF TypeInv, Basics, RowsType
<1>1. CASE UNCHANGED RowVars
  BY <1>a, <1>1 DEF RowVars, RowsType
<1>2. CASE Crash
  BY <1>a, <1>2 DEF Crash, Stop, RowsType
<1>3. CASE Boot
  <2>1. [version |-> 0, status |-> "success", old |-> FALSE, of |-> 0] \in Row
    BY UpdateConstants DEF Row, Status
  <2>2. rows' \in Seq(Row) /\ Len(rows') >= Len(rows)
    BY <1>a, <1>3, <2>1, RowAppended DEF Boot
  <2>3. Len(rows') \in Nat
    BY <2>2, LenProperties
  <2> QED
    BY <1>a, <1>3, <2>2, <2>3 DEF Boot, RowsType, past
<1>4. CASE Reconcile
  <2>1. PICK s \in Status : rows' = [rows EXCEPT ![recon].status = s]
    BY <1>4 DEF Reconcile, Status
  <2>2. recon \in 1..Len(rows) /\ recon' = 0
    BY <1>a, <1>4 DEF Reconcile
  <2>3. rows' \in Seq(Row) /\ Len(rows') = Len(rows)
    BY <1>a, <2>1, <2>2, RowDecided
  <2> QED
    BY <1>a, <1>4, <2>2, <2>3 DEF Reconcile, RowsType, past
<1>5. CASE ReconcileFails
  BY <1>a, <1>5 DEF ReconcileFails, RowsType
<1>6. ASSUME NEW u \in 1..Len(updates), JobInsertsRow(u) PROVE RowsType' /\ Len(rows') >= 1
  <2>1. updates[u] \in Job /\ Len(updates) \in 0..MaxEvents
    BY ElementOfSeq, LenProperties, UpdateConstants DEF TypeInv, JobsType, DiskType, Basics
  <2>2. [version |-> updates[u].target, status |-> "pending", old |-> FALSE, of |-> u] \in Row
    BY <2>1, UpdateConstants DEF Row, Status, Job, Commits
  <2>3. rows' \in Seq(Row) /\ Len(rows') = Len(rows) + 1
    BY <1>a, <1>6, <2>2, RowAppended DEF JobInsertsRow
  <2> QED
    BY <1>a, <1>6, <2>3 DEF JobInsertsRow, RowsType, server, past
<1>7. ASSUME NEW u \in 1..Len(updates), JobCannotHandOff(u) PROVE RowsType' /\ Len(rows') >= 1
  <2>1. rows' \in Seq(Row) /\ Len(rows') = Len(rows)
    BY <1>a, <1>7, RowsFail DEF JobCannotHandOff
  <2> QED
    BY <1>a, <1>7, <2>1 DEF JobCannotHandOff, RowsType, server, past
<1>8. ASSUME NEW u \in Updates, HelperRestartsApi(u) PROVE RowsType' /\ Len(rows') >= 1
  BY <1>a, <1>8 DEF HelperRestartsApi, Stop, RowsType, server, past
<1>9. ASSUME NEW i \in 1..Len(rows), RowExpires(i) PROVE RowsType' /\ Len(rows') >= 1
  <2>1. rows' \in Seq(Row) /\ Len(rows') = Len(rows)
    BY <1>a, <1>9, RowAges DEF RowExpires
  <2> QED
    BY <1>a, <1>9, <2>1 DEF RowExpires, RowsType, server, past
<1> QED
  BY <1>1, <1>2, <1>3, <1>4, <1>5, <1>6, <1>7, <1>8, <1>9, RowsFrame

(* The bar's stages.                                                       *)
LEMMA RankRange ==
    ASSUME NEW d1 \in BOOLEAN, NEW d2 \in BOOLEAN, NEW s, NEW mk
    PROVE  StageRank(d1, d2, s, mk) \in 1..5
BY DEF StageRank, Stages

(* Done is a truth value.                                                  *)
LEMMA DoneBoolean == Done \in BOOLEAN
BY DEF Done

(* An answer by its kind.                                                  *)
LEMMA AnswersTyped ==
    ASSUME AnswersType, NEW a \in answers
    PROVE  /\ a.kind \in {"updater", "system", "down"}
           /\ a.kind = "updater" => a.st \in {"none", "running", "succeeded", "failed"} /\ a.mark \in Marker
           /\ a.kind = "system" => a.commit \in 0..MaxCommit
BY DEF AnswersType, Answer, Marker

(* The types of what the page shows.                                       *)
LEMMA TabNext == ASSUME TypeInv, [Next]_vars PROVE TabType'
<1> USE UpdateConstants DEF TabType
<1>a. TabType /\ Len(updates) \in 0..MaxEvents /\ AnswersType
  BY LenProperties, UpdateConstants DEF TypeInv, JobsType, Basics, DiskType
<1>b. 1 \in 1..5 /\ "prepare" \in Marker /\ 0 \in 0..MaxCommit /\ 0 \in 0..MaxEvents
  BY DEF Marker
<1>1. CASE UNCHANGED TabVars
  BY <1>a, <1>1 DEF TabVars
<1>2. CASE LoadSystem
  <2>1. avail' \in BOOLEAN
    BY <1>2 DEF LoadSystem, Available
  <2> QED
    BY <1>a, <1>2, <2>1 DEF LoadSystem
<1>3. CASE StartUpdate
  <2>1. tabJob' \in 0..MaxEvents
    BY <1>a, <1>3 DEF StartUpdate, NewJob, TypeInv, DiskType
  <2> QED
    BY <1>a, <1>b, <1>3, <2>1 DEF StartUpdate, NoWatch
<1>4. CASE PollJob
  BY <1>a, <1>4 DEF PollJob
<1>5. CASE Dismiss \/ Reload
  BY <1>a, <1>b, <1>5 DEF Dismiss, Reload, NoWatch
<1>6. ASSUME NEW a \in answers, TickUpdater(a) PROVE TabType'
  <2>1. st' \in {"none", "running", "succeeded", "failed"} /\ mark' \in Marker
    BY <1>a, <1>6, AnswersTyped DEF TickUpdater
  <2>2. peak' \in 1..5
    BY <1>a, <1>6, RankRange, DoneBoolean DEF TickUpdater, RaisePeak
  <2> QED
    BY <1>a, <1>6, <2>1, <2>2 DEF TickUpdater
<1>7. ASSUME NEW a \in answers, TickSystem(a) PROVE TabType'
  <2>1. live' \in 0..MaxCommit
    BY <1>a, <1>7, AnswersTyped DEF TickSystem
  <2>2. peak' \in 1..5
    BY <1>a, <1>7, RankRange DEF TickSystem, RaisePeak
  <2> QED
    BY <1>a, <1>7, <2>1, <2>2 DEF TickSystem
<1>8. ASSUME NEW a \in answers, TickDown(a) PROVE TabType'
  <2>1. peak' \in 1..5
    BY <1>a, <1>8, RankRange, DoneBoolean DEF TickDown, RaisePeak
  <2> QED
    BY <1>a, <1>8, <2>1 DEF TickDown
<1> QED
  BY <1>1, <1>2, <1>3, <1>4, <1>5, <1>6, <1>7, <1>8, TabFrame

(* One answer takes another's place, or joins while there is room.         *)
LEMMA AnswerReplaced ==
    ASSUME AnswersType, IsFiniteSet(answers), NEW a \in answers, NEW b \in Answer,
           answers' = (answers \ {a}) \cup {b}
    PROVE  AnswersType' /\ IsFiniteSet(answers')
<1>1. IsFiniteSet(answers \ {a}) /\ Cardinality(answers \ {a}) = Cardinality(answers) - 1
  BY FS_RemoveElement
<1>2. Cardinality(answers) \in Nat /\ Cardinality(answers \ {a}) \in Nat
  BY <1>1, FS_CardinalityType
<1>3. IsFiniteSet(answers') /\ Cardinality(answers') <= Cardinality(answers)
  <2> DEFINE rest == answers \ {a}
  <2>1. IsFiniteSet(rest \cup {b})
        /\ Cardinality(rest \cup {b}) = IF b \in rest THEN Cardinality(rest) ELSE Cardinality(rest) + 1
    BY <1>1, FS_AddElement
  <2> QED
    BY <1>1, <1>2, <2>1
<1> QED
  BY <1>2, <1>3, FS_CardinalityType, UpdateConstants DEF AnswersType

(* An answer is applied and gone.                                          *)
LEMMA AnswerRemoved ==
    ASSUME AnswersType, IsFiniteSet(answers), NEW a \in answers, answers' = answers \ {a}
    PROVE  AnswersType' /\ IsFiniteSet(answers')
<1>1. IsFiniteSet(answers') /\ Cardinality(answers') = Cardinality(answers) - 1
  BY FS_RemoveElement
<1> QED
  BY <1>1, FS_CardinalityType, UpdateConstants DEF AnswersType

(* A tick adds an answer while there is room.                              *)
LEMMA AnswerAdded ==
    ASSUME AnswersType, IsFiniteSet(answers), NEW b \in Answer, Cardinality(answers) < MaxLoad,
           answers' = answers \cup {b}
    PROVE  AnswersType' /\ IsFiniteSet(answers')
<1>1. IsFiniteSet(answers') /\ Cardinality(answers') <= Cardinality(answers) + 1
  BY FS_AddElement, FS_CardinalityType
<1> QED
  BY <1>1, FS_CardinalityType, UpdateConstants DEF AnswersType

(* The types and the bound of the answers.                                 *)
LEMMA AnswersNext == ASSUME TypeInv, [Next]_vars PROVE AnswersType' /\ IsFiniteSet(answers')
<1>a. AnswersType /\ IsFiniteSet(answers) /\ Cardinality(answers) \in Nat
  BY FS_CardinalityType DEF TypeInv, WatchBasics
<1>b. (AnswersType' /\ IsFiniteSet(answers')) \/ answers' # {}
  BY FS_EmptySet, UpdateConstants DEF AnswersType
<1>c. [kind |-> "down"] \in Answer
  BY DEF Answer
<1>1. CASE UNCHANGED answers
  BY <1>a, <1>1 DEF AnswersType
<1>2. CASE StartUpdate \/ Dismiss \/ Reload
  BY <1>b, <1>2 DEF StartUpdate, Dismiss, Reload, NoWatch
<1>3. CASE TickAsks
  <2>1. Cardinality(answers) < MaxLoad
    <3>1. Len(updates) \in Nat /\ crashes \in Nat
      BY LenProperties, UpdateConstants DEF TypeInv, DiskType, JobsType
    <3> QED
      BY <1>a, <1>3, <3>1, FS_EmptySet, UpdateConstants DEF TickAsks
  <2>2. \A u \in Updates : \A m \in Marks(u) : [kind |-> "updater", st |-> StateOf(u), mark |-> m] \in Answer
    BY DEF Answer, StateOf, Marks
  <2>3. [kind |-> "updater", st |-> "none", mark |-> "prepare"] \in Answer
    BY DEF Answer
  <2>4. Newest \subseteq Updates
    BY DEF Newest
  <2>5. PICK b \in Answer : answers' = answers \cup {b}
    BY <1>3, <1>c, <2>2, <2>3, <2>4 DEF TickAsks
  <2> QED
    BY <1>a, <2>1, <2>5, AnswerAdded
<1>4. ASSUME NEW a \in answers, TickUpdater(a) PROVE AnswersType' /\ IsFiniteSet(answers')
  <2>1. CASE a.st = "failed"
    BY <1>b, <1>4, <2>1 DEF TickUpdater
  <2>2. CASE a.st # "failed" /\ up
    <3>1. GitInfo
      BY <1>4, <2>2 DEF TickUpdater
    <3>2. Current(boot', local') \in 0..MaxCommit
      BY <3>1, GitKnown DEF TypeInv, Current, Commits
    <3>3. [kind |-> "system", commit |-> Current(boot', local')] \in Answer
      BY <3>2 DEF Answer
    <3> QED
      BY <1>a, <1>4, <2>2, <3>3, AnswerReplaced DEF TickUpdater
  <2>3. CASE a.st # "failed" /\ ~up
    BY <1>a, <1>c, <1>4, <2>3, AnswerReplaced DEF TickUpdater
  <2> QED
    BY <2>1, <2>2, <2>3
<1>5. ASSUME NEW a \in answers, TickSystem(a) PROVE AnswersType' /\ IsFiniteSet(answers')
  BY <1>a, <1>b, <1>5, AnswerRemoved DEF TickSystem
<1>6. ASSUME NEW a \in answers, TickDown(a) PROVE AnswersType' /\ IsFiniteSet(answers')
  BY <1>a, <1>6, AnswerRemoved DEF TickDown
<1> QED
  BY <1>1, <1>2, <1>3, <1>4, <1>5, <1>6, AnswersFrame

(* Commits only travel from GitHub to the checkout, the image and the      *)
(* container, in this order.                                               *)
LEMMA CommitsNext ==
    ASSUME TypeInv, [Next]_vars
    PROVE  /\ container' <= image' /\ image' <= checkout' /\ checkout' <= remote'
           /\ container' >= container
<1> USE UpdateConstants DEF Commits
<1>a. /\ {remote, checkout, image, container} \subseteq Commits
      /\ container <= image /\ image <= checkout /\ checkout <= remote
  BY DEF TypeInv, DiskType, Basics
<1>1. CASE UNCHANGED <<remote, checkout, image, container>>
  BY <1>a, <1>1
<1>2. CASE Push
  BY <1>a, <1>2 DEF Push, disk
<1>3. ASSUME NEW u \in Updates, HelperMerges(u) \/ HelperBuilds(u) \/ HelperRestartsApi(u)
      PROVE  /\ container' <= image' /\ image' <= checkout' /\ checkout' <= remote'
             /\ container' >= container
  BY <1>a, <1>3 DEF HelperMerges, HelperBuilds, HelperRestartsApi
<1> QED
  BY <1>1, <1>2, <1>3, DiskFrame DEF DiskVars, disk, past, Crash, Boot, ReconcileFails, JobHandsOff, HelperFails

(* A process that is down knows nothing.                                   *)
LEMMA DownNext ==
    ASSUME TypeInv, [Next]_vars
    PROVE  ~up' => boot' = 0 /\ autoPc' = "idle"
<1>a. ~up => boot = 0 /\ autoPc = "idle"
  BY DEF TypeInv, Basics
<1>2. CASE Crash
  BY <1>2 DEF Crash, Stop
<1>3. CASE Refresh \/ AutoChecks \/ AutoDecides \/ LoadSystem \/ Reconcile
  BY <1>3 DEF Refresh, AutoChecks, AutoDecides, LoadSystem, Reconcile
<1>4. ASSUME NEW u \in Updates, HelperRestartsApi(u) PROVE ~up' => boot' = 0 /\ autoPc' = "idle"
  BY <1>a, <1>4 DEF HelperRestartsApi, Stop, server
<1>5. ASSUME NEW a \in answers, TickUpdater(a) PROVE ~up' => boot' = 0 /\ autoPc' = "idle"
  BY <1>a, <1>5 DEF TickUpdater
<1>1. CASE UNCHANGED ServerVars
  <2>1. UNCHANGED DiskVars \/ Push \/ Boot \/ ReconcileFails
        \/ (\E u \in 1..Len(updates) : JobHandsOff(u)) => up' = up \/ Boot
    BY DEF DiskVars, Push, Boot, ReconcileFails, JobHandsOff
  <2>2. ASSUME NEW u \in Updates, HelperMerges(u) \/ HelperBuilds(u) \/ HelperFails(u) PROVE up' = up
    BY <2>2 DEF HelperMerges, HelperBuilds, HelperFails
  <2>3. up' = up \/ Boot => (~up' => boot' = 0 /\ autoPc' = "idle")
    BY <1>a, <1>1 DEF ServerVars, Boot
  <2> QED
    BY <2>1, <2>2, <2>3, <1>2, <1>4, DiskFrame
<1> QED
  BY <1>1, <1>2, <1>3, <1>4, <1>5, ServerFrame

(* An updater belongs to a job that was handed off.                        *)
LEMMA HelpersNext ==
    ASSUME TypeInv, [Next]_vars
    PROVE  \A u \in Updates : helper'[u] # "none" => u \in 1..Len(updates') /\ updates'[u].at = "handed"
<1>a. Len(updates) \in Nat /\ Len(updates') \in Nat /\ Len(updates') >= Len(updates) /\ JobsType
  BY JobsNext, LenProperties DEF TypeInv, JobsType, JobsStay
<1>b. \A u \in Updates : helper[u] # "none" => u \in 1..Len(updates) /\ updates[u].at = "handed"
  BY DEF TypeInv, Basics
<1>c. helper \in [Updates -> HelperStates]
  BY DEF TypeInv, DiskType
<1>1. ASSUME NEW u \in Updates, helper[u] # "none" PROVE u \in 1..Len(updates') /\ updates'[u].at = "handed"
  BY <1>a, <1>b, <1>1, JobsNext
<1>2. ASSUME NEW v \in 1..Len(updates), JobHandsOff(v), NEW u \in Updates, helper'[u] # "none"
      PROVE  helper[u] # "none" \/ (u \in 1..Len(updates') /\ updates'[u].at = "handed")
  <2>1. CASE u = v
    <3>1. updates'[v].at = "handed" /\ Len(updates') = Len(updates)
      BY <1>a, <1>2, JobMoves DEF JobHandsOff
    <3> QED
      BY <2>1, <3>1
  <2>2. CASE u # v
    BY <1>2, <2>2 DEF JobHandsOff
  <2> QED
    BY <2>1, <2>2
<1>3. ASSUME NEW v \in Updates, HelperMerges(v) \/ HelperBuilds(v) \/ HelperFails(v) \/ HelperRestartsApi(v),
             NEW u \in Updates, helper'[u] # "none"
      PROVE  helper[u] # "none"
  BY <1>c, <1>3 DEF HelperMerges, HelperBuilds, HelperFails, HelperRestartsApi, Working
<1>4. CASE UNCHANGED helper
  BY <1>1, <1>4
<1> QED
  BY <1>1, <1>2, <1>3, <1>4, DiskFrame DEF DiskVars, Push, Crash, Boot, ReconcileFails

(* The watch belongs to a job that exists.                                 *)
LEMMA WatchNext == ASSUME TypeInv, [Next]_vars PROVE WatchBasics'
<1>a. Len(updates) \in Nat /\ Len(updates') \in Nat /\ Len(updates') >= Len(updates)
  BY JobsNext, LenProperties DEF TypeInv, JobsType, JobsStay
<1>b. WatchBasics /\ IsFiniteSet(answers')
  BY AnswersNext DEF TypeInv
<1>1. CASE UNCHANGED TabVars /\ UNCHANGED answers
  BY <1>a, <1>b, <1>1 DEF TabVars, WatchBasics
<1>2. CASE LoadSystem
  BY <1>a, <1>b, <1>2 DEF LoadSystem, WatchBasics
<1>3. CASE StartUpdate
  <2>1. Len(updates') = Len(updates) + 1
    BY <1>3, NewJobIs, JobAppended DEF StartUpdate, TypeInv, ServerType
  <2> QED
    BY <1>a, <1>b, <1>3, <2>1 DEF StartUpdate, NoWatch, WatchBasics
<1>4. CASE PollJob
  BY <1>a, <1>b, <1>4 DEF PollJob, WatchBasics
<1>5. CASE Dismiss \/ Reload
  BY <1>a, <1>b, <1>5 DEF Dismiss, Reload, NoWatch, WatchBasics
<1>6. CASE TickAsks
  BY <1>a, <1>b, <1>6 DEF TickAsks, Watching, WatchBasics
<1>7. ASSUME NEW a \in answers, TickUpdater(a) \/ TickSystem(a) \/ TickDown(a) PROVE WatchBasics'
  <2>1. tabJob' = tabJob /\ tabJob # 0
    BY <1>b, <1>7 DEF TickUpdater, TickSystem, TickDown, WatchBasics
  <2> QED
    BY <1>a, <1>b, <2>1 DEF WatchBasics
<1> QED
  BY <1>1, <1>2, <1>3, <1>4, <1>5, <1>6, <1>7, TabFrame, AnswersFrame

(* Types and basics after every step.                                      *)
LEMMA NextTypeInv == TypeInv /\ [Next]_vars => TypeInv'
<1> SUFFICES ASSUME TypeInv, [Next]_vars PROVE TypeInv'
  OBVIOUS
<1>1. Basics'
  BY JobsNext, RowsNext, ServerNext, CommitsNext, DownNext, HelpersNext DEF Basics
<1> QED
  BY <1>1, DiskNext, ServerNext, RowsNext, JobsNext, TabNext, AnswersNext, WatchNext DEF TypeInv


(* Until a process has read the checkout, the checkout is what its         *)
(* container was built from and nobody changes it; so it never takes a     *)
(* later commit for its own, nor does the page.                            *)
FreshProcess ==
    /\ boot = 0 => /\ checkout = container
                   /\ \A u \in Updates : ~Working(u)
                   /\ up => \A u \in 1..Len(updates) : updates[u].at \notin {"prep", "row"}
    /\ boot <= container /\ live <= container
    /\ \A a \in answers : a.kind = "system" => a.commit <= container

(* The row of an update at work is pending and not about to be decided.    *)
GuardRow(u, i) ==
    rows[i].of = u /\ rows[i].status = "pending" /\ ~rows[i].old /\ i # recon

RowsGuard ==
    \A u \in 1..Len(updates) : updates[u].at = "row" \/ Working(u) =>
        \E i \in 1..Len(rows) : GuardRow(u, i)

(* At most one automatic update is active, and none while autoUpdate       *)
(* checks.                                                                 *)
Autos == {u \in 1..Len(updates) : updates[u].by = "auto" /\ Active(u)}
OneAuto ==
    /\ \A u, v \in Autos : u = v
    /\ autoPc = "checked" => Autos = {}

(* What holds while no server has ended under an updater.                  *)
SoundInv == TypeInv /\ (~cut => FreshProcess /\ RowsGuard /\ OneAuto)

-----------------------------------------------------------------------------
(* A step that ends the server under an updater is recorded for good.      *)
LEMMA CutStays ==
    ASSUME TypeInv, [Next]_vars, ~cut'
    PROVE  ~cut
BY DiskFrame DEF TypeInv, DiskType, DiskVars, past, Push, Crash, Boot, ReconcileFails, JobHandsOff, HelperMerges, HelperBuilds,
   HelperFails, HelperRestartsApi

(* A process that has not read the checkout yet keeps all still around it. *)
LEMMA UnreadNext ==
    ASSUME TypeInv, FreshProcess, [Next]_vars, ~cut', boot' = 0
    PROVE  /\ checkout' = container'
           /\ \A u \in Updates : ~Working(u)'
           /\ up' => \A u \in 1..Len(updates') : updates'[u].at \notin {"prep", "row"}
<1> DEFINE Still == /\ checkout' = container'
                    /\ \A u \in Updates : ~Working(u)'
                    /\ up' => \A u \in 1..Len(updates') : updates'[u].at \notin {"prep", "row"}
<1>a. DiskType /\ ServerType /\ Basics /\ JobsType /\ helper \in [Updates -> HelperStates]
  BY DEF TypeInv, DiskType
<1>b. boot = 0 => /\ checkout = container
                  /\ \A u \in Updates : ~Working(u)
                  /\ up => \A u \in 1..Len(updates) : updates[u].at \notin {"prep", "row"}
  BY DEF FreshProcess
<1>c. boot = 0 => local = 0
  BY <1>a DEF Basics
<1>1. CASE Crash
  BY <1>1 DEF Crash, Stop, disk, Working
<1>2. ASSUME NEW u \in Updates, HelperRestartsApi(u) PROVE Still
  <2>1. CASE image = container
    <3>1. boot = 0 /\ Working(u)
      BY <1>2, <2>1 DEF HelperRestartsApi, server, Working
    <3> QED
      BY <1>b, <3>1
  <2>2. CASE image # container
    <3>1. checkout' = container' /\ ~up' /\ \A v \in Updates \ {u} : ~Working(v)
      BY <1>2, <2>2 DEF HelperRestartsApi, Stop
    <3>2. helper' = [helper EXCEPT ![u] = "ok"]
      BY <1>2 DEF HelperRestartsApi
    <3> QED
      BY <1>a, <3>1, <3>2 DEF Working
  <2> QED
    BY <2>1, <2>2
<1>3. boot = 0 \/ Crash \/ \E u \in Updates : HelperRestartsApi(u)
  <2>1. CASE UNCHANGED ServerVars
    BY <2>1 DEF ServerVars
  <2>2. CASE Refresh \/ AutoDecides \/ LoadSystem \/ Reconcile
    <3>1. (\E r \in BOOLEAN : RefreshGit(r)) \/ GitInfo
      BY <2>2 DEF Refresh, AutoDecides, LoadSystem, Reconcile
    <3> QED
      BY <1>a, <3>1, GitReads, GitKnown DEF Commits
  <2>3. CASE AutoChecks
    BY <2>3 DEF AutoChecks
  <2>4. ASSUME NEW a \in answers, TickUpdater(a) PROVE boot = 0
    BY <1>a, <2>4, GitKnown DEF TickUpdater, Commits
  <2> QED
    BY <2>1, <2>2, <2>3, <2>4, ServerFrame
<1>4. CASE boot = 0
  <2> USE <1>4, <1>b, <1>c
  <2>1. CASE UNCHANGED <<checkout, container, helper>> /\ UNCHANGED <<updates, up>>
    BY <2>1 DEF Working
  <2>2. CASE Boot
    BY <2>2, <1>a, JobsClose DEF Boot, disk, Working
  <2>3. ASSUME NEW v \in Updates, HelperMerges(v) \/ HelperBuilds(v) \/ HelperFails(v) PROVE FALSE
    BY <2>3 DEF HelperMerges, HelperBuilds, HelperFails, Working
  <2>4. ASSUME NEW v \in 1..Len(updates), JobFails(v) \/ JobInsertsRow(v) \/ JobHandsOff(v) \/ JobCannotHandOff(v) PROVE FALSE
    BY <2>4 DEF JobFails, JobInsertsRow, JobHandsOff, JobCannotHandOff
  <2>5. ~StartUpdate
    BY DEF StartUpdate, NewJob
  <2>6. ~AutoDecides
    BY <1>a, GitReads DEF AutoDecides, Commits
  <2>7. UNCHANGED <<checkout, container, helper, up>> \/ Crash \/ Boot \/ \E v \in Updates : HelperRestartsApi(v)
    BY <2>3, <2>4, DiskFrame DEF DiskVars, disk, Push, ReconcileFails
  <2> QED
    BY <1>1, <1>2, <2>1, <2>2, <2>4, <2>5, <2>6, <2>7, JobsFrame
<1> QED
  BY <1>1, <1>2, <1>3, <1>4

(* What a process, the page and the answers on their way have read is in   *)
(* the container.                                                          *)
LEMMA FreshNext ==
    ASSUME TypeInv, FreshProcess, [Next]_vars, ~cut'
    PROVE  FreshProcess'
<1>a. /\ {container, container', checkout} \subseteq Nat /\ container' >= container
      /\ boot \in Nat /\ live \in Nat
  BY CommitsNext, DiskNext DEF TypeInv, DiskType, ServerType, TabType, Commits
<1>b. boot <= container /\ live <= container /\ (boot = 0 => checkout = container)
      /\ \A a \in answers : a.kind = "system" => a.commit <= container
  BY DEF FreshProcess
<1>t. DiskType /\ ServerType /\ Basics /\ AnswersType
  BY DEF TypeInv
<1>c. \A a \in answers : a.kind = "system" => a.commit \in Nat
  BY <1>t, AnswersTyped
<1>r. ASSUME boot' = IF boot = 0 THEN checkout ELSE boot PROVE boot' <= container
  BY <1>a, <1>b, <1>r
<1>1. boot' <= container'
  <2>1. CASE UNCHANGED boot
    BY <1>a, <1>b, <2>1
  <2>2. CASE Crash
    BY <1>a, <2>2 DEF Crash, Stop
  <2>3. ASSUME NEW u \in Updates, HelperRestartsApi(u) PROVE boot' <= container'
    BY <1>a, <1>b, <2>3 DEF HelperRestartsApi, Stop, server
  <2>4. CASE (\E r \in BOOLEAN : RefreshGit(r)) \/ GitInfo
    BY <1>a, <1>r, <1>t, <2>4, GitReads, GitKnown, ServerNext DEF ServerType
  <2>5. Refresh \/ AutoDecides \/ LoadSystem \/ Reconcile => (\E r \in BOOLEAN : RefreshGit(r)) \/ GitInfo
    BY DEF Refresh, AutoDecides, LoadSystem, Reconcile
  <2>6. ASSUME NEW a \in answers, TickUpdater(a) PROVE GitInfo \/ UNCHANGED boot
    BY <2>6 DEF TickUpdater
  <2>7. AutoChecks \/ UNCHANGED ServerVars => UNCHANGED boot
    BY DEF AutoChecks, ServerVars
  <2> QED
    BY <2>1, <2>2, <2>3, <2>4, <2>5, <2>6, <2>7, ServerFrame
<1>2. live' <= container'
  <2>1. CASE live' \in {live, 0}
    BY <1>a, <1>b, <2>1
  <2>2. ASSUME NEW a \in answers, TickSystem(a) PROVE live' <= container'
    BY <1>a, <1>b, <1>c, <2>2 DEF TickSystem
  <2>3. UNCHANGED TabVars \/ LoadSystem \/ StartUpdate \/ PollJob \/ Dismiss \/ Reload => live' \in {live, 0}
    BY DEF TabVars, LoadSystem, StartUpdate, PollJob, Dismiss, Reload, NoWatch
  <2>4. ASSUME NEW a \in answers, TickUpdater(a) \/ TickDown(a) PROVE live' = live
    BY <2>4 DEF TickUpdater, TickDown
  <2> QED
    BY <2>1, <2>2, <2>3, <2>4, TabFrame
<1>3. ASSUME NEW b \in answers', b.kind = "system" PROVE b.commit <= container'
  <2>1. CASE b \in answers
    BY <1>a, <1>b, <1>c, <1>3, <2>1
  <2>2. CASE b \notin answers
    <3>0. ASSUME TickAsks PROVE FALSE
      <4>1. CASE answers' = answers \cup {[kind |-> "down"]}
        BY <1>3, <2>2, <4>1
      <4>2. ASSUME NEW s, NEW m, answers' = answers \cup {[kind |-> "updater", st |-> s, mark |-> m]} PROVE FALSE
        BY <1>3, <2>2, <4>2
      <4> QED
        BY <3>0, <4>1, <4>2 DEF TickAsks
    <3>1. ~UNCHANGED answers /\ ~StartUpdate /\ ~Dismiss /\ ~Reload /\ ~TickAsks
          /\ \A a \in answers : ~TickSystem(a) /\ ~TickDown(a)
      BY <1>3, <2>2, <3>0 DEF StartUpdate, Dismiss, Reload, NoWatch, TickSystem, TickDown
    <3>2. PICK a \in answers : TickUpdater(a)
      BY <3>1, AnswersFrame
    <3>3. GitInfo /\ b.commit = Current(boot', local') /\ container' = container
      BY <1>3, <2>2, <3>2 DEF TickUpdater, disk
    <3>4. boot' \in Commits
      BY <1>t, <3>3, GitKnown
    <3> QED
      BY <1>1, <3>3, <3>4 DEF Current, Commits
  <2> QED
    BY <2>1, <2>2
<1> QED
  BY <1>1, <1>2, <1>3, UnreadNext DEF FreshProcess

(* The jobs that may be active after a step were so before it, or are new. *)
LEMMA ActiveNext ==
    ASSUME TypeInv, [Next]_vars, NEW u \in 1..Len(updates')
    PROVE  \/ /\ u \in 1..Len(updates) /\ updates'[u].by = updates[u].by
              /\ Active(u)' => Active(u)
              /\ Working(u)' => Working(u) \/ (updates[u].at = "row" /\ JobHandsOff(u))
              /\ updates'[u].at = "row" => updates[u].at = "row" \/ JobInsertsRow(u)
           \/ /\ u = Len(updates) + 1 /\ Len(updates') = u /\ ~Working(u)' /\ updates'[u].at = "prep"
              /\ \/ AutoDecides
                 \/ StartUpdate /\ updates'[u].by = "tab"
<1>a. /\ JobsType /\ DiskType /\ ServerType /\ Basics /\ helper \in [Updates -> HelperStates]
      /\ Len(updates) \in Nat /\ MaxEvents \in Nat /\ crashes \in Nat
  BY LenProperties, UpdateConstants DEF TypeInv, DiskType, JobsType
<1>b. Len(updates) <= MaxEvents
  BY <1>a DEF Basics
<1>u. u \in Updates
  <2>1. Len(updates') \in Nat /\ crashes' \in Nat /\ Len(updates') + crashes' <= MaxEvents
    BY JobsNext, LenProperties DEF JobsType
  <2> QED
    BY <1>a, <2>1 DEF Updates
<1>1. ASSUME NEW v \in 1..Len(updates), JobHandsOff(v), v # u, Working(u)' PROVE Working(u)
  BY <1>u, <1>1 DEF JobHandsOff, Working
<1>2. ASSUME NEW v \in Updates, HelperMerges(v) \/ HelperBuilds(v) \/ HelperFails(v) \/ HelperRestartsApi(v), Working(u)'
      PROVE  Working(u)
  BY <1>a, <1>u, <1>2 DEF HelperMerges, HelperBuilds, HelperFails, HelperRestartsApi, Working
<1>3. Working(u)' => Working(u) \/ (u \in 1..Len(updates) /\ updates[u].at = "row" /\ JobHandsOff(u))
  <2>1. CASE UNCHANGED helper
    BY <2>1 DEF Working
  <2>2. ASSUME NEW v \in 1..Len(updates), JobHandsOff(v) PROVE v = u \/ (Working(u)' => Working(u))
    BY <1>1, <2>2
  <2>3. JobHandsOff(u) => updates[u].at = "row"
    BY DEF JobHandsOff
  <2> QED
    BY <1>2, <2>1, <2>2, <2>3, DiskFrame DEF DiskVars, Push, Crash, Boot, ReconcileFails
<1>4. CASE UNCHANGED updates
  <2>1. ~JobHandsOff(u) \/ u \notin 1..Len(updates)
    BY <1>a, <1>4, JobMoves DEF JobHandsOff
  <2> QED
    BY <1>3, <1>4, <2>1 DEF Active
<1>5. ASSUME NEW v \in 1..Len(updates), NEW s \in {"prep", "row", "handed", "failed"}, updates' = [updates EXCEPT ![v].at = s],
             updates[v].at \in {"prep", "row"},
             v = u => (s = "row" => JobInsertsRow(u))
      PROVE  /\ u \in 1..Len(updates) /\ updates'[u].by = updates[u].by
             /\ Active(u)' => Active(u)
             /\ Working(u)' => Working(u) \/ (updates[u].at = "row" /\ JobHandsOff(u))
             /\ updates'[u].at = "row" => updates[u].at = "row" \/ JobInsertsRow(u)
  <2>1. u \in 1..Len(updates) /\ updates'[u].by = updates[u].by /\ updates'[u].at = IF u = v THEN s ELSE updates[u].at
    BY <1>a, <1>5, JobMoves
  <2> QED
    BY <1>3, <1>5, <2>1 DEF Active
<1>6. ASSUME NEW v \in 1..Len(updates), JobFails(v) \/ JobInsertsRow(v) \/ JobHandsOff(v) \/ JobCannotHandOff(v)
      PROVE  \E s \in {"prep", "row", "handed", "failed"} :
                /\ updates' = [updates EXCEPT ![v].at = s]
                /\ updates[v].at \in {"prep", "row"}
                /\ v = u => (s = "row" => JobInsertsRow(u))
  BY <1>6 DEF JobFails, JobInsertsRow, JobHandsOff, JobCannotHandOff
<1>7. CASE Boot
  <2>1. /\ u \in 1..Len(updates) /\ updates'[u].by = updates[u].by
        /\ updates'[u].at = IF updates[u].at \in {"prep", "row"} THEN "failed" ELSE updates[u].at
    BY <1>a, <1>7, JobsClose DEF Boot
  <2> QED
    BY <1>3, <2>1 DEF Active
<1>8. ASSUME NEW by \in {"tab", "auto"}, NEW l \in 0..MaxCommit, NEW h \in 0..MaxCommit, NewJob(by, l, h),
             (by = "tab" /\ StartUpdate) \/ AutoDecides
      PROVE  \/ /\ u \in 1..Len(updates) /\ updates'[u] = updates[u]
             \/ /\ u = Len(updates) + 1 /\ Len(updates') = u /\ ~Working(u)' /\ updates'[u].at = "prep"
                /\ \/ AutoDecides
                   \/ StartUpdate /\ updates'[u].by = "tab"
  <2>1. PICK j \in Job : j.by = by /\ j.at = "prep" /\ updates' = Append(updates, j)
    BY <1>8, NewJobIs
  <2>2. /\ Len(updates') = Len(updates) + 1 /\ updates'[Len(updates) + 1] = j
        /\ \A v \in 1..Len(updates) : updates'[v] = updates[v]
    BY <1>a, <2>1, JobAppended
  <2>3. u = Len(updates) + 1 => u \in Updates /\ ~Working(u)'
    <3>1. Len(updates) + 1 \in Updates
      BY <1>a, <1>8 DEF NewJob, Updates
    <3>2. helper[Len(updates) + 1] = "none"
      BY <1>a, <3>1 DEF Basics
    <3>3. UNCHANGED helper
      BY <1>8 DEF StartUpdate, AutoDecides
    <3> QED
      BY <3>1, <3>2, <3>3 DEF Working
  <2> QED
    BY <1>a, <1>8, <2>1, <2>2, <2>3
<1>9. CASE AutoDecides
  <2>1. PICK r \in BOOLEAN : RefreshGit(r) /\ (NewJob("auto", local', head') \/ UNCHANGED updates)
    BY <1>9 DEF AutoDecides
  <2>2. local' \in 0..MaxCommit /\ head' \in 0..MaxCommit
    BY <2>1, GitReads DEF TypeInv, Commits
  <2>3. UNCHANGED helper
    BY <1>9 DEF AutoDecides
  <2> QED
    BY <1>4, <1>8, <1>9, <2>1, <2>2, <2>3 DEF Active, Working
<1>10. CASE StartUpdate
  <2>1. NewJob("tab", local, head) /\ UNCHANGED helper
    BY <1>10 DEF StartUpdate
  <2> QED
    BY <1>8, <1>10, <1>a, <2>1 DEF ServerType, Active, Working
<1> QED
  BY <1>4, <1>5, <1>6, <1>7, <1>9, <1>10, JobsFrame

(* The row of an update at work stays pending while it is.                 *)
LEMMA RowsGuardNext ==
    ASSUME TypeInv, FreshProcess, RowsGuard, [Next]_vars, ~cut'
    PROVE  RowsGuard'
<1>a. /\ RowsType /\ JobsType /\ Len(rows) \in Nat /\ recon \in 0..Len(rows) /\ Basics
      /\ MaxEvents \in Nat /\ Len(updates) \in Nat /\ crashes \in Nat
  BY LenProperties, UpdateConstants DEF TypeInv, RowsType, JobsType, DiskType
<1> SUFFICES ASSUME NEW u \in 1..Len(updates'), updates'[u].at = "row" \/ Working(u)'
             PROVE  \E i \in 1..Len(rows') : GuardRow(u, i)'
  BY DEF RowsGuard
<1>1. /\ u \in 1..Len(updates)
      /\ Working(u)' => Working(u) \/ (updates[u].at = "row" /\ JobHandsOff(u))
      /\ updates'[u].at = "row" => updates[u].at = "row" \/ JobInsertsRow(u)
  BY ActiveNext
<1>u. u \in Nat \ {0} /\ u \in 0..MaxEvents /\ u \in Updates
  BY <1>a, <1>1 DEF Basics, Updates
<1>2. CASE JobInsertsRow(u)
  <2> DEFINE r == [version |-> updates[u].target, status |-> "pending", old |-> FALSE, of |-> u]
  <2>1. rows' = Append(rows, r) /\ recon' = recon
    BY <1>2 DEF JobInsertsRow, server
  <2>2. updates[u] \in Job
    BY <1>a, <1>1, ElementOfSeq DEF JobsType
  <2>3. r \in Row
    BY <1>u, <2>2, UpdateConstants DEF Job, Row, Status, Commits
  <2>4. Len(rows') = Len(rows) + 1 /\ rows'[Len(rows) + 1] = r
    BY <1>a, <2>1, <2>3, RowAppended
  <2>5. GuardRow(u, Len(rows))'
    BY <1>a, <2>1, <2>4 DEF GuardRow
  <2> QED
    BY <1>a, <2>4, <2>5
<1>3. CASE updates[u].at = "row" \/ Working(u)
  <2>1. PICK i \in 1..Len(rows) : GuardRow(u, i)
    BY <1>1, <1>3 DEF RowsGuard
  <2>2. ~Working(u) \/ updates[u].at = "handed"
    BY <1>a, <1>u DEF Basics, Working
  <2>3. ASSUME Len(rows) <= Len(rows'), rows'[i] = rows[i], recon' \in {recon, 0} PROVE \E j \in 1..Len(rows') : GuardRow(u, j)'
    <3>1. i \in 1..Len(rows') /\ i # 0
      <4>1. Len(rows') \in Nat
        BY RowsNext, LenProperties DEF RowsType
      <4> QED
        BY <1>a, <2>3, <4>1
    <3> QED
      BY <2>1, <2>3, <3>1 DEF GuardRow
  <2>4. CASE UNCHANGED RowVars
    BY <1>a, <2>3, <2>4 DEF RowVars
  <2>5. CASE Crash \/ ReconcileFails
    BY <1>a, <2>3, <2>5 DEF Crash, Stop, ReconcileFails
  <2>6. ASSUME NEW v \in Updates, HelperRestartsApi(v) PROVE recon' \in {recon, 0} /\ rows' = rows
    BY <2>6 DEF HelperRestartsApi, Stop, server
  <2>7. CASE Boot
    <3>1. boot = 0 /\ ~Working(u) /\ UNCHANGED helper
      BY <1>a, <1>u, <2>7 DEF Basics, FreshProcess, Boot
    <3>2. updates'[u].at # "row"
      BY <1>a, <1>1, <2>7, JobsClose DEF Boot
    <3> QED
      BY <3>1, <3>2 DEF Working
  <2>8. CASE Reconcile
    <3>1. PICK s \in Status : rows' = [rows EXCEPT ![recon].status = s]
      BY <2>8 DEF Reconcile, Status
    <3>2. recon \in 1..Len(rows) /\ recon' = 0 /\ i # recon
      BY <1>a, <2>1, <2>8 DEF Reconcile, GuardRow
    <3> QED
      BY <1>a, <2>3, <3>1, <3>2, RowDecided
  <2>9. ASSUME NEW v \in 1..Len(updates), JobInsertsRow(v) PROVE \E j \in 1..Len(rows') : GuardRow(u, j)'
    <3>1. updates[v] \in Job /\ v \in 0..MaxEvents
      BY <1>a, ElementOfSeq DEF JobsType, Basics
    <3>2. [version |-> updates[v].target, status |-> "pending", old |-> FALSE, of |-> v] \in Row
      BY <3>1, UpdateConstants DEF Job, Row, Status, Commits
    <3>3. rows' = Append(rows, [version |-> updates[v].target, status |-> "pending", old |-> FALSE, of |-> v]) /\ recon' = recon
      BY <2>9 DEF JobInsertsRow, server
    <3> QED
      BY <1>a, <2>3, <3>2, <3>3, RowAppended
  <2>10. ASSUME NEW v \in 1..Len(updates), JobCannotHandOff(v) PROVE \E j \in 1..Len(rows') : GuardRow(u, j)'
    <3>1. /\ rows' = [k \in 1..Len(rows) |-> IF rows[k].of = v THEN [rows[k] EXCEPT !.status = "failed"] ELSE rows[k]]
          /\ updates' = [updates EXCEPT ![v].at = "failed"] /\ recon' = recon /\ updates[v].at = "row" /\ UNCHANGED helper
      BY <2>10 DEF JobCannotHandOff, server
    <3>2. v # u
      BY <1>a, <1>1, <2>2, <3>1, JobMoves DEF Working
    <3>3. rows[i].of # v
      BY <2>1, <3>2 DEF GuardRow
    <3> QED
      BY <1>a, <2>3, <3>1, <3>3, RowsFail
  <2>11. ASSUME NEW k \in 1..Len(rows), RowExpires(k) PROVE \E j \in 1..Len(rows') : GuardRow(u, j)'
    <3>1. rows' = [rows EXCEPT ![k].old = TRUE] /\ recon' = recon
      BY <2>11 DEF RowExpires, server
    <3>2. k # i
      BY <1>3, <1>u, <2>1, <2>11 DEF RowExpires, GuardRow
    <3> QED
      BY <1>a, <2>3, <3>1, <3>2, RowAges
  <2> QED
    BY <1>a, <2>3, <2>4, <2>5, <2>6, <2>7, <2>8, <2>9, <2>10, <2>11, RowsFrame
<1> QED
  BY <1>1, <1>2, <1>3

(* autoUpdate starts an update only when nothing is in progress.           *)
LEMMA OneAutoNext ==
    ASSUME TypeInv, RowsGuard, OneAuto, [Next]_vars
    PROVE  OneAuto'
<1>a. JobsType /\ Len(updates) \in Nat
  BY LenProperties DEF TypeInv, JobsType
<1>1. ASSUME NEW u \in Autos' PROVE u \in Autos \/ (u = Len(updates) + 1 /\ AutoDecides)
  BY <1>a, <1>1, ActiveNext DEF Autos
<1>2. CASE AutoDecides
  BY <1>1, <1>2 DEF AutoDecides, OneAuto
<1>3. CASE AutoChecks
  <2>1. Autos = {}
    BY <1>3 DEF AutoChecks, InProgress, Autos, Active, RowsGuard, GuardRow
  <2> QED
    BY <1>1, <1>3, <2>1 DEF AutoChecks, AutoDecides, OneAuto
<1>4. CASE ~AutoDecides /\ ~AutoChecks
  <2>1. autoPc' \in {autoPc, "idle"}
    <3>1. ASSUME NEW u \in Updates, HelperRestartsApi(u) PROVE autoPc' \in {autoPc, "idle"}
      BY <3>1 DEF HelperRestartsApi, Stop, server
    <3>2. ASSUME NEW a \in answers, TickUpdater(a) PROVE autoPc' \in {autoPc, "idle"}
      BY <3>2 DEF TickUpdater
    <3> QED
      BY <1>4, <3>1, <3>2, ServerFrame DEF ServerVars, Crash, Stop, Refresh, LoadSystem, Reconcile
  <2> QED
    BY <1>1, <1>4, <2>1 DEF OneAuto
<1> QED
  BY <1>2, <1>3, <1>4

(* SoundInv is inductive, and says what the page and autoUpdate need.      *)
LEMMA SoundIsInductive == Spec => []SoundInv
<1>1. Init => SoundInv
  <2> SUFFICES ASSUME Init PROVE SoundInv
    OBVIOUS
  <2>1. Len(updates) = 0 /\ \A u \in Updates : ~Working(u)
    BY DEF Init, Working
  <2>2. FreshProcess /\ RowsGuard /\ OneAuto
    BY <2>1 DEF Init, FreshProcess, RowsGuard, OneAuto, Autos
  <2> QED
    BY <2>2, InitTypeInv DEF SoundInv
<1>2. SoundInv /\ [Next]_vars => SoundInv'
  <2> SUFFICES ASSUME SoundInv, [Next]_vars PROVE SoundInv'
    OBVIOUS
  <2>1. TypeInv /\ TypeInv'
    BY NextTypeInv DEF SoundInv
  <2>2. ASSUME ~cut' PROVE FreshProcess' /\ RowsGuard' /\ OneAuto'
    BY <2>1, <2>2, CutStays, FreshNext, RowsGuardNext, OneAutoNext DEF SoundInv
  <2> QED
    BY <2>1, <2>2 DEF SoundInv
<1> QED
  BY <1>1, <1>2, PTL DEF Spec

(* The page says that Dockhand was updated only when the container runs    *)
(* the update, and what every process and page holds is what it can hold.  *)
THEOREM WatchHonest == Spec => []WatchIsHonest
<1>1. SoundInv => WatchIsHonest
  <2> SUFFICES ASSUME SoundInv PROVE TypeOK /\ DoneOnlyAfterRestart
    BY DEF WatchIsHonest
  <2>1. TypeOK
    BY TypeParts DEF SoundInv, TypeInv
  <2>2. ~cut => live <= container
    BY DEF SoundInv, FreshProcess
  <2> QED
    BY <2>1, <2>2 DEF DoneOnlyAfterRestart, Done
<1> QED
  BY <1>1, SoundIsInductive, PTL

(* autoUpdate never starts an update while one it started still runs.      *)
THEOREM NoTwoAutos == Spec => []AutoNeverOverlapsAuto
<1>1. SoundInv => AutoNeverOverlapsAuto
  <2> SUFFICES ASSUME SoundInv, ~cut PROVE Cardinality(Autos) <= 1
    BY DEF AutoNeverOverlapsAuto, Autos
  <2>1. CASE Autos = {}
    BY <2>1, FS_EmptySet
  <2>2. ASSUME NEW u \in Autos PROVE Cardinality(Autos) <= 1
    <3>1. Autos = {u}
      BY <2>2 DEF SoundInv, OneAuto
    <3>2. Cardinality({u}) = 1
      BY FS_Singleton
    <3> QED
      BY <3>1, <3>2
  <2> QED
    BY <2>1, <2>2
<1> QED
  BY <1>1, SoundIsInductive, PTL

-----------------------------------------------------------------------------
(* The bar has been at least where it is.                                  *)
PeakIsReached == StageRank(Done, down, st, mark) <= peak

(* While an update is followed its peak only grows.                        *)
LEMMA PeakNext == ASSUME TypeInv, PeakIsReached, [Next]_vars PROVE PeakIsReached' /\ (tabJob' = tabJob /\ tabJob # 0 => peak' >= peak)
<1>a. TabType /\ TabType' /\ JobsType /\ (tabJob # 0 => tabJob \in 1..Len(updates)) /\ WatchBasics
  BY TabNext, LenProperties DEF TypeInv, JobsType, WatchBasics
<1>b. peak \in 1..5 /\ peak' \in 1..5
  BY <1>a DEF TabType
<1>c. tabJob # 0 => updates'[tabJob].target = updates[tabJob].target
  BY <1>a, JobsNext DEF JobsStay
<1>s. \A d \in BOOLEAN, d2 \in BOOLEAN : \A s, m : StageRank(d, d2, s, m) \in 1..5
  BY RankRange
<1>1. ASSUME UNCHANGED <<st, mark, live, down, peak, tabJob>> PROVE PeakIsReached'
  <2>1. Done' = Done
    BY <1>a, <1>c, <1>1 DEF Done, WatchBasics
  <2> QED
    BY <1>1, <2>1 DEF PeakIsReached, StageRank
<1>2. ASSUME NoWatch PROVE PeakIsReached'
  BY <1>2 DEF NoWatch, PeakIsReached, StageRank, Done
<1>3. ASSUME NEW a \in answers, TickUpdater(a) \/ TickSystem(a) \/ TickDown(a)
      PROVE  /\ tabJob' = tabJob /\ updates' = updates
             /\ RaisePeak(Done', down', st', mark')
  <2>1. tabJob # 0 /\ updates[tabJob].target # 0
    <3>1. tabJob \in 1..Len(updates)
      BY <1>a, <1>3 DEF WatchBasics
    <3>2. updates[tabJob] \in Job
      BY <1>a, <3>1, ElementOfSeq DEF JobsType
    <3> QED
      BY <3>1, <3>2, <1>a DEF Job, Commits
  <2>2. CASE TickUpdater(a)
    BY <2>2 DEF TickUpdater, Done
  <2>3. CASE TickSystem(a)
    <3>1. tabJob' = tabJob /\ updates' = updates /\ down' = down /\ st' = st /\ mark' = mark
          /\ RaisePeak(live' = updates[tabJob].target, down, st, mark)
      BY <2>3 DEF TickSystem
    <3>2. Done' = (live' = updates[tabJob].target)
      BY <2>1, <3>1 DEF Done
    <3> QED
      BY <3>1, <3>2
  <2>4. CASE TickDown(a)
    BY <2>4 DEF TickDown, Done
  <2> QED
    BY <1>3, <2>2, <2>3, <2>4
<1>4. ASSUME NEW a \in answers, TickUpdater(a) \/ TickSystem(a) \/ TickDown(a) PROVE PeakIsReached' /\ peak' >= peak
  <2> DEFINE r == StageRank(Done', down', st', mark')
  <2>1. r \in 1..5
    BY <1>a, <1>s DEF TabType, Done
  <2>2. peak' = IF r > peak THEN r ELSE peak
    BY <1>3, <1>4 DEF RaisePeak
  <2>3. r <= peak' /\ peak' >= peak
    BY <1>b, <2>1, <2>2
  <2> QED
    BY <2>3 DEF PeakIsReached, StageRank
<1>5. CASE StartUpdate \/ Dismiss \/ Reload
  <2>1. NoWatch
    BY <1>5 DEF StartUpdate, Dismiss, Reload
  <2>2. Len(updates) \in Nat /\ (tabJob' = Len(updates) + 1 \/ tabJob' = 0)
    BY <1>5, <1>a, LenProperties DEF StartUpdate, Dismiss, Reload, JobsType
  <2> QED
    BY <1>2, <1>a, <2>1, <2>2
<1>6. CASE UNCHANGED TabVars \/ LoadSystem \/ PollJob
  BY <1>1, <1>b, <1>6 DEF TabVars, LoadSystem, PollJob
<1> QED
  BY <1>4, <1>5, <1>6, TabFrame


(* What the bar shows is the most it has shown.                            *)
LEMMA ShownIsPeak ==
    ASSUME TypeInv, PeakIsReached
    PROVE  ShownPct = peak
<1>1. peak \in 1..5 /\ StageRank(Done, down, st, mark) \in 1..5
  BY RankRange, DoneBoolean DEF TypeInv, TabType
<1> QED
  BY <1>1 DEF ShownPct, PeakIsReached

(* The progress bar of an update never moves back, whatever order its      *)
(* answers arrive in and whatever its log has lost.                        *)
THEOREM BarForward == Spec => BarNeverMovesBack
<1>1. Init => TypeInv /\ PeakIsReached
  BY InitTypeInv DEF Init, PeakIsReached, StageRank, Done
<1>2. TypeInv /\ PeakIsReached /\ [Next]_vars => TypeInv' /\ PeakIsReached'
  BY NextTypeInv, PeakNext
<1>3. TypeInv /\ PeakIsReached /\ TypeInv' /\ PeakIsReached' /\ [Next]_vars
      => [Watching /\ Watching' /\ tabJob' = tabJob => ShownPct' >= ShownPct]_vars
  <2> SUFFICES ASSUME TypeInv, PeakIsReached, TypeInv', PeakIsReached', [Next]_vars, Watching, tabJob' = tabJob
               PROVE  ShownPct' >= ShownPct
    OBVIOUS
  <2>1. tabJob # 0
    BY DEF TypeInv, WatchBasics, Watching
  <2>2. ShownPct = peak
    BY ShownIsPeak
  <2>3. (TypeInv /\ PeakIsReached => ShownPct = peak)'
    BY ShownIsPeak, PTL
  <2> QED
    BY <2>1, <2>2, <2>3, PeakNext
<1> QED
  BY <1>1, <1>2, <1>3, PTL DEF Spec, BarNeverMovesBack

-----------------------------------------------------------------------------
(* A row that was decided is never open again.                             *)
LEMMA RowsStayDecided ==
    ASSUME TypeInv, [Next]_vars, NEW i \in 1..Len(rows), rows[i].status # "pending"
    PROVE  i \in 1..Len(rows') /\ rows'[i].status # "pending"
<1>a. RowsType /\ Len(rows) \in Nat /\ rows[i] \in Row
  BY LenProperties, ElementOfSeq DEF TypeInv, RowsType
<1>1. ASSUME NEW r \in Row, rows' = Append(rows, r) PROVE i \in 1..Len(rows') /\ rows'[i].status # "pending"
  BY <1>a, <1>1, RowAppended
<1>2. CASE UNCHANGED rows
  BY <1>2
<1>3. CASE Boot
  <2>1. [version |-> 0, status |-> "success", old |-> FALSE, of |-> 0] \in Row
    BY UpdateConstants DEF Row, Status
  <2> QED
    BY <1>1, <1>2, <1>3, <2>1 DEF Boot
<1>4. CASE Reconcile
  <2>1. PICK s \in {"success", "failed"} : rows' = [rows EXCEPT ![recon].status = s]
    BY <1>4 DEF Reconcile
  <2>2. recon \in 1..Len(rows)
    BY <1>a, <1>4 DEF Reconcile, RowsType
  <2>3. Len(rows') = Len(rows) /\ (i # recon => rows'[i] = rows[i])
    BY <1>a, <2>1, <2>2, RowDecided DEF Status
  <2>4. i = recon => rows'[i].status = s
    BY <1>a, <2>1, <2>2 DEF RowsType, Row
  <2> QED
    BY <2>3, <2>4
<1>5. ASSUME NEW u \in 1..Len(updates), JobInsertsRow(u) PROVE i \in 1..Len(rows') /\ rows'[i].status # "pending"
  <2>1. updates[u] \in Job /\ u \in 0..MaxEvents
    BY ElementOfSeq, LenProperties, UpdateConstants DEF TypeInv, JobsType, DiskType, Basics
  <2>2. [version |-> updates[u].target, status |-> "pending", old |-> FALSE, of |-> u] \in Row
    BY <2>1, UpdateConstants DEF Row, Status, Job, Commits
  <2> QED
    BY <1>1, <1>5, <2>2 DEF JobInsertsRow
<1>6. ASSUME NEW u \in 1..Len(updates), JobCannotHandOff(u) PROVE i \in 1..Len(rows') /\ rows'[i].status # "pending"
  <2>1. /\ rows' = [k \in 1..Len(rows) |-> IF rows[k].of = u THEN [rows[k] EXCEPT !.status = "failed"] ELSE rows[k]]
        /\ Len(rows') = Len(rows)
    BY <1>a, <1>6, RowsFail DEF JobCannotHandOff
  <2>2. rows'[i] = IF rows[i].of = u THEN [rows[i] EXCEPT !.status = "failed"] ELSE rows[i]
    BY <2>1
  <2> QED
    BY <1>a, <2>1, <2>2 DEF Row
<1>7. ASSUME NEW k \in 1..Len(rows), RowExpires(k) PROVE i \in 1..Len(rows') /\ rows'[i].status # "pending"
  <2>1. k # i /\ Len(rows') = Len(rows) /\ (k # i => rows'[i] = rows[i])
    BY <1>a, <1>7, RowAges DEF RowExpires
  <2> QED
    BY <2>1
<1>8. Crash \/ ReconcileFails \/ (\E u \in Updates : HelperRestartsApi(u)) => UNCHANGED rows
  BY DEF Crash, ReconcileFails, HelperRestartsApi
<1> QED
  BY <1>2, <1>3, <1>4, <1>5, <1>6, <1>7, <1>8, RowsFrame DEF RowVars

(* The row that was open when the API last ended is the newest until the   *)
(* next start, which goes on to decide it.                                 *)
OwedInv ==
    IF up THEN owed # 0 => recon = owed \/ rows[owed].status # "pending"
          ELSE owed \in {0, Len(rows)}

(* The open row is decided, or the next process is about to.               *)
LEMMA OwedNext == ASSUME TypeInv, OwedInv, [Next]_vars PROVE OwedInv'
<1>a. RowsType /\ Len(rows) \in Nat /\ Len(rows) >= 1 /\ recon \in 0..Len(rows) /\ owed \in 0..Len(rows) /\ up \in BOOLEAN
  BY LenProperties DEF TypeInv, Basics, RowsType, DiskType
<1>1. ASSUME UNCHANGED <<up, recon, owed>>, up PROVE OwedInv'
  BY <1>1, <1>a, RowsStayDecided DEF OwedInv
<1>2. CASE Stop /\ UNCHANGED rows
  BY <1>2, <1>a DEF Stop, OwedInv
<1>3. CASE Boot
  <2>1. ~up /\ up' /\ owed' = owed /\ recon' = IF Last.status = "pending" THEN Len(rows) ELSE 0
    BY <1>3 DEF Boot, past
  <2>2. CASE owed = 0
    BY <2>1, <2>2 DEF OwedInv
  <2>3. CASE owed # 0 /\ Last.status = "pending"
    BY <2>1, <2>3 DEF OwedInv
  <2>4. CASE owed # 0 /\ Last.status # "pending"
    <3>1. owed = Len(rows) /\ rows[owed].status # "pending"
      BY <2>1, <2>4 DEF OwedInv, Last
    <3> QED
      BY <1>a, <2>1, <3>1, RowsStayDecided DEF OwedInv
  <2> QED
    BY <2>2, <2>3, <2>4
<1>4. CASE Reconcile
  <2>1. up /\ up' /\ owed' = owed /\ recon \in 1..Len(rows)
    BY <1>a, <1>4 DEF Reconcile, past
  <2>2. PICK s \in {"success", "failed"} : rows' = [rows EXCEPT ![recon].status = s]
    BY <1>4 DEF Reconcile
  <2>3. rows'[recon].status = s
    <3>1. rows[recon] \in Row
      BY <1>a, <2>1, ElementOfSeq DEF RowsType
    <3> QED
      BY <1>a, <2>1, <2>2, <3>1 DEF RowsType, Row
  <2>4. owed # 0 => rows'[owed].status # "pending"
    <3>1. CASE owed = recon
      BY <2>3, <3>1
    <3>2. CASE owed # recon
      BY <1>a, <2>1, <3>2, RowsStayDecided DEF OwedInv
    <3> QED
      BY <3>1, <3>2
  <2> QED
    BY <2>1, <2>4 DEF OwedInv
<1>5. CASE ReconcileFails
  BY <1>5 DEF ReconcileFails, OwedInv
<1>6. CASE Crash
  BY <1>2, <1>6 DEF Crash
<1>7. ASSUME NEW u \in Updates, HelperRestartsApi(u) PROVE (Stop /\ UNCHANGED rows) \/ UNCHANGED <<up, recon, owed, rows>>
  BY <1>7 DEF HelperRestartsApi, server, past
<1>8. ASSUME UNCHANGED <<up, recon, owed, rows>> PROVE OwedInv'
  BY <1>8 DEF OwedInv
<1>9. CASE UNCHANGED RowVars
  <2>1. UNCHANGED DiskVars => up' = up
    BY DEF DiskVars
  <2>2. Push \/ (\E u \in 1..Len(updates) : JobHandsOff(u)) \/ (\E u \in Updates : HelperMerges(u) \/ HelperBuilds(u) \/ HelperFails(u))
        => up' = up
    BY DEF Push, JobHandsOff, HelperMerges, HelperBuilds, HelperFails
  <2>3. UNCHANGED <<recon, owed, rows>>
    BY <1>9 DEF RowVars
  <2> QED
    BY <1>3, <1>5, <1>6, <1>2, <1>7, <1>8, <2>1, <2>2, <2>3, DiskFrame
<1>10. ASSUME NEW u \in 1..Len(updates), JobInsertsRow(u) \/ JobCannotHandOff(u) PROVE up /\ UNCHANGED <<up, recon, owed>>
  BY <1>10 DEF JobInsertsRow, JobCannotHandOff, server, past
<1>11. ASSUME NEW i \in 1..Len(rows), RowExpires(i) PROVE OwedInv'
  <2>1. UNCHANGED <<up, recon, owed>> /\ Len(rows') = Len(rows)
    BY <1>a, <1>11, RowAges DEF RowExpires, server, past
  <2>2. ~up => OwedInv'
    BY <2>1 DEF OwedInv
  <2> QED
    BY <1>1, <2>1, <2>2
<1> QED
  BY <1>1, <1>2, <1>3, <1>4, <1>5, <1>6, <1>7, <1>8, <1>9, <1>10, <1>11, RowsFrame

(* The start after an update, or after a crash in the middle of one,       *)
(* decides the row that was open, whatever was started since.              *)
THEOREM RowIsDecided == Spec => []RestartDecidesTheRow
<1>1. Init => TypeInv /\ OwedInv
  BY InitTypeInv DEF Init, OwedInv
<1>2. TypeInv /\ OwedInv /\ [Next]_vars => TypeInv' /\ OwedInv'
  BY NextTypeInv, OwedNext
<1>3. OwedInv => RestartDecidesTheRow
  BY DEF OwedInv, RestartDecidesTheRow
<1> QED
  BY <1>1, <1>2, <1>3, PTL DEF Spec

=============================================================================
