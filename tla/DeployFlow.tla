----------------------------- MODULE DeployFlow -----------------------------
(***************************************************************************)
(* The Deploy page of the web UI: the three flows of                       *)
(* web/components/deploy (GitFlow, ImageFlow, ComposeFlow) with the hooks  *)
(* and widgets they share (shared.tsx, ComposeEditor.tsx,                  *)
(* DeployProgress.tsx, useJob of lib/api.ts), under                        *)
(* web/app/(app)/deploy/page.tsx, which mounts one of them.                *)
(*                                                                         *)
(* A flow has three steps: choose, configure, follow the job.  The form    *)
(* is abstracted to its target host and one field: an environment          *)
(* variable (git), the rows read off the image (image) or the compose      *)
(* file.  The two debounced server checks are probes: a timer, requests    *)
(* on their way, the last result.  Requests of a component that is no      *)
(* longer mounted are still answered.                                      *)
(***************************************************************************)
EXTENDS WebBase

CONSTANTS
    Items,      \* repositories, images or stack names
    HitCount,   \* hits of a search for each
    Hosts, First,   \* the hosts, and the one the host list starts with
    Branches, Default,
    Texts, Blank,   \* what a user may type in the field
    Template    \* the first template, or what the image's inspection says

ASSUME DeployConstants ==
    /\ HitCount \in [Items -> Nat \ {0}] /\ First \in Hosts /\ Default \in Branches /\ Blank \in Texts
    /\ None \notin Items \cup Hosts \cup Branches \cup Texts \cup {Template}

VARIABLES
    mode, mount, step,
    item,       \* the repository, the image or the stack's name
    dq, hi,     \* the debounced search term; the highlighted hit, 0 for none
    conf,       \* mounts of the configuration form
    online, hostId,
    branch, fetched, seeded,   \* inspections (or templates) answered; whether the form was seeded
    v, typed,   \* the field; history: whether the user set it
    check, valid,              \* useDeployCheck, useComposeValidation
    busy, posts, jobs,
    job, shown, notified,      \* DeployProgress: job followed, status held by useJob
    announced   \* history: toasts about the end of each job

search == <<dq, hi>>
form == <<conf, hostId, branch, fetched, seeded, v, typed, check, valid>>
progress == <<job, shown, notified, announced>>
deployVars == <<mode, mount, step, item, search, online, form, busy, posts, jobs, progress>>

Ids == 1..MaxMoves
Values == Texts \cup Branches \cup {Template, None}
Input == [host : Hosts, item : Items, v : Values]
Result == [of : Input \cup Values, bad : BOOLEAN] \cup {None}
Probe == [timer : BOOLEAN, asked : SUBSET [of : Input \cup Values, cur : BOOLEAN],
          busy : BOOLEAN, result : Result]
Post == [id : 1..MaxMoves, mount : 1..(MaxMoves + 1), conf : Nat, item : Items, host : Hosts]

IsProbe(p) == /\ DOMAIN p = {"timer", "asked", "busy", "result"} /\ p.timer \in BOOLEAN /\ p.busy \in BOOLEAN
              /\ p.result \in Result /\ \A a \in p.asked : a.of \in Input \cup Values /\ a.cur \in BOOLEAN

DeployTypeOK ==
    /\ mode \in {"git", "image", "compose"} /\ mount \in 1..(MaxMoves + 1) /\ step \in 0..2
    /\ item \in Items \cup {None} /\ dq \in Items \cup {None} /\ hi \in Nat
    /\ conf \in Nat /\ online \subseteq Hosts /\ hostId \in Hosts \cup {None}
    /\ branch \in Branches /\ fetched \subseteq Branches /\ seeded \in BOOLEAN
    /\ v \in Values /\ typed \in BOOLEAN /\ IsProbe(check) /\ IsProbe(valid)
    /\ busy \in BOOLEAN /\ posts \subseteq Post
    /\ jobs \in Seq([mount : 1..(MaxMoves + 1), item : Items, status : {"running", "success", "failed"}])
    /\ job \in 0..Len(jobs) /\ shown \in {"none", "running", "success", "failed"}
    /\ notified \in BOOLEAN /\ announced \in [Ids -> Nat]

(* Of the bound, an edit or a new flow takes two moves, a change of the    *)
(* host list three.                                                        *)
EditMove == Spend(2)

-----------------------------------------------------------------------------
(* The probes.                                                             *)

Idle == [timer |-> FALSE, asked |-> {}, busy |-> FALSE, result |-> None]

(* The effect of a probe when its input becomes k: requests on their way   *)
(* no longer count, and the last result stays until the next one.          *)
Retriggered(p, k) ==
    [timer |-> k # None, asked |-> {[a EXCEPT !.cur = FALSE] : a \in p.asked},
     busy |-> k # None, result |-> IF k = None THEN None ELSE p.result]

Target == IF hostId \in online THEN hostId ELSE None

(* checkInput, and the content useComposeValidation is given.              *)
CheckInput == IF step = 1 /\ Target # None /\ item # None
              THEN [host |-> Target, item |-> item, v |-> v] ELSE None
ValidInput == IF step = 1 /\ mode = "compose" /\ v \notin {Blank, None} THEN v ELSE None

Reprobe ==
    /\ check' = IF CheckInput' # CheckInput THEN Retriggered(check, CheckInput') ELSE check
    /\ valid' = IF ValidInput' # ValidInput THEN Retriggered(valid, ValidInput') ELSE valid

Fired(p, k) == [p EXCEPT !.timer = FALSE, !.asked = @ \cup {[of |-> k, cur |-> TRUE]}]
CheckAsks ==
    /\ check.timer /\ check' = Fired(check, CheckInput)
    /\ UNCHANGED <<mode, mount, step, item, search, moves, online, conf, hostId, branch, fetched, seeded, v, typed, valid>>
    /\ UNCHANGED <<busy, posts, jobs, progress>>
ValidAsks ==
    /\ valid.timer /\ valid' = Fired(valid, ValidInput)
    /\ UNCHANGED <<mode, mount, step, item, search, moves, online, conf, hostId, branch, fetched, seeded, v, typed, check>>
    /\ UNCHANGED <<busy, posts, jobs, progress>>

(* An answer, or an error: only the last request's counts.                 *)
Answered(p, a, r) ==
    IF a.cur THEN [p EXCEPT !.asked = @ \ {a}, !.busy = FALSE, !.result = r]
    ELSE [p EXCEPT !.asked = @ \ {a}]
CheckAnswers(a) ==
    /\ \E r \in {None} \cup [of : {a.of}, bad : BOOLEAN] : check' = Answered(check, a, r)
    /\ UNCHANGED <<mode, mount, step, item, search, moves, online, conf, hostId, branch, fetched, seeded, v, typed, valid>>
    /\ UNCHANGED <<busy, posts, jobs, progress>>
ValidAnswers(a) ==
    /\ \E r \in {None} \cup [of : {a.of}, bad : BOOLEAN] : valid' = Answered(valid, a, r)
    /\ UNCHANGED <<mode, mount, step, item, search, moves, online, conf, hostId, branch, fetched, seeded, v, typed, check>>
    /\ UNCHANGED <<busy, posts, jobs, progress>>

-----------------------------------------------------------------------------
(* The flow.                                                               *)

(* useState of the form.  Git and image mount it anew on every visit;      *)
(* the compose flow keeps it.                                              *)
NewForm ==
    /\ conf' = conf + 1
    /\ hostId' = IF online = {} THEN None ELSE IF First \in online THEN First ELSE CHOOSE h \in online : TRUE
    /\ branch' = Default /\ fetched' = {} /\ seeded' = FALSE /\ v' = None /\ typed' = FALSE
    /\ busy' = FALSE
    /\ check' = Retriggered(Idle, CheckInput') /\ valid' = Retriggered(Idle, ValidInput')

DeployInit ==
    /\ mode \in {"git", "image", "compose"} /\ mount = 1 /\ step = 0 /\ item = None
    /\ dq = None /\ hi = 0 /\ conf = 1 /\ online = Hosts /\ hostId = First
    /\ branch = Default /\ fetched = {} /\ seeded = FALSE /\ v = None /\ typed = FALSE
    /\ check = Idle /\ valid = Idle /\ busy = FALSE /\ posts = {} /\ jobs = <<>>
    /\ job = 0 /\ shown = "none" /\ notified = FALSE /\ announced = [j \in Ids |-> 0]

(* switchMode, or the page entered again with other parameters: the key    *)
(* changes, so a new flow is mounted; ?image= skips to its second step.    *)
SwitchMode(m, i) ==
    /\ mount' = mount + 1 /\ Spend(3) /\ mode' = m
    /\ i # None => m = "image"
    /\ item' = i /\ step' = IF i = None THEN 0 ELSE 1
    /\ dq' = None /\ hi' = 0 /\ job' = 0 /\ shown' = "none" /\ notified' = FALSE
    /\ UNCHANGED <<online, posts, jobs, announced>>
    /\ NewForm

(* Step 1.  The picker's search: a term, 300 ms later the query, its hits  *)
(* and the highlight the arrow keys move.                                  *)
TypeTerm(i) ==
    /\ step = 0 /\ mode = "image" /\ item # i /\ EditMove
    /\ item' = i
    /\ UNCHANGED <<mode, mount, step, search, online, form, busy, posts, jobs, progress>>
Debounce ==
    /\ step = 0 /\ mode = "image" /\ dq # item
    /\ dq' = item /\ hi' = 0
    /\ UNCHANGED <<mode, mount, step, item, moves, online, form, busy, posts, jobs, progress>>
Hits == IF item # None /\ dq = item THEN HitCount[item] ELSE 0
ArrowDown ==
    /\ step = 0 /\ mode = "image" /\ Hits > 0
    /\ hi' = (hi % Hits) + 1
    /\ UNCHANGED <<mode, mount, step, item, dq, moves, online, form, busy, posts, jobs, progress>>

Pick(i) ==
    /\ step = 0 /\ mode # "compose"
    /\ Move /\ item' = i /\ step' = 1 /\ dq' = None /\ hi' = 0
    /\ UNCHANGED <<mode, mount, online, posts, jobs, progress>>
    /\ NewForm
NameStack(i) ==
    /\ step = 0 /\ mode = "compose" /\ item # i
    /\ item' = i /\ EditMove
    /\ UNCHANGED <<mode, mount, step, search, online, conf, hostId, branch, fetched, seeded, v, typed, busy, posts, jobs, progress>>
    /\ Reprobe
NextStep ==
    /\ step = 0 /\ mode = "compose" /\ item # None /\ Target # None
    /\ step' = 1
    /\ UNCHANGED <<mode, mount, item, search, moves, online, conf, hostId, branch, fetched, seeded, v, typed, busy, posts, jobs, progress>>
    /\ Reprobe

(* Back is there while the deploy request is on its way.                   *)
Back ==
    /\ step = 1 /\ step' = 0
    /\ UNCHANGED <<mode, mount, item, search, moves, online, conf, hostId, branch, fetched, seeded, v, typed, busy, posts, jobs, progress>>
    /\ IF mode = "compose" THEN Reprobe ELSE check' = Idle /\ valid' = Idle

-----------------------------------------------------------------------------
(* Step 2: the form.                                                       *)

(* Git: rows seeded from .env.example keep the value they have.  Image:    *)
(* the first inspection fills the rows.  Compose: the first template.      *)
ReseedGit(b) == v' = b /\ UNCHANGED <<typed, seeded>>
SeedGit(b) == v' = (IF v = None THEN b ELSE v) /\ UNCHANGED <<typed, seeded>>
SeedOnce == IF seeded THEN UNCHANGED <<v, typed, seeded>>
            ELSE v' = Template /\ typed' = FALSE /\ seeded' = TRUE

InspectAnswers(b) ==
    /\ step = 1 \/ (mode = "compose" /\ step = 0)
    /\ mode # "git" => b = Default
    /\ fetched' = fetched \cup {b}
    /\ IF mode # "git" THEN SeedOnce
       ELSE IF b = branch THEN SeedGit(b) ELSE UNCHANGED <<v, typed, seeded>>
    /\ UNCHANGED <<mode, mount, step, item, search, moves, online, conf, hostId, branch, busy, posts, jobs, progress>>
    /\ Reprobe

ChangeBranch(b) ==
    /\ step = 1 /\ mode = "git" /\ b # branch /\ EditMove
    /\ branch' = b
    /\ IF b \in fetched THEN SeedGit(b) ELSE UNCHANGED <<v, typed, seeded>>
    /\ UNCHANGED <<mode, mount, step, item, search, online, conf, hostId, fetched, busy, posts, jobs, progress>>
    /\ Reprobe

(* A field edited, a .env merged in, a template picked.                    *)
SetField(x) ==
    /\ EditMove
    /\ v' = x /\ typed' = TRUE /\ x # v
    /\ UNCHANGED <<mode, mount, step, item, search, online, conf, hostId, branch, fetched, seeded, busy, posts, jobs, progress>>
    /\ Reprobe
Edit(x) == step = 1 /\ (mode = "git" => v # None) /\ SetField(x)
Crit(p) == p.result # None /\ p.result.bad
ApplyFix(x) == step = 1 /\ Crit(check) /\ SetField(x)

PickHost(h) ==
    /\ step = 1 \/ (mode = "compose" /\ step = 0)
    /\ h \in online \ {hostId} /\ EditMove
    /\ hostId' = h
    /\ UNCHANGED <<mode, mount, step, item, search, online, conf, branch, fetched, seeded, v, typed, busy, posts, jobs, progress>>
    /\ Reprobe

(* The host list is polled; a target that is no longer online is replaced. *)
HostsChange(S) ==
    /\ S # online /\ Spend(3) /\ online' = S
    /\ hostId' = IF S = {} \/ hostId \in S THEN hostId ELSE IF First \in S THEN First ELSE CHOOSE h \in S : TRUE
    /\ UNCHANGED <<mode, mount, step, item, search, conf, branch, fetched, seeded, v, typed, busy, posts, jobs, progress>>
    /\ Reprobe

(* deploy(): a crit result blocks the button, and so does a request on its *)
(* way; a required variable may not be blank.                              *)
MayDeploy ==
    /\ step = 1 /\ ~busy /\ Target # None /\ ~Crit(check)
    /\ mode = "git" => v \notin {Blank, None}
    /\ mode = "compose" => valid.result # None /\ ~valid.result.bad
Deploy ==
    /\ MayDeploy /\ Move
    /\ busy' = TRUE
    /\ posts' = posts \cup {[id |-> moves', mount |-> mount, conf |-> conf, item |-> item, host |-> Target]}
    /\ UNCHANGED <<mode, mount, step, item, search, online, form, jobs, progress>>

(* finally: setBusy(false), lost on a form that is no longer mounted.      *)
NotBusy(p) == busy' = IF p.mount = mount /\ p.conf = conf THEN FALSE ELSE busy

(* onStarted, lost on a flow that is no longer mounted.  DeployProgress    *)
(* has no key: a second job does not reset what it notified.               *)
Mounted(p) == p.mount = mount
PostOk(p) ==
    /\ posts' = posts \ {p}
    /\ jobs' = Append(jobs, [mount |-> p.mount, item |-> p.item, status |-> "running"])
    /\ NotBusy(p)
    /\ UNCHANGED <<mode, mount, item, moves, online, conf, hostId, branch, fetched, seeded, v, typed, announced>>
    /\ IF Mounted(p)
       THEN /\ step' = 2 /\ job' = Len(jobs) + 1 /\ shown' = "none"
            /\ notified' = (step = 2 /\ notified)
            /\ dq' = None /\ hi' = 0
            /\ IF mode = "compose" THEN Reprobe ELSE check' = Idle /\ valid' = Idle
       ELSE UNCHANGED <<step, job, shown, notified, search, check, valid>>
PostFails(p) ==
    /\ posts' = posts \ {p} /\ NotBusy(p)
    /\ UNCHANGED <<mode, mount, step, item, search, moves, online, form, jobs, progress>>

-----------------------------------------------------------------------------
(* Step 3: DeployProgress.                                                 *)

JobEnds(j) ==
    /\ jobs[j].status = "running"
    /\ \E s \in {"success", "failed"} : jobs' = [jobs EXCEPT ![j].status = s]
    /\ UNCHANGED <<mode, mount, step, item, search, moves, online, form, busy, posts, progress>>

(* useJob's poll, and the effect that announces the end once.              *)
Poll ==
    /\ step = 2 /\ shown \in {"none", "running"}
    /\ shown' = jobs[job].status
    /\ LET tell == jobs[job].status # "running" /\ ~notified IN
       /\ notified' = (notified \/ tell)
       /\ announced' = IF tell THEN [announced EXCEPT ![job] = @ + 1] ELSE announced
    /\ UNCHANGED <<mode, mount, step, item, search, moves, online, form, busy, posts, jobs, job>>

BackToConfiguration ==
    /\ step = 2 /\ shown = "failed" /\ step' = 1
    /\ Spend(2)
    /\ UNCHANGED <<mode, mount, item, search, online, posts, jobs, progress>>
    /\ IF mode = "compose" THEN UNCHANGED <<conf, hostId, branch, fetched, seeded, v, typed, busy>> /\ Reprobe
       ELSE NewForm
DeployAnother ==
    /\ step = 2 /\ shown \in {"success", "failed"}
    /\ step' = 0 /\ item' = None /\ job' = 0
    /\ UNCHANGED <<mode, mount, search, moves, online, conf, hostId, branch, fetched, seeded, v, typed, busy>>
    /\ UNCHANGED <<posts, jobs, shown, notified, announced>>
    /\ Reprobe

DeployStep ==
    \/ \E m \in {"git", "image", "compose"}, i \in Items \cup {None} : SwitchMode(m, i)
    \/ \E i \in Items : TypeTerm(i) \/ Pick(i) \/ NameStack(i)
    \/ Debounce \/ ArrowDown \/ NextStep \/ Back
    \/ \E b \in Branches : InspectAnswers(b) \/ ChangeBranch(b)
    \/ \E x \in Texts : Edit(x) \/ ApplyFix(x)
    \/ \E h \in Hosts : PickHost(h)
    \/ \E S \in SUBSET Hosts : HostsChange(S)
    \/ CheckAsks \/ ValidAsks
    \/ \E a \in check.asked : CheckAnswers(a)
    \/ \E a \in valid.asked : ValidAnswers(a)
    \/ Deploy \/ \E p \in posts : PostOk(p) \/ PostFails(p)
    \/ \E j \in 1..Len(jobs) : JobEnds(j)
    \/ Poll \/ BackToConfiguration \/ DeployAnother

-----------------------------------------------------------------------------
(* A pre-flight result that is shown as settled is that of the form on the *)
(* screen, whatever order the answers of earlier moves come in             *)
(* (shared.tsx:213).                                                       *)
CheckIsOfThisForm == step = 1 /\ ~check.busy /\ check.result # None => check.result.of = CheckInput

(* A compose file is called valid, once its check has settled, for its     *)
(* text on the screen (ComposeEditor.tsx:162).                             *)
ValidIsOfThisContent == ~valid.busy /\ valid.result # None => valid.result.of = ValidInput

(* "keeping values the user already typed" (GitFlow.tsx:198): no answer of *)
(* an inspection, of whatever branch and however late, overwrites a value  *)
(* typed in a git form, nor one typed in another form once it is seeded.   *)
TypedIsKept ==
    [][typed /\ conf' = conf /\ (mode = "git" \/ seeded) /\ (moves' = moves \/ branch' # branch) => v' = v]_<<moves, deployVars>>

(* A form has at most one deploy request on its way.                       *)
OnePostPerForm == \A p, q \in posts : p.conf = q.conf => p = q

(* A late answer of a flow that was left never takes over the flow that    *)
(* replaced it.                                                            *)
FollowsItsOwnJob == step = 2 => job # 0 /\ jobs[job].mount = mount

(* The end of a deploy is announced at most once, and only when it ended   *)
(* (DeployProgress.tsx:18).                                                *)
AnnouncedOnce ==
    \A j \in Ids : announced[j] <= 1 /\ (announced[j] = 1 => j <= Len(jobs) /\ jobs[j].status # "running")

(* The highlight that Enter takes is always one of the hits on the screen: *)
(* it starts over when another term's hits replace them                    *)
(* (ImageFlow.tsx:152, 194).                                               *)
HighlightIsAHit == mode = "image" /\ step = 0 /\ Hits > 0 => hi <= Hits

(* A pre-flight check is over, which it comes to be again and again; and   *)
(* the compose flow, which has one request on its way at most, has         *)
(* announced the end of the job it shows, which it must have in the end.   *)
CheckSettles == ~check.busy
EndIsAnnounced == mode = "compose" /\ step = 2 => announced[job] = 1
============================================================================
