# Dockhand in TLA+

Dockhand is a self-hosted control panel for Docker hosts. A Go server
(`src/server`) keeps its state in Postgres, talks to the hosts over SSH and the
Docker API, and serves a Next.js UI (`src/web`) that polls it. This directory
models the parts of both where several things happen at once: in the server
goroutines, SQL statements, crashes and slow hosts; in the browser requests,
polls, timers and sockets whose answers come after the user has moved on. An
ordinary test, which runs one call at a time, sees little of either.

## 1. The system

### Components, their state and their operations

| Component | State | Operations | What is hard |
|---|---|---|---|
| Background jobs, `internal/jobs` | `Job` in memory (steps, log, status, the flags of `flush`), `deployments` rows | `Start`, `Step`, `Sub`, `Done`, `Skip`, `Fail`, `Log`, `Set`, `flush`, `run`, `FailStale` at boot | several goroutines call the methods; the flush is throttled and lets go of the mutex around its UPDATE; the process may die |
| Host connections, `internal/hosts/conn.go` | `Manager.conns`, `Manager.dials`, the pinned `host_key` | `Get`, `dial`, `Invalidate`, `CloseIdle`, `DialSSH` with trust on first use | the mutex is released to test and to dial; the row changes during a dial |
| Host store and API, `internal/hosts/store.go`, `internal/api/hosts.go` | `hosts` rows | PATCH, DELETE, test, `RecordSuccess`, `RecordFailure`, `PinHostKey` | read-modify-write of a whole row |
| Host poller, `internal/monitor/monitor.go` | `hostState` in memory (`polling`, `wasOffline`, container cache) | `pollAll`, `PollHost`, `poll` | polls of the loop and of the API overlap, with rows that are old |
| Docker events, `internal/monitor/events.go` | `hostState.evCancel`, a goroutine per stream | `eventsSupervisor`, `syncEventStreams`, `streamEvents`, `stopEvents`, `handleEvent` | streams end by themselves, are cancelled, replaced; the supervisor works from a list |
| Alerts, `internal/alerts` | `alerts` rows | `Raise`, `Resolve`, `ResolvePrefix`, `Event`; notification channels | check-then-write in two statements |
| Uptime monitors, `internal/uptime` | `monitors`, `check_results`, `incidents` rows, `Service.running` | `checkAll`, `CheckNow`, `CheckOne`, `record`, `Update`, `Delete` | a result is recorded in five statements while the monitor is edited; a count read early is used late |
| Image updates, `internal/monitor/updates.go` | cache of available updates | periodic check, `ClearUpdate` | a result stored after the container was recreated |
| Self update, `internal/system` | `update_history` rows, helper container | the button and the auto-update window | the server replaces itself |
| Container operations, `internal/dockerops` | containers on the host | start, stop, recreate with rollback, prune | one of several steps fails |
| Git deploys and stacks, `internal/gitdeploy`, `internal/stacks` | `stacks` rows, files on the host | deploy, redeploy, delete, webhook | deploys that overlap |
| Machines, `internal/machines` | collected facts | apt and systemd jobs over SSH | command execution |
| Registry, `internal/registry`, `internal/regauth` | registry container, tokens | tag deletion, garbage collection | writes during a collection |
| MCP server, `internal/mcp`, `internal/mcptools` | keys, OAuth codes and tokens | authorise, exchange, revoke, call a tool | single use and expiry |
| Authentication and settings, `internal/auth`, `internal/settings` | sessions, settings row and its cache | login, logout, patch | cached values |
| Deploy checks, impact, GitHub client, secrets, terminals, API | none of their own | analysis, encoding, I/O | not concurrent |
| App shell, `components/shell`, `components/ui` | open dialog, question, menus, drawer, toasts, palette, theme | open, ask, answer, Escape, shortcuts | every layer listens to the same window; a question is a promise |
| Sessions, `app/login`, `app/setup`, `app/(app)/layout.tsx`, `lib/api.ts` | a cookie shared by the windows, a cached answer in each | sign in and out, set up, redirect on 401 | pages redirect to each other from answers that are old |
| Terminals and logs, `TerminalWindow.tsx`, `XTerm.tsx`, `logStream.tsx` | tabs, sockets, buffers, remembered host keys | open, close, reconnect, pause | cleanups run between two awaits; events of closed sockets arrive |
| Deploy page, `components/deploy` | a form, debounced checks, a job | choose, configure, deploy, follow | answers overtake each other |
| Dialogs, `components/dialogs`, `components/host/jobs.ts` | forms, tests, jobs they follow | submit, test, poll, close | they are closed while requests are on their way |
| Host and machine pages, `components/host`, `components/machines` | polled copies, selections, editors | act on one or many, save, predict | what is acted upon has changed since it was shown |
| Settings, `components/settings` | the settings and lists shown ahead of the server | switch, remove, test, import | roll back what was shown too early |
| Alerts and uptime pages | polled lists in several views | read, snooze, pause, rename, remove | polls cross changes |

### How they interact

`main` starts one goroutine per loop (poller, event supervisor, uptime
scheduler, update checker, auto-update, idle sweep). Handlers of the API and the
MCP tools call the same services. Jobs run in goroutines of their own and read
command output in others. Everything that touches a host goes through
`Manager.Get`. The poller, the event handler, the uptime service and the jobs
raise and resolve alerts; alerts dispatch notifications. Nothing is sent between
components but calls; the shared state is Postgres (each statement by itself, no
component here opens a transaction around a read and a write) and a mutex per
component. After a crash Docker restarts the container: memory is gone, rows stay.

In the browser everything runs on one thread: an event, the state it sets and
the effects that follow are one step, and what interleaves is what happens
between two awaits. Pages fetch through SWR (`useApi`): a cache per address, a
poll, a fetch on focus, `invalidate` after a change. Whatever a page shows is a
copy. A component that is gone does not stop the requests it sent, and what it
closed over is what it saw when it was rendered.

### What makes each of them correct

* A job's row follows the job: in order, completely, and to its end.
* At most one step of a job runs; a finished job has no open step; outcomes are final.
* The cache hands out only open connections to the host as it is configured now; waits end.
* A pinned key is not replaced behind the user's back.
* One outage, one alert, one notification; recoveries are noticed.
* An incident is opened after the configured number of failures, once, not on a
  paused monitor, and is closed on recovery.
* Each online host is followed by exactly one event stream.
* A container that is replaced is never lost: the copy is in place, or the old one is back.
* An update of Dockhand itself ends with a row that says how, and the page that
  watches it says "updated" only after the restart.
* One key press closes one layer; a question that is closed is answered.
* A window whose session ended goes to the login page, and comes back.
* What is on screen belongs to what is selected now; late answers are dropped.
* A button sends once; what was asked about is what is acted upon; what was
  typed stays; what is shown as saved is stored; what was started is told of.

## 2. Modules

| Module | Models | Composes |
|---|---|---|
| `JobFlush` | `Runner.Start`, `run`, `flush`, `FailStale` and the crash, for one job | the job, its row, the process |
| `JobSteps` | the step list of a job: `Step`, `Skip`, `Done`, `Fail`, the closing of the list | |
| `HostConn` | `Manager` for one host with `Store.Update`, `PinHostKey` and the handlers PATCH, DELETE, test | connection cache, host row, API, SSH servers |
| `HostDown` | `pollAll`, `PollHost`, `RecordSuccess/Failure`, `Raise`, `Resolve` for one host | poller, host row, alerts, API |
| `Uptime` | one monitor: `CheckOne`, `record`, `Update`, `Delete` | monitor row, incidents, alerts, user |
| `EventStreams` | the event streams of one host | supervisor, streams, host row, DELETE, shutdown |
| `Recreate` | `Service.Recreate` and its rollback, the jobs `Patch` and `UpdateContainer` | jobs, Docker daemon |
| `JobRecord` | what a reader of a job is promised: a row that is opened once, grows, and is closed once | implemented by `JobFlush` |
| `SelfUpdate` | the update from git: schedule, button, job, history row, helper container, restart, `Reconcile`, and the page that watches (`UpdatesTab.tsx`) | server, helper, page |
| `Shell` | the layers over a page: dialog, question, menus, drawer, side panel, palette, toasts, theme, Escape | |
| `Session` | login, setup, connect page and layout in several windows of a browser | server's cookie, windows |
| `WebApp` | the shell of a window, mounted and taken down by its layout | `Session`, `Shell` |
| `WebBase` | the budget of user actions | |
| `DeployFlow` | the three flows of the deploy page, their checks, the job | |
| `TrackJob`, `JobDialogs` | dialogs that start a job and follow it, and the poller that goes on without them | |
| `FormDialogs`, `GithubDialog`, `HostDialog` | dialogs that save a form; the device flow; testing before saving | |
| `HostPage` | lists of containers and what is done to them, the side panel with its editor | with `TrackJob` |
| `ContainerView` | filtering, counting and sorting of containers, the filter in the address | |
| `MachinePage` | updates and their predicted impact; baselines | |
| `Settings`, `ToggleLists`, `Registries` | settings and lists shown ahead of the server; tags and logins | |
| `LogStream`, `TerminalWindow` | a log view; the terminal window with its sessions | `TerminalWindow` extends `LogStream` |
| `WatchPages` | the alerts page, and the uptime page with its cards | |
| `HostSets` | the hosts to monitor; the import of an SSH config | |
| `Pages` | all pages and dialogs above, from `DeployFlow` on | one of them per behaviour |
| `JobProofs`, `DockerProofs`, `MonitorProofs`, `UptimeProofs`, `SelfUpdateProofs`, `WebAppProofs`, `PagesProofs`, `ScreenProofs` | theorems | `JobProofs` is about `JobFlush` and `JobSteps`, `DockerProofs` about `HostConn` and `Recreate`, `MonitorProofs` about `HostDown` and `EventStreams`, `ScreenProofs` goes on where `PagesProofs` ends, the others are about the module they are named for |
| `MCHostConn`, `MCRecreate`, `MCJobSteps`, `MCPages`, `MCWebApp` | constants for TLC | |

One host, one job or one monitor is enough wherever the code keeps its state in
a map keyed by the host, job or monitor: the entries share nothing but a mutex,
whose critical sections are single steps here.

**Granularity.** What happens under one mutex acquisition, or in one SQL
statement, is one step. Everything between two of them interleaves with all
other actors. Payloads are left out: a job's content is the number of changes
its methods have made, a row's text does not exist, a key is the pair of an
address and a key generation.

**`JobFlush`.** `content` counts changes to steps, log and result. `Step`, `Log`
and `Sub` change it and enter `flush` (`StepCall`, `LogCall`); `Set` changes it
without a flush. `flush` is four steps: the test at its head (`FlushDefer`, which
arms the trailing timer, or `FlushBegin`, which clears `dirty` and marshals
`snap`), the UPDATE (`FlushExec`, `FlushExecFails`), and the release
(`FlushLeave`). `TimerFires` is the `AfterFunc` callback; `Elapse` is the passing
of `flushEvery`. `FnFails` and `FnSucceeds` are the end of `Runner.run`, which
sets `dirty` only on failure. `Crash` drops everything but the row, and `Boot`
runs `FailStale`.

**`JobSteps`.** The sequence `steps` and the index `cur`, counted from 1 with 0
for the code's -1. `StepPlanned` and `StepNew` are the two ways of `Step`, so for
`Skip`; `End` is `Done` and `Fail`; `Finish` closes the list as `run` does. The
job's status is `jobStatus` here and `status` in `JobFlush`, and the
specification is `ListSpec`, so that one module can extend both.

**`HostConn`.** `Get` is `GetLookup`, `GetAlive`/`GetDead` (the test without the
mutex), the two steps of `Invalidate`, `GetRelock`, and `GetDialed` or
`GetCancelled`. A dial runs on its own: `DialLoad` reads the row, `DialConnect`
performs the handshake and compares the key with the pin it read, `DialPin`
writes a first key, `DialInstall` puts the connection in the map and closes
`d.done`. `EditRead`/`EditWrite` are `Store.Update`, which writes back every
column of the row it read. `srv` gives each address a server with a key
generation; `Reinstall` changes it.

**`HostDown`.** `List` and `Tick` are `pollAll`: rows are read first and used
when the loop comes to them, so `row` may be old. The status `degraded` behaves
as `online` here and is not told apart. `PatchPolls`, `TestRecords` and
`TestPolls` are the API's polls, which no flag keeps from overlapping with the
loop's. `Sql(ok)` lets a statement fail, up to `MaxErrors` times.

**`Uptime`.** `Load` reads the row, `CheckBegin`/`CheckBusy` are the
`LoadOrStore` of `CheckOne`, `Check` probes the target, and `record` is
`RecordInsert` to `RecordResolve`, a statement each. Types of monitor other than
`host` behave alike; a `host` monitor never alerts and is left out.

**`EventStreams`.** A stream has the identity of its goroutine. `ListHosts` reads the
hosts without the mutex; `SyncCancel`, `SyncStart` and `SyncKeep` handle the row
it found. `Leave` is the deferred cleanup of a stream.

**`Recreate`.** A job names the container it creates. Every call to the daemon is
a step with a result: `ok`, `refused` (it could not be done, or one of
`MaxFaults` faults) or `lost` (done, but the client saw an error). Names are
sequences: the empty one is the container's own, a backup appends the second.
The daemon is external: names are unique, a rename to the present name is an
error, starting a running container is none, and a copy may be unable to start
while another one holds the ports. Pulling and connecting networks change
nothing the properties see and only succeed or fail.

**`SelfUpdate`.** An update is a record: its job, its row of `update_history`, its
helper container. The schedule looks (`AutoDecides`) and starts; the job checks,
inserts the row and hands off; the helper merges, builds and restarts the API,
which drops everything that is not a row, and `Reconcile` closes the rows at the
next boot. The page has two loops: it polls the job until the server is gone
(`PollJob`), and the system until a new version answers (`TickSystem`), with
answers that overlap and come late. Release mode and rollback are left out.
`cut` is history: a server ended under an updater that was at work, or with a
checkout that is not what its container runs. Until there was a proof,
`WatchIsHonest` and `AutoNeverOverlapsAuto` excepted every crash (`crashes = 0`).
The attempt to prove that for any number of commits showed that the first of them
then held only because the runs have two: a restart made by one update cuts
another one off too. Both now except exactly `cut`.

**`Shell`, `Session`, `WebApp`.** `Escape` goes through the listeners in the order
in which the browser calls them: capture phase before bubble phase, and in the
order of registration. The stack of what is open decides which of them act. A
window of `Session` has a location and the last answer of `/api/auth/state`;
each page's effect redirects from that answer. `WebApp` mounts the shell while
the layout holds the answer "signed in". A toast, a listener or a tab of the
terminal is taken out of its list as two slices around it: the code filters by
an id that the list has once, which `ToastsWillLeave` and the proof of
`LateAnswersAreDropped` state. Texts that may be empty in the code have a name
for the empty one (`Blank`, `Untyped`).

**The pages.** Each of these modules has the variables of its page, one action per
handler, effect, timer and answer, and the part of the server that the page
talks to. A request on its way is a record in a set, so that answers come in any
order; what the code closed over is in the record. `nr` or a generation tells
two mounts, runs or dialogs apart where the code compares refs (`runId`,
`alive`, `live.current`). SWR is external: a fetch has a state (none, asked,
read, recent), `invalidate` replaces it, writing to the cache makes it stale.

**`WatchPages`.** `wview` is the filter or window chosen and `wshown` what is on
screen: `keepPreviousData` keeps the old view there until the new one arrives.
A fetch is read at the server and shown later (`ViewRead`, `ViewShown`), and
requests are applied and answered later, so polls cross them in every way.
`wlast` and `wdone` are history. **`HostSets`.** `Selected` and `Toggled` are the
expressions of `ConfigurePanel`; `hostIncluded` of the server is the reference.
`parseSshConfig` goes through the lines with a recursive function, as the loop
does, and `ParsedAsWritten` says what the result is without going through them.
Names are told apart as the server does; that the page ignores their case, and
the quoting of values, are left out.

`PROJECT.json` maps every definition to its lines.

## 3. What TLC checks

A property that several pages owe their user is one definition whose conjuncts
are stated and explained in the modules.

| Run | Shows | Bounds |
|---|---|---|
| `job_flush` | `OneFlusher`: two UPDATEs of a job are never in flight. `CleanMeansSaved`: clearing `dirty` before the UPDATE loses no change. `ImplementsRecord`: the row is a `JobRecord` across crashes and `FailStale`. `ChangesLand`: trailing flushes get there, and so do the final flush of a failed job and `FailStale`. | the job's goroutine, an output reader, two timer callbacks, 3 changes, 1 failing statement, 1 crash |
| `job_steps` | `RunningIsCurrent`, `FinishedIsClosed`, `EndedIsFinal` | a plan with a repeated label, one unplanned label, lists of up to 6 steps |
| `host_conn` | `CacheIsSound`: cached connections are open and there is one dial at a time. `WaitEnds`. | two callers, the idle sweep, 3 dials |
| `host_conn_edit` | `StaleOnlyByOverlap`: a cached connection disagrees with the row only if its dial was in flight during the edit. `KeyIsNeverReplaced`. | a caller, one PATCH at a time, a DELETE, a test, 2 addresses, 2 dials, 2 edits, 1 reinstalled server |
| `uptime` | `IncidentsAreSound` (one open incident), `AlertAfterRetries`, `PausedIsQuiet`, `RecoveryCloses` | scheduler, one "check now", one user, 2 retries, 1 crash |
| `host_down` | `AlertsAreSound` (notifications are bounded by outages and overlaps), `AlertFollowsTheHost` (an outage is alerted, a recovery seen) | the loop, one API poll, 2 retries, 1 crash, 1 failing statement |
| `event_streams` | `RegisteredIsAlive`, `LeavesOthersAlone`, `StreamsFollowTheHost` | 3 streams |
| `recreate` | `ContainerIsSafe`: no job removes the last copy, whatever fails, is lost, crashes or overlaps. `EndsInPlace`: when the jobs are done exactly one container is left, under the name and in its state, and if all failed it is the old one; it excludes what the code does not repair (`Orderly`): a crash in the middle, a lost answer, a failing call of the rollback itself, and a job started while another one is replacing. | 2 jobs, 2 values of the clock, 3 faults, 2 crashes |
| `self_update` | `WatchIsHonest`: "updated" only after the restart. `AutoNeverOverlapsAuto`. `RestartDecidesTheRow`: a row that was open when the server ended is decided by the next one that can read the checkout. `BarNeverMovesBack`, whatever order answers come in. `WatchEnds`. | 2 commits, 2 events of users or the clock, 3 page loads |
| `web_app` | `ShellIsCoherent`: the last question is on screen, toasts will leave, the highlight of the palette is a result, the page has its theme. `LandsWhereItShould`: a window returns where it was, a finished setup stays finished. `OneLayerPerKey`: Escape stops at a dialog, and a question shields the side panel. `WindowsSettle`: windows without a session leave, and no redirect goes round for ever. | 2 windows, 4 user actions in the shell or fewer with sign-outs beside them (`SmallBudgets`), 4 redirects in a row, 5 toasts |
| `web_pages` | `ScreenIsCoherent`: what is selected, highlighted, counted, spinning or parsed is there. `LateAnswersAreDropped`. `NothingTwice`. `OnlyTestedIsSaved`. `ShownIsSaved`: what is shown as saved is stored. `ToldAsItWas`: the end of what was started is told as it was. `ActsOnWhatWasAsked`. `NothingIsOverwritten`. `WaitsEnd`: checks, tests, connections and spinners end, lists end as the server has them, and the end of what was started is told even when its page is gone. | one page per behaviour, a budget of 4 moves |
| `job_done` | expected to fail, see below | |

The bounds let every hazard happen that the properties are about: a flush found
busy by a timer and by a reader at once, a connection that dies while another
caller dials, two edits around one dial, an API poll on each side of each
statement of the loop's, a third stream that starts while the first is still
leaving and the second is cancelled. A second timer callback is needed because a
callback may still run when its flag has been given back and a new timer fires.
Counters that only grow (`failCount`, `downs`) are cut where the code no longer
tells their values apart.

In the web UI what users and other browsers do is bounded by `moves`; what the
program does by itself (polls, answers, timers) is not. A click that opens up
many states has a weight (`Spend(n)`), so the budget of 4 allows two of
those, or four keys and clicks of the others: enough for a second submit, for a
close and a reopen around one request, and for a change by another browser
between a poll and its answer. Sets are as small as their hazard permits: three tags over
two digests (two share one), three packages (the selection can change at equal
size), three hosts to pick from, configs of up to three lines of five kinds (a
name given twice, a wildcard, a block ended by `Match`), one alert or monitor
(rows meet only in "Mark all read"). The initial states of pages that a
behaviour does not look at are fixed.

Liveness in `job_flush`, `host_down` and `uptime` is stated for statements that
succeed, as each property says; the failing ones are still explored for safety.

### Disagreements with the code's own words

`job_done` is expected to fail: a job that succeeds when nothing changed since
its last flush. `run` sets the status without `dirty`, `flush(true)` returns at
once, and the row stays at `running` until a restart fails it, while
`docs/API.md` tells clients to poll until it is not.

### What the models showed besides

Behaviours that no document of the repository contradicts, or none that states
more than a comment. The properties except them by name, and hold otherwise.

In the server:

* A replaced connection is never closed: two callers find the same dead
  connection; the first one's new dial has been installed when the second, with
  the mutex again, looks at `dials` but not at `conns` and dials over it
  (`conn.go:339`, `408`).
* `record` counts from a `fail_count` read before the monitor was claimed: a
  "check now" that succeeded in between is forgotten, and one failure alerts
  (`uptime.go:432`).
* Two overlapping polls both see the alert closed, and both notify (`alerts.go:68`).

In the web UI:

* `trackJob` calls a running job failed after 21 polls without an answer
  (`jobs.ts:34`); a dialog closed before its first poll was answered hands nothing
  to it (`PullRebuildDialog.tsx:57`).
* The answer of a dialog that was closed closes the one on screen, rename
  dialogs included; a rename dialog also goes when its card leaves the filter.
* A chip picked within 250 ms of typing is undone by the text's timer
  (`hosts/[id]/page.tsx:263`); the counts of the chips ignore the text
  (`ContainerFilters.tsx:22`); a bulk action includes selected containers that a
  filter hides.
* Overlapping saves of settings show what is not stored until the next fetch;
  whole maps and baselines are sent, so of two edits one is lost.
* "Mark all read" also marks what was raised since the list was fetched. Pause
  and then Resume while the first is on its way may end paused. Save in the
  rename dialog, untouched, undoes another's rename that the list shows by now.
  The old window's figures stand under the new window's label until the fetch
  lands.
* A click on a host to monitor drops or adds hosts the page does not know yet.
  The end of an import clears whatever the text field holds by then, and names
  only the first of several failures.
* A failed revalidation of the session takes the shell down with everything open
  in it; signing out redirects although the request failed and the cookie
  remains (`AccountTab.tsx:133`).

### Fairness

* A goroutine that can take its next step takes it (`WF` on the steps of each
  flush, dial, poll, check and stream). The code justifies it: every SQL
  statement, probe and dial runs under a context with a timeout, and an expired
  one is the failing alternative of the same step.
* Loops go on: `List` and `Tick` of the poller (10 s ticker), `Load` of the
  uptime scheduler, `ListHosts` of the event supervisor (ticker).
* Timers fire and `flushEvery` elapses.
* `SF` on the scheduler's `RecordInsert`: the INSERT does not fail for ever while
  the monitor exists. Without it a database that rejects every INSERT would be a
  legal, and uninteresting, counterexample to `RecoveryCloses`.
* In `Pages`: timers fire, intervals tick, requests that the page waits for are
  answered, with success or not (`Proceed`), and jobs end (`Work`). `fetch` ends
  or fails by the browser's own timeouts, and jobs by their contexts.
* In `WebApp`: each window's requests are answered, and toasts expire.
* In `SelfUpdate`: the server boots and reconciles, the helper's script and the
  job take their steps, the page's loops poll and are answered.
* Nobody is assumed to call the job's methods, to edit, to press a button, or to
  crash the server; hosts and targets are free to change.

`CHECK_DEADLOCK FALSE` stands where the modelled life really ends: a job that is
done, a deleted host or one whose dials are used up, streams after
shutdown, a page whose user has no move left.

## 4. What is proved

TLAPS checks the theorems of eight modules, for every value of the constants
that satisfies the assumptions of the modules (the roles are disjoint sets, the
bounds are numbers, a value that stands for "none" is none of the others). Every
state property and action property of the runs that is not listed at the end
of this section is a theorem. None of them is inductive alone; what follows
says what has to be added, and why.

**`JobProofs`: a job and its steps.** `TypeCorrect`, `FlushIsExclusive` (`OneFlusher`),
`NoChangeIsLost` (`CleanMeansSaved`), `RowIsMonotone` (`RowNeverGoesBack`), and
the refinement `JobRowIsARecord` (`ImplementsRecord`), for any set of goroutines
and any number of changes, errors and crashes. The invariant adds `ClaimHeld` (whoever
is past the head of `flush` has `flushing` set), `QuietWithoutJob` (no goroutine
is inside a job that has not started or died), `RowBehindJob`, `SnapBetween` (a
marshalled snapshot lies between the row and the job, which keeps the row from
going back) and `CleanIsOnItsWay` (a clean job is in the row or in a snapshot on
its way to it). The refinement maps the record to the row; it needs that a row
that exists is open while the job runs (`RowIsOpen`) and that a snapshot of a
finished job is complete (`FinalIsComplete`). `ListTypeCorrect`, `OneStepRuns`
(`RunningIsCurrent`), `NothingLeftOpen` (`FinishedIsClosed`) and
`OutcomesAreFinal` (`EndedIsFinal`) are about the step list, for any labels,
plan and length; there the types, `RunningIsCurrent` and `FinishedIsClosed` are
inductive together.

**`DockerProofs`: connections.** `CacheSound` (`CacheIsSound`: a cached connection
is open and one dial of a host is in flight) and `GetReturnsDialled` need where a
dial may stand while it is registered (`OneDial`), and that what is being closed
has been forgotten (`ClosingIsForgotten`). `StaleBound` (`StaleOnlyByOverlap`)
and `KeyPinnedOnce` (`KeyIsNeverReplaced`) add that what an editor read is the row
(`ReadIsCurrent`) and what a dial works with is the row unless an edit overlapped
it (`DialsAreCurrent`). They assume `OnePatch`, at most one editor, which is
what the run `host_conn_edit` has: two PATCHes that overlap write each other's
rows back, and then neither holds.

**`UptimeProofs`: monitors.** `IncidentsSound` (`IncidentsAreSound`): two checks of a
monitor are never inside together (`ChecksAreApart`), and who is about to open an
incident has seen that there is none (`OpensTheFirst`). `AlertsAfterRetries`
(`AlertAfterRetries`) adds that the stored count is at most the failures in a row
(`CountIsEarned`) and that a raised alarm was earned (`AlarmIsEarned`).
`PausedStaysQuiet` (`PausedIsQuiet`) adds which checks began before the pause.

**`MonitorProofs`: outages and event streams.** `AlertsSound` (`AlertsAreSound`) counts:
notifications sent and being sent are at most the polls that overlapped, and one
more. `StreamTypes`, `RegistrationIsExact` (`RegisteredIsAlive`) and
`OwnRegistrationOnly` (`LeavesOthersAlone`) add that only started streams are
cancelled and that after shutdown all are.

**`DockerProofs`: replacing a container.** `NeverLost` (`ContainerIsSafe`): jobs
replace copies of copies, in any number and interleaving. The invariant orders
the copies by an age (`Descent`): a job that no longer needs its copy because
somebody removed it can point to a younger copy that is kept, so the youngest
kept copy is never removed. `LeftInPlace` (`EndsInPlace`) says under `Orderly`
where one job in progress, at each of its steps, has put the copies (`InPlace`).

**`SelfUpdateProofs`: the update of Dockhand.** `WatchHonest` (`WatchIsHonest`),
`NoTwoAutos` (`AutoNeverOverlapsAuto`), `BarForward` (`BarNeverMovesBack`) and
`RowIsDecided` (`RestartDecidesTheRow`). Most of the proof gives every record of the disk, the server,
the page and the answers on their way its shape. Unless `cut`, a process that
has not read its checkout yet finds there what its container was built from,
with no updater at work (`FreshProcess`), every update at work has an open row
(`RowsGuard`), which refuses a second one, and one automatic update is active
(`OneAuto`). `RowIsDecided` adds (`OwedInv`) that the row which a restart has to
decide is the last one, that it is open while the server is down, and that the
server that comes up reconciles it before it lets anybody start another.

**`WebAppProofs`: the frame of the UI.** `ShellStaysCoherent` (`ShellIsCoherent`),
`LandsRight` (`LandsWhereItShould`) and `OneLayerCloses` (`OneLayerPerKey`), for
any windows, pages, names and numbers of moves and turns. The shell's invariant
adds that every layer on screen that listens is registered (`Registered`), that
toast ids only grow and that a list of the palette has an entry or not; `OneLayerCloses`
follows from `Registered` through the walk of an Escape. A window's invariant
adds that `?next=` leads inside (`NextIsInside`), that an account once seen
exists (`AccountIsKnown`), which page a request comes from (`FormsAreOpen`), and
that the page a visitor wanted is the one the login is about to open, or is
open (`GoalIsReached`).

**`PagesProofs`: the pages.** A behaviour is one page; `PageSteps` says of each page
which variables its steps leave alone, and each conjunct is proved where its
variables change. `SavesSound` (`OnlyTestedIsSaved`): a run of tests that may
still save was made for the form that is on screen, and no run outlives its mount
(`HostInv`); the saves of one login form have one body at a time (`LoginInv`).
`SentAndToldOnce` (`NothingTwice`): whatever request is on its way from the dialog
on screen keeps it busy (`PostsInv`, `FormInv`, `GithubInv`, `RenameInv`, `JobInv`), and a job
whose end was told has no poll and no tracker left (`AnnounceInv`,
`PageToldInv`). `LateAnswersDropped` (`LateAnswersAreDropped`): an answer that may
still be shown is about what is selected (`ProbesInv`, `PredictInv`), pending and
shown log lines are consecutive ends of one stream (`EndsAt` in `LogInv`), and a
session of the terminal is the one of its tab, or has been taken down at each
point between two awaits (`TermInv`).

**`ScreenProofs`: what the pages tell and keep.** It goes on from the invariants
of `PagesProofs`. `EndsToldTruly` (`ToldAsItWas`): its first two conjuncts are
inductive with the types of what was told; the third (`ImportInv`) needs that
entries to do, made and failed are disjoint, that no two of them have a name in
common, and that a host is known to be made while its answer is on its way. The
entries come from the parser, whose results get their types by induction over
the lines: a function that makes each of its values from the one before exists,
and what it preserves holds of all of them (`StepsExist`, `StaysIn`).
`NothingOverwritten` (`NothingIsOverwritten`) adds to what `PagesProofs` keeps
which forms were typed in (`TypedInv`) and, for the panel, that an editor that
has its rows holds those of the container on screen (`SideInv`). `ActsAsAsked`
(`ActsOnWhatWasAsked`, `ActInv`): a monitor's form watches a container only on
the host chosen, a key's selects listed hosts (`FormsInv`); a question and a
request carry what was asked (`AskedInv`); a question about a tag names every
other one with its digest, unless one was pushed since (`TagsInv`); selections
are finite (`PicksFinite`), because the code compares sizes. `SavedIsShown`
(`ShownIsSaved`, `ShownInv`): unless saves overlapped, at most one is on its
way, and what is stored is what was shown before it or after it (`SettingInv`,
`TableInv`, `PickInv`); a request of the channel form on screen carries what it
shows, and the PATCHes of dialogs that were closed are about other channels
(`ChannelInv`); a copy of the baseline that claims to be the last one is
(`BaseInv`); a fetched list on its way is as new as whatever was told by then
(`TellsInv`); a monitor is as its user last asked, or the request for it is
still to be carried out (`PauseInv`). The assumptions on constants are that
hosts are finitely many, that sets of settings and labels are not empty, what a
line of a config holds, and that the value for "none" is none of those beside
which it stands (`PageConstants`, `SetConstants`, `FormConstants`,
`SettingConstants`, `WatchConstants`).

### Only model-checked

* All liveness: the prover has no rules for fairness and `ENABLED`. That is every
  property stated with `~>`, `[]<>` or `<>[]`: `ChangesLand`, `WaitEnds`,
  `RecoveryCloses`, `AlertFollowsTheHost`, `StreamsFollowTheHost`, `WatchEnds`,
  `WindowsSettle` and `WaitsEnd`.
* `ScreenIsCoherent` of `Pages`: its conjunct `ParsedAsWritten` compares a
  recursive function with a description of its result, for every text.

## 5. What is not modelled

* Inside modelled components: `Prune`, `Get` and `List` of jobs (a deletion by
  age and reads); `CloseAll`, terminals and command execution on hosts; host
  statistics, the container cache and the disk, memory and container alerts of
  `poll`; `handleEvent`; lifecycle actions on containers, `Run` and compose
  updates; host-type monitors; release-mode update and rollback.
* Failures known and left out of the properties: an UPDATE of a job that fails is
  only logged (`jobs.go:393`); a crash between `RecordSuccess` and `Resolve`
  leaves an alert open (`monitor.go:281`); an outage's first failure is consumed
  although raising the alert failed (`monitor.go:184`); a cancelled stream may
  record an event next to its successor (`events.go:102`); a user's stop is told
  from a crash by two time windows (`events.go:169`); a queued refresh of a
  cancelled stream swallows its successor's (`monitor.go:706`); an update check
  that began before a container was recreated stores its result after
  `ClearUpdate` (`updates.go:100`).
* Pages that only show what they poll: the overview, the status page, activity,
  incidents, the lists of hosts and of sessions. Forms that send one request and
  wait for it, like registry tokens, follow the pattern of the modelled ones.
* Charts, formatting, icons, types, the gateway that forwards requests, and the
  runtime of the design prototypes: rendering, declarations and I/O.
* HTTP routing, encoding, the GitHub client, cryptography and notification
  senders: input and output without state of their own.
* The rest is in the plan.

## 6. Plan

In this order:

1. Proofs: the conjuncts of `ScreenIsCoherent` that no theorem needs yet.
2. `ContainerAlerts`: `handleEvent` against the alerts that `poll` raises and
   resolves, with `ResolvePrefix`; then the container cache and the debounced refresh.
3. An abstract specification for `Recreate`, in which a container is either the
   old or the new one; image updates and `ClearUpdate` around it.
4. `GitDeploy`: deploys, webhooks and polls of one stack, its row and its files.
5. `McpAuth`: OAuth codes, tokens and keys: single use, expiry, revocation.
6. Pure algorithms against reference definitions: the bars and percentages of
   `uptime/bars.go`, version comparison, the update window, expected status codes.
