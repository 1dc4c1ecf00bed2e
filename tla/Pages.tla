------------------------------- MODULE Pages --------------------------------
(***************************************************************************)
(* The pages and dialogs of the web UI that keep state of their own.  Each *)
(* behaviour is about one of them (page): they share nothing but the       *)
(* server, whose part each module models for itself.                       *)
(***************************************************************************)
EXTENDS DeployFlow, HostDialog, JobDialogs, FormDialogs, GithubDialog, HostPage, MachinePage, Settings, ToggleLists, ContainerView, Registries, TerminalWindow, WatchPages, HostSets

VARIABLE page

vars == <<page, moves, deployVars, hostVars, jobVars, formVars, githubVars, pageVars, machineVars, settingVars, tableVars, viewVars, registryVars, windowVars, watchVars, setVars>>

jobOnly == <<file, jd, jmounts, jposts, left>>
pageOnly == <<cont, env, list, sel, quest, side, preqs, card, stack>>

KindsOfPage == {"deploy", "host", "job", "form", "github", "list", "panel", "patch", "baseline", "settings", "table", "view", "tags", "login", "terminal", "watch", "picks", "import"}

TypeOK ==
    /\ page \in KindsOfPage /\ moves \in 0..MaxMoves
    /\ CASE page = "deploy" -> DeployTypeOK [] page = "host" -> HostTypeOK [] page = "job" -> JobTypeOK
         [] page = "form" -> FormTypeOK [] page = "github" -> GithubTypeOK [] page \in {"list", "panel"} -> PageTypeOK
         [] page \in {"patch", "baseline"} -> MachineTypeOK [] page = "settings" -> SettingsTypeOK [] page = "table" -> TableTypeOK
         [] page = "view" -> ViewTypeOK [] page \in {"tags", "login"} -> RegistryTypeOK [] page = "terminal" -> TermTypeOK [] page = "watch" -> WatchTypeOK
         [] page \in {"picks", "import"} -> SetTypeOK

Init ==
    /\ page \in KindsOfPage /\ moves = 0
    /\ DeployInit /\ HostInit /\ JobInit /\ FormInit /\ GithubInit /\ PageInit /\ MachineInit
    /\ SettingsInit /\ TableInit /\ ViewInit /\ RegistryInit /\ TermInit /\ WatchInit /\ SetInit
    \* Where a page that is not looked at starts makes no difference.
    /\ page # "deploy" => mode = "git"
    /\ page # "github" => accts = {}
    /\ page # "form" => holder = CHOOSE h \in MHosts : TRUE
    /\ page # "table" => table = "keys"
    /\ page \notin {"picks", "import"} => fleet = {}
    /\ page # "watch" => wkind = "alerts"
    /\ page # "tags" => tags = [t \in TagNames |-> CHOOSE g \in Digests : TRUE]
    /\ page # "view" => looks = [c \in CtrNames |-> CHOOSE l \in Looks : TRUE]

(* The others stay as they are; jobs are followed by dialogs and by the    *)
(* host page.                                                              *)
OthersStay ==
    /\ page' = page
    /\ IF page = "deploy" THEN TRUE ELSE UNCHANGED deployVars
    /\ IF page = "host" THEN TRUE ELSE UNCHANGED hostVars
    /\ IF page = "job" THEN TRUE ELSE UNCHANGED jobOnly
    /\ IF page \in {"list", "panel"} THEN TRUE ELSE UNCHANGED pageOnly
    /\ IF page \in {"job", "list", "panel"} THEN TRUE ELSE UNCHANGED trackVars
    /\ IF page = "form" THEN TRUE ELSE UNCHANGED formVars
    /\ IF page = "github" THEN TRUE ELSE UNCHANGED githubVars
    /\ IF page \in {"patch", "baseline"} THEN TRUE ELSE UNCHANGED machineVars
    /\ IF page = "settings" THEN TRUE ELSE UNCHANGED settingVars
    /\ IF page = "table" THEN TRUE ELSE UNCHANGED tableVars
    /\ IF page = "view" THEN TRUE ELSE UNCHANGED viewVars
    /\ IF page \in {"tags", "login"} THEN TRUE ELSE UNCHANGED registryVars
    /\ IF page = "terminal" THEN TRUE ELSE UNCHANGED windowVars
    /\ IF page = "watch" THEN TRUE ELSE UNCHANGED watchVars
    /\ IF page \in {"picks", "import"} THEN TRUE ELSE UNCHANGED setVars

Deploys == page = "deploy" /\ DeployStep /\ OthersStay
EditsHost == page = "host" /\ HostStep /\ OthersStay
RunsJob == page = "job" /\ JobStep /\ OthersStay
FillsForm == page = "form" /\ FormStep /\ OthersStay
Connects == page = "github" /\ GithubStep /\ OthersStay
Lists == page = "list" /\ ListStep /\ OthersStay
ShowsContainer == page = "panel" /\ PanelStep /\ OthersStay
Patches == page = "patch" /\ PatchStep /\ OthersStay
KeepsBaseline == page = "baseline" /\ BaselineStep /\ OthersStay
Sets == page = "settings" /\ SettingsStep /\ OthersStay
Switches == page = "table" /\ TableStep /\ OthersStay
Filters == page = "view" /\ ViewStep /\ OthersStay
KeepsTags == page = "tags" /\ TagStep /\ OthersStay
KeepsLogins == page = "login" /\ LoginStep /\ OthersStay
UsesTerminal == page = "terminal" /\ TermStep /\ OthersStay
Watches == page = "watch" /\ WatchStep /\ OthersStay
PicksHosts == page = "picks" /\ PickStep /\ OthersStay
Imports == page = "import" /\ ImportStep /\ OthersStay

Next ==
    \/ Deploys \/ EditsHost \/ RunsJob \/ FillsForm \/ Connects
    \/ Lists \/ ShowsContainer \/ Patches \/ KeepsBaseline \/ Sets \/ Switches \/ Filters \/ KeepsTags \/ KeepsLogins \/ UsesTerminal \/ Watches \/ PicksHosts \/ Imports

(* Timers fire, intervals tick, requests the page waits for are answered,  *)
(* and the server's jobs end.  There is nothing a user must do.            *)
Proceed ==
    \/ page = "deploy" /\ (CheckAsks \/ Poll \/ \E a \in check.asked : a.cur /\ CheckAnswers(a)) /\ OthersStay
    \/ page = "host" /\ Proceeds /\ OthersStay
    \/ page = "job" /\ TrackerPolls /\ OthersStay
    \/ page = "github" /\ (PollDevice \/ PollReturns) /\ OthersStay
    \/ page \in {"list", "panel"} /\ PageAnswers /\ OthersStay
    \/ page = "patch" /\ (PredictAsks \/ PredictReturns) /\ OthersStay
    \/ page = "table" /\ TableProceeds /\ OthersStay
    \/ page = "terminal" /\ TermProceeds /\ OthersStay
    \/ page = "watch" /\ WatchProceeds /\ OthersStay
Work ==
    \/ page = "deploy" /\ (\E j \in 1..Len(jobs) : JobEnds(j)) /\ OthersStay
    \/ page = "job" /\ (\E j \in Jobs : WorkEnds(j)) /\ OthersStay
    \/ page \in {"list", "panel"} /\ PageWork /\ OthersStay

Fairness == WF_vars(Proceed) /\ WF_vars(Work)
Spec == Init /\ [][Next]_vars /\ Fairness

-----------------------------------------------------------------------------
(* What every page and dialog owes its user.  Each is the conjunction of   *)
(* what it means for one of them, stated and explained in its module.      *)

(* What is selected, highlighted, counted or spinning is there: lists are  *)
(* polled, tabs closed and scans finished under the user's hand            *)
(* (hosts/[id]/page.tsx:85, MachinePanel.tsx:193, ImageFlow.tsx:152,       *)
(* TerminalWindow.tsx:164, ContainerFilters.tsx:22, StacksTab.tsx:105,     *)
(* hosts-lib.ts:27).                                                       *)
ScreenIsCoherent ==
    /\ TypeOK
    /\ SelectionIsListed /\ PickedIsListed /\ HighlightIsAHit /\ ActiveIsATab /\ RecentOnce
    /\ CountIsShown /\ FiltersAddUp /\ SpinnersAreBacked /\ ParsedAsWritten

(* Answers and events of a form, selection, job, socket or terminal that   *)
(* is no longer the one on screen are not shown for it, in whatever order  *)
(* they arrive (shared.tsx:213, ComposeEditor.tsx, MachinePanel.tsx:210,   *)
(* DeployProgress.tsx:18, logStream.tsx:68, XTerm.tsx:53).                 *)
LateAnswersAreDropped ==
    /\ CheckIsOfThisForm /\ ValidIsOfThisContent /\ FollowsItsOwnJob /\ ImpactIsOfSelection
    /\ ShownIsConsecutive /\ BufferedIsScheduled /\ StatusIsOfThisSocket
    /\ StatusIsOfThisRun /\ CopyReadsShownTerminal /\ NoHiddenSession

(* A form is sent once however often its button is pressed, and the end of *)
(* a job is told once however often it is polled and its dialog reopened   *)
(* (ImageFlow.tsx, PullDialog.tsx:51, ChannelDialog.tsx:177,               *)
(* GithubDialog.tsx:65, DeployProgress.tsx:18, MonitorCard.tsx:184).       *)
NothingTwice ==
    /\ OnePostPerForm /\ OneStartPerDialog /\ OneRequestPerDialog /\ ConnectedOnce
    /\ AnnouncedOnce /\ ToldOnce /\ OneRenamePerDialog

(* Only what was tested is saved, and nothing after Cancel                 *)
(* (HostDialog.tsx:75, RegistriesTab.tsx:428).                             *)
OnlyTestedIsSaved == CancelStopsTheSave /\ SavedWasTested /\ TestedLoginWorks /\ AnywayWasRefused

(* A request acts on what its user was shown and asked about               *)
(* (hosts/[id]/page.tsx:143, ContainerSidecar.tsx:303, MonitorDialog.tsx,  *)
(* ApiKeyDialog.tsx:49, RegistriesTab.tsx:190, ConfigurePanel.tsx:25).     *)
ActsOnWhatWasAsked ==
    /\ [](BulkIsWhatWasAsked /\ EnvIsOfItsContainer /\ MonitorIsOnItsHost /\ KeyCoversSelection)
    /\ OnlyNamedTagsGo /\ OneHostChanges

(* Nothing the server sends replaces what was typed, trusted or is looked  *)
(* at (GitFlow.tsx:199, HostDialog.tsx, ComposeDialog.tsx:32,              *)
(* ContainerSidecar.tsx:277, TerminalWindow.tsx:538,                       *)
(* containerFilters.ts:75, MonitorCard.tsx:178).                           *)
NothingIsOverwritten == TypedIsKept /\ EditIsKept /\ TextIsKept /\ RowsAreKept /\ KnownKeyIsKept /\ RowsDoNotJump /\ NameIsKept

(* What is shown as saved is stored: nothing that was refused, answered    *)
(* late or written meanwhile by someone else is shown as if it were        *)
(* (common.tsx:26, NotificationsTab.tsx:70, GithubTab.tsx:256,             *)
(* ChannelDialog.tsx:79, machines/page.tsx:260, actions.ts:15,             *)
(* MonitorCard.tsx:58, 70).                                                *)
ShownIsSaved ==
    /\ ShownIsStored /\ RowsShownAreStored /\ CleanIsSaved /\ LostOnlyByOverlap
    /\ ToldIsShown /\ PausedAsAsked /\ SelectedIsIncluded

(* The end of what the user started is told as it was: a job as done only  *)
(* when it succeeded, as lost only after the answers it takes, an import   *)
(* with every host accounted for (jobs.ts:31, 28, HostsTab.tsx:182).       *)
ToldAsItWas == DoneIsSuccess /\ GivesUpAfterSilence /\ ImportIsAccounted

(* No check, test, prediction, connection or spinner goes on for ever,     *)
(* lines that arrived are shown, lists shown ahead of the server end as it *)
(* has them, and the end of what the user started is told, also when its   *)
(* page or dialog is gone (shared.tsx:217, HostDialog.tsx:79,              *)
(* MachinePanel.tsx:214, XTerm.tsx:117, jobs.ts:28, logStream.tsx:79,      *)
(* ConfigurePanel.tsx:24, api.ts:62, DeployProgress.tsx:18,                *)
(* PullRebuildDialog.tsx:55, GithubDialog.tsx:98).                         *)
WaitsEnd ==
    /\ []<>(CheckSettles /\ TestSettles /\ ConnectingSettles /\ LinesAreShown)
    /\ <>[](PredictionSettles /\ SpinnersStop /\ RowsEndTrue /\ WatchedEndsTrue)
    /\ <>[](EndIsAnnounced /\ LeftIsTold /\ ApprovalIsSeen)
=============================================================================
