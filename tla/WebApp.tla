------------------------------- MODULE WebApp -------------------------------
(***************************************************************************)
(* The web UI of one browser: Session, over all its windows, composed with *)
(* the Shell of one of them.  AppLayout (web/app/(app)/layout.tsx) mounts  *)
(* the shell while /api/auth/state says that someone is signed in, and     *)
(* takes it down, with everything open in it, on a redirect, on a page     *)
(* load and also when the answer cannot be fetched again.                  *)
(***************************************************************************)
EXTENDS Shell

CONSTANTS
    Windows, Main,  \* the browser's windows; the one whose shell is followed
    None,
    MaxTurns,       \* bound: what users, the browser and the server do to the session
    Budgets         \* bound: how the moves of the shell and those of the session may mix

ASSUME WebAppConstants ==
    /\ Main \in Windows /\ MaxTurns \in Nat /\ Budgets \subseteq Nat \X Nat
    /\ (Pages \cup {None}) \cap {"/login", "/setup", "/connect", "away"} = {} /\ None \notin Pages

VARIABLES
    account, sessions, cookie,
    at, next, auth, want, due, busy, step, checked, goal, finished,
    turns,
    failed      \* the last fetch of /api/auth/state by Main's layout failed

Se == INSTANCE Session WITH Paths <- Pages, Root <- Home, MaxMoves <- MaxTurns, moves <- turns

session == <<account, sessions, cookie, at, next, auth, want, due, busy, step, checked, goal, finished, turns>>
vars == <<shell, session, failed>>

TypeOK == ShellTypeOK /\ Se!TypeOK /\ failed \in BOOLEAN

Mounted == at[Main] \in Pages /\ auth[Main] = "in" /\ ~failed

-----------------------------------------------------------------------------
\* Something happens in the shell; a link or a shortcut moves the window.
InShell ==
    /\ Mounted /\ ~due[Main] /\ ShellNext
    /\ at' = [at EXCEPT ![Main] = page']
    /\ goal' = IF page' = page THEN goal ELSE [goal EXCEPT ![Main] = None]
    /\ finished' = IF page' = page THEN finished ELSE [finished EXCEPT ![Main] = FALSE]
    /\ UNCHANGED <<account, sessions, cookie, next, auth, want, due, busy, step, checked, turns, failed>>

\* Requests outlive the shell that sent them; the system's preference changes without one.
WithoutShell ==
    /\ ~Mounted
    /\ \/ \E p \in sent : PatchHandled(p)
       \/ /\ Move /\ os' = (IF os = "dark" THEN "light" ELSE "dark")
          /\ UNCHANGED <<layers, asking, toasting, theme, stored, dark, saved, initial, sent, chord, palette>>
    /\ UNCHANGED <<session, failed>>

\* The answer that reached Main's cache in this step carries the account's theme.
Reads ==
    /\ auth'[Main] = "in"
    /\ \/ want[Main] /\ ~want'[Main]
       \/ busy[Main] = "await" /\ busy'[Main] = "none"

\* What a step of the session means for the shell.
Follow ==
    /\ page' = IF at'[Main] \in Pages THEN at'[Main] ELSE page
    /\ initial' = IF Reads THEN saved ELSE initial
    /\ CASE Mounted' /\ Mounted  -> /\ Reread(initial') /\ Show(open)
                                   /\ UNCHANGED <<asking, toasting, chord, palette>>
         [] Mounted' /\ ~Mounted -> Mount(initial')
         [] OTHER                -> Unmount
    /\ key' = FALSE
    /\ UNCHANGED <<os, saved, sent, moves>>

OfSession ==
    /\ Se!Next
    /\ failed' = (failed /\ want'[Main] /\ auth'[Main] # "?")
    /\ Follow

\* The revalidation fails: the layout shows the error instead of the shell and retries.
AuthFails ==
    /\ Mounted /\ want[Main]
    /\ turns < MaxTurns /\ turns' = turns + 1
    /\ failed' = TRUE
    /\ UNCHANGED <<account, sessions, cookie, at, next, auth, want, due, busy, step, checked, goal, finished>>
    /\ Follow

Init ==
    /\ ShellInit /\ Se!Init
    /\ failed = FALSE

Within == \E b \in Budgets : moves <= b[1] /\ turns <= b[2]

Next == (InShell \/ WithoutShell \/ OfSession \/ AuthFails) /\ Within'

\* Requests are answered, effects run, pages keep polling and timers run.
Fairness ==
    /\ \A w \in Windows : WF_vars(Se!Answer(w) /\ OfSession)
    /\ WF_vars(Mounted /\ Expire /\ UNCHANGED <<session, failed>>)

Spec == Init /\ [][Next]_vars /\ Fairness
-----------------------------------------------------------------------------
(* The page is drawn in the theme the window holds, whichever of the user, *)
(* the server's answer or the system changed last, and the stored theme    *)
(* says the same (setTheme, the effect on the account's theme and the      *)
(* colour-scheme listener).                                                *)
DocIsTheme == Mounted => ThemeApplied

(* A user who signed in ends on the page that sent them to the login page  *)
(* (submit of the login page, api(); stated in Session).                   *)
ReturnsWhereItWas == Se!ReturnsWhereItWas

(* A window that completed the setup is not shown its first step again     *)
(* (SetupPage leaves by a page load; stated in Session).                   *)
FinishedSetupStays == Se!FinishedSetupStays

(* Every window leaves the application once the session is gone, whatever  *)
(* its shell was doing (api() on a 401; stated in Session).                *)
SignedOutWindowsLeave == Se!SignedOutWindowsLeave

(* The pages do not send a window round in circles, and a shell taken down *)
(* by a failed request comes back or gives way to the login page (the      *)
(* effects of the four pages, the retry of useApi).                        *)
NoRedirectLoop == Se!NoRedirectLoop /\ <>[](~failed)

(* What the shell shows agrees with what it holds: the question waiting    *)
(* for an answer, the theme, toasts that will leave, a highlight that is a *)
(* result (AppShell, CommandPalette, lib/theme.ts).                        *)
ShellIsCoherent == TypeOK /\ LastQuestionIsShown /\ DocIsTheme /\ ToastsWillLeave /\ HighlightIsAResult

(* A key or a click closes the topmost layer and nothing under it          *)
(* (Dialog and useOutside of ui.tsx, ContainerSidecar.tsx:46).             *)
OneLayerPerKey == EscapeStopsAtADialog /\ QuestionShieldsSidePanel

(* Signing in and finishing the setup lead where they should (login and    *)
(* setup pages).                                                           *)
LandsWhereItShould == ReturnsWhereItWas /\ FinishedSetupStays

(* Every window comes to rest on a page that fits the session.             *)
WindowsSettle == SignedOutWindowsLeave /\ NoRedirectLoop
=============================================================================
