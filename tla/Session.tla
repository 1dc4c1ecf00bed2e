------------------------------ MODULE Session -------------------------------
(***************************************************************************)
(* Signing in and out of the web UI: the login, setup and connect pages    *)
(* and the layout of the application (web/app), api() and useApi of        *)
(* lib/api.ts, the sign-out of AccountTab.tsx and of the command palette,  *)
(* over the handlers of server/internal/api/auth.go.                       *)
(*                                                                         *)
(* The windows of one browser share its cookie and nothing else: each      *)
(* keeps the last answer of /api/auth/state in a cache that survives       *)
(* router.replace and not a page load.  Every page decides in an effect    *)
(* on that answer whether the window may stay.                             *)
(***************************************************************************)
EXTENDS Naturals, FiniteSets

CONSTANTS
    Windows,
    Paths, Root,    \* pages of the application; "/"
    None,
    MaxMoves        \* bound: what users, the browser and the server do, answers excepted

VARIABLES
    account,    \* whether setup was done
    sessions,   \* sessions the server holds
    cookie,     \* the browser's session, 0 for none
    at,         \* window -> the page it shows
    next,       \* window -> ?next= of the login page
    auth,       \* window -> cached answer: "?", "setup", "out", "in"
    want,       \* window -> a revalidation of it is due
    due,        \* window -> an effect on the answer is due
    busy,       \* window -> request of the form on screen
    step,       \* window -> step of the setup wizard
    checked,    \* window -> the setup page has decided whether it applies
    goal,       \* history: window -> the page a signed-in user should come back to
    finished,   \* history: window -> its setup was completed here
    moves

server == <<account, sessions, cookie>>
caches == <<auth, want, due, checked>>
vars == <<server, at, next, caches, busy, step, goal, finished, moves>>

Forms == {"/login", "/setup", "/connect"}
Places == Paths \cup Forms \cup {"away"}
Known == {"setup", "out", "in"}
Requests == {"none", "login", "await", "logout", "account", "host", "approve"}
Ids == 1..(MaxMoves + 1)

TypeOK ==
    /\ account \in BOOLEAN /\ sessions \subseteq Ids /\ cookie \in Ids \cup {0}
    /\ at \in [Windows -> Places] /\ next \in [Windows -> Places \cup {None}]
    /\ auth \in [Windows -> Known \cup {"?"}]
    /\ want \in [Windows -> BOOLEAN] /\ due \in [Windows -> BOOLEAN] /\ checked \in [Windows -> BOOLEAN]
    /\ busy \in [Windows -> Requests] /\ step \in [Windows -> 0..2]
    /\ goal \in [Windows -> Places \cup {None}] /\ finished \in [Windows -> BOOLEAN]
    /\ moves \in 0..MaxMoves

Move == moves < MaxMoves /\ moves' = moves + 1

SignedIn == cookie \in sessions
\* What GET /api/auth/state answers now.
Actual == IF ~account THEN "setup" ELSE IF SignedIn THEN "in" ELSE "out"

-----------------------------------------------------------------------------
(* Going to a page.                                                        *)

\* window.location.href: everything the window held is gone.
LoadPage(w, p, n) ==
    /\ at' = [at EXCEPT ![w] = p] /\ next' = [next EXCEPT ![w] = n]
    /\ auth' = [auth EXCEPT ![w] = "?"] /\ want' = [want EXCEPT ![w] = p # "away"]
    /\ due' = [due EXCEPT ![w] = FALSE] /\ busy' = [busy EXCEPT ![w] = "none"]
    /\ step' = [step EXCEPT ![w] = 0] /\ checked' = [checked EXCEPT ![w] = FALSE]

\* router.replace: the page mounts over the cache; only setup trusts a cached answer.
Replace(w, p, n) ==
    /\ at' = [at EXCEPT ![w] = p] /\ next' = [next EXCEPT ![w] = n]
    /\ auth' = auth /\ want' = [want EXCEPT ![w] = p # "/setup" \/ auth[w] = "?"]
    /\ due' = [due EXCEPT ![w] = auth[w] # "?"] /\ busy' = [busy EXCEPT ![w] = "none"]
    /\ step' = [step EXCEPT ![w] = 0] /\ checked' = [checked EXCEPT ![w] = FALSE]

\* nextPath()
NextPath(w) == IF next[w] = None THEN Root ELSE next[w]

-----------------------------------------------------------------------------
(* /api/auth/state and the effects on it.                                  *)

Fetched(w) ==
    /\ want[w] /\ busy[w] # "await"
    /\ auth' = [auth EXCEPT ![w] = Actual] /\ want' = [want EXCEPT ![w] = FALSE]
    /\ due' = [due EXCEPT ![w] = TRUE]
    /\ UNCHANGED <<server, at, next, checked, busy, step, goal, finished, moves>>

Stay(w) ==
    /\ due' = [due EXCEPT ![w] = FALSE] /\ checked' = [checked EXCEPT ![w] = at[w] = "/setup"]
    /\ UNCHANGED <<at, next, auth, want, busy, step>>

\* AppLayout
AppEffect(w) ==
    CASE auth[w] = "setup" -> Replace(w, "/setup", None)
      [] auth[w] = "out"   -> Replace(w, "/login", None)
      [] OTHER             -> Stay(w)

LoginEffect(w) ==
    CASE auth[w] = "setup" -> Replace(w, "/setup", None)
      [] auth[w] = "in"    -> Replace(w, NextPath(w), None)
      [] OTHER             -> Stay(w)

\* Decided once, on the first answer.
SetupEffect(w) ==
    CASE auth[w] = "setup" \/ checked[w] -> Stay(w)
      [] auth[w] = "in"                  -> Replace(w, Root, None)
      [] OTHER                           -> Replace(w, "/login", None)

ConnectEffect(w) ==
    CASE auth[w] = "setup" -> Replace(w, "/setup", None)
      [] auth[w] = "out"   -> Replace(w, "/login", "/connect")
      [] OTHER             -> Stay(w)

Effect(w) ==
    /\ due[w]
    /\ CASE at[w] = "/login"   -> LoginEffect(w)
         [] at[w] = "/setup"   -> SetupEffect(w)
         [] at[w] = "/connect" -> ConnectEffect(w)
         [] OTHER              -> AppEffect(w)
    /\ UNCHANGED <<server, goal, finished, moves>>

-----------------------------------------------------------------------------
(* Signing in.                                                             *)

OnForm(w, p) == at[w] = p /\ busy[w] = "none" /\ auth[w] # "?" /\ ~due[w]

SubmitLogin(w) ==
    /\ Move /\ OnForm(w, "/login")
    /\ busy' = [busy EXCEPT ![w] = "login"]
    /\ UNCHANGED <<server, at, next, caches, step, goal, finished>>

\* The password was right: a session, the cookie, and the cached answer is asked for again.
LoginAnswered(w) ==
    /\ busy[w] = "login" /\ account
    /\ sessions' = sessions \cup {moves + 1} /\ cookie' = moves + 1
    /\ busy' = [busy EXCEPT ![w] = "await"] /\ want' = [want EXCEPT ![w] = TRUE]
    /\ goal' = [goal EXCEPT ![w] = NextPath(w)]
    /\ UNCHANGED <<account, at, next, auth, due, checked, step, finished, moves>>

LoginRefused(w) ==
    /\ busy[w] = "login"
    /\ busy' = [busy EXCEPT ![w] = "none"]
    /\ UNCHANGED <<server, at, next, caches, step, goal, finished, moves>>

\* (mutant) The page is left without waiting for the new answer.
LeaveAtOnce(w) == Replace(w, NextPath(w), None)
\* invalidate() was awaited: the page is left with the new answer in the cache.
LeaveLogin(w) ==
    /\ at' = [at EXCEPT ![w] = NextPath(w)] /\ next' = [next EXCEPT ![w] = None]
    /\ auth' = [auth EXCEPT ![w] = Actual]
    /\ want' = [want EXCEPT ![w] = TRUE] /\ due' = [due EXCEPT ![w] = TRUE]
    /\ busy' = [busy EXCEPT ![w] = "none"] /\ UNCHANGED <<step, checked>>

LoggedIn(w) ==
    /\ busy[w] = "await"
    /\ LeaveLogin(w)
    /\ UNCHANGED <<server, goal, finished, moves>>

-----------------------------------------------------------------------------
(* Losing the session.                                                     *)

OnApp(w) == at[w] \in Paths /\ auth[w] = "in" /\ ~due[w]

\* It expires, is revoked from another device, or another client's request removes it.
SessionEnds ==
    /\ Move /\ SignedIn
    /\ sessions' = sessions \ {cookie}
    /\ goal' = [w \in Windows |-> None]
    /\ UNCHANGED <<account, cookie, at, next, caches, busy, step, finished>>

\* (mutant) api() reports a 401 like any other error.
JustAnError(w) == UNCHANGED <<at, next, caches, busy, step>>
\* api(): a request of the page or of its polls is answered with 401.
Unauthorized(w) == LoadPage(w, "/login", at[w])

Refused(w) ==
    /\ at[w] \notin {"/login", "/setup", "away"} /\ auth[w] = "in" /\ ~due[w] /\ ~SignedIn
    /\ Unauthorized(w)
    /\ UNCHANGED <<server, goal, finished, moves>>

SignOut(w) ==
    /\ Move /\ OnApp(w) /\ busy[w] = "none"
    /\ busy' = [busy EXCEPT ![w] = "logout"]
    /\ UNCHANGED <<server, at, next, caches, step, goal, finished>>

\* The request may fail before it reaches the server; the window goes to the login page either way.
SignedOut(w, reached) ==
    /\ busy[w] = "logout"
    /\ IF reached /\ SignedIn
         THEN sessions' = sessions \ {cookie} /\ cookie' = 0 /\ UNCHANGED account
         ELSE UNCHANGED server
    /\ LoadPage(w, "/login", None)
    /\ goal' = [v \in Windows |-> None]
    /\ UNCHANGED <<finished, moves>>

-----------------------------------------------------------------------------
(* The setup wizard and the consent page.                                  *)

SubmitSetup(w) ==
    /\ Move /\ OnForm(w, "/setup") /\ (auth[w] = "setup" \/ step[w] > 0) /\ step[w] < 2
    /\ busy' = [busy EXCEPT ![w] = IF step[w] = 0 THEN "account" ELSE "host"]
    /\ UNCHANGED <<server, at, next, caches, step, goal, finished>>

\* The first request creates the account and a session; the session may fail after it.
AccountAnswered(w) ==
    /\ busy[w] = "account"
    /\ busy' = [busy EXCEPT ![w] = "none"]
    /\ \/ /\ ~account /\ account' = TRUE
          /\ sessions' = sessions \cup {moves + 1} /\ cookie' = moves + 1
          /\ step' = [step EXCEPT ![w] = 1]
       \/ /\ account' = TRUE
          /\ UNCHANGED <<sessions, cookie, step>>
    /\ UNCHANGED <<at, next, caches, goal, finished, moves>>

\* The host is tested and added, or the form shows why not; it may also be skipped.
HostAnswered(w) ==
    /\ busy[w] = "host"
    /\ busy' = [busy EXCEPT ![w] = "none"]
    /\ step' \in {step, [step EXCEPT ![w] = IF SignedIn THEN 2 ELSE 1]}
    /\ UNCHANGED <<server, at, next, caches, goal, finished, moves>>

SkipHost(w) ==
    /\ Move /\ at[w] = "/setup" /\ step[w] = 1 /\ busy[w] = "none"
    /\ step' = [step EXCEPT ![w] = 2]
    /\ UNCHANGED <<server, at, next, caches, busy, goal, finished>>

OpenApp(w) == LoadPage(w, Root, None)

FinishSetup(w) ==
    /\ at[w] = "/setup" /\ step[w] = 2 /\ ~due[w] /\ ~want[w]
    /\ OpenApp(w)
    /\ finished' = [finished EXCEPT ![w] = TRUE]
    /\ UNCHANGED <<server, goal, moves>>

Decide(w) ==
    /\ Move /\ OnForm(w, "/connect") /\ auth[w] = "in"
    /\ busy' = [busy EXCEPT ![w] = "approve"]
    /\ UNCHANGED <<server, at, next, caches, step, goal, finished>>

Decided(w) ==
    /\ busy[w] = "approve"
    /\ \/ SignedIn /\ LoadPage(w, "away", None) /\ goal' = [goal EXCEPT ![w] = None]
       \/ busy' = [busy EXCEPT ![w] = "none"] /\ UNCHANGED <<at, next, caches, step, goal>>
    /\ UNCHANGED <<server, finished, moves>>

-----------------------------------------------------------------------------
(* The browser: a window is opened or reloaded somewhere, a page of the    *)
(* application is chosen, the network comes back.                          *)

Browse(w, p) ==
    /\ Move
    /\ IF OnApp(w) /\ p \in Paths
         THEN at' = [at EXCEPT ![w] = p] /\ UNCHANGED <<next, caches, busy, step>>
         ELSE LoadPage(w, p, None)
    /\ goal' = [goal EXCEPT ![w] = None] /\ finished' = [finished EXCEPT ![w] = FALSE]
    /\ UNCHANGED server

Reconnect(w) ==
    /\ Move /\ at[w] # "away" /\ ~want[w]
    /\ want' = [want EXCEPT ![w] = TRUE]
    /\ UNCHANGED <<server, at, next, auth, due, checked, busy, step, goal, finished>>

\* One window has just been opened.
Init ==
    /\ account \in BOOLEAN
    /\ sessions = IF account THEN {MaxMoves + 1} ELSE {}
    /\ cookie = IF account THEN MaxMoves + 1 ELSE 0
    /\ at \in {[w \in Windows |-> IF w = first THEN Root ELSE "away"] : first \in Windows}
    /\ next = [w \in Windows |-> None]
    /\ auth = [w \in Windows |-> "?"] /\ want = [w \in Windows |-> at[w] # "away"]
    /\ due = [w \in Windows |-> FALSE] /\ busy = [w \in Windows |-> "none"]
    /\ step = [w \in Windows |-> 0] /\ checked = [w \in Windows |-> FALSE] /\ goal = [w \in Windows |-> None]
    /\ finished = [w \in Windows |-> FALSE] /\ moves = 0

Answer(w) ==
    \/ Fetched(w) \/ Effect(w) \/ LoggedIn(w) \/ Refused(w)
    \/ LoginAnswered(w) \/ LoginRefused(w) \/ AccountAnswered(w) \/ HostAnswered(w) \/ Decided(w)
    \/ \E r \in BOOLEAN : SignedOut(w, r)

Next ==
    \/ SessionEnds
    \/ \E w \in Windows :
         \/ Answer(w) \/ FinishSetup(w)
         \/ SubmitLogin(w) \/ SignOut(w) \/ SubmitSetup(w) \/ SkipHost(w) \/ Decide(w) \/ Reconnect(w)
         \/ \E p \in Paths \cup Forms : Browse(w, p)

\* Requests are answered, effects run, and pages keep polling.
Fairness == \A w \in Windows : WF_vars(Answer(w))
Spec == Init /\ [][Next]_vars /\ Fairness

-----------------------------------------------------------------------------
Settled(w) == ~due[w] /\ ~want[w] /\ busy[w] = "none"

(* A user who signed in ends on the page that sent them to the login page, *)
(* not on the front page: the new answer is in the cache before the layout *)
(* looks at it (submit of the login page, api()).                          *)
ReturnsWhereItWas ==
    \A w \in Windows : Settled(w) /\ SignedIn /\ goal[w] # None => at[w] = goal[w]

(* A window that completed the setup is not shown its first step again:    *)
(* the answer it cached is older than the account (SetupPage leaves by a   *)
(* page load).                                                             *)
FinishedSetupStays == \A w \in Windows : finished[w] => at[w] # "/setup"

(* Every window of the browser leaves the application once the session is  *)
(* gone, whichever window, device or timer ended it (api() on a 401).      *)
SignedOutWindowsLeave ==
    \A w \in Windows : []<>(at[w] \notin Paths \/ SignedIn)

(* The pages do not send a window round in circles: once nothing else      *)
(* happens, every window rests somewhere (the effects of the four pages).  *)
NoRedirectLoop == \A w \in Windows : <>[](~due[w])
=============================================================================
