---------------------------- MODULE GithubDialog ----------------------------
(***************************************************************************)
(* Connecting a GitHub account (web/components/dialogs/GithubDialog.tsx):  *)
(* with a token, with the OAuth device flow, which a loop polls until the  *)
(* code is approved, or by installing the GitHub App, which an interval    *)
(* watches the list of accounts for.                                       *)
(*                                                                         *)
(* The interval does not wait for the answer of its last request, and the  *)
(* answers of a loop that was left are still to come: alive tells.         *)
(***************************************************************************)
EXTENDS WebBase

CONSTANT
    Accounts    \* accounts of GitHub

VARIABLES
    accts,      \* the accounts the server knows
    approved,   \* the loops whose device code the user approved on GitHub
    gd,         \* the dialog on screen, or None
    gmounts,    \* dialogs opened so far
    loops,      \* polling loops started so far
    greqs,      \* requests on their way
    greeted     \* history: dialog -> calls of connected()

githubVars == <<accts, approved, gd, gmounts, loops, greqs, greeted>>

GMethods == {"pat", "oauth", "app"}
GDialog == [mount : 1..MaxMoves, step : 0..2, method : GMethods, busy : BOOLEAN, wait : {"none", "oauth", "app"}, loop : Nat,
            account : Accounts \cup {None}, known : SUBSET Accounts]
GRequest == [mount : 1..MaxMoves, kind : {"pat", "oauth", "app", "poll", "tick", "finish"}, loop : Nat, nr : 0..1]

GithubTypeOK ==
    /\ accts \subseteq Accounts /\ approved \subseteq Nat /\ gd \in GDialog \cup {None}
    /\ gmounts \in 0..MaxMoves /\ loops \in Nat /\ greqs \subseteq GRequest
    /\ greeted \in [1..MaxMoves -> Nat]

GithubInit ==
    /\ accts \in {{}, {CHOOSE a \in Accounts : TRUE}} /\ approved = {} /\ gd = None
    /\ gmounts = 0 /\ loops = 0 /\ greqs = {} /\ greeted = [m \in 1..MaxMoves |-> 0]

OpenGithub ==
    /\ gd = None /\ Move /\ gmounts' = gmounts + 1
    /\ gd' = [mount |-> gmounts', step |-> 0, method |-> "pat", busy |-> FALSE, wait |-> "none", loop |-> 0,
              account |-> None, known |-> {}]
    /\ UNCHANGED <<accts, approved, loops, greqs, greeted>>
CloseGithub == gd # None /\ gd' = None /\ UNCHANGED <<accts, approved, gmounts, loops, greqs, greeted, moves>>

-----------------------------------------------------------------------------
(* Requests.                                                               *)

GShown(q) == gd # None /\ gd.mount = q.mount
\* alive of the loop's effect: it is that of the dialog on screen, and was not left.
Alive(q) == GShown(q) /\ gd.loop = q.loop

Request(k, n) == [mount |-> gd.mount, kind |-> k, loop |-> gd.loop, nr |-> n]
\* connected(): its toast is shown even if the dialog is gone.
Connected(q, a) ==
    /\ gd' = IF GShown(q) THEN [gd EXCEPT !.step = 1, !.account = a, !.wait = "none", !.loop = 0, !.busy = FALSE] ELSE gd
    /\ greeted' = [greeted EXCEPT ![q.mount] = @ + 1]

ChooseMethod(m) ==
    /\ gd # None /\ gd.step = 0 /\ gd.wait = "none" /\ gd.method # m
    /\ gd' = [gd EXCEPT !.method = m]
    /\ UNCHANGED <<accts, approved, gmounts, loops, greqs, greeted, moves>>
Submit ==
    /\ gd # None /\ gd.step = 0 /\ gd.wait = "none" /\ ~gd.busy /\ Move
    /\ gd' = [gd EXCEPT !.busy = TRUE] /\ greqs' = greqs \cup {Request(gd.method, 0)}
    /\ UNCHANGED <<accts, approved, gmounts, loops, greeted>>

\* The server's answer to a token: an account, new or known.
PatAnswers(q, a) ==
    /\ q.kind = "pat" /\ greqs' = greqs \ {q} /\ accts' = accts \cup {a}
    /\ Connected(q, a)
    /\ UNCHANGED <<approved, gmounts, loops, moves>>
\* A device code to approve, or the accounts there are before the App is installed
\* (none, if they cannot be listed): a loop starts.
LoopStarts(q) ==
    /\ q.kind \in {"oauth", "app"} /\ greqs' = greqs \ {q}
    /\ loops' = loops + 1
    /\ \E K \in {accts, {}} :
         gd' = IF GShown(q) THEN [gd EXCEPT !.wait = q.kind, !.loop = loops', !.known = K, !.busy = FALSE] ELSE gd
    /\ UNCHANGED <<accts, approved, gmounts, greeted, moves>>
GithubFails(q) ==
    /\ q.kind \in {"pat", "oauth", "finish"} /\ greqs' = greqs \ {q}
    /\ gd' = IF GShown(q) THEN [gd EXCEPT !.busy = FALSE] ELSE gd
    /\ UNCHANGED <<accts, approved, gmounts, loops, greeted, moves>>

-----------------------------------------------------------------------------
(* The device flow.                                                        *)

Approve ==
    /\ gd # None /\ gd.wait = "oauth" /\ gd.loop \notin approved
    /\ approved' = approved \cup {gd.loop} /\ UNCHANGED <<accts, gd, gmounts, loops, greqs, greeted, moves>>
PollDevice ==
    /\ gd # None /\ gd.wait = "oauth" /\ Request("poll", 0) \notin greqs
    /\ greqs' = greqs \cup {Request("poll", 0)}
    /\ UNCHANGED <<accts, approved, gd, gmounts, loops, greeted, moves>>
\* The server stores the account when it answers, whether or not anyone still waits.
PollAnswers(q) ==
    /\ q.kind = "poll" /\ greqs' = greqs \ {q}
    /\ \/ /\ q.loop \in approved
          /\ \E a \in Accounts : /\ accts' = accts \cup {a}
                                 /\ IF Alive(q) THEN Connected(q, a) ELSE UNCHANGED <<gd, greeted>>
       \/ q.loop \notin approved /\ UNCHANGED <<accts, gd, greeted>>                 \* pending, slow_down
    /\ UNCHANGED <<approved, gmounts, loops, moves>>
\* The code expired, was denied, or the request failed.
PollFails(q) ==
    /\ q.kind = "poll" /\ greqs' = greqs \ {q}
    /\ gd' = IF Alive(q) THEN [gd EXCEPT !.wait = "none", !.loop = 0] ELSE gd
    /\ UNCHANGED <<accts, approved, gmounts, loops, greeted, moves>>

-----------------------------------------------------------------------------
(* The GitHub App.                                                         *)

\* The callback of GitHub stores the installation.
Install(a) ==
    /\ a \notin accts /\ Move /\ accts' = accts \cup {a}
    /\ UNCHANGED <<approved, gd, gmounts, loops, greqs, greeted>>
\* Every 3 s, without waiting for the last answer (bound: two at a time).
TickAsksList ==
    /\ gd # None /\ gd.wait = "app"
    /\ \E n \in 0..1 : Request("tick", n) \notin greqs /\ greqs' = greqs \cup {Request("tick", n)}
    /\ UNCHANGED <<accts, approved, gd, gmounts, loops, greeted, moves>>
TickAnswers(q) ==
    /\ q.kind = "tick" /\ greqs' = greqs \ {q}
    /\ IF Alive(q) /\ ~(accts \subseteq gd.known) THEN \E a \in accts \ gd.known : Connected(q, a)
       ELSE UNCHANGED <<gd, greeted>>
    /\ UNCHANGED <<accts, approved, gmounts, loops, moves>>

GithubBack ==
    /\ gd # None /\ gd.wait # "none" /\ Spend(2)
    /\ gd' = [gd EXCEPT !.wait = "none", !.loop = 0]
    /\ UNCHANGED <<accts, approved, gmounts, loops, greqs, greeted>>

-----------------------------------------------------------------------------
(* The access step.                                                        *)

Finish ==
    /\ gd # None /\ gd.step = 1 /\ ~gd.busy
    /\ gd' = [gd EXCEPT !.busy = TRUE] /\ greqs' = greqs \cup {Request("finish", 0)}
    /\ UNCHANGED <<accts, approved, gmounts, loops, greeted, moves>>
FinishAnswers(q) ==
    /\ q.kind = "finish" /\ greqs' = greqs \ {q}
    /\ gd' = IF GShown(q) THEN [gd EXCEPT !.step = 2, !.busy = FALSE] ELSE gd
    /\ UNCHANGED <<accts, approved, gmounts, loops, greeted, moves>>

PollReturns == \E q \in greqs : Alive(q) /\ (PollAnswers(q) \/ PollFails(q))

GithubStep ==
    \/ OpenGithub \/ CloseGithub \/ Submit \/ Approve \/ PollDevice \/ TickAsksList \/ GithubBack \/ Finish
    \/ \E m \in GMethods : ChooseMethod(m)
    \/ \E a \in Accounts : Install(a)
    \/ \E q \in greqs : \/ \E a \in Accounts : PatAnswers(q, a)
                        \/ LoopStarts(q) \/ GithubFails(q) \/ PollAnswers(q) \/ PollFails(q) \/ TickAnswers(q) \/ FinishAnswers(q)

-----------------------------------------------------------------------------
(* A dialog is connected once, whatever polls of whichever loop are still  *)
(* to be answered when it is: overlapping ticks of the interval, a loop    *)
(* left with Back, a token tried meanwhile (GithubDialog.tsx:66, 103).     *)
ConnectedOnce == \A m \in 1..MaxMoves : greeted[m] <= 1

(* In the end a code that was approved has been noticed, unless the dialog *)
(* stopped waiting for it (GithubDialog.tsx:85).                           *)
ApprovalIsSeen == gd # None /\ gd.wait = "oauth" => gd.loop \notin approved
============================================================================
