---------------------------- MODULE WebAppProofs ----------------------------
(***************************************************************************)
(* Proofs about WebApp, for any windows, pages, budgets and names.         *)
(***************************************************************************)
EXTENDS WebApp, SequenceTheorems, TLAPS

(***************************************************************************)
(* Part 1.  Session: every window.                                         *)
(***************************************************************************)

Windowed == Pages \cup {"/connect"}

(* ?next= leads into the application or to the consent page.               *)
NextIsInside(w) == next[w] \in Windowed \cup {None}

(* Once an answer or a step of the wizard shows that there is an account,  *)
(* there is one: accounts are never removed.                               *)
AccountIsKnown(w) == auth[w] \in {"out", "in"} \/ step[w] > 0 => account

(* The host of the wizard is added after the account.  A login is sent     *)
(* from the login page by a window that was told that nobody is signed in. *)
FormsAreOpen(w) ==
    /\ busy[w] = "host" => step[w] > 0
    /\ busy[w] \in {"login", "await"} => at[w] = "/login" /\ auth[w] \in {"out", "in"}
    /\ at[w] = "/login" /\ ~due[w] => auth[w] \in {"?", "out"}

(* A window that should come back somewhere is about to leave the login    *)
(* page for it, or is there; nobody has signed out since.                  *)
GoalIsReached(w) ==
    goal[w] # None =>
        /\ Se!SignedIn
        /\ \/ busy[w] = "await" /\ goal[w] = Se!NextPath(w)
           \/ at[w] = goal[w] /\ at[w] \in Windowed /\ auth[w] = "in"

(* A window that finished the setup holds no answer from before it.        *)
SetupIsOver(w) == finished[w] => account /\ auth[w] # "setup" /\ at[w] # "/setup"

WindowInv(w) == NextIsInside(w) /\ AccountIsKnown(w) /\ FormsAreOpen(w) /\ GoalIsReached(w) /\ SetupIsOver(w)

SessionsInv == (sessions # {} => account) /\ \A v \in Windows : WindowInv(v)
SessionInv == Se!TypeOK /\ SessionsInv

(* At first every window is at home, nobody has signed in and nothing is   *)
(* held.                                                                   *)
LEMMA InitSession == Se!Init => SessionInv
<1> SUFFICES ASSUME Se!Init PROVE SessionInv
  OBVIOUS
<1>1. Se!TypeOK
  BY ShellConstants, WebAppConstants DEF Se!Init, Se!TypeOK, Se!Places, Se!Forms, Se!Known, Se!Requests, Se!Ids
<1>2. SessionsInv
  BY ShellConstants, WebAppConstants
     DEF Se!Init, SessionsInv, WindowInv, NextIsInside, AccountIsKnown, FormsAreOpen, GoalIsReached, SetupIsOver
<1> QED
  BY <1>1, <1>2 DEF SessionInv

(* The answer of the login form leads into the application.                *)
LEMMA Going ==
    ASSUME SessionsInv, NEW w \in Windows
    PROVE  Se!NextPath(w) \in Windowed
BY ShellConstants DEF SessionsInv, WindowInv, NextIsInside, Se!NextPath, Windowed

(* Every step of a window keeps the types of the session's state.          *)
LEMMA TypesKept == SessionInv /\ Se!Next => Se!TypeOK'
<1> SUFFICES ASSUME SessionInv, Se!Next PROVE Se!TypeOK'
  OBVIOUS
<1> USE DEF Se!Places, Se!Forms, Se!Known, Se!Requests, Se!Ids
<1>0. Se!TypeOK /\ SessionsInv
  BY DEF SessionInv
<1>a. MaxTurns \in Nat /\ Home \in Pages
  BY WebAppConstants, ShellConstants
<1>1. ASSUME NEW w \in Windows, NEW p \in Se!Places, NEW n \in Se!Places \cup {None}, Se!LoadPage(w, p, n) \/ Se!Replace(w, p, n)
      PROVE  /\ at' \in [Windows -> Se!Places] /\ next' \in [Windows -> Se!Places \cup {None}]
             /\ auth' \in [Windows -> Se!Known \cup {"?"}]
             /\ want' \in [Windows -> BOOLEAN] /\ due' \in [Windows -> BOOLEAN] /\ checked' \in [Windows -> BOOLEAN]
             /\ busy' \in [Windows -> Se!Requests] /\ step' \in [Windows -> 0..2]
  <2>1. at' = [at EXCEPT ![w] = p] /\ next' = [next EXCEPT ![w] = n] /\ step' = [step EXCEPT ![w] = 0]
        /\ busy' = [busy EXCEPT ![w] = "none"] /\ checked' = [checked EXCEPT ![w] = FALSE]
        /\ (auth' = auth \/ auth' = [auth EXCEPT ![w] = "?"])
    BY <1>1 DEF Se!LoadPage, Se!Replace
  <2>2. want' \in [Windows -> BOOLEAN] /\ due' \in [Windows -> BOOLEAN]
    <3>1. \A b : b \in BOOLEAN => [want EXCEPT ![w] = b] \in [Windows -> BOOLEAN] /\ [due EXCEPT ![w] = b] \in [Windows -> BOOLEAN]
      BY <1>0 DEF Se!TypeOK
    <3>2. (p # "away") \in BOOLEAN /\ (p # "/setup" \/ auth[w] = "?") \in BOOLEAN /\ (auth[w] # "?") \in BOOLEAN /\ FALSE \in BOOLEAN
      OBVIOUS
    <3> QED
      BY <1>1, <3>1, <3>2 DEF Se!LoadPage, Se!Replace
  <2> QED
    <3>1. at' \in [Windows -> Se!Places] /\ next' \in [Windows -> Se!Places \cup {None}] /\ step' \in [Windows -> 0..2]
      BY <1>0, <2>1 DEF Se!TypeOK
    <3>2. busy' \in [Windows -> Se!Requests] /\ checked' \in [Windows -> BOOLEAN]
      BY <1>0, <2>1 DEF Se!TypeOK
    <3>3. auth' \in [Windows -> Se!Known \cup {"?"}]
      BY <1>0, <2>1 DEF Se!TypeOK
    <3> QED
      BY <2>2, <3>1, <3>2, <3>3
<1>2. \A w \in Windows : Se!NextPath(w) \in Se!Places
  BY <1>0, Going DEF Windowed
<1>3. Se!Actual \in Se!Known
  BY DEF Se!Actual
<1>4. ASSUME NEW w \in Windows, Se!Fetched(w) PROVE Se!TypeOK'
  BY <1>0, <1>3, <1>4 DEF Se!Fetched, Se!TypeOK, Se!server
<1>5. ASSUME NEW w \in Windows, Se!Effect(w) PROVE Se!TypeOK'
  <2>1. CASE Se!Stay(w)
    BY <1>0, <1>5, <2>1 DEF Se!Effect, Se!Stay, Se!TypeOK, Se!server
  <2>2. CASE \E p \in Se!Places : \E n \in Se!Places \cup {None} : Se!Replace(w, p, n)
    <3>1. UNCHANGED <<account, sessions, cookie, goal, finished, turns>>
      BY <1>5 DEF Se!Effect, Se!server
    <3> QED
      BY <1>0, <1>1, <2>2, <3>1 DEF Se!TypeOK
  <2>3. Se!Stay(w) \/ \E p \in Se!Places : \E n \in Se!Places \cup {None} : Se!Replace(w, p, n)
    BY <1>5, <1>a, <1>2 DEF Se!Effect, Se!AppEffect, Se!LoginEffect, Se!SetupEffect, Se!ConnectEffect
  <2> QED
    BY <2>1, <2>2, <2>3
<1>6. ASSUME NEW w \in Windows, Se!LoggedIn(w) PROVE Se!TypeOK'
  BY <1>0, <1>2, <1>3, <1>6 DEF Se!LoggedIn, Se!LeaveLogin, Se!TypeOK, Se!server
<1>7. ASSUME NEW w \in Windows, Se!Refused(w) PROVE Se!TypeOK'
  <2>1. Se!LoadPage(w, "/login", at[w]) /\ at[w] \in Se!Places /\ UNCHANGED <<account, sessions, cookie, goal, finished, turns>>
    BY <1>0, <1>7 DEF Se!Refused, Se!Unauthorized, Se!server, Se!TypeOK
  <2> QED
    BY <1>0, <1>1, <2>1 DEF Se!TypeOK
<1>8. ASSUME NEW w \in Windows, Se!LoginAnswered(w) \/ Se!LoginRefused(w) \/ Se!AccountAnswered(w) \/ Se!HostAnswered(w)
      PROVE  Se!TypeOK'
  <2>1. CASE Se!LoginAnswered(w)
    <3>1. turns + 1 \in Se!Ids
      BY <1>0, <1>a DEF Se!TypeOK
    <3> QED
      BY <1>0, <1>2, <2>1, <3>1 DEF Se!LoginAnswered, Se!TypeOK
  <2>2. CASE Se!LoginRefused(w)
    BY <1>0, <2>2 DEF Se!LoginRefused, Se!TypeOK, Se!server, Se!caches
  <2>3. CASE Se!AccountAnswered(w)
    <3>1. turns + 1 \in Se!Ids
      BY <1>0, <1>a DEF Se!TypeOK
    <3> QED
      <4>1. account' \in BOOLEAN /\ sessions' \subseteq Se!Ids /\ cookie' \in Se!Ids \cup {0}
        BY <1>0, <2>3, <3>1 DEF Se!AccountAnswered, Se!TypeOK
      <4>2. step' = [step EXCEPT ![w] = 1] \/ step' = step
        BY <2>3 DEF Se!AccountAnswered
      <4>3. step' \in [Windows -> 0..2]
        BY <1>0, <4>2 DEF Se!TypeOK
      <4> QED
        BY <1>0, <2>3, <4>1, <4>3 DEF Se!AccountAnswered, Se!TypeOK, Se!caches
  <2>4. CASE Se!HostAnswered(w)
    BY <1>0, <2>4 DEF Se!HostAnswered, Se!TypeOK, Se!server, Se!caches
  <2> QED
    BY <1>8, <2>1, <2>2, <2>3, <2>4
<1>9. ASSUME NEW w \in Windows, NEW p \in Se!Places, NEW g, Se!LoadPage(w, p, None),
             goal' = g, g \in [Windows -> Se!Places \cup {None}], finished' \in [Windows -> BOOLEAN],
             account' \in BOOLEAN, sessions' \subseteq Se!Ids, cookie' \in Se!Ids \cup {0}, turns' \in 0..MaxTurns
      PROVE  Se!TypeOK'
  BY <1>1, <1>9 DEF Se!TypeOK
<1>10. ASSUME NEW w \in Windows, Se!Decided(w) PROVE Se!TypeOK'
  BY <1>0, <1>9, <1>10 DEF Se!Decided, Se!TypeOK, Se!server, Se!caches
<1>11. ASSUME NEW w \in Windows, NEW r \in BOOLEAN, Se!SignedOut(w, r) PROVE Se!TypeOK'
  <2>1. /\ account' \in BOOLEAN /\ sessions' \subseteq Se!Ids /\ cookie' \in Se!Ids \cup {0} /\ turns' \in 0..MaxTurns
        /\ finished' \in [Windows -> BOOLEAN]
    BY <1>0, <1>11 DEF Se!SignedOut, Se!TypeOK, Se!server
  <2>2. Se!LoadPage(w, "/login", None) /\ goal' = [v \in Windows |-> None]
    BY <1>11 DEF Se!SignedOut
  <2> QED
    BY <1>9, <2>1, <2>2
<1>12. ASSUME NEW w \in Windows, Se!FinishSetup(w) PROVE Se!TypeOK'
  BY <1>0, <1>a, <1>9, <1>12 DEF Se!FinishSetup, Se!OpenApp, Se!TypeOK, Se!server
<1>13. ASSUME NEW w \in Windows, NEW p \in Pages \cup Se!Forms, Se!Browse(w, p) PROVE Se!TypeOK'
  <2>1. turns' \in 0..MaxTurns
    BY <1>0, <1>a, <1>13 DEF Se!Browse, Se!Move, Se!TypeOK
  <2> QED
    <3>1. /\ goal' = [goal EXCEPT ![w] = None] /\ goal' \in [Windows -> Se!Places \cup {None}]
          /\ finished' \in [Windows -> BOOLEAN] /\ UNCHANGED <<account, sessions, cookie>>
      BY <1>0, <1>13 DEF Se!Browse, Se!TypeOK, Se!server
    <3>2. CASE Se!LoadPage(w, p, None)
      BY <1>0, <1>9, <2>1, <3>1, <3>2 DEF Se!TypeOK
    <3>3. CASE at' = [at EXCEPT ![w] = p] /\ UNCHANGED <<next, auth, want, due, checked, busy, step>>
      BY <1>0, <2>1, <3>1, <3>3 DEF Se!TypeOK
    <3> QED
      BY <1>13, <3>2, <3>3 DEF Se!Browse, Se!caches
<1>14. ASSUME NEW w \in Windows, Se!SubmitLogin(w) \/ Se!SignOut(w) \/ Se!SubmitSetup(w) \/ Se!SkipHost(w) \/ Se!Decide(w) \/ Se!Reconnect(w)
       PROVE  Se!TypeOK'
  <2>1. /\ turns' \in 0..MaxTurns
        /\ UNCHANGED <<account, sessions, cookie, at, next, auth, due, checked, goal, finished>>
    BY <1>0, <1>a, <1>14
       DEF Se!SubmitLogin, Se!SignOut, Se!SubmitSetup, Se!SkipHost, Se!Decide, Se!Reconnect, Se!Move, Se!TypeOK, Se!server, Se!caches
  <2>2. /\ want' = want \/ want' = [want EXCEPT ![w] = TRUE]
        /\ step' = step \/ step' = [step EXCEPT ![w] = 2]
        /\ busy' = busy \/ \E b \in Se!Requests : busy' = [busy EXCEPT ![w] = b]
    BY <1>14 DEF Se!SubmitLogin, Se!SignOut, Se!SubmitSetup, Se!SkipHost, Se!Decide, Se!Reconnect, Se!caches
  <2> QED
    <3>1. want' \in [Windows -> BOOLEAN]
      BY <1>0, <2>2 DEF Se!TypeOK
    <3>2. step' \in [Windows -> 0..2]
      BY <1>0, <2>2 DEF Se!TypeOK
    <3>3. busy' \in [Windows -> Se!Requests]
      BY <1>0, <2>2 DEF Se!TypeOK
    <3> QED
      BY <1>0, <2>1, <3>1, <3>2, <3>3 DEF Se!TypeOK
<1>15. CASE Se!SessionEnds
  BY <1>0, <1>a, <1>15 DEF Se!SessionEnds, Se!Move, Se!TypeOK, Se!caches
<1> QED
  BY <1>4, <1>5, <1>6, <1>7, <1>8, <1>10, <1>11, <1>12, <1>13, <1>14, <1>15 DEF Se!Next, Se!Answer

(* Every answer, effect and button keeps what is said of the windows.      *)
LEMMA WindowsKept == SessionInv /\ Se!Next => SessionsInv'
<1> SUFFICES ASSUME SessionInv, Se!Next PROVE SessionsInv'
  OBVIOUS
<1>a. /\ Windowed \cap {"/login", "/setup", "away"} = {} /\ None \notin Windowed
      /\ Pages \subseteq Windowed /\ Home \in Windowed
  BY WebAppConstants, ShellConstants DEF Windowed
<1>b. \A v \in Windows : Se!NextPath(v) \in Windowed
  BY Going DEF SessionInv
<1> USE DEF Se!TypeOK, SessionInv, SessionsInv, NextIsInside, AccountIsKnown, FormsAreOpen, GoalIsReached, SetupIsOver
<1>4. ASSUME NEW w \in Windows, Se!Fetched(w) PROVE SessionsInv'
  BY <1>a, <1>b, <1>4 DEF WindowInv, Se!Fetched, Se!server, Se!Actual, Se!SignedIn, Se!NextPath
<1>5. ASSUME NEW w \in Windows, Se!Effect(w) PROVE SessionsInv'
  <2>1. UNCHANGED <<account, sessions, cookie, goal, finished>>
    BY <1>5 DEF Se!Effect, Se!server
  <2>2. ASSUME Se!Stay(w), at[w] = "/login" => auth[w] # "setup" /\ auth[w] # "in" PROVE SessionsInv'
    <3>1. auth[w] \in {"?", "setup", "out", "in"}
      BY DEF Se!Known
    <3> QED
      BY <2>1, <2>2, <3>1 DEF WindowInv, Se!Stay, Se!SignedIn, Se!NextPath
  <2>3. ASSUME NEW p \in Windowed \cup {"/login", "/setup"}, NEW n \in {None, "/connect"}, Se!Replace(w, p, n),
               goal[w] # None => p = goal[w] /\ p \in Windowed /\ auth[w] = "in",
               p = "/setup" => auth[w] = "setup"
        PROVE  SessionsInv'
    <3>1. /\ at' = [at EXCEPT ![w] = p] /\ next' = [next EXCEPT ![w] = n] /\ auth' = auth
          /\ busy' = [busy EXCEPT ![w] = "none"] /\ step' = [step EXCEPT ![w] = 0]
          /\ due' = [due EXCEPT ![w] = auth[w] # "?"]
      BY <2>3 DEF Se!Replace
    <3>2. \A v \in Windows \ {w} : WindowInv(v)'
      BY <2>1, <3>1 DEF WindowInv, Se!SignedIn, Se!NextPath
    <3>3. at'[w] = p /\ next'[w] = n /\ busy'[w] = "none" /\ step'[w] = 0 /\ (~due'[w] => auth[w] = "?")
      BY <3>1
    <3>4. WindowInv(w)'
      BY <1>a, <2>1, <2>3, <3>1, <3>3 DEF WindowInv, Se!SignedIn, Windowed
    <3> QED
      BY <2>1, <3>2, <3>4
  <2>4. CASE at[w] = "/login"
    BY <1>a, <1>b, <1>5, <2>2, <2>3, <2>4 DEF Se!Effect, Se!LoginEffect, WindowInv
  <2>5. CASE at[w] = "/setup"
    BY <1>a, <1>b, <1>5, <2>2, <2>3, <2>5 DEF Se!Effect, Se!SetupEffect, WindowInv
  <2>6. CASE at[w] = "/connect"
    BY <1>a, <1>b, <1>5, <2>2, <2>3, <2>6 DEF Se!Effect, Se!ConnectEffect, WindowInv
  <2>7. CASE at[w] \notin {"/login", "/setup", "/connect"}
    BY <1>a, <1>b, <1>5, <2>2, <2>3, <2>7 DEF Se!Effect, Se!AppEffect, WindowInv
  <2> QED
    BY <2>4, <2>5, <2>6, <2>7
<1>6. ASSUME NEW w \in Windows, Se!LoggedIn(w) PROVE SessionsInv'
  BY <1>a, <1>b, <1>6 DEF WindowInv, Se!LoggedIn, Se!LeaveLogin, Se!server, Se!Actual, Se!SignedIn, Se!NextPath
<1>7. ASSUME NEW w \in Windows, Se!Refused(w) PROVE SessionsInv'
  <2>1. at[w] \in Windowed /\ \A v \in Windows : goal[v] = None
    BY <1>7 DEF Se!Refused, WindowInv, Se!Places, Se!Forms, Windowed
  <2>2. Se!LoadPage(w, "/login", at[w]) /\ UNCHANGED <<account, sessions, cookie, goal, finished>>
    BY <1>7 DEF Se!Refused, Se!Unauthorized, Se!server
  <2> QED
    BY <1>a, <2>1, <2>2 DEF WindowInv, Se!LoadPage
<1>8. ASSUME NEW w \in Windows, Se!LoginAnswered(w) PROVE SessionsInv'
  BY <1>a, <1>b, <1>8 DEF WindowInv, Se!LoginAnswered, Se!SignedIn, Se!NextPath
<1>81. ASSUME NEW w \in Windows, Se!LoginRefused(w) PROVE SessionsInv'
  BY <1>a, <1>b, <1>81 DEF WindowInv, Se!LoginRefused, Se!SignedIn, Se!NextPath, Se!server, Se!caches
<1>82. ASSUME NEW w \in Windows, Se!AccountAnswered(w) PROVE SessionsInv'
  BY <1>a, <1>b, <1>82 DEF WindowInv, Se!AccountAnswered, Se!SignedIn, Se!NextPath, Se!caches
<1>83. ASSUME NEW w \in Windows, Se!HostAnswered(w) PROVE SessionsInv'
  BY <1>a, <1>b, <1>83 DEF WindowInv, Se!HostAnswered, Se!SignedIn, Se!NextPath, Se!server, Se!caches
<1>10. ASSUME NEW w \in Windows, Se!Decided(w) PROVE SessionsInv'
  BY <1>a, <1>b, <1>10 DEF WindowInv, Se!Decided, Se!LoadPage, Se!SignedIn, Se!NextPath, Se!server, Se!caches
<1>11. ASSUME NEW w \in Windows, NEW r \in BOOLEAN, Se!SignedOut(w, r) PROVE SessionsInv'
  BY <1>a, <1>b, <1>11 DEF WindowInv, Se!SignedOut, Se!LoadPage, Se!SignedIn, Se!NextPath, Se!server
<1>12. ASSUME NEW w \in Windows, Se!FinishSetup(w) PROVE SessionsInv'
  BY <1>a, <1>b, <1>12 DEF WindowInv, Se!FinishSetup, Se!OpenApp, Se!LoadPage, Se!SignedIn, Se!NextPath, Se!server
<1>13. ASSUME NEW w \in Windows, NEW p \in Pages \cup Se!Forms, Se!Browse(w, p) PROVE SessionsInv'
  BY <1>a, <1>b, <1>13 DEF WindowInv, Se!Browse, Se!OnApp, Se!LoadPage, Se!SignedIn, Se!NextPath, Se!server, Se!caches
<1>14. ASSUME NEW w \in Windows, Se!SubmitLogin(w) \/ Se!SignOut(w) \/ Se!SubmitSetup(w)
       PROVE  SessionsInv'
  BY <1>a, <1>b, <1>14
     DEF WindowInv, Se!SubmitLogin, Se!SignOut, Se!SubmitSetup, Se!OnForm, Se!OnApp, Se!SignedIn, Se!NextPath, Se!server, Se!caches
<1>141. ASSUME NEW w \in Windows, Se!SkipHost(w) \/ Se!Decide(w) \/ Se!Reconnect(w)
       PROVE  SessionsInv'
  BY <1>a, <1>b, <1>141
     DEF WindowInv, Se!SkipHost, Se!Decide, Se!Reconnect, Se!OnForm, Se!SignedIn, Se!NextPath, Se!server, Se!caches
<1>15. CASE Se!SessionEnds
  BY <1>a, <1>15 DEF WindowInv, Se!SessionEnds, Se!caches
<1> QED
  BY <1>4, <1>5, <1>6, <1>7, <1>8, <1>81, <1>82, <1>83, <1>10, <1>11, <1>12, <1>13, <1>14, <1>141, <1>15 DEF Se!Next, Se!Answer

(***************************************************************************)
(* Part 2.  Shell: sequences, layers, questions, toasts, theme, palette.   *)
(***************************************************************************)

Listeners == {"create", "keys", "pick", "dialog"}

(* A sequence without one of its elements.                                 *)
LEMMA WithoutShape ==
    ASSUME NEW S, NEW s \in Seq(S), NEW e
    PROVE  /\ Without(s, e) \in Seq(S)
           /\ \/ Without(s, e) = s /\ \A i \in 1..Len(s) : s[i] # e
              \/ \E k \in 1..Len(s) :
                    /\ s[k] = e /\ Len(Without(s, e)) = Len(s) - 1
                    /\ \A i \in 1..(Len(s) - 1) : Without(s, e)[i] = IF i < k THEN s[i] ELSE s[i + 1]
<1>1. CASE \A i \in DOMAIN s : s[i] # e
  BY <1>1 DEF Without
<1>2. CASE \E i \in DOMAIN s : s[i] = e
  <2> DEFINE k == CHOOSE i \in DOMAIN s : s[i] = e
  <2>1. k \in 1..Len(s) /\ s[k] = e
    BY <1>2
  <2>2. Without(s, e) = SubSeq(s, 1, k - 1) \o SubSeq(s, k + 1, Len(s))
    BY <1>2 DEF Without
  <2> DEFINE before == SubSeq(s, 1, k - 1)
             after == SubSeq(s, k + 1, Len(s))
  <2> HIDE DEF k
  <2>3. Len(s) \in Nat /\ k \in Nat /\ k >= 1 /\ k <= Len(s)
    BY <2>1
  <2>4. /\ before \in Seq(S) /\ Len(before) = k - 1
        /\ \A i \in 1..(k - 1) : before[i] = s[i]
    <3>1. \A i \in 1..(k - 1) : s[i] \in S
      BY <2>3
    <3> QED
      BY <2>3, <3>1, SubSeqProperties
  <2>5. /\ after \in Seq(S) /\ Len(after) = Len(s) - k
        /\ \A i \in 1..(Len(s) - k) : after[i] = s[k + i]
    <3>1. \A i \in (k + 1)..Len(s) : s[i] \in S
      BY <2>3
    <3>2. \A i \in 1..(Len(s) - (k + 1) + 1) : after[i] = s[(k + 1) + i - 1]
      BY <2>3, <3>1, SubSeqProperties
    <3>3. after \in Seq(S) /\ Len(after) = IF k + 1 <= Len(s) THEN Len(s) - (k + 1) + 1 ELSE 0
      BY <2>3, <3>1, SubSeqProperties
    <3>4. \A i \in 1..(Len(s) - k) : (k + 1) + i - 1 = k + i /\ i \in 1..(Len(s) - (k + 1) + 1)
      BY <2>3
    <3> QED
      BY <2>3, <3>2, <3>3, <3>4
  <2>. HIDE DEF before, after
  <2>6. Without(s, e) = before \o after
    BY <2>2 DEF before, after
  <2>7. /\ Without(s, e) \in Seq(S) /\ Len(Without(s, e)) = (k - 1) + (Len(s) - k)
        /\ \A i \in 1..((k - 1) + (Len(s) - k)) : Without(s, e)[i] = IF i <= k - 1 THEN before[i] ELSE after[i - (k - 1)]
    <3>1. /\ before \o after \in Seq(S) /\ Len(before \o after) = Len(before) + Len(after)
          /\ \A i \in 1..(Len(before) + Len(after)) :
                (before \o after)[i] = IF i <= Len(before) THEN before[i] ELSE after[i - Len(before)]
      BY <2>4, <2>5, ConcatProperties
    <3> QED
      BY <2>4, <2>5, <2>6, <3>1
  <2>8. (k - 1) + (Len(s) - k) = Len(s) - 1
    BY <2>3
  <2>9. ASSUME NEW i \in 1..(Len(s) - 1) PROVE Without(s, e)[i] = IF i < k THEN s[i] ELSE s[i + 1]
    <3>1. CASE i <= k - 1
      <4>1. i \in 1..(k - 1) /\ i < k
        BY <2>3, <3>1
      <4> QED
        BY <2>4, <2>7, <2>8, <3>1, <4>1
    <3>2. CASE ~(i <= k - 1)
      <4>1. i - (k - 1) \in 1..(Len(s) - k) /\ k + (i - (k - 1)) = i + 1 /\ ~(i < k)
        BY <2>3, <3>2
      <4>2. Without(s, e)[i] = after[i - (k - 1)] /\ after[i - (k - 1)] = s[k + (i - (k - 1))]
        BY <2>5, <2>7, <2>8, <3>2, <4>1
      <4> QED
        BY <4>1, <4>2
    <3> QED
      BY <3>1, <3>2
  <2> QED
    BY <2>1, <2>7, <2>8, <2>9
<1> QED
  BY <1>1, <1>2

(* The newest four of a sequence.                                          *)
LEMMA NewestShape ==
    ASSUME NEW S, NEW s \in Seq(S)
    PROVE  /\ Newest(s) \in Seq(S) /\ Len(Newest(s)) <= 4 /\ Len(Newest(s)) <= Len(s)
           /\ \A i \in 1..Len(Newest(s)) : Newest(s)[i] = s[(Len(s) - Len(Newest(s))) + i]
<1>1. Len(s) \in Nat
  OBVIOUS
<1>2. CASE Len(s) > 4
  <2>1. Newest(s) = SubSeq(s, Len(s) - 3, Len(s))
    BY <1>2 DEF Newest
  <2> QED
    BY <1>1, <1>2, <2>1
<1>3. CASE ~(Len(s) > 4)
  <2>1. Newest(s) = SubSeq(s, 1, Len(s))
    BY <1>3 DEF Newest
  <2> QED
    <3>1. \A i \in 1..Len(s) : s[i] \in S /\ 1 + i - 1 = i /\ i \in 1..(Len(s) - 1 + 1)
      BY <1>1
    <3>2. /\ Newest(s) \in Seq(S) /\ Len(Newest(s)) = IF 1 <= Len(s) THEN Len(s) - 1 + 1 ELSE 0
          /\ \A i \in 1..(Len(s) - 1 + 1) : Newest(s)[i] = s[1 + i - 1]
      BY <1>1, <2>1, <3>1, SubSeqProperties
    <3>3. Len(Newest(s)) = Len(s)
      BY <1>1, <3>2
    <3>4. \A i \in 1..Len(s) : Newest(s)[i] = s[i]
      BY <3>1, <3>2
    <3>5. \A i \in 1..Len(s) : (Len(s) - Len(s)) + i = i
      BY <1>1
    <3>6. Len(s) <= 4 /\ Len(s) <= Len(s)
      BY <1>1, <1>3
    <3>7. ASSUME NEW i \in 1..Len(Newest(s)) PROVE Newest(s)[i] = s[(Len(s) - Len(Newest(s))) + i]
      <4>1. i \in 1..Len(s) /\ Len(s) - Len(Newest(s)) = Len(s) - Len(s)
        BY <3>3
      <4> QED
        BY <3>4, <3>5, <4>1
    <3> QED
      BY <3>2, <3>3, <3>6, <3>7
<1> QED
  BY <1>2, <1>3

(* Every layer of o that listens is registered.                            *)
Registered(c, o) == c \in Seq(Listeners) /\ \A l \in o \cap Listeners : \E i \in 1..Len(c) : c[i] = l

(* A listener that is appended when its layer is shown is registered, and  *)
(* those before it stay so.                                                *)
LEMMA Joined ==
    ASSUME NEW c \in Seq(Listeners), NEW l \in Listeners, NEW o, NEW L \in SUBSET Listeners, Registered(c, o \cap L)
    PROVE  Registered(c \o Listener(l, o), o \cap (L \cup {l}))
<1>1. CASE l \in o
  <2>1. Listener(l, o) = <<l>>
    BY <1>1 DEF Listener
  <2>2. c \o <<l>> \in Seq(Listeners) /\ Len(c \o <<l>>) = Len(c) + 1 /\ (c \o <<l>>)[Len(c) + 1] = l
        /\ \A i \in 1..Len(c) : (c \o <<l>>)[i] = c[i]
    OBVIOUS
  <2> QED
    BY <2>1, <2>2 DEF Registered
<1>2. CASE l \notin o
  <2>1. c \o Listener(l, o) = c
    BY <1>2 DEF Listener
  <2> QED
    BY <1>2, <2>1 DEF Registered
<1> QED
  BY <1>1, <1>2

(* A render registers every layer it shows that listens.                   *)
LEMMA Renders == ASSUME NEW o PROVE Registered(Rendered(o), o)
<1>1. Registered(Listener("create", o), o \cap {"create"})
  <2>1. CASE "create" \in o
    <3>1. Listener("create", o) = <<"create">> /\ "create" \in Listeners
      BY <2>1 DEF Listener, Listeners
    <3>2. <<"create">> \in Seq(Listeners) /\ Len(<<"create">>) = 1 /\ <<"create">>[1] = "create"
      BY <3>1
    <3> QED
      BY SMTT(30), <3>1, <3>2 DEF Registered
  <2>2. CASE "create" \notin o
    BY <2>2 DEF Registered, Listener
  <2> QED
    BY <2>1, <2>2
<1> DEFINE one == Listener("create", o)
           two == one \o Listener("keys", o)
           three == two \o Listener("pick", o)
           four == three \o Listener("dialog", o)
<1>a. {"create"} \cup {"keys"} = {"create", "keys"} /\ {"create", "keys"} \cup {"pick"} = {"create", "keys", "pick"}
      /\ {"create", "keys", "pick"} \cup {"dialog"} = Listeners
      /\ {{"create"}, {"create", "keys"}, {"create", "keys", "pick"}} \subseteq SUBSET Listeners
      /\ (o \cap Listeners) \cap Listeners = o \cap Listeners
  BY DEF Listeners
<1>b. Rendered(o) = four
  BY DEF Rendered
<1>c. \A c, p : Registered(c, p) => c \in Seq(Listeners)
  BY DEF Registered
<1> HIDE DEF one
<1>2. Registered(two, o \cap {"create", "keys"})
  BY <1>1, <1>a, <1>c, Joined DEF one, Listeners
<1> HIDE DEF two
<1>3. Registered(three, o \cap {"create", "keys", "pick"})
  BY <1>2, <1>a, <1>c, Joined DEF Listeners
<1> HIDE DEF three
<1>4. Registered(four, o \cap Listeners)
  BY <1>3, <1>a, <1>c, Joined DEF Listeners
<1> HIDE DEF four
<1> QED
  BY <1>4, <1>a, <1>b DEF Registered

(* The results of the palette, and how many there are.                     *)
Result == [group : {"nav", "host", "ctr", "act"}, run : {"page", "side", "dialog", "theme"}, best : Nat]
Hosts == IF "hosts" \in loaded THEN 1 ELSE 0
Containers == IF "containers" \in loaded THEN 1 ELSE 0

(* The palette's results are counted by what has been loaded and by        *)
(* whether something was typed.                                            *)
LEMMA FlatShape ==
    /\ Flat \in Seq(Result)
    /\ Len(Flat) = IF q THEN Containers + Hosts + 1 ELSE 2 + Hosts + 2
<1>c. \A s, t \in Seq(Result) : s \o t \in Seq(Result) /\ Len(s \o t) = Len(s) + Len(t)
  BY ConcatProperties
<1>1. \A g \in {"nav", "host", "ctr", "act"} : \A r \in {"page", "side", "dialog", "theme"} : \A b \in Nat : Item(g, r, b) \in Result
  BY DEF Item, Result
<1>2. Navigation \in Seq(Result) /\ Len(Navigation) = 2
  BY <1>1 DEF Navigation
<1>3. HostItems \in Seq(Result) /\ Len(HostItems) = Hosts
  BY <1>1 DEF HostItems, Hosts
<1>4. ContainerItems \in Seq(Result) /\ Len(ContainerItems) = Containers
  BY <1>1 DEF ContainerItems, Containers
<1>5. Found \in Seq(Result) /\ Len(Found) = 1
  BY <1>1 DEF Found
<1>6. Actions \in Seq(Result) /\ Len(Actions) = 2
  <2>1. <<Item("act", "theme", 0)>> \in Seq(Result) /\ Len(<<Item("act", "theme", 0)>>) = 1
    BY <1>1
  <2> QED
    BY SMTT(30), <1>5, <2>1, <1>c DEF Actions
<1>7. CASE q
  <2>1. ContainerItems \o HostItems \in Seq(Result) /\ Len(ContainerItems \o HostItems) = Containers + Hosts
    BY <1>3, <1>4, <1>c
  <2>2. ContainerItems \o HostItems \o Found \in Seq(Result) /\ Len(ContainerItems \o HostItems \o Found) = (Containers + Hosts) + 1
    BY <1>5, <2>1, <1>c
  <2> QED
    BY <1>7, <2>2 DEF Flat
<1>8. CASE ~q
  <2>1. Navigation \o HostItems \in Seq(Result) /\ Len(Navigation \o HostItems) = 2 + Hosts
    BY <1>2, <1>3, <1>c
  <2>2. Navigation \o HostItems \o Actions \in Seq(Result) /\ Len(Navigation \o HostItems \o Actions) = (2 + Hosts) + 2
    BY <1>6, <2>1, <1>c
  <2> QED
    BY <1>8, <2>2 DEF Flat
<1> QED
  BY <1>7, <1>8

LayersInv == page \in Pages /\ open \subseteq Layers /\ Registered(capture, open)

(* Rendering other layers registers exactly what they need.                *)
LEMMA ShowKept == ASSUME NEW o \in SUBSET Layers, Show(o) PROVE open' \subseteq Layers /\ Registered(capture', open')
BY Renders DEF Show

(* Showing or hiding a menu registers or removes its listener and no       *)
(* other: the others are found again in the list without it.               *)
LEMMA MenuKept ==
    ASSUME LayersInv, NEW l \in {"create", "pick"}, ShowMenu(l) \/ HideMenu(l)
    PROVE  open' \subseteq Layers /\ Registered(capture', open')
<1>a. capture \in Seq(Listeners) /\ l \in Listeners /\ l \in Layers
  BY DEF LayersInv, Registered, Listeners, Layers
<1>1. \A m \in open \cap Listeners : m # l => \E i \in 1..Len(Without(capture, l)) : Without(capture, l)[i] = m
  <2> SUFFICES ASSUME NEW m \in open \cap Listeners, m # l
               PROVE \E i \in 1..Len(Without(capture, l)) : Without(capture, l)[i] = m
    OBVIOUS
  <2>1. PICK j \in 1..Len(capture) : capture[j] = m
    BY DEF LayersInv, Registered
  <2>2. CASE Without(capture, l) = capture
    BY <2>1, <2>2
  <2>3. ASSUME NEW k \in 1..Len(capture), capture[k] = l, Len(Without(capture, l)) = Len(capture) - 1,
               \A i \in 1..(Len(capture) - 1) : Without(capture, l)[i] = IF i < k THEN capture[i] ELSE capture[i + 1]
        PROVE  \E i \in 1..Len(Without(capture, l)) : Without(capture, l)[i] = m
    <3>1. j # k /\ Len(capture) \in Nat
      BY <1>a, <2>1, <2>3
    <3>2. CASE j < k
      <4>1. j \in 1..(Len(capture) - 1)
        BY <3>1, <3>2
      <4> QED
        BY <2>1, <2>3, <3>2, <4>1
    <3>3. CASE j > k
      <4>1. j - 1 \in 1..(Len(capture) - 1) /\ ~(j - 1 < k) /\ (j - 1) + 1 = j
        BY <3>1, <3>3
      <4> QED
        BY <2>1, <2>3, <4>1
    <3> QED
      BY <3>1, <3>2, <3>3
  <2> QED
    BY <1>a, <2>2, <2>3, WithoutShape
<1>2. Without(capture, l) \in Seq(Listeners)
  BY <1>a, WithoutShape
<1>3. CASE HideMenu(l)
  BY <1>1, <1>2, <1>3 DEF HideMenu, LayersInv, Registered
<1>4. CASE ShowMenu(l)
  <2> DEFINE rest == Without(capture, l)
  <2>1. capture' = Append(rest, l) /\ open' = open \cup {l}
    BY <1>4 DEF ShowMenu
  <2> HIDE DEF rest
  <2>2. capture' \in Seq(Listeners) /\ Len(capture') = Len(rest) + 1 /\ capture'[Len(rest) + 1] = l
        /\ \A i \in 1..Len(rest) : capture'[i] = rest[i]
    BY <1>a, <1>2, <2>1 DEF rest
  <2>3. \A m \in open \cap Listeners : m # l => \E i \in 1..Len(rest) : rest[i] = m
    BY <1>1 DEF rest
  <2>4. Len(rest) \in Nat
    BY <1>2 DEF rest
  <2>5. \A m \in open' \cap Listeners : \E i \in 1..Len(capture') : capture'[i] = m
    <3> TAKE m \in open' \cap Listeners
    <3>1. CASE m = l
      BY <2>2, <2>4, <3>1
    <3>2. CASE m # l
      <4>1. PICK i \in 1..Len(rest) : rest[i] = m
        BY <2>1, <2>3, <3>2
      <4>2. i \in 1..Len(capture') /\ capture'[i] = m
        BY <2>2, <2>4, <4>1
      <4> QED
        BY <4>2
    <3> QED
      BY <3>1, <3>2
  <2> QED
    BY <1>a, <2>1, <2>2, <2>5 DEF LayersInv, Registered
<1> QED
  BY <1>3, <1>4

(* What a step does to the layers.                                         *)
LayerStep ==
    \/ UNCHANGED <<open, capture>>
    \/ \E o \in SUBSET Layers : Show(o)
    \/ \E l \in {"create", "pick"} : ShowMenu(l) \/ HideMenu(l)

(* Escape shows what is left of the layers, by a render or by hiding one   *)
(* menu.                                                                   *)
LEMMA EscapeLayers == ASSUME open \subseteq Layers, NEW k, Escape(k) PROVE LayerStep
  BY DEF Escape, LayerStep

(* Every step of the shell leaves the layers alone, renders others, or     *)
(* shows or hides one menu.                                                *)
LEMMA LayersStep == LayersInv /\ ShellNext => LayerStep /\ page' \in Pages
<1> SUFFICES ASSUME LayersInv, ShellNext PROVE LayerStep /\ page' \in Pages
  OBVIOUS
<1> USE DEF LayersInv, LayerStep
<1>1. CASE \/ \E n \in Names \cup {Untyped} : Asks(n)
           \/ PressReboot \/ BlastKnown
           \/ \E n \in Names : TypeName(n)
           \/ \E v \in BOOLEAN : AnswerQuestion(v)
  BY <1>1 DEF Asks, PressReboot, BlastKnown, TypeName, AnswerQuestion, Clicked, Layers, layers
<1>2. CASE \/ \E n \in {1, 4} : Toast(n)
           \/ Expire
           \/ \E i \in DOMAIN toasts : DismissToast(toasts[i])
           \/ \E p \in sent : PatchHandled(p)
           \/ SystemSwitches
           \/ TypeQuery
           \/ \E d \in {1} : Arrow(d) \/ Arrow(0 - d)
           \/ \E l \in {"hosts", "containers"} : ListAnswered(l)
           \/ ChordExpires
  BY <1>2 DEF Toast, Expire, ToastExpires, DismissToast, PatchHandled, SystemSwitches, TypeQuery, Arrow, ListAnswered, ChordExpires, layers
<1>3. CASE Enter
  <2>1. PICK i \in Result : RunItem(i)
    BY <1>3, FlatShape DEF Enter
  <2>2. i.run \in {"page", "side", "dialog", "theme"}
    BY <2>1 DEF Result
  <2> QED
    BY <2>1, <2>2 DEF RunItem, Layers
<1>4. CASE \E w \in {"page", "palette", "theme", "side", "term", "notif", "keys", "dialog"} : Click(w)
  BY <1>4 DEF Click, Clicked, OpenPaletteWith, Layers
<1>5. CASE OpenCreate \/ OpenTerminal \/ OpenPick \/ ClosePick \/ \E w \in {"page", "dialog"} : PickCreate(w)
  BY <1>5 DEF OpenCreate, OpenTerminal, OpenPick, ClosePick, PickCreate, Clicked, Layers
<1>6. CASE \E l \in {"side", "term", "notif", "palette", "keys", "dialog"} : Close(l)
  BY <1>6 DEF Close
<1>7. CASE CtrlK \/ \E k \in {"d", "?", "/", "g", "n", "t"} : Press(k)
  BY <1>7 DEF CtrlK, Press, OpenPaletteWith, Layers, layers
<1>8. CASE \E k \in {"page", "palette", "term", "xterm"} : Escape(k)
  BY <1>8, EscapeLayers DEF Escape
<1> QED
  BY <1>1, <1>2, <1>3, <1>4, <1>5, <1>6, <1>7, <1>8 DEF ShellNext

(* Every step keeps the listeners of the layers on screen registered.      *)
LEMMA LayersKept == LayersInv /\ ShellNext => LayersInv'
BY LayersStep, ShowKept, MenuKept DEF LayersInv, LayerStep

(* A question of the confirm dialog.                                       *)
Question == [name : Names \cup {Untyped}, answer : Answers]

(* The questions and the one on screen; how many moves and reboots there   *)
(* were.                                                                   *)
AskInv ==
    /\ questions \in Seq(Question) /\ ask \in 0..Len(questions) /\ typed \in Names \cup {Blank}
    /\ moves \in 0..MaxMoves /\ blasts \in 0..moves
    /\ LastQuestionIsShown

(* The moves are counted.                                                  *)
LEMMA MovesStep ==
    ASSUME moves \in 0..MaxMoves, ShellNext
    PROVE  /\ moves' \in 0..MaxMoves /\ moves' >= moves
           /\ (PressReboot => moves' = moves + 1)
           /\ key' \in BOOLEAN
<1>0. MaxMoves \in Nat
  BY ShellConstants
<1>1. Move => moves' = moves + 1 /\ moves' \in 0..MaxMoves /\ moves' >= moves /\ key' = FALSE
  BY <1>0 DEF Move
<1>2. (moves' = moves /\ key' = FALSE) \/ Move \/ \E k \in {"page", "palette", "term", "xterm"} : Escape(k)
  BY DEF ShellNext, Asks, PressReboot, BlastKnown, TypeName, AnswerQuestion, Toast, Expire, ToastExpires, DismissToast, PatchHandled,
     SystemSwitches, TypeQuery, Enter, Arrow, ListAnswered, Click, OpenCreate, OpenTerminal, OpenPick, ClosePick, PickCreate,
     Close, CtrlK, ChordExpires, Press
<1>3. ASSUME NEW k, Escape(k) PROVE moves' = moves + 1 /\ moves' \in 0..MaxMoves /\ moves' >= moves /\ key' = TRUE
  BY <1>0, <1>3 DEF Escape
<1>4. PressReboot => Move
  BY DEF PressReboot
<1>5. key' = TRUE \/ key' = FALSE
  BY <1>1, <1>2, <1>3
<1>6. moves' = moves => moves' \in 0..MaxMoves /\ moves' >= moves
  BY <1>0
<1>7. moves' \in 0..MaxMoves /\ moves' >= moves
  BY <1>1, <1>2, <1>3, <1>6
<1>8. PressReboot => moves' = moves + 1
  BY <1>1, <1>4
<1>9. key' \in BOOLEAN
  BY <1>5
<1> QED
  BY <1>7, <1>8, <1>9

(* What a step does to the questions.                                      *)
AskStep ==
    \/ /\ UNCHANGED <<questions, ask>> /\ typed' \in Names \cup {typed}
       /\ "confirm" \in open' <=> "confirm" \in open
    \/ \E n \in Names \cup {Untyped} : Confirm(n) /\ "confirm" \in open'
    \/ \E v \in BOOLEAN : ask # 0 /\ CloseQuestion(v) /\ "confirm" \notin open'

(* Every step of the shell leaves the question on screen alone, asks       *)
(* another, or closes it with an answer.                                   *)
LEMMA AsksStep ==
    ASSUME LayersInv, AskInv, ShellNext
    PROVE  AskStep
<1> USE DEF AskStep, Show
<1>0. (ask # 0) = ("confirm" \in open)
  BY DEF AskInv, LastQuestionIsShown
<1>1. CASE \/ \E n \in Names \cup {Untyped} : Asks(n)
           \/ PressReboot \/ BlastKnown
           \/ \E n \in Names : TypeName(n)
           \/ \E v \in BOOLEAN : AnswerQuestion(v)
  BY <1>1 DEF Asks, PressReboot, BlastKnown, TypeName, AnswerQuestion, HideMenu, layers
<1>2. CASE \/ \E n \in {1, 4} : Toast(n)
           \/ Expire
           \/ \E i \in DOMAIN toasts : DismissToast(toasts[i])
           \/ \E p \in sent : PatchHandled(p)
           \/ SystemSwitches
           \/ TypeQuery
           \/ \E d \in {1} : Arrow(d) \/ Arrow(0 - d)
           \/ \E l \in {"hosts", "containers"} : ListAnswered(l)
           \/ ChordExpires
  BY <1>2 DEF Toast, Expire, ToastExpires, DismissToast, PatchHandled, SystemSwitches, TypeQuery, Arrow, ListAnswered, ChordExpires, layers, asking
<1>3. CASE Enter
  <2>1. PICK i \in Result : RunItem(i)
    BY <1>3, FlatShape DEF Enter
  <2>2. i.run \in {"page", "side", "dialog", "theme"}
    BY <2>1 DEF Result
  <2>3. UNCHANGED asking
    BY <1>3 DEF Enter
  <2> QED
    <3>1. "confirm" \in open' <=> "confirm" \in open
      <4>1. CASE i.run = "page"
        BY <2>1, <4>1 DEF RunItem
      <4>2. CASE i.run = "side"
        BY <2>1, <4>2 DEF RunItem
      <4>3. CASE i.run = "dialog"
        BY <2>1, <4>3 DEF RunItem
      <4>4. CASE i.run = "theme"
        BY <2>1, <4>4 DEF RunItem
      <4> QED
        BY <2>2, <4>1, <4>2, <4>3, <4>4
    <3> QED
      BY <2>3, <3>1 DEF asking
<1>4. CASE \E w \in {"page", "palette", "theme", "side", "term", "notif", "keys", "dialog"} : Click(w)
  BY <1>4 DEF Click, Clicked, OpenPaletteWith, asking
<1>5. CASE OpenCreate \/ OpenTerminal \/ OpenPick \/ ClosePick \/ \E w \in {"page", "dialog"} : PickCreate(w)
  BY <1>5 DEF OpenCreate, OpenTerminal, OpenPick, ClosePick, PickCreate, Clicked, ShowMenu, HideMenu, asking
<1>6. CASE \E l \in {"side", "term", "notif", "palette", "keys", "dialog"} : Close(l)
  BY <1>6 DEF Close, asking
<1>7. CASE CtrlK \/ \E k \in {"d", "?", "/", "g", "n", "t"} : Press(k)
  BY <1>7 DEF CtrlK, Press, OpenPaletteWith, asking, layers
<1>8. ASSUME NEW k \in {"page", "palette", "term", "xterm"}, Escape(k) PROVE AskStep
  <2> DEFINE gone == (CaptureCloses \cup (IF Stops THEN {} ELSE BubbleCloses(k))) \cap open
             all == gone \cup (IF "dialog" \in gone THEN {"pick"} ELSE {})
  <2>1. open' = open \ all
    BY <1>8 DEF Escape, HideMenu
  <2>2. IF "confirm" \in gone THEN CloseQuestion(FALSE) ELSE UNCHANGED <<questions, ask, typed>>
    BY <1>8 DEF Escape
  <2>3. "confirm" \in all <=> "confirm" \in gone
    OBVIOUS
  <2>4. "confirm" \in gone => "confirm" \in open
    OBVIOUS
  <2> HIDE DEF gone, all
  <2>5. CASE "confirm" \in gone
    BY <1>0, <2>1, <2>2, <2>3, <2>4, <2>5
  <2>6. CASE "confirm" \notin gone
    BY <2>1, <2>2, <2>3, <2>6
  <2> QED
    BY <2>5, <2>6
<1> QED
  BY <1>1, <1>2, <1>3, <1>4, <1>5, <1>6, <1>7, <1>8 DEF ShellNext

(* A reboot takes a move of its own.                                       *)
LEMMA BlastsStep == blasts \in 0..moves /\ moves \in 0..MaxMoves /\ ShellNext => blasts' \in 0..moves'
<1> SUFFICES ASSUME blasts \in 0..moves, moves \in 0..MaxMoves, ShellNext PROVE blasts' \in 0..moves'
  OBVIOUS
<1>1. blasts' = blasts \/ PressReboot \/ BlastKnown
  BY DEF ShellNext, Asks, TypeName, AnswerQuestion, Toast, Expire, ToastExpires, DismissToast, PatchHandled,
     SystemSwitches, TypeQuery, Enter, Arrow, ListAnswered, Click, OpenCreate, OpenTerminal, OpenPick, ClosePick, PickCreate,
     Close, CtrlK, ChordExpires, Press, Escape, asking
<1>2. CASE PressReboot
  BY <1>2, MovesStep, ShellConstants DEF PressReboot
<1>3. CASE BlastKnown
  BY <1>3, ShellConstants DEF BlastKnown
<1>4. CASE blasts' = blasts
  BY <1>4, MovesStep, ShellConstants
<1> QED
  BY <1>1, <1>2, <1>3, <1>4

(* Every step keeps the last question, and no other, on screen while it    *)
(* waits.                                                                  *)
LEMMA AskKept == LayersInv /\ AskInv /\ ShellNext => AskInv'
<1> SUFFICES ASSUME LayersInv, AskInv, ShellNext PROVE AskInv'
  OBVIOUS
<1>1. moves' \in 0..MaxMoves /\ blasts' \in 0..moves'
  BY MovesStep, BlastsStep DEF AskInv
<1>2. CASE /\ UNCHANGED <<questions, ask>> /\ typed' \in Names \cup {typed}
           /\ "confirm" \in open' <=> "confirm" \in open
  BY <1>1, <1>2 DEF AskInv, LastQuestionIsShown
<1>3. ASSUME NEW n \in Names \cup {Untyped}, Confirm(n), "confirm" \in open' PROVE AskInv'
  <2> DEFINE new == [name |-> n, answer |-> "waiting"]
  <2>1. new \in Question
    BY DEF Question, Answers
  <2>2. questions' = Append(questions, new) /\ ask' = Len(questions) + 1 /\ typed' \in Names \cup {Blank}
    BY <1>3 DEF Confirm, AskInv
  <2> HIDE DEF new
  <2>3. Len(questions) \in Nat /\ questions' \in Seq(Question) /\ Len(questions') = Len(questions) + 1
    BY <2>1, <2>2 DEF AskInv
  <2>4. \A i \in DOMAIN questions' : i = Len(questions') => ask' = i
    BY <2>2, <2>3
  <2>5. ask' \in 0..Len(questions') /\ ask' # 0 /\ ask' = Len(questions')
    BY <2>2, <2>3
  <2> QED
    BY <1>1, <1>3, <2>2, <2>3, <2>4, <2>5 DEF AskInv, LastQuestionIsShown
<1>4. ASSUME NEW v \in BOOLEAN, ask # 0, CloseQuestion(v), "confirm" \notin open' PROVE AskInv'
  <2> DEFINE new == [questions[ask] EXCEPT !.answer = IF v THEN "yes" ELSE "no"]
  <2>1. ask \in 1..Len(questions) /\ ask = Len(questions)
    BY <1>4 DEF AskInv, LastQuestionIsShown
  <2>2. questions[ask] \in Question
    BY <2>1 DEF AskInv
  <2>3. new \in Question /\ new.answer # "waiting"
    BY <2>2 DEF Question, Answers
  <2>4. questions' = [questions EXCEPT ![ask] = new] /\ ask' = 0 /\ typed' = Blank
    BY <1>4 DEF CloseQuestion, Resolve
  <2> HIDE DEF new
  <2>5. questions' \in Seq(Question) /\ Len(questions') = Len(questions) /\ questions'[ask] = new
    BY <2>1, <2>3, <2>4 DEF AskInv
  <2>6. \A i \in DOMAIN questions' : i = Len(questions') => questions'[i].answer # "waiting"
    BY <2>1, <2>3, <2>5
  <2> QED
    BY <1>1, <1>4, <2>4, <2>5, <2>6 DEF AskInv, LastQuestionIsShown
<1> QED
  BY <1>2, <1>3, <1>4, AsksStep DEF AskStep

(* Toasts have different identifiers, and each one on screen has its       *)
(* timer.                                                                  *)
ToastInv ==
    /\ toastId \in Nat /\ toasts \in Seq(1..toastId) /\ timers \subseteq 1..toastId
    /\ ToastsWillLeave

(* Dismissing a toast, or its timer, keeps the invariant.                  *)
LEMMA ToastWithout ==
    ASSUME ToastInv, NEW id, toasts' = Without(toasts, id), toastId' = toastId, timers' \in {timers, timers \ {id}}
    PROVE  ToastInv'
<1>1. toasts \in Seq(1..toastId) /\ Len(toasts) \in Nat /\ toastId \in Nat
  BY DEF ToastInv
<1>2. toasts' \in Seq(1..toastId)
  BY <1>1, WithoutShape
<1>3. CASE toasts' = toasts /\ \A i \in 1..Len(toasts) : toasts[i] # id
  BY <1>3 DEF ToastInv, ToastsWillLeave
<1>4. ASSUME NEW k \in 1..Len(toasts), toasts[k] = id, Len(toasts') = Len(toasts) - 1,
             \A i \in 1..(Len(toasts) - 1) : toasts'[i] = IF i < k THEN toasts[i] ELSE toasts[i + 1]
      PROVE  ToastInv'
  <2> DEFINE old(i) == IF i < k THEN i ELSE i + 1
  <2>1. DOMAIN toasts' = 1..(Len(toasts) - 1) /\ DOMAIN toasts = 1..Len(toasts)
    BY <1>1, <1>2, <1>4
  <2>2. \A i \in 1..(Len(toasts) - 1) : old(i) \in 1..Len(toasts) /\ toasts'[i] = toasts[old(i)] /\ old(i) # k
    BY <1>1, <1>4
  <2>3. \A i, j \in 1..(Len(toasts) - 1) : i < j => old(i) < old(j)
    BY <1>1
  <2> HIDE DEF old
  <2>4. \A i, j \in 1..Len(toasts) : i < j => toasts[i] < toasts[j]
    BY <2>1 DEF ToastInv, ToastsWillLeave
  <2>5. \A i \in 1..Len(toasts) : i # k => toasts[i] # id
    <3> SUFFICES ASSUME NEW i \in 1..Len(toasts), i # k PROVE toasts[i] # id
      OBVIOUS
    <3>1. toasts[i] \in Nat /\ toasts[k] \in Nat
      BY <1>1
    <3>2. i < k \/ k < i
      BY <1>1
    <3> QED
      BY <1>4, <2>4, <3>1, <3>2
  <2>6. \A i \in 1..(Len(toasts) - 1) : toasts'[i] \in timers /\ toasts'[i] # id
    BY <2>1, <2>2, <2>5 DEF ToastInv, ToastsWillLeave
  <2>7. \A i, j \in 1..(Len(toasts) - 1) : i < j => toasts'[i] < toasts'[j]
    BY <2>2, <2>3, <2>4
  <2>8. Len(toasts') <= 4 /\ timers' \subseteq 1..toastId
    BY <1>1, <1>4 DEF ToastInv, ToastsWillLeave
  <2> QED
    BY <1>1, <1>2, <2>1, <2>6, <2>7, <2>8 DEF ToastInv, ToastsWillLeave
<1>5. \/ toasts' = toasts /\ \A i \in 1..Len(toasts) : toasts[i] # id
      \/ \E k \in 1..Len(toasts) :
            /\ toasts[k] = id /\ Len(toasts') = Len(toasts) - 1
            /\ \A i \in 1..(Len(toasts) - 1) : toasts'[i] = IF i < k THEN toasts[i] ELSE toasts[i + 1]
  <2> DEFINE left == Without(toasts, id)
  <2>1. \/ left = toasts /\ \A i \in 1..Len(toasts) : toasts[i] # id
        \/ \E k \in 1..Len(toasts) :
              /\ toasts[k] = id /\ Len(left) = Len(toasts) - 1
              /\ \A i \in 1..(Len(toasts) - 1) : left[i] = IF i < k THEN toasts[i] ELSE toasts[i + 1]
    <3> DEFINE S == 1..toastId
    <3>1. toasts \in Seq(S)
      BY <1>1
    <3> HIDE DEF S
    <3> QED
      BY <3>1, WithoutShape
  <2>2. toasts' = left
    OBVIOUS
  <2> HIDE DEF left
  <2> QED
    BY <2>1, <2>2, Zenon
<1> QED
  BY <1>3, <1>4, <1>5

(* New toasts get identifiers no toast had, and push out the oldest.       *)
LEMMA ToastPushed == ASSUME ToastInv, NEW n \in {1, 4}, Toast(n) PROVE ToastInv'
<1> DEFINE new == [i \in 1..n |-> toastId + i]
           s == toasts \o new
<1>1. /\ toastId' = toastId + n /\ toasts' = Newest(s) /\ timers' = timers \cup (toastId + 1)..(toastId + n)
  BY DEF Toast
<1>2. toastId \in Nat /\ toasts \in Seq(1..toastId) /\ timers \subseteq 1..toastId /\ Len(toasts) \in Nat /\ n \in Nat
  BY DEF ToastInv
<1>3. toastId' \in Nat /\ 1..toastId \subseteq 1..toastId' /\ (toastId + 1)..(toastId + n) \subseteq 1..toastId'
  BY <1>1, <1>2
<1>4. new \in Seq(1..toastId') /\ Len(new) = n /\ \A i \in 1..n : new[i] = toastId + i
  BY <1>1, <1>2
<1>5. toasts \in Seq(1..toastId') /\ \A i \in 1..Len(toasts) : toasts[i] \in 1..toastId
  BY <1>2, <1>3
<1> HIDE DEF new
<1>6. /\ s \in Seq(1..toastId') /\ Len(s) = Len(toasts) + n
      /\ \A i \in 1..(Len(toasts) + n) : s[i] = IF i <= Len(toasts) THEN toasts[i] ELSE toastId + (i - Len(toasts))
  <2>1. /\ s \in Seq(1..toastId') /\ Len(s) = Len(toasts) + Len(new)
        /\ \A i \in 1..(Len(toasts) + Len(new)) : s[i] = IF i <= Len(toasts) THEN toasts[i] ELSE new[i - Len(toasts)]
    BY <1>4, <1>5, ConcatProperties
  <2>2. \A i \in 1..(Len(toasts) + n) : ~(i <= Len(toasts)) => i - Len(toasts) \in 1..n
    BY <1>2
  <2> QED
    BY <1>4, <2>1, <2>2
<1> HIDE DEF s
<1>7. \A i \in 1..Len(s) : s[i] \in timers'
  <2> SUFFICES ASSUME NEW i \in 1..Len(s) PROVE s[i] \in timers'
    OBVIOUS
  <2>1. CASE i <= Len(toasts)
    <3>1. i \in 1..Len(toasts) /\ i \in DOMAIN toasts /\ s[i] = toasts[i]
      BY <1>2, <1>6, <2>1
    <3> QED
      BY <1>1, <3>1 DEF ToastInv, ToastsWillLeave
  <2>2. CASE ~(i <= Len(toasts))
    <3>1. toastId + (i - Len(toasts)) \in (toastId + 1)..(toastId + n)
      BY <1>2, <1>6, <2>2
    <3> QED
      BY <1>1, <1>6, <2>2, <3>1
  <2> QED
    BY <2>1, <2>2
<1>8. \A i, j \in 1..Len(s) : i < j => s[i] < s[j]
  <2> SUFFICES ASSUME NEW i \in 1..Len(s), NEW j \in 1..Len(s), i < j PROVE s[i] < s[j]
    OBVIOUS
  <2>1. CASE j <= Len(toasts)
    BY SMTT(30), <1>2, <1>6, <2>1 DEF ToastInv, ToastsWillLeave
  <2>2. CASE i <= Len(toasts) /\ ~(j <= Len(toasts))
    <3>1. s[i] \in 1..toastId /\ s[j] = toastId + (j - Len(toasts))
      BY SMTT(30), <1>2, <1>5, <1>6, <2>2
    <3> QED
      BY <1>2, <1>6, <2>2, <3>1
  <2>3. CASE ~(i <= Len(toasts))
    BY <1>2, <1>6, <2>3
  <2> QED
    BY <1>2, <1>6, <2>1, <2>2, <2>3
<1>9. /\ toasts' \in Seq(1..toastId') /\ Len(toasts') <= 4 /\ Len(toasts') <= Len(s)
      /\ \A i \in 1..Len(toasts') : toasts'[i] = s[(Len(s) - Len(toasts')) + i]
  BY <1>1, <1>6, NewestShape
<1>10. \A i \in 1..Len(toasts') : (Len(s) - Len(toasts')) + i \in 1..Len(s)
  BY <1>2, <1>6, <1>9
<1>11. \A i, j \in 1..Len(toasts') : i < j => (Len(s) - Len(toasts')) + i < (Len(s) - Len(toasts')) + j
  BY <1>2, <1>6, <1>9
<1>12. DOMAIN toasts' = 1..Len(toasts')
  BY <1>9
<1>13. timers' \subseteq 1..toastId'
  BY <1>1, <1>2, <1>3
<1>14. \A i \in DOMAIN toasts' : toasts'[i] \in timers'
  BY <1>7, <1>9, <1>10, <1>12
<1>15. ASSUME NEW i \in DOMAIN toasts', NEW j \in DOMAIN toasts', i < j PROVE toasts'[i] < toasts'[j]
  <2>1. i \in 1..Len(toasts') /\ j \in 1..Len(toasts')
    BY <1>12
  <2>2. toasts'[i] = s[(Len(s) - Len(toasts')) + i] /\ toasts'[j] = s[(Len(s) - Len(toasts')) + j]
    BY <1>9, <2>1
  <2>3. (Len(s) - Len(toasts')) + i < (Len(s) - Len(toasts')) + j
    BY <1>11, <1>15, <2>1
  <2> QED
    BY <1>8, <1>10, <2>1, <2>2, <2>3
<1> QED
  BY <1>3, <1>9, <1>13, <1>14, <1>15 DEF ToastInv, ToastsWillLeave

(* Every step of the shell keeps the invariant of the toasts.              *)
LEMMA ToastKept == ToastInv /\ ShellNext => ToastInv'
<1> SUFFICES ASSUME ToastInv, ShellNext PROVE ToastInv'
  OBVIOUS
<1>1. UNCHANGED toasting \/ (\E n \in {1, 4} : Toast(n)) \/ Expire \/ \E i \in DOMAIN toasts : DismissToast(toasts[i])
  BY DEF ShellNext, Asks, PressReboot, BlastKnown, TypeName, AnswerQuestion, PatchHandled, SystemSwitches, TypeQuery, Enter, Arrow,
     ListAnswered, Click, OpenCreate, OpenTerminal, OpenPick, ClosePick, PickCreate, Close, CtrlK, ChordExpires, Press, Escape
<1>2. CASE UNCHANGED toasting
  BY <1>2 DEF toasting, ToastInv, ToastsWillLeave
<1>3. CASE Expire
  BY <1>3, ToastWithout DEF Expire, ToastExpires
<1>4. CASE \E i \in DOMAIN toasts : DismissToast(toasts[i])
  BY <1>4, ToastWithout DEF DismissToast
<1> QED
  BY <1>1, <1>2, <1>3, <1>4, ToastPushed

(* The types of the theme's variables.                                     *)
ThemeTypes ==
    /\ {theme, stored, saved, initial} \subseteq Themes /\ os \in {"light", "dark"} /\ dark \in BOOLEAN
    /\ sent \subseteq [id : 1..MaxMoves, theme : {"light", "dark"}]

(* What changes the theme: the toggle, the answer to a PATCH and the       *)
(* system's setting.                                                       *)
LEMMA ThemeStep ==
    ASSUME ShellNext
    PROVE  UNCHANGED theming \/ (ToggleTheme /\ Move) \/ (\E p \in sent : PatchHandled(p)) \/ SystemSwitches
<1>1. CASE Enter
  <2>1. PICK i \in Result : RunItem(i)
    BY <1>1, FlatShape DEF Enter
  <2>2. i.run \in {"page", "side", "dialog", "theme"}
    BY <2>1 DEF Result
  <2>3. UNCHANGED theming \/ ToggleTheme
    BY <2>1, <2>2 DEF RunItem
  <2> QED
    BY <1>1, <2>3 DEF Enter
<1>2. CASE ~Enter
  BY <1>2 DEF Toast, Expire, ToastExpires, DismissToast, ShellNext, Asks, PressReboot, BlastKnown, TypeName, AnswerQuestion, TypeQuery, Arrow,
     ListAnswered, Click, OpenCreate, OpenTerminal, OpenPick, ClosePick, PickCreate, Close, CtrlK, ChordExpires, Press, Escape
<1> QED
  BY <1>1, <1>2

(* Every step keeps the types of the theme's variables.                    *)
LEMMA ThemesKept == ASSUME ThemeTypes, moves \in 0..MaxMoves, ShellNext PROVE ThemeTypes'
<1>0. \A t, o : IsDark(t, o) \in BOOLEAN
  BY DEF IsDark
<1>1. CASE UNCHANGED theming
  BY <1>1 DEF theming, ThemeTypes
<1>2. CASE ToggleTheme /\ Move
  <2> DEFINE t == IF IsDark(theme, os) THEN "light" ELSE "dark"
             p == [id |-> moves + 1, theme |-> t]
  <2>1. theme' = t /\ stored' = t /\ dark' = IsDark(t, os) /\ sent' = sent \cup {p} /\ UNCHANGED <<os, saved, initial>>
    BY <1>2 DEF ToggleTheme, ApplyTheme
  <2>2. t \in {"light", "dark"}
    OBVIOUS
  <2>3. moves + 1 \in 1..MaxMoves
    BY <1>2, ShellConstants DEF Move
  <2>4. p \in [id : 1..MaxMoves, theme : {"light", "dark"}]
    BY <2>2, <2>3
  <2>5. dark' \in BOOLEAN
    BY <1>0, <2>1
  <2> HIDE DEF t, p
  <2> QED
    BY <2>1, <2>2, <2>4, <2>5 DEF ThemeTypes, Themes
<1>3. ASSUME NEW p \in sent, PatchHandled(p) PROVE ThemeTypes'
  <2>1. p.theme \in {"light", "dark"}
    BY <1>3 DEF ThemeTypes
  <2> QED
    BY <1>3, <2>1 DEF ThemeTypes, PatchHandled, Themes
<1>4. CASE SystemSwitches
  <2>1. dark' \in BOOLEAN
    BY <1>4 DEF SystemSwitches, OnScheme, ThemeTypes
  <2> QED
    BY <1>4, <2>1 DEF SystemSwitches, ThemeTypes
<1> QED
  BY <1>1, <1>2, <1>3, <1>4, ThemeStep

(* Every step keeps the document in the theme the provider holds.          *)
LEMMA AppliedKept == ThemeApplied /\ ShellNext => ThemeApplied'
<1> SUFFICES ASSUME ThemeApplied, ShellNext PROVE ThemeApplied'
  OBVIOUS
<1>1. CASE UNCHANGED theming
  BY <1>1 DEF theming, ThemeApplied, IsDark
<1>2. CASE ToggleTheme /\ Move
  BY <1>2 DEF ToggleTheme, ApplyTheme, ThemeApplied, IsDark
<1>3. ASSUME NEW p \in sent, PatchHandled(p) PROVE ThemeApplied'
  BY <1>3 DEF PatchHandled, ThemeApplied, IsDark
<1>4. CASE SystemSwitches
  <2>1. stored' = stored /\ theme' = theme /\ stored = theme
    BY <1>4 DEF SystemSwitches, ThemeApplied
  <2>2. CASE stored = "system"
    BY <1>4, <2>1, <2>2 DEF SystemSwitches, OnScheme, ThemeApplied, IsDark
  <2>3. CASE stored # "system"
    BY <1>4, <2>1, <2>3 DEF SystemSwitches, OnScheme, ThemeApplied, IsDark
  <2> QED
    BY <2>2, <2>3
<1> QED
  BY <1>1, <1>2, <1>3, <1>4, ThemeStep

(* The palette's query and highlight.                                      *)
PaletteInv ==
    /\ q \in BOOLEAN /\ active \in Nat /\ loaded \subseteq {"hosts", "containers"} /\ shrunk \in BOOLEAN
    /\ HighlightIsAResult

(* The number of results after a step.                                     *)
LEMMA FlatNext == Len(Flat') = IF q' THEN Containers' + Hosts' + 1 ELSE 2 + Hosts' + 2
<1>1. Len(Flat) = IF q THEN Containers + Hosts + 1 ELSE 2 + Hosts + 2
  BY FlatShape
<1>2. (Len(Flat) = IF q THEN Containers + Hosts + 1 ELSE 2 + Hosts + 2)'
  BY <1>1, PTL
<1> QED
  BY <1>2

(* What changes the palette: it is opened anew, typed into, moved in, or a *)
(* list of it arrives.                                                     *)
LEMMA PaletteStep ==
    ASSUME ShellNext
    PROVE  \/ UNCHANGED palette /\ ("palette" \in open' => "palette" \in open)
           \/ q' = FALSE /\ active' = 0 /\ shrunk' = FALSE /\ loaded' = loaded
           \/ TypeQuery \/ (\E d \in {1} : Arrow(d) \/ Arrow(0 - d)) \/ \E l \in {"hosts", "containers"} : ListAnswered(l)
<1> USE DEF Show, palette
<1>1. CASE \/ \E n \in Names \cup {Untyped} : Asks(n)
           \/ PressReboot \/ BlastKnown
           \/ \E n \in Names : TypeName(n)
           \/ \E v \in BOOLEAN : AnswerQuestion(v)
  BY <1>1 DEF Asks, PressReboot, BlastKnown, TypeName, AnswerQuestion, Clicked, HideMenu, layers
<1>2. CASE \/ \E n \in {1, 4} : Toast(n)
           \/ Expire
           \/ \E i \in DOMAIN toasts : DismissToast(toasts[i])
           \/ \E p \in sent : PatchHandled(p)
           \/ SystemSwitches
           \/ ChordExpires
  BY <1>2 DEF Toast, Expire, ToastExpires, DismissToast, PatchHandled, SystemSwitches, ChordExpires, layers
<1>3. CASE Enter
  <2>1. PICK i \in Result : RunItem(i)
    BY <1>3, FlatShape DEF Enter
  <2>2. i.run \in {"page", "side", "dialog", "theme"}
    BY <2>1 DEF Result
  <2>3. UNCHANGED palette
    BY <1>3 DEF Enter
  <2>4. "palette" \notin open'
    <3>1. CASE i.run = "page"
      BY <2>1, <3>1 DEF RunItem
    <3>2. CASE i.run = "side"
      BY <2>1, <3>2 DEF RunItem
    <3>3. CASE i.run = "dialog"
      BY <2>1, <3>3 DEF RunItem
    <3>4. CASE i.run = "theme"
      BY <2>1, <3>4 DEF RunItem
    <3> QED
      BY <2>2, <3>1, <3>2, <3>3, <3>4
  <2> QED
    BY <2>3, <2>4
<1>4. CASE \E w \in {"page", "palette", "theme", "side", "term", "notif", "keys", "dialog"} : Click(w)
  BY <1>4 DEF Click, Clicked, OpenPaletteWith
<1>5. CASE OpenCreate \/ OpenTerminal \/ OpenPick \/ ClosePick \/ \E w \in {"page", "dialog"} : PickCreate(w)
  BY <1>5 DEF OpenCreate, OpenTerminal, OpenPick, ClosePick, PickCreate, Clicked, ShowMenu, HideMenu
<1>6. CASE \E l \in {"side", "term", "notif", "palette", "keys", "dialog"} : Close(l)
  BY <1>6 DEF Close
<1>7. CASE CtrlK \/ \E k \in {"d", "?", "/", "g", "n", "t"} : Press(k)
  BY <1>7 DEF CtrlK, Press, OpenPaletteWith, layers
<1>8. CASE \E k \in {"page", "palette", "term", "xterm"} : Escape(k)
  BY <1>8 DEF Escape, HideMenu
<1> QED
  BY <1>1, <1>2, <1>3, <1>4, <1>5, <1>6, <1>7, <1>8 DEF ShellNext

(* Every step keeps the highlight on a result unless the list shrank under *)
(* it.                                                                     *)
LEMMA PaletteKept == PaletteInv /\ ShellNext => PaletteInv'
<1> SUFFICES ASSUME PaletteInv, ShellNext PROVE PaletteInv'
  OBVIOUS
<1>0. /\ Containers \in {0, 1} /\ Hosts \in {0, 1} /\ Containers' \in {0, 1} /\ Hosts' \in {0, 1}
      /\ Len(Flat) = IF q THEN Containers + Hosts + 1 ELSE 2 + Hosts + 2
  BY FlatShape DEF Containers, Hosts
<1>a. Len(Flat) \in Nat /\ Len(Flat) >= 1 /\ Len(Flat') \in Nat /\ Len(Flat') >= 1
  <2> DEFINE lists == Len(Flat)
             lists2 == Len(Flat')
  <2>1. lists2 = IF q' THEN Containers' + Hosts' + 1 ELSE 2 + Hosts' + 2
    BY FlatNext
  <2>2. lists = IF q THEN Containers + Hosts + 1 ELSE 2 + Hosts + 2
    BY <1>0
  <2> HIDE DEF lists, lists2
  <2>3. lists \in Nat /\ lists >= 1
    BY <1>0, <2>2
  <2>4. lists2 \in Nat /\ lists2 >= 1
    <3> DEFINE c == Containers'
               h == Hosts'
    <3>1. lists2 = c + h + 1 \/ lists2 = 2 + h + 2
      BY <2>1
    <3>2. c \in {0, 1} /\ h \in {0, 1}
      BY <1>0
    <3> HIDE DEF c, h
    <3> QED
      BY <3>1, <3>2
  <2> QED
    BY <2>3, <2>4 DEF lists, lists2
<1>b. Flat # <<>>
  BY <1>a
<1>c. "palette" \in open /\ ~shrunk => active < Len(Flat)
  BY <1>b DEF PaletteInv, HighlightIsAResult
<1>r. ASSUME q' \in BOOLEAN, active' = 0, shrunk' = FALSE, loaded' = loaded PROVE PaletteInv'
  <2>1. HighlightIsAResult'
    BY <1>a, <1>r DEF HighlightIsAResult
  <2>2. active' \in Nat /\ shrunk' \in BOOLEAN /\ loaded' \subseteq {"hosts", "containers"}
    BY <1>r DEF PaletteInv
  <2> QED
    BY <1>r, <2>1, <2>2 DEF PaletteInv
<1>1. CASE UNCHANGED palette /\ ("palette" \in open' => "palette" \in open)
  <2>1. Flat' = Flat
    BY <1>1 DEF palette, Flat, HostItems, ContainerItems
  <2> QED
    BY <1>1, <1>c, <2>1 DEF palette, PaletteInv, HighlightIsAResult
<1>2. CASE q' = FALSE /\ active' = 0 /\ shrunk' = FALSE /\ loaded' = loaded
  BY <1>2, <1>r DEF PaletteInv
<1>3. CASE TypeQuery
  <2>1. q' \in BOOLEAN /\ active' = 0 /\ shrunk' = FALSE /\ loaded' = loaded
    BY <1>3 DEF TypeQuery, ResetActive, PaletteInv
  <2> QED
    BY <2>1, <1>r DEF PaletteInv
<1>4. ASSUME NEW d \in {1, 0 - 1}, Arrow(d) PROVE PaletteInv'
  <2>1. active' = (active + d + Len(Flat)) % Len(Flat) /\ UNCHANGED <<q, loaded>>
    BY <1>4, <1>b DEF Arrow
  <2>2. active + d + Len(Flat) \in Nat
    BY <1>a DEF PaletteInv
  <2>3. active' \in Nat /\ active' < Len(Flat)
    BY <1>a, <2>1, <2>2
  <2>4. Flat' = Flat
    BY <2>1 DEF Flat, HostItems, ContainerItems
  <2> QED
    BY <1>4, <2>1, <2>3, <2>4 DEF Arrow, PaletteInv, HighlightIsAResult
<1>5. ASSUME NEW l \in {"hosts", "containers"}, ListAnswered(l) PROVE PaletteInv'
  <2>1. /\ loaded' = IF l \in loaded THEN loaded \ {l} ELSE loaded \cup {l}
        /\ "palette" \in open /\ UNCHANGED <<q, active>> /\ (~shrunk' => ~shrunk /\ l \notin loaded) /\ shrunk' \in BOOLEAN
    BY <1>5 DEF ListAnswered, PaletteInv
  <2>2. ~shrunk' => Containers <= Containers' /\ Hosts <= Hosts'
    BY <2>1 DEF Containers, Hosts
  <2>3. ~shrunk' => Len(Flat) <= Len(Flat')
    <3> DEFINE c == Containers'
               h == Hosts'
               size == Len(Flat')
    <3>1. /\ c \in {0, 1} /\ h \in {0, 1} /\ (~shrunk' => Containers <= c /\ Hosts <= h)
          /\ Containers \in {0, 1} /\ Hosts \in {0, 1}
      BY <1>0, <2>2
    <3>2. size = IF q THEN c + h + 1 ELSE 2 + h + 2
      BY <2>1, FlatNext
    <3>3. Len(Flat) = IF q THEN Containers + Hosts + 1 ELSE 2 + Hosts + 2
      BY <1>0
    <3> HIDE DEF c, h, size
    <3>4. ~shrunk' => Len(Flat) <= size
      BY <3>1, <3>2, <3>3
    <3> QED
      BY <3>4 DEF size
  <2>4. loaded' \subseteq {"hosts", "containers"}
    BY <2>1 DEF PaletteInv
  <2> QED
    BY <1>a, <1>c, <2>1, <2>3, <2>4 DEF PaletteInv, HighlightIsAResult
<1> QED
  BY <1>1, <1>2, <1>3, <1>4, <1>5, PaletteStep

(***************************************************************************)
(* Part 3.  The composition.                                               *)
(***************************************************************************)

(* The inductive invariant of the shell.                                   *)
ShellInv == LayersInv /\ AskInv /\ ToastInv /\ ThemeTypes /\ PaletteInv /\ chord \in BOOLEAN /\ key \in BOOLEAN

(* While the application is on screen, the shell knows its page.           *)
PageIsShown == at[Main] \in Pages => page = at[Main]

(* The inductive invariant of the application.                             *)
WebInv == ShellInv /\ SessionInv /\ DocIsTheme /\ PageIsShown /\ failed \in BOOLEAN

(* The shell's invariant gives its types.                                  *)
LEMMA ShellTypes == ShellInv => ShellTypeOK
<1> SUFFICES ASSUME ShellInv PROVE ShellTypeOK
  OBVIOUS
<1>1. blasts \in 0..MaxMoves
  BY ShellConstants DEF ShellInv, AskInv
<1> QED
  BY <1>1 DEF ShellInv, ShellTypeOK, LayersInv, Registered, Listeners, AskInv, Question, ToastInv, ThemeTypes, PaletteInv

(* The pending g of a chord is pending or not.                             *)
LEMMA ChordStep == chord \in BOOLEAN /\ ShellNext => chord' \in BOOLEAN
<1> SUFFICES ASSUME chord \in BOOLEAN, ShellNext PROVE chord' \in BOOLEAN
  OBVIOUS
<1>1. chord' = chord \/ chord' = FALSE \/ chord' = TRUE \/ \E k : Escape(k)
  BY DEF ShellNext, Asks, PressReboot, BlastKnown, TypeName, AnswerQuestion, Toast, Expire, ToastExpires, DismissToast, PatchHandled,
     SystemSwitches, TypeQuery, Enter, Arrow, ListAnswered, Click, OpenCreate, OpenTerminal, OpenPick, ClosePick, PickCreate,
     Close, CtrlK, ChordExpires, Press
<1>2. ASSUME NEW k, Escape(k) PROVE chord' \in BOOLEAN
  BY <1>2 DEF Escape
<1> QED
  BY <1>1, <1>2

(* Every step of the shell keeps its invariant.                            *)
LEMMA ShellKept == ShellInv /\ ShellNext => ShellInv'
BY LayersKept, AskKept, ToastKept, ThemesKept, PaletteKept, ChordStep, MovesStep DEF ShellInv, AskInv

(* A shell that has just been mounted, or taken down, holds nothing.       *)
LEMMA FreshShell ==
    ASSUME ShellInv, Fresh, page' \in Pages, ThemeTypes', key' = FALSE, moves' = moves
    PROVE  ShellInv'
<1>1. LayersInv'
  BY ShowKept DEF Fresh, LayersInv
<1>2. AskInv'
  BY DEF Fresh, Show, AskInv, ShellInv, LastQuestionIsShown, Question
<1>3. ToastInv'
  BY DEF Fresh, ToastInv, ToastsWillLeave
<1>4. PaletteInv'
  BY DEF Fresh, Show, PaletteInv, HighlightIsAResult
<1> QED
  BY <1>1, <1>2, <1>3, <1>4 DEF ShellInv, Fresh

(* The shell follows a step of the session.                                *)
LEMMA FollowKept == ASSUME ShellInv, DocIsTheme, Follow PROVE ShellInv' /\ DocIsTheme' /\ PageIsShown'
<1>a. initial' \in Themes /\ page' \in Pages /\ key' = FALSE /\ UNCHANGED <<os, saved, sent, moves>> /\ PageIsShown'
  BY DEF Follow, ShellInv, LayersInv, ThemeTypes, PageIsShown
<1>b. \A t : IsDark(t, os) \in BOOLEAN
  BY DEF IsDark
<1>1. CASE Mounted' /\ Mounted
  <2>1. Reread(initial') /\ Show(open) /\ UNCHANGED <<asking, toasting, chord, palette>>
    BY <1>1 DEF Follow
  <2>2. ThemeTypes' /\ ThemeApplied'
    <3>1. ThemeApplied /\ ThemeTypes
      BY <1>1 DEF DocIsTheme, ShellInv
    <3>2. CASE UNCHANGED <<theme, stored, dark>>
      BY <1>a, <3>1, <3>2 DEF ThemeTypes, ThemeApplied, IsDark
    <3>3. CASE theme' = initial' /\ ApplyTheme(initial')
      <4>1. dark' \in BOOLEAN
        BY <1>b, <3>3 DEF ApplyTheme
      <4>2. dark' = IsDark(initial', os) /\ stored' = initial'
        BY <3>3 DEF ApplyTheme
      <4>3. IsDark(theme', os') = IsDark(initial', os)
        BY <1>a, <3>3
      <4> QED
        BY <1>a, <3>1, <3>3, <4>1, <4>2, <4>3 DEF ThemeTypes, ThemeApplied
    <3> QED
      BY <2>1, <3>2, <3>3 DEF Reread
  <2>3. LayersInv'
    BY <1>a, <2>1, ShowKept DEF ShellInv, LayersInv
  <2>4. AskInv' /\ ToastInv'
    BY <1>a, <2>1 DEF ShellInv, AskInv, ToastInv, ToastsWillLeave, LastQuestionIsShown, asking, toasting, Show
  <2>5. PaletteInv'
    BY <2>1 DEF ShellInv, PaletteInv, HighlightIsAResult, palette, Show, Flat, HostItems, ContainerItems
  <2> QED
    BY <1>a, <2>1, <2>2, <2>3, <2>4, <2>5 DEF ShellInv, DocIsTheme
<1>2. CASE Mounted' /\ ~Mounted
  <2>1. Mount(initial')
    BY <1>2 DEF Follow
  <2>2. theme' = initial' /\ stored' = initial' /\ dark' = IsDark(initial', os) /\ Fresh
    BY <2>1 DEF Mount, ApplyTheme
  <2>3. dark' \in BOOLEAN
    BY <1>b, <2>2
  <2>4. ThemeTypes'
    BY <1>a, <2>2, <2>3 DEF ThemeTypes, ShellInv
  <2>5. ThemeApplied'
    BY <1>a, <2>2 DEF ThemeApplied, IsDark
  <2> QED
    BY <1>a, <2>2, <2>4, <2>5, FreshShell DEF DocIsTheme
<1>3. CASE ~Mounted'
  <2>1. Unmount
    BY <1>3 DEF Follow
  <2>2. ThemeTypes'
    BY <1>a, <2>1 DEF Unmount, ThemeTypes, ShellInv
  <2> QED
    BY <1>3, <1>a, <2>1, <2>2, FreshShell DEF Unmount, DocIsTheme
<1> QED
  BY <1>1, <1>2, <1>3

(* The application's invariant holds at first.                             *)
LEMMA InitWebInv == Init => WebInv
<1> SUFFICES ASSUME Init PROVE WebInv
  OBVIOUS
<1>1. LayersInv
  BY ShellConstants DEF Init, ShellInit, LayersInv, Registered
<1>2. AskInv /\ ToastInv
  BY ShellConstants DEF Init, ShellInit, AskInv, ToastInv, LastQuestionIsShown, ToastsWillLeave
<1>3. ThemeTypes
  <2>1. dark \in BOOLEAN
    BY DEF Init, ShellInit, IsDark
  <2> QED
    BY <2>1 DEF Init, ShellInit, ThemeTypes
<1>4. PaletteInv /\ chord \in BOOLEAN /\ key \in BOOLEAN
  BY DEF Init, ShellInit, PaletteInv, HighlightIsAResult
<1>5. ThemeApplied
  BY DEF Init, ShellInit, ThemeApplied
<1>6. PageIsShown
  BY WebAppConstants DEF Init, ShellInit, Se!Init, PageIsShown
<1> QED
  BY <1>1, <1>2, <1>3, <1>4, <1>5, <1>6, InitSession DEF Init, WebInv, ShellInv, DocIsTheme

(* Links and shortcuts move the window inside the application.             *)
LEMMA InShellKept == ASSUME WebInv, InShell PROVE WebInv'
<1>1. ShellInv'
  BY ShellKept DEF WebInv, InShell
<1>2. ThemeApplied'
  BY AppliedKept DEF WebInv, InShell, DocIsTheme
<1>3. page' \in Pages /\ page \in Pages /\ page = at[Main] /\ at[Main] \in Pages
  BY <1>1 DEF ShellInv, LayersInv, WebInv, PageIsShown, InShell, Mounted
<1>4. Se!TypeOK'
  BY <1>3, WebAppConstants DEF WebInv, SessionInv, InShell, Se!TypeOK, Se!Places
<1>5. SessionsInv'
  <2>1. SessionsInv /\ at \in [Windows -> Se!Places] /\ goal \in [Windows -> Se!Places \cup {None}] /\ finished \in [Windows -> BOOLEAN]
    BY DEF WebInv, SessionInv, Se!TypeOK
  <2>2. CASE page' = page
    BY <1>3, <2>1, <2>2
       DEF InShell, SessionsInv, WindowInv, NextIsInside, AccountIsKnown, FormsAreOpen, GoalIsReached, SetupIsOver, Se!SignedIn, Se!NextPath
  <2>3. CASE page' # page
    BY <1>3, <2>1, <2>3, WebAppConstants
       DEF InShell, SessionsInv, WindowInv, NextIsInside, AccountIsKnown, FormsAreOpen, GoalIsReached, SetupIsOver, Se!SignedIn, Se!NextPath
  <2> QED
    BY <2>2, <2>3
<1>6. PageIsShown'
  BY WebAppConstants DEF InShell, PageIsShown, WebInv, SessionInv, Se!TypeOK
<1> QED
  BY <1>1, <1>2, <1>4, <1>5, <1>6 DEF WebInv, SessionInv, DocIsTheme, InShell

(* The sessions' invariant is about the session's variables only.          *)
LEMMA SessionFrame == SessionInv /\ UNCHANGED session => SessionInv'
BY DEF session, SessionInv, SessionsInv, WindowInv, NextIsInside, AccountIsKnown, FormsAreOpen, GoalIsReached, SetupIsOver,
       Se!SignedIn, Se!NextPath, Se!TypeOK

(* Every step of the application, in the shell or in a window, keeps the   *)
(* invariant.                                                              *)
LEMMA WebNext == WebInv /\ [Next]_vars => WebInv'
<1> SUFFICES ASSUME WebInv, [Next]_vars PROVE WebInv'
  OBVIOUS
<1>1. CASE InShell
  BY <1>1, InShellKept
<1>2. CASE WithoutShell
  <2>1. UNCHANGED <<session, failed>> /\ ~Mounted
    BY <1>2 DEF WithoutShell
  <2>2. ~Mounted'
    BY <2>1 DEF session, Mounted
  <2>3. SessionInv'
    BY <2>1, SessionFrame DEF WebInv
  <2>4. CASE \E p \in sent : PatchHandled(p)
    <3>1. ShellInv'
      BY <2>4, ShellKept DEF WebInv, ShellNext
    <3>2. page' = page
      BY <2>4 DEF PatchHandled
    <3> QED
      BY <2>1, <2>2, <2>3, <3>1, <3>2 DEF WebInv, DocIsTheme, PageIsShown, session
  <2>5. CASE Move /\ os' = (IF os = "dark" THEN "light" ELSE "dark")
             /\ UNCHANGED <<layers, asking, toasting, theme, stored, dark, saved, initial, sent, chord, palette>>
    <3>1. moves' \in 0..MaxMoves /\ moves' >= moves /\ key' = FALSE
      BY <2>5, ShellConstants DEF Move, WebInv, ShellInv, AskInv
    <3>2. LayersInv' /\ ToastInv' /\ ThemeTypes'
      BY <2>5 DEF WebInv, ShellInv, LayersInv, Registered, ToastInv, ToastsWillLeave, ThemeTypes, layers, toasting
    <3>3. AskInv'
      <4>1. blasts' \in 0..moves'
        BY <2>5, <3>1, ShellConstants DEF WebInv, ShellInv, AskInv, asking
      <4> QED
        BY <2>5, <3>1, <4>1 DEF WebInv, ShellInv, AskInv, LastQuestionIsShown, asking, layers
    <3>4. PaletteInv'
      BY <2>5 DEF WebInv, ShellInv, PaletteInv, HighlightIsAResult, palette, layers, Flat, HostItems, ContainerItems
    <3>5. ShellInv'
      BY <2>5, <3>1, <3>2, <3>3, <3>4 DEF WebInv, ShellInv
    <3> QED
      BY <2>1, <2>2, <2>3, <2>5, <3>5 DEF WebInv, DocIsTheme, PageIsShown, session, layers
  <2> QED
    BY <1>2, <2>4, <2>5 DEF WithoutShell
<1>3. CASE OfSession
  <2>1. SessionInv'
    BY <1>3, TypesKept, WindowsKept DEF OfSession, WebInv, SessionInv
  <2>2. failed' \in BOOLEAN
    BY <1>3 DEF OfSession, WebInv
  <2> QED
    BY <1>3, <2>1, <2>2, FollowKept DEF OfSession, WebInv
<1>4. CASE AuthFails
  <2>1. SessionInv'
    <3>1. turns' \in 0..MaxTurns
      BY <1>4, WebAppConstants DEF AuthFails, WebInv, SessionInv, Se!TypeOK
    <3> QED
      BY <1>4, <3>1
         DEF AuthFails, WebInv, SessionInv, SessionsInv, WindowInv, NextIsInside, AccountIsKnown, FormsAreOpen, GoalIsReached, SetupIsOver,
             Se!SignedIn, Se!NextPath, Se!TypeOK
  <2>2. failed' \in BOOLEAN
    BY <1>4 DEF AuthFails
  <2> QED
    BY <1>4, <2>1, <2>2, FollowKept DEF AuthFails, WebInv
<1>5. CASE UNCHANGED vars
  <2>1. UNCHANGED <<session, failed>> /\ UNCHANGED shell
    BY <1>5 DEF vars
  <2>2. SessionInv'
    BY <2>1, SessionFrame DEF WebInv
  <2>3. ShellInv'
    BY <2>1 DEF WebInv, ShellInv, shell, layers, asking, toasting, theming, palette, LayersInv, Registered, AskInv, LastQuestionIsShown,
         ToastInv, ToastsWillLeave, ThemeTypes, PaletteInv, HighlightIsAResult, Flat, HostItems, ContainerItems
  <2>4. DocIsTheme' /\ PageIsShown'
    BY <2>1 DEF WebInv, DocIsTheme, Mounted, ThemeApplied, IsDark, PageIsShown, session, shell, layers, theming
  <2> QED
    BY <2>1, <2>2, <2>3, <2>4 DEF WebInv
<1> QED
  BY <1>1, <1>2, <1>3, <1>4, <1>5 DEF Next

(* What the shell shows agrees with what it holds, whatever the session    *)
(* does around it (AppShell.tsx, CommandPalette.tsx, lib/theme.ts).        *)
THEOREM ShellStaysCoherent == Spec => []ShellIsCoherent
<1>1. WebInv => ShellIsCoherent
  BY ShellTypes DEF WebInv, ShellInv, SessionInv, ShellIsCoherent, TypeOK, AskInv, ToastInv, PaletteInv
<1> QED
  BY InitWebInv, WebNext, <1>1, PTL DEF Spec

(* A user who signed in returns to the page that sent them away, and a     *)
(* window that finished the setup is not asked again (login/page.tsx,      *)
(* setup/page.tsx).                                                        *)
THEOREM LandsRight == Spec => []LandsWhereItShould
<1>1. WebInv => LandsWhereItShould
  BY DEF WebInv, SessionInv, SessionsInv, WindowInv, GoalIsReached, SetupIsOver, LandsWhereItShould, ReturnsWhereItWas,
         FinishedSetupStays, Se!ReturnsWhereItWas, Se!FinishedSetupStays, Se!Settled
<1> QED
  BY InitWebInv, WebNext, <1>1, PTL DEF Spec

(* Only Escape is recorded as a key.                                       *)
LEMMA KeyIsEscape == Next /\ key' => \E k \in {"page", "palette", "term", "xterm"} : Escape(k)
<1>1. ShellNext => key' = FALSE \/ \E k \in {"page", "palette", "term", "xterm"} : Escape(k)
  BY DEF ShellNext, Asks, PressReboot, BlastKnown, TypeName, AnswerQuestion, Toast, Expire, ToastExpires, DismissToast, PatchHandled,
     SystemSwitches, TypeQuery, Enter, Arrow, ListAnswered, Click, OpenCreate, OpenTerminal, OpenPick, ClosePick, PickCreate,
     Close, CtrlK, ChordExpires, Press, Move
<1>2. WithoutShell \/ OfSession \/ AuthFails => key' = FALSE
  BY DEF WithoutShell, OfSession, AuthFails, Follow, PatchHandled, Move
<1> QED
  BY <1>1, <1>2 DEF Next, InShell

(* A listener of the capture phase keeps the key from the bubble phase.    *)
LEMMA EscapeStops ==
    ASSUME LayersInv, NEW k, Escape(k), open \cap {"create", "keys", "pick", "dialog"} # {}
    PROVE  open \cap {"side", "term", "notif", "confirm"} \subseteq open'
<1> DEFINE gone == (CaptureCloses \cup (IF Stops THEN {} ELSE BubbleCloses(k))) \cap open
           all == gone \cup (IF "dialog" \in gone THEN {"pick"} ELSE {})
<1>1. Stops
  BY DEF Stops, LayersInv, Registered, Listeners
<1>2. CaptureCloses \subseteq {"create", "keys", "pick", "dialog"}
  BY DEF CaptureCloses, LayersInv, Registered, Listeners
<1>3. all \subseteq {"create", "keys", "pick", "dialog"}
  BY <1>1, <1>2
<1>4. open' = open \ all
  BY DEF Escape, HideMenu, Show
<1> HIDE DEF all
<1> QED
  BY <1>3, <1>4

(* The bubble phase spares the side panel under a question.                *)
LEMMA EscapeShields ==
    ASSUME LayersInv, NEW k, Escape(k), {"confirm", "side"} \subseteq open
    PROVE  "side" \in open'
<1> DEFINE gone == (CaptureCloses \cup (IF Stops THEN {} ELSE BubbleCloses(k))) \cap open
           all == gone \cup (IF "dialog" \in gone THEN {"pick"} ELSE {})
<1>1. "side" \notin CaptureCloses
  BY DEF CaptureCloses, LayersInv, Registered, Listeners
<1>2. "side" \notin BubbleCloses(k)
  BY DEF BubbleCloses, Scrims
<1>3. "side" \notin all
  BY <1>1, <1>2
<1>4. open' = open \ all
  BY DEF Escape, HideMenu, Show
<1> HIDE DEF all
<1> QED
  BY <1>3, <1>4

(* One press of Escape closes one layer: what a menu or a dialog takes     *)
(* does not reach the panels and the question under it, and a question     *)
(* keeps the side panel (useOutside and Dialog of ui.tsx,                  *)
(* ContainerSidecar.tsx:46).                                               *)
THEOREM OneLayerCloses == Spec => OneLayerPerKey
<1>1. WebInv /\ [Next]_vars =>
        [key' /\ open \cap {"create", "keys", "pick", "dialog"} # {}
           => open \cap {"side", "term", "notif", "confirm"} \subseteq open']_shell
  BY KeyIsEscape, EscapeStops DEF WebInv, ShellInv, vars
<1>2. WebInv /\ [Next]_vars => [key' /\ {"confirm", "side"} \subseteq open => "side" \in open']_shell
  BY KeyIsEscape, EscapeShields DEF WebInv, ShellInv, vars
<1> QED
  BY InitWebInv, WebNext, <1>1, <1>2, PTL DEF Spec, OneLayerPerKey, EscapeStopsAtADialog, QuestionShieldsSidePanel
=============================================================================
