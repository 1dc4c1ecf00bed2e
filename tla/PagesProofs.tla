---------------------------- MODULE PagesProofs -----------------------------
(***************************************************************************)
(* Theorems about the pages and dialogs of Pages.  Each part proves the    *)
(* invariant of one page, module by module: that no step of its own breaks *)
(* it.  The last three parts put them together.                            *)
(***************************************************************************)
EXTENDS Pages, FiniteSetTheorems, SequenceTheorems, TLAPS

-----------------------------------------------------------------------------
(* What a run of test() carries from its dialog.                           *)
RunInv(r) ==
    /\ r.mount <= mounts /\ r.form.addr \in Addrs \ {None}
    /\ r.mount \in stopped => ~r.cur
    /\ r.about = r.form.addr \/ (r.edits # None /\ r.form.method = "password" /\ ~r.form.pw)
    /\ r.at \in {"post", "patch", "retest"} => r.ok /\ r.mount \notin stopped

(* The dialog on screen is the last one opened, and its form was complete  *)
(* when it left the first step.                                            *)
HostInv ==
    /\ HostTypeOK /\ moves \in Nat /\ mounts <= moves
    /\ hd # None => hd.mount = mounts /\ mounts \notin stopped /\ (hd.step # 0 => Complete(hd))
    /\ \A d \in stopped : d <= mounts
    /\ \A r \in tests : RunInv(r)

OnTest(d) == [d EXCEPT !.step = 2, !.result = "none", !.end = "none"]
(* The dialog that shows its test step is still the same dialog.           *)
LEMMA OnTestType == ASSUME NEW d \in Dialog PROVE OnTest(d) \in Dialog /\ OnTest(d).mount = d.mount /\ OnTest(d).form = d.form /\ OnTest(d).edits = d.edits
<1> DEFINE e == [d EXCEPT !.step = 2]
<1>1. e \in Dialog /\ e.mount = d.mount /\ e.form = d.form /\ e.edits = d.edits
  BY DEF Dialog
<1> HIDE DEF e
<1>2. [e EXCEPT !.result = "none", !.end = "none"] \in Dialog
  BY <1>1 DEF Dialog
<1>3. OnTest(d) = [e EXCEPT !.result = "none", !.end = "none"]
  BY DEF e, OnTest
<1> QED 
  BY <1>1, <1>2, <1>3 DEF Dialog

(* Runs that a new one outdates keep their facts.                          *)
LEMMA OutdatedInv ==
    ASSUME HostInv, NEW d \in Dialog, NEW r \in Outdated(d)
    PROVE  r \in TestRun /\ RunInv(r) /\ (r.mount = d.mount => ~r.cur)
<1>1. PICK s \in tests : r = IF s.mount = d.mount THEN [s EXCEPT !.cur = FALSE] ELSE s
  BY DEF Outdated
<1>2. s \in TestRun /\ RunInv(s)
  BY DEF HostInv, HostTypeOK
<1>3. CASE s.mount = d.mount
  BY <1>1, <1>2, <1>3 DEF TestRun, RunInv
<1>4. CASE s.mount # d.mount
  BY <1>1, <1>2, <1>4
<1> QED
  BY <1>3, <1>4

(* A run starts: the dialog's earlier ones are outdated.                   *)
LEMMA StartTestInv ==
    ASSUME HostInv, NEW d \in Dialog, StartTest(d), Complete(d), moves' \in Nat,
           mounts' \in mounts..moves', d.mount = mounts', d.mount \notin stopped, mounts' <= MaxMoves
    PROVE  HostInv'
<1> DEFINE n == [mount |-> d.mount, edits |-> d.edits, form |-> d.form, about |-> Tested(d),
                 at |-> "test", ok |-> FALSE, cur |-> TRUE]
<1>u. UNCHANGED <<hosts, deletes, stopped>> /\ mounts \in Nat /\ MaxMoves \in Nat /\ mounts <= mounts' /\ mounts' \in Nat
  BY BaseConstants DEF StartTest, HostInv, HostTypeOK
<1>1. hd' \in Dialog /\ hd'.mount = mounts' /\ Complete(hd')
  <2>1. hd' = OnTest(d)
    BY DEF StartTest, OnTest
  <2> QED
    BY <2>1, OnTestType DEF Complete
<1>2. d.form.addr \in Addrs \ {None} /\ Tested(d) \in Addrs /\ (Tested(d) = d.form.addr \/ (d.edits # None /\ d.form.method = "password" /\ ~d.form.pw))
  BY DEF Complete, Tested, Dialog, HostForm
<1>3. n \in TestRun
  BY <1>2 DEF TestRun, Dialog
<1>4. RunInv(n)'
  BY <1>u, <1>2 DEF RunInv
<1>5. ASSUME NEW r \in Outdated(d) PROVE r \in TestRun /\ RunInv(r)'
  BY <1>5, <1>u, OutdatedInv DEF RunInv, TestRun
<1>6. tests' = Outdated(d) \cup {n}
  BY DEF StartTest
<1>7. \A r \in tests' : r \in TestRun /\ RunInv(r)'
  BY <1>3, <1>4, <1>5, <1>6
<1>8. HostTypeOK'
  BY <1>u, <1>1, <1>7 DEF HostTypeOK, HostInv
<1>9. \A e \in stopped' : e <= mounts'
  BY <1>u DEF HostInv, HostTypeOK
<1> QED
  BY <1>u, <1>1, <1>7, <1>8, <1>9 DEF HostInv

(* No step of the host dialog, of its requests or of a delete breaks it.   *)
LEMMA HostStays == HostInv /\ HostStep => HostInv'
<1> SUFFICES ASSUME HostInv, HostStep PROVE HostInv'
  OBVIOUS
<1>a. HostTypeOK /\ moves \in Nat /\ mounts \in Nat /\ mounts <= MaxMoves /\ MaxMoves \in Nat
  BY BaseConstants DEF HostInv, HostTypeOK
<1>b. ASSUME UNCHANGED <<mounts, stopped>>, NEW r, RunInv(r) PROVE RunInv(r)'
  BY <1>b DEF RunInv
<1>c. ASSUME UNCHANGED <<mounts, tests, stopped>> PROVE \A r \in tests' : RunInv(r)'
  BY <1>c, <1>b DEF HostInv
<1>1. CASE ExistingArrives
  <2>1. hd \in Dialog /\ hd.edits \in Addrs \ {None}
    BY <1>1, <1>a DEF ExistingArrives, HostTypeOK, Dialog
  <2>2. PICK m \in Methods : hd' = [hd EXCEPT !.loaded = TRUE, !.form = [addr |-> hd.edits, method |-> m, pw |-> FALSE]]
    BY <1>1 DEF ExistingArrives
  <2>3. hd' \in Dialog /\ hd'.mount = hd.mount /\ Complete(hd')
    BY <2>1, <2>2 DEF Dialog, HostForm, Complete
  <2> QED
    BY <1>1, <1>a, <1>c, <2>3 DEF ExistingArrives, HostInv, HostTypeOK
<1>2. CASE HostNext
  <2>1. hd \in Dialog /\ hd.step = 0 /\ Complete(hd) /\ hd # None /\ UNCHANGED <<mounts, moves>>
    BY <1>2, <1>a DEF HostNext, HostTypeOK
  <2>2. CASE hd.form.method = "key"
    <3>1. hd' = [hd EXCEPT !.step = 1] /\ UNCHANGED <<hosts, tests, deletes, stopped>>
      BY <1>2, <2>2 DEF HostNext
    <3>2. hd' \in Dialog /\ hd'.mount = hd.mount /\ Complete(hd')
      BY <2>1, <3>1 DEF Dialog, Complete
    <3> QED
      BY <1>a, <1>c, <2>1, <3>1, <3>2 DEF HostInv, HostTypeOK
  <2>3. CASE StartTest(hd)
    BY <1>a, <2>1, <2>3, StartTestInv DEF HostInv
  <2> QED
    BY <1>2, <2>2, <2>3 DEF HostNext
<1>3. CASE KeyAdded
  BY <1>3, <1>a, StartTestInv DEF KeyAdded, HostInv, HostTypeOK
<1>4. CASE Retry
  BY <1>4, <1>a, StartTestInv DEF Retry, HostInv, HostTypeOK, Spend
<1>5. ASSUME NEW h \in Addrs \cup {None}, NEW p \in Addrs \cup {None}, OpenHost(h, p) PROVE HostInv'
  <2> DEFINE d == [mount |-> mounts', edits |-> h, step |-> 0, loaded |-> FALSE, result |-> "none", end |-> "none",
                 form |-> IF p = None THEN EmptyForm ELSE [addr |-> p, method |-> "password", pw |-> TRUE]]
  <2>1. mounts' = mounts + 1 /\ moves' = moves + 2 /\ moves + 2 <= MaxMoves
    BY <1>5 DEF OpenHost, Spend
  <2>2. mounts' \in 1..MaxMoves /\ mounts' \in mounts..moves' /\ moves' \in Nat
    BY <1>a, <2>1 DEF HostInv
  <2>3. d \in Dialog
    BY <2>2 DEF Dialog, HostForm, Methods, EmptyForm
  <2>4. mounts' \notin stopped
    BY <1>a, <2>1 DEF HostInv
  <2>5. CASE p = None
    <3>1. hd' = d /\ UNCHANGED <<hosts, tests, deletes, stopped>>
      BY <1>5, <2>5 DEF OpenHost
    <3>2. \A r \in tests' : RunInv(r)'
      BY <1>a, <2>1, <3>1 DEF HostInv, RunInv, HostTypeOK, TestRun
    <3>3. HostTypeOK'
      BY <1>a, <2>2, <2>3, <3>1 DEF HostTypeOK
    <3> QED
      BY <1>a, <2>1, <2>2, <2>4, <3>1, <3>2, <3>3 DEF HostInv, HostTypeOK
  <2>6. CASE p # None
    <3>1. StartTest(d)
      BY <1>5, <2>6 DEF OpenHost
    <3>2. Complete(d)
      BY <2>6 DEF Complete
    <3> QED
      BY <1>a, <2>2, <2>3, <2>4, <3>1, <3>2, StartTestInv
  <2> QED
    BY <2>5, <2>6
<1>6. ASSUME NEW f \in HostForm, SetForm(f) PROVE HostInv'
  <2>1. hd \in Dialog /\ hd.step = 0 /\ hd # None /\ hd' = [hd EXCEPT !.form = f] /\ moves' = moves + 2
    BY <1>6, <1>a DEF SetForm, HostTypeOK, Spend
  <2>2. hd' \in Dialog /\ hd'.mount = hd.mount /\ hd'.step = 0
    BY <2>1 DEF Dialog
  <2> QED
    BY <1>6, <1>a, <1>c, <2>1, <2>2 DEF SetForm, HostInv, HostTypeOK
<1>7. CASE HostBack
  <2>1. PICK n \in {0, 1} : hd' = [hd EXCEPT !.step = n]
    BY <1>7 DEF HostBack
  <2>2. hd \in Dialog /\ hd # None /\ Complete(hd)
    BY <1>7, <1>a DEF HostBack, HostTypeOK, HostInv
  <2>3. hd' \in Dialog /\ hd'.mount = hd.mount /\ Complete(hd')
    BY <2>1, <2>2 DEF Dialog, Complete
  <2> QED
    BY <1>7, <1>a, <1>c, <2>2, <2>3 DEF HostBack, HostInv, HostTypeOK
<1>8. CASE Again
  <2>1. hd \in Dialog /\ hd # None /\ moves' = moves + 1 /\ UNCHANGED <<hosts, mounts, deletes, stopped>> /\ tests' = Outdated(hd)
    BY <1>8, <1>a DEF Again, HostTypeOK, Move, Spend
  <2> DEFINE e == [hd EXCEPT !.form = EmptyForm]
             f == [e EXCEPT !.result = "none", !.end = "none"]
  <2>2. e \in Dialog /\ e.mount = hd.mount
    BY <2>1 DEF Dialog, HostForm, EmptyForm, Methods
  <2>3. hd' = [f EXCEPT !.step = 0]
    BY <1>8 DEF Again
  <2> HIDE DEF e
  <2>4. f \in Dialog /\ f.mount = hd.mount
    BY <2>2 DEF Dialog
  <2> HIDE DEF f
  <2>m. hd' \in Dialog /\ hd'.mount = hd.mount /\ hd'.step = 0
    BY <2>3, <2>4 DEF Dialog
  <2>5. \A r \in tests' : r \in TestRun /\ RunInv(r)'
    BY <1>b, <2>1, OutdatedInv
  <2> QED
    BY <1>a, <2>1, <2>m, <2>5 DEF HostInv, HostTypeOK
<1>9. CASE CancelTest
  <2>1. hd \in Dialog /\ hd' = None /\ UNCHANGED <<hosts, mounts, deletes, moves>> /\ tests' = Outdated(hd)
    BY <1>9, <1>a DEF CancelTest, HostTypeOK
  <2>2. CASE \E r \in tests : r.mount = hd.mount /\ r.at \in {"post", "patch", "retest"}
    <3>1. stopped' = stopped
      BY <1>9, <2>2 DEF CancelTest
    <3>2. \A r \in tests' : r \in TestRun /\ RunInv(r)'
      BY <1>b, <2>1, <3>1, OutdatedInv
    <3> QED
      BY <1>a, <2>1, <3>1, <3>2 DEF HostInv, HostTypeOK
  <2>3. CASE ~\E r \in tests : r.mount = hd.mount /\ r.at \in {"post", "patch", "retest"}
    <3>1. stopped' = stopped \cup {hd.mount}
      BY <1>9, <2>3 DEF CancelTest
    <3>2. ASSUME NEW r \in tests' PROVE r \in TestRun /\ RunInv(r)'
      <4>1. r \in TestRun /\ RunInv(r) /\ (r.mount = hd.mount => ~r.cur)
        BY <2>1, <3>2, OutdatedInv
      <4>2. r.mount = hd.mount => r.at \notin {"post", "patch", "retest"}
        BY <2>1, <2>3, <3>2 DEF Outdated, HostTypeOK, TestRun, HostInv
      <4> QED
        BY <2>1, <3>1, <4>1, <4>2 DEF RunInv
    <3>3. hd.mount = mounts /\ hd.mount \in 1..MaxMoves
      BY <2>1, <1>9 DEF HostInv, CancelTest, Dialog
    <3> QED
      BY <1>a, <2>1, <3>1, <3>2, <3>3 DEF HostInv, HostTypeOK
  <2> QED
    BY <2>2, <2>3
<1>10. CASE CloseHost
  BY <1>10, <1>a, <1>c DEF CloseHost, HostInv, HostTypeOK
<1>11. CASE RemoveHost
  <2>1. hd \in Dialog /\ hd.edits \in Addrs /\ moves' = moves + 1
    BY <1>11, <1>a DEF RemoveHost, HostTypeOK, Dialog, Move, Spend
  <2>2. deletes' \subseteq [mount : 1..MaxMoves, host : Addrs]
    BY <1>11, <1>a, <2>1 DEF RemoveHost, HostTypeOK, Dialog
  <2> QED
    BY <1>11, <1>a, <1>c, <2>1, <2>2 DEF RemoveHost, HostInv, HostTypeOK
<1>12. ASSUME NEW q \in deletes, DeleteAnswers(q) PROVE HostInv'
  BY <1>12, <1>a, <1>c DEF DeleteAnswers, HostInv, HostTypeOK
<1>13. ASSUME NEW r \in tests, TestAnswers(r) \/ Revealed(r) \/ PostAnswers(r) \/ PatchAnswers(r) \/ RetestAnswers(r) PROVE HostInv'
  <2>a. r \in TestRun /\ RunInv(r) /\ \A t \in tests : t \in TestRun /\ RunInv(t)
    BY <1>13, <1>a DEF HostInv, HostTypeOK
  <2>b. UNCHANGED <<mounts, stopped, moves>>
    BY <1>13 DEF TestAnswers, Revealed, PostAnswers, PatchAnswers, RetestAnswers
  <2>c. ASSUME NEW s, Goes(r, s), s \in TestRun, RunInv(s) PROVE \A t \in tests' : t \in TestRun /\ RunInv(t)'
    BY <1>b, <2>a, <2>b, <2>c DEF Goes
  <2>d. ASSUME Returns(r) PROVE \A t \in tests' : t \in TestRun /\ RunInv(t)'
    BY <1>b, <2>a, <2>b, <2>d DEF Returns
  <2>e. hd = hd' => hd' = None \/ hd' \in Dialog
    BY <1>a DEF HostTypeOK
  <2>f. ASSUME NEW e \in {"saved", "error"}, Ends(r, e) PROVE hd' # None => hd' \in Dialog /\ hd'.mount = mounts /\ mounts \notin stopped /\ (hd'.step # 0 => Complete(hd'))
    BY <1>a, <2>f DEF Ends, HostInv, HostTypeOK, Shows, Dialog, Complete
  <2>g. ASSUME hd' # None => hd' \in Dialog /\ hd'.mount = mounts /\ mounts \notin stopped /\ (hd'.step # 0 => Complete(hd')),
               \A t \in tests' : t \in TestRun /\ RunInv(t)', hosts' \subseteq Addrs, UNCHANGED deletes
        PROVE  HostInv'
    BY <1>a, <2>b, <2>g DEF HostInv, HostTypeOK
  <2>1. CASE TestAnswers(r)
    <3>1. CASE ~r.cur
      BY <1>a, <2>1, <2>d, <2>g, <3>1 DEF TestAnswers, HostInv, HostTypeOK
    <3>2. ASSUME NEW ok \in BOOLEAN, ShowResult(r, ok), r.at = "test", UNCHANGED <<hosts, deletes>> PROVE HostInv'
      <4> DEFINE s == [r EXCEPT !.at = "reveal", !.ok = ok]
      <4>1. s \in TestRun /\ s.cur = r.cur /\ s.mount = r.mount /\ s.form = r.form /\ s.edits = r.edits /\ s.about = r.about /\ s.at = "reveal"
        BY <2>a DEF TestRun
      <4>2. RunInv(s)
        BY <2>a, <4>1 DEF RunInv
      <4>3. Goes(r, s)
        BY <3>2 DEF ShowResult
      <4>4. hd' # None => hd' \in Dialog /\ hd'.mount = mounts /\ mounts \notin stopped /\ (hd'.step # 0 => Complete(hd'))
        BY <1>a, <3>2 DEF ShowResult, HostInv, HostTypeOK, Dialog, Complete, Shows
      <4> HIDE DEF s
      <4> QED
        BY <1>a, <2>c, <2>g, <3>2, <4>1, <4>2, <4>3, <4>4 DEF HostTypeOK
    <3> QED
      BY <2>1, <3>1, <3>2 DEF TestAnswers
  <2>2. CASE Revealed(r)
    <3>1. hd' # None => hd' \in Dialog /\ hd'.mount = mounts /\ mounts \notin stopped /\ (hd'.step # 0 => Complete(hd'))
      BY <1>a, <2>2 DEF Revealed, HostInv, HostTypeOK
    <3>2. CASE Returns(r)
      BY <1>a, <2>2, <2>d, <2>g, <3>1, <3>2 DEF Revealed, HostTypeOK
    <3>3. CASE ~Returns(r)
      <4>1. r.cur /\ r.ok
        BY <2>2, <3>3 DEF Revealed, MayGoOn
      <4>2. PICK k \in {"patch", "post"} : Goes(r, [r EXCEPT !.at = k])
        BY <2>2, <4>1 DEF Revealed, MayGoOn
      <4>3. [r EXCEPT !.at = k] \in TestRun /\ RunInv([r EXCEPT !.at = k])
        BY <2>a, <4>1 DEF TestRun, RunInv
      <4> QED
        BY <1>a, <2>2, <2>c, <2>g, <3>1, <4>2, <4>3 DEF Revealed, HostTypeOK
    <3> QED
      BY <3>2, <3>3
  <2>3. CASE PostAnswers(r)
    BY <1>a, <2>3, <2>a, <2>d, <2>f, <2>g DEF PostAnswers, HostTypeOK, RunInv
  <2>4. CASE RetestAnswers(r)
    BY <1>a, <2>4, <2>d, <2>f, <2>g DEF RetestAnswers, HostTypeOK
  <2>5. CASE PatchAnswers(r) /\ Returns(r) /\ hosts' = hosts /\ Ends(r, "error") /\ UNCHANGED deletes
    BY <1>a, <2>5, <2>d, <2>f, <2>g DEF HostTypeOK
  <2>6. CASE /\ PatchAnswers(r)
             /\ hosts' = (hosts \ {r.edits}) \cup {r.form.addr}
             /\ tests' = {[t EXCEPT !.edits = Moved(@, r), !.at = IF t = r THEN "retest" ELSE @] : t \in tests}
             /\ hd' = IF hd # None THEN [hd EXCEPT !.edits = Moved(@, r)] ELSE hd
             /\ deletes' = {[q EXCEPT !.host = Moved(@, r)] : q \in deletes}
    <3>1. r.at = "patch" /\ r.ok /\ r.form.addr \in Addrs \ {None} /\ r.mount \notin stopped
      BY <2>a, <2>6 DEF PatchAnswers, RunInv
    <3>2. ASSUME NEW t \in tests PROVE [t EXCEPT !.edits = Moved(@, r), !.at = IF t = r THEN "retest" ELSE @] \in TestRun
                  /\ RunInv([t EXCEPT !.edits = Moved(@, r), !.at = IF t = r THEN "retest" ELSE @])
      <4> DEFINE k == IF t = r THEN "retest" ELSE t.at
                 s == [t EXCEPT !.edits = Moved(t.edits, r), !.at = k]
      <4>1. k \in {"test", "reveal", "post", "patch", "retest"} /\ Moved(t.edits, r) \in Addrs \cup {None} /\ (t.edits # None => Moved(t.edits, r) # None)
        BY <2>a, <3>1, <3>2 DEF TestRun, Moved
      <4>2. s \in TestRun /\ s.cur = t.cur /\ s.mount = t.mount /\ s.form = t.form /\ s.edits = Moved(t.edits, r) /\ s.about = t.about /\ s.at = k /\ s.ok = t.ok
        BY <2>a, <3>2, <4>1 DEF TestRun
      <4>3. RunInv(s)
        BY <2>a, <3>1, <3>2, <4>1, <4>2 DEF RunInv
      <4> QED
        BY <4>2, <4>3
    <3>3. \A t \in tests' : t \in TestRun /\ RunInv(t)'
      BY <1>b, <2>6, <2>b, <3>2
    <3>4. hd' # None => hd' \in Dialog /\ hd'.mount = mounts /\ mounts \notin stopped /\ (hd'.step # 0 => Complete(hd'))
      BY <1>a, <2>6, <3>1 DEF HostInv, HostTypeOK, Dialog, Complete, Moved
    <3>5. deletes' \subseteq [mount : 1..MaxMoves, host : Addrs]
      BY <1>a, <2>6, <3>1 DEF HostTypeOK, Moved
    <3>6. hosts' \subseteq Addrs
      BY <1>a, <2>6, <3>1 DEF HostTypeOK
    <3> QED
      BY <1>a, <2>b, <3>3, <3>4, <3>5, <3>6 DEF HostInv, HostTypeOK
  <2> QED
    BY <1>13, <2>1, <2>2, <2>3, <2>4, <2>5, <2>6 DEF PatchAnswers
<1> QED
  BY <1>1, <1>2, <1>3, <1>4, <1>5, <1>6, <1>7, <1>8, <1>9, <1>10, <1>11, <1>12, <1>13 DEF HostStep

-----------------------------------------------------------------------------
(* A form that is busy has one request on its way and stays with what it   *)
(* sent unless it was edited meanwhile; a form that offers Save anyway has *)
(* been refused.                                                           *)
LoginInv ==
    /\ moves \in Nat /\ cform \in CForm \cup {None} /\ csaves \subseteq CSave
    /\ TestedLoginWorks
    /\ \A q \in csaves : q.form <= moves /\ (q.at = "post" /\ ~q.skip => q.body \in GoodLogins)
    /\ cform # None =>
        /\ cform.nr <= moves
        /\ cform.failed /\ ~raced => cform.input \in refused
        /\ \A q \in csaves : q.form = cform.nr =>
            /\ cform.busy /\ (~raced => q.body = cform.input) /\ (q.skip /\ ~raced => q.body \in refused)
            /\ \A p \in csaves : p.form = cform.nr => p = q

(* No step of a login form or of its requests breaks it.                   *)
LEMMA LoginStays == LoginInv /\ LoginStep => LoginInv'
<1> SUFFICES ASSUME LoginInv, LoginStep PROVE LoginInv'
  OBVIOUS
<1> USE BaseConstants
<1>1. CASE AddLogin
  <2>1. PICK x \in Logins : cform' = [nr |-> moves', input |-> x, failed |-> FALSE, busy |-> FALSE]
    BY <1>1 DEF AddLogin
  <2>2. moves' = moves + 1 /\ moves + 1 <= MaxMoves /\ moves \in Nat
    BY <1>1 DEF AddLogin, Move, Spend, LoginInv
  <2>3. cform' \in CForm
    BY <2>1, <2>2 DEF CForm
  <2>4. \A q \in csaves' : q.form <= moves' /\ q.form # cform'.nr
    BY <1>1, <2>1, <2>2 DEF AddLogin, LoginInv, CSave
  <2> QED
    BY <1>1, <2>1, <2>2, <2>3, <2>4 DEF AddLogin, LoginInv, TestedLoginWorks
<1>2. CASE CancelLogin
  BY <1>2 DEF CancelLogin, LoginInv, TestedLoginWorks
<1>3. ASSUME NEW x \in Logins, EditLogin(x) PROVE LoginInv'
  <2>1. moves' = moves + 1 /\ cform \in CForm /\ moves \in Nat
    BY <1>3 DEF EditLogin, Move, Spend, LoginInv
  <2>2. cform' \in CForm /\ cform'.nr = cform.nr /\ cform'.busy = cform.busy /\ cform'.input = x /\ ~cform'.failed
    BY <1>3, <2>1 DEF EditLogin, Edited, CForm
  <2>3. \A q \in csaves' : q.form <= moves'
    BY <1>3, <2>1 DEF EditLogin, LoginInv, CSave
  <2> QED
    BY <1>3, <2>1, <2>2, <2>3 DEF EditLogin, LoginInv, TestedLoginWorks, CForm
<1>4. ASSUME NEW skip \in BOOLEAN, SaveLogin(skip) PROVE LoginInv'
  <2> DEFINE n == [form |-> cform.nr, body |-> cform.input, skip |-> skip, at |-> IF skip THEN "post" ELSE "test", nr |-> moves']
  <2>1. moves' = moves + 1 /\ moves + 1 <= MaxMoves /\ cform \in CForm /\ moves \in Nat /\ ~cform.busy /\ csaves' = csaves \cup {n}
    BY <1>4 DEF SaveLogin, Move, Spend, LoginInv
  <2>2. cform' \in CForm /\ cform'.nr = cform.nr /\ cform'.busy /\ cform'.input = cform.input /\ cform'.failed = cform.failed
    BY <1>4, <2>1 DEF SaveLogin, CForm
  <2>3. n \in CSave
    BY <2>1 DEF CForm, CSave
  <2>4. \A q \in csaves : q.form # cform.nr
    BY <1>4, <2>1 DEF LoginInv, SaveLogin
  <2>5. \A q \in csaves' : q.form <= moves'
    BY <1>4, <2>1 DEF LoginInv, CSave, CForm, SaveLogin
  <2> QED
    BY <1>4, <2>1, <2>2, <2>3, <2>4, <2>5 DEF SaveLogin, LoginInv, TestedLoginWorks
<1>5. ASSUME NEW q \in csaves, LoginAccepted(q) PROVE LoginInv'
  <2> DEFINE n == [q EXCEPT !.at = "post", !.body = CredBody(q)]
  <2>1. n \in CSave /\ n.form = q.form /\ n.body = q.body /\ n.skip = q.skip /\ q.body \in GoodLogins
    BY <1>5 DEF LoginAccepted, CSave, CredBody, LoginInv
  <2>2. csaves' = (csaves \ {q}) \cup {n} /\ UNCHANGED <<cform, creds, refused, raced, moves>>
    BY <1>5 DEF LoginAccepted
  <2> HIDE DEF n
  <2> QED
    BY <1>5, <2>1, <2>2 DEF LoginInv, TestedLoginWorks
<1>6. ASSUME NEW q \in csaves, LoginRefused(q) PROVE LoginInv'
  <2>1. csaves' = csaves \ {q} /\ refused' = refused \cup {q.body} /\ UNCHANGED <<creds, raced, moves>>
    BY <1>6 DEF LoginRefused
  <2>2. CASE cform # None /\ cform.nr = q.form
    <3>1. cform \in CForm /\ cform' = [cform EXCEPT !.failed = TRUE, !.busy = FALSE]
      BY <1>6, <2>2 DEF LoginRefused, ToForm, LoginInv
    <3>2. cform' \in CForm /\ cform'.nr = cform.nr /\ cform'.input = cform.input
      BY <3>1 DEF CForm
    <3> QED
      BY <1>6, <2>1, <2>2, <3>2 DEF LoginInv, TestedLoginWorks
  <2>3. CASE ~(cform # None /\ cform.nr = q.form)
    BY <1>6, <2>1, <2>3 DEF LoginInv, TestedLoginWorks, LoginRefused, ToForm
  <2> QED
    BY <2>2, <2>3
<1>7. ASSUME NEW q \in csaves, LoginSaved(q) PROVE LoginInv'
  <2>1. csaves' = csaves \ {q} /\ cform' = None /\ UNCHANGED <<refused, raced, moves>>
        /\ creds' = creds \cup {[login |-> q.body, tested |-> ~q.skip]} /\ q.at = "post" /\ q.skip \in BOOLEAN
    BY <1>7 DEF LoginSaved, LoginInv, CSave
  <2>2. ASSUME NEW c \in creds', c.tested PROVE c.login \in GoodLogins
    <3>1. CASE c \in creds
      BY <2>2, <3>1 DEF LoginInv, TestedLoginWorks
    <3>2. CASE c = [login |-> q.body, tested |-> ~q.skip]
      <4>1. c.login = q.body /\ c.tested = ~q.skip
        BY <3>2
      <4> QED
        BY <1>7, <2>1, <2>2, <4>1 DEF LoginInv
    <3> QED
      BY <2>1, <3>1, <3>2
  <2> QED
    BY <2>1, <2>2 DEF LoginInv, TestedLoginWorks
<1>8. ASSUME NEW q \in csaves, SaveFailed(q) PROVE LoginInv'
  <2>1. csaves' = csaves \ {q} /\ UNCHANGED <<creds, refused, raced, moves>>
    BY <1>8 DEF SaveFailed
  <2>2. CASE cform # None /\ cform.nr = q.form
    <3>1. cform \in CForm /\ cform' = [cform EXCEPT !.busy = FALSE]
      BY <1>8, <2>2 DEF SaveFailed, ToForm, LoginInv
    <3>2. cform' \in CForm /\ cform'.nr = cform.nr /\ cform'.input = cform.input /\ cform'.failed = cform.failed
      BY <3>1 DEF CForm
    <3> QED
      BY <1>8, <2>1, <2>2, <3>2 DEF LoginInv, TestedLoginWorks
  <2>3. CASE ~(cform # None /\ cform.nr = q.form)
    BY <1>8, <2>1, <2>3 DEF LoginInv, TestedLoginWorks, SaveFailed, ToForm
  <2> QED
    BY <2>2, <2>3
<1>9. ASSUME NEW c \in creds, RemoveLogin(c) PROVE LoginInv'
  <2>1. moves' = moves + 1 /\ moves \in Nat
    BY <1>9 DEF RemoveLogin, Move, Spend, LoginInv
  <2>2. \A q \in csaves : q.form <= moves'
    BY <2>1 DEF LoginInv, CSave
  <2>3. cform # None => cform.nr <= moves'
    BY <2>1 DEF LoginInv, CForm
  <2> QED
    BY <1>9, <2>1, <2>2, <2>3 DEF RemoveLogin, LoginInv, TestedLoginWorks
<1> QED
  BY <1>1, <1>2, <1>3, <1>4, <1>5, <1>6, <1>7, <1>8, <1>9 DEF LoginStep

-----------------------------------------------------------------------------
(* The requests of deploy(): the form that sent the last one is busy.      *)
PostsInv ==
    /\ conf \in Nat /\ mount \in Nat /\ OnePostPerForm
    /\ \A p \in posts :
        /\ p.conf \in Nat /\ p.mount \in Nat /\ p.conf <= conf
        /\ p.conf = conf => p.mount = mount /\ busy

(* A form that is reset gets a new number, which no request has.           *)
LEMMA NewFormPosts ==
    ASSUME PostsInv, conf' = conf + 1, mount' \in Nat, posts' = posts
    PROVE  PostsInv'
BY DEF PostsInv, OnePostPerForm

(* No step of a deploy page breaks it, and no other page touches it.       *)
LEMMA DeployPosts == PostsInv /\ (DeployStep \/ UNCHANGED deployVars) => PostsInv'
<1> SUFFICES ASSUME PostsInv, DeployStep \/ UNCHANGED deployVars PROVE PostsInv'
  OBVIOUS
<1>s. ASSUME UNCHANGED <<conf, mount, busy, posts>> PROVE PostsInv'
  BY <1>s DEF PostsInv, OnePostPerForm
<1>1. ASSUME NEW m, NEW i, SwitchMode(m, i) PROVE PostsInv'
  BY <1>1, NewFormPosts DEF SwitchMode, NewForm, PostsInv
<1>2. ASSUME NEW i, TypeTerm(i) PROVE PostsInv'
  BY <1>s, <1>2 DEF TypeTerm, form
<1>3. ASSUME NEW i, Pick(i) PROVE PostsInv'
  BY <1>3, NewFormPosts DEF Pick, NewForm, PostsInv
<1>4. ASSUME NEW i, NameStack(i) PROVE PostsInv'
  BY <1>s, <1>4 DEF NameStack
<1>5. CASE Debounce \/ ArrowDown \/ NextStep \/ Back \/ CheckAsks \/ ValidAsks \/ Poll \/ DeployAnother
  BY <1>s, <1>5 DEF Debounce, ArrowDown, NextStep, Back, CheckAsks, ValidAsks, Poll, DeployAnother, form
<1>6. ASSUME NEW b, InspectAnswers(b) \/ ChangeBranch(b) PROVE PostsInv'
  BY <1>s, <1>6 DEF InspectAnswers, ChangeBranch
<1>7. ASSUME NEW x, Edit(x) \/ ApplyFix(x) PROVE PostsInv'
  BY <1>s, <1>7 DEF Edit, ApplyFix, SetField
<1>8. ASSUME NEW h, PickHost(h) \/ HostsChange(h) PROVE PostsInv'
  BY <1>s, <1>8 DEF PickHost, HostsChange
<1>9. ASSUME NEW a, CheckAnswers(a) \/ ValidAnswers(a) PROVE PostsInv'
  BY <1>s, <1>9 DEF CheckAnswers, ValidAnswers
<1>10. CASE Deploy
  <2>1. ~busy /\ busy' = TRUE /\ UNCHANGED <<mount, conf>>
    BY <1>10 DEF Deploy, MayDeploy, form
  <2> DEFINE n == [id |-> moves', mount |-> mount, conf |-> conf, item |-> item, host |-> Target]
  <2>2. posts' = posts \cup {n} /\ n.conf = conf /\ n.mount = mount
    BY <1>10 DEF Deploy
  <2> HIDE DEF n
  <2>3. \A p \in posts : p.conf # conf
    BY <2>1 DEF PostsInv
  <2> QED
    BY <2>1, <2>2, <2>3 DEF PostsInv, OnePostPerForm
<1>11. ASSUME NEW p \in posts, PostOk(p) \/ PostFails(p) PROVE PostsInv'
  <2>1. posts' = posts \ {p} /\ NotBusy(p) /\ UNCHANGED <<mount, conf>>
    BY <1>11 DEF PostOk, PostFails, form
  <2> QED
    BY <2>1 DEF NotBusy, PostsInv, OnePostPerForm
<1>12. ASSUME NEW j, JobEnds(j) PROVE PostsInv'
  BY <1>s, <1>12 DEF JobEnds, form
<1>13. CASE BackToConfiguration
  BY <1>s, <1>13, NewFormPosts DEF BackToConfiguration, NewForm, PostsInv
<1>14. CASE UNCHANGED deployVars
  BY <1>s, <1>14 DEF deployVars, form
<1> QED
  BY <1>1, <1>2, <1>3, <1>4, <1>5, <1>6, <1>7, <1>8, <1>9, <1>10, <1>11, <1>12, <1>13, <1>14 DEF DeployStep

-----------------------------------------------------------------------------
(* The end of a job.                                                       *)
DeployJob == [mount : Nat, item : Items \cup {None}, status : {"running", "success", "failed"}]
AnnounceInv ==
    /\ item \in Items \cup {None} /\ \A p \in posts : p.mount \in Nat /\ p.item \in Items \cup {None}
    /\ mount \in Nat /\ jobs \in Seq(DeployJob) /\ announced \in [Ids -> Nat]
    /\ AnnouncedOnce /\ FollowsItsOwnJob
    /\ step = 2 => job \in 1..Len(jobs) /\ (~notified /\ job \in Ids => announced[job] = 0)

(* A late answer of a flow that was left starts no following; a job is     *)
(* announced by the poll that first finds it ended.                        *)
LEMMA AnnounceStays == AnnounceInv /\ (DeployStep \/ UNCHANGED deployVars) => AnnounceInv'
<1> SUFFICES ASSUME AnnounceInv, DeployStep \/ UNCHANGED deployVars PROVE AnnounceInv'
  OBVIOUS
<1> USE DEF AnnounceInv, AnnouncedOnce, FollowsItsOwnJob
<1>s. ASSUME UNCHANGED <<mount, posts, jobs, announced, job, notified>>, item' \in Items \cup {None}, step' = step \/ step' # 2 PROVE AnnounceInv'
  BY <1>s
<1>1. ASSUME NEW m, NEW i \in Items \cup {None}, SwitchMode(m, i) PROVE AnnounceInv'
  BY <1>1 DEF SwitchMode
<1>2. ASSUME NEW i \in Items, TypeTerm(i) \/ Pick(i) \/ NameStack(i) PROVE AnnounceInv'
  BY <1>s, <1>2 DEF TypeTerm, Pick, NameStack, form, progress
<1>5. CASE Debounce \/ ArrowDown \/ NextStep \/ Back \/ CheckAsks \/ ValidAsks
  BY <1>s, <1>5 DEF Debounce, ArrowDown, NextStep, Back, CheckAsks, ValidAsks, form, progress
<1>6. ASSUME NEW b, InspectAnswers(b) \/ ChangeBranch(b) PROVE AnnounceInv'
  BY <1>s, <1>6 DEF InspectAnswers, ChangeBranch, progress
<1>7. ASSUME NEW x, Edit(x) \/ ApplyFix(x) PROVE AnnounceInv'
  BY <1>s, <1>7 DEF Edit, ApplyFix, SetField, progress
<1>8. ASSUME NEW h, PickHost(h) \/ HostsChange(h) PROVE AnnounceInv'
  BY <1>s, <1>8 DEF PickHost, HostsChange, progress
<1>9. ASSUME NEW a, CheckAnswers(a) \/ ValidAnswers(a) PROVE AnnounceInv'
  BY <1>s, <1>9 DEF CheckAnswers, ValidAnswers, progress
<1>10. CASE Deploy
  BY <1>10 DEF Deploy, form, progress
<1>11. ASSUME NEW p \in posts, PostFails(p) PROVE AnnounceInv'
  BY <1>11 DEF PostFails, form, progress
<1>12. ASSUME NEW p \in posts, PostOk(p) PROVE AnnounceInv'
  <2> DEFINE n == [mount |-> p.mount, item |-> p.item, status |-> "running"]
  <2>1. jobs' = Append(jobs, n) /\ posts' = posts \ {p} /\ UNCHANGED <<mount, item, announced>>
    BY <1>12 DEF PostOk
  <2>2. n \in DeployJob /\ n.mount = p.mount
    BY DEF DeployJob
  <2> HIDE DEF n
  <2>3. jobs' \in Seq(DeployJob) /\ Len(jobs') = Len(jobs) + 1 /\ Len(jobs) \in Nat
        /\ (\A i \in 1..Len(jobs) : jobs'[i] = jobs[i]) /\ jobs'[Len(jobs) + 1] = n
    BY <2>1, <2>2
  <2>4. AnnouncedOnce'
    <3>1. ASSUME NEW j \in Ids PROVE announced'[j] <= 1 /\ (announced'[j] = 1 => j <= Len(jobs') /\ jobs'[j].status # "running")
      <4>1. announced'[j] <= 1 /\ (announced'[j] = 1 => j <= Len(jobs) /\ jobs[j].status # "running")
        BY <2>1, <3>1
      <4> QED
        BY <2>3, <3>1, <4>1 DEF Ids
    <3> QED
      BY <3>1
  <2>5. item' \in Items \cup {None} /\ (\A q \in posts' : q.mount \in Nat /\ q.item \in Items \cup {None}) /\ mount' \in Nat /\ announced' \in [Ids -> Nat]
    BY <2>1
  <2>6. step' = 2 => job' \in 1..Len(jobs') /\ jobs'[job'].mount = mount' /\ (~notified' /\ job' \in Ids => announced'[job'] = 0)
    <3>1. CASE p.mount = mount
      <4>1. job' = Len(jobs) + 1 /\ step' = 2
        BY <1>12, <3>1 DEF PostOk, Mounted
      <4>2. job' \in Ids => announced'[job'] = 0
        <5>1. \A j \in Ids : announced[j] \in Nat /\ announced[j] <= 1 /\ (announced[j] = 1 => j <= Len(jobs))
          OBVIOUS
        <5> QED
          BY <2>1, <2>3, <4>1, <5>1 DEF Ids
      <4> QED
        BY <2>1, <2>2, <2>3, <3>1, <4>1, <4>2
    <3>2. CASE p.mount # mount
      <4>1. UNCHANGED <<step, job, notified>>
        BY <1>12, <3>2 DEF PostOk, Mounted
      <4> QED
        BY <2>1, <2>3, <4>1
    <3> QED
      BY <3>1, <3>2
  <2> QED
    BY <2>3, <2>4, <2>5, <2>6
<1>13. ASSUME NEW j \in 1..Len(jobs), JobEnds(j) PROVE AnnounceInv'
  <2>1. PICK s \in {"success", "failed"} : jobs' = [jobs EXCEPT ![j].status = s]
    BY <1>13 DEF JobEnds
  <2>2. jobs[j].status = "running" /\ UNCHANGED <<mount, item, step, posts, job, notified, announced>>
    BY <1>13 DEF JobEnds, form, progress
  <2> DEFINE n == [jobs[j] EXCEPT !.status = s]
  <2>j. jobs[j] \in DeployJob
    BY <1>13
  <2>3. n \in DeployJob /\ n.mount = jobs[j].mount /\ n.status # "running"
    BY <2>j DEF DeployJob
  <2>4. jobs' = [jobs EXCEPT ![j] = n]
    BY <2>1
  <2> HIDE DEF n
  <2>5. jobs' \in Seq(DeployJob) /\ Len(jobs') = Len(jobs)
    BY <1>13, <2>3, <2>4
  <2>6. \A i \in 1..Len(jobs) : jobs'[i].mount = jobs[i].mount /\ (jobs[i].status # "running" => jobs'[i].status # "running")
    BY <1>13, <2>3, <2>4
  <2> QED
    BY <2>2, <2>5, <2>6 DEF Ids
<1>14. CASE Poll
  <2>1. UNCHANGED <<mount, item, step, posts, job, jobs>> /\ step = 2
    BY <1>14 DEF Poll, form
  <2>2. CASE jobs[job].status # "running" /\ ~notified
    <3>1. announced' = [announced EXCEPT ![job] = @ + 1] /\ notified'
      BY <1>14, <2>2 DEF Poll
    <3>2. job \in 1..Len(jobs) /\ (job \in Ids => announced[job] = 0)
      BY <2>1, <2>2
    <3>a. announced \in [Ids -> Nat]
      OBVIOUS
    <3>3. announced' \in [Ids -> Nat] /\ \A i \in Ids : announced'[i] = announced[i] \/ (i = job /\ announced'[i] = 1)
      <4>1. CASE job \in Ids
        BY ONLY <3>1, <3>2, <3>a, <4>1
      <4>2. CASE job \notin Ids
        BY ONLY <3>1, <3>a, <4>2
      <4> QED
        BY <4>1, <4>2
    <3>4. AnnouncedOnce'
      BY <2>1, <2>2, <3>2, <3>3
    <3> QED
      BY <2>1, <3>1, <3>3, <3>4
  <2>3. CASE ~(jobs[job].status # "running" /\ ~notified)
    <3>1. announced' = announced /\ (notified' <=> notified)
      BY <1>14, <2>3 DEF Poll
    <3> QED
      BY <2>1, <3>1
  <2> QED
    BY <2>2, <2>3
<1>15. CASE BackToConfiguration
  BY <1>15 DEF BackToConfiguration, progress
<1>16. CASE DeployAnother
  BY <1>16 DEF DeployAnother
<1>17. CASE UNCHANGED deployVars
  BY <1>s, <1>17 DEF deployVars, progress
<1> QED
  BY <1>1, <1>2, <1>5, <1>6, <1>7, <1>8, <1>9, <1>10, <1>11, <1>12, <1>13, <1>14, <1>15, <1>16, <1>17 DEF DeployStep

-----------------------------------------------------------------------------
(* A probe that is not busy shows nothing, or the answer for k; of the     *)
(* requests on their way only those for k count.                           *)
ProbeInv(p, k) ==
    /\ DOMAIN p = {"timer", "asked", "busy", "result"}
    /\ p.busy = FALSE /\ p.result # None => p.result.of = k
    /\ \A a \in p.asked : DOMAIN a = {"of", "cur"} /\ (a.cur = TRUE => a.of = k)

(* A change of the input: what was asked before no longer counts.          *)
LEMMA RetriggeredInv == ASSUME NEW p, NEW j, NEW k, ProbeInv(p, j) PROVE ProbeInv(Retriggered(p, k), k)
<1>1. \A a \in p.asked : DOMAIN [a EXCEPT !.cur = FALSE] = {"of", "cur"} /\ [a EXCEPT !.cur = FALSE].cur = FALSE
  BY DEF ProbeInv
<1>2. \A b \in Retriggered(p, k).asked : \E a \in p.asked : b = [a EXCEPT !.cur = FALSE]
  BY DEF Retriggered
<1>3. \A b \in Retriggered(p, k).asked : DOMAIN b = {"of", "cur"} /\ b.cur = FALSE
  BY <1>1, <1>2
<1>4. Retriggered(p, k).busy = (k # None) /\ (k = None => Retriggered(p, k).result = None)
  BY DEF Retriggered
<1>5. DOMAIN Retriggered(p, k) = {"timer", "asked", "busy", "result"}
  BY DEF Retriggered
<1> QED
  BY <1>3, <1>4, <1>5 DEF ProbeInv

(* Nothing asked, nothing shown.                                           *)
LEMMA IdleInv == ASSUME NEW k PROVE ProbeInv(Idle, k)
BY DEF Idle, ProbeInv

(* The debounce timer asks for the input of now.                           *)
LEMMA FiredInv == ASSUME NEW p, NEW k, ProbeInv(p, k) PROVE ProbeInv(Fired(p, k), k)
<1> DEFINE n == [of |-> k, cur |-> TRUE]
<1>1. DOMAIN n = {"of", "cur"} /\ n.of = k
  OBVIOUS
<1> HIDE DEF n
<1>2. Fired(p, k) = [p EXCEPT !.timer = FALSE, !.asked = @ \cup {n}]
  BY DEF Fired, n
<1>3. DOMAIN Fired(p, k) = {"timer", "asked", "busy", "result"} /\ Fired(p, k).asked = p.asked \cup {n}
      /\ Fired(p, k).busy = p.busy /\ Fired(p, k).result = p.result
  BY <1>2 DEF ProbeInv
<1> QED
  BY <1>1, <1>3 DEF ProbeInv

(* An answer that does not count leaves what is shown alone.               *)
LEMMA AnsweredInv ==
    ASSUME NEW p, NEW k, ProbeInv(p, k), NEW a \in p.asked, NEW r \in {None} \cup [of : {a.of}, bad : BOOLEAN]
    PROVE  ProbeInv(Answered(p, a, r), k)
<1>1. r # None => r.of = a.of
  OBVIOUS
<1>2. CASE a.cur = TRUE
  <2>1. Answered(p, a, r) = [p EXCEPT !.asked = @ \ {a}, !.busy = FALSE, !.result = r]
    BY <1>2 DEF Answered
  <2>2. DOMAIN Answered(p, a, r) = {"timer", "asked", "busy", "result"} /\ Answered(p, a, r).asked = p.asked \ {a} /\ Answered(p, a, r).result = r
    BY <2>1 DEF ProbeInv
  <2> QED
    BY <1>1, <1>2, <2>2 DEF ProbeInv
<1>3. CASE a.cur # TRUE
  <2>1. Answered(p, a, r) = [p EXCEPT !.asked = @ \ {a}] \/ a.cur
    BY <1>3 DEF Answered
  <2> QED
    BY <1>3, <2>1 DEF ProbeInv
<1> QED
  BY <1>2, <1>3

ProbesInv == ProbeInv(check, CheckInput) /\ ProbeInv(valid, ValidInput)

(* Every change of the form goes through Reprobe, NewForm or Idle.         *)
LEMMA ProbesStay == ProbesInv /\ (DeployStep \/ UNCHANGED deployVars) => ProbesInv'
<1> SUFFICES ASSUME ProbesInv, DeployStep \/ UNCHANGED deployVars PROVE ProbesInv'
  OBVIOUS
<1>r. ASSUME Reprobe PROVE ProbesInv'
  <2>1. ProbeInv(check', CheckInput')
    BY <1>r, RetriggeredInv DEF Reprobe, ProbesInv
  <2>2. ProbeInv(valid', ValidInput')
    BY <1>r, RetriggeredInv DEF Reprobe, ProbesInv
  <2> QED
    BY <2>1, <2>2 DEF ProbesInv
<1>i. ASSUME check' = Idle, valid' = Idle PROVE ProbesInv'
  BY <1>i, IdleInv DEF ProbesInv
<1>n. ASSUME NewForm PROVE ProbesInv'
  <2>1. ProbeInv(check', CheckInput')
    BY <1>n, IdleInv, RetriggeredInv DEF NewForm
  <2>2. ProbeInv(valid', ValidInput')
    BY <1>n, IdleInv, RetriggeredInv DEF NewForm
  <2> QED
    BY <2>1, <2>2 DEF ProbesInv
<1>s. ASSUME UNCHANGED <<check, valid>>, UNCHANGED <<mode, step, online, hostId, v>>, item' = item \/ step = 0 PROVE ProbesInv'
  <2>1. CheckInput' = CheckInput /\ ValidInput' = ValidInput
    BY <1>s DEF CheckInput, ValidInput, Target
  <2> QED
    BY <1>s, <2>1 DEF ProbesInv, ProbeInv
<1>1. ASSUME NEW m, NEW i, SwitchMode(m, i) \/ Pick(i) PROVE ProbesInv'
  BY <1>n, <1>1 DEF SwitchMode, Pick
<1>2. ASSUME NEW i, TypeTerm(i) PROVE ProbesInv'
  BY <1>s, <1>2 DEF TypeTerm, form
<1>3. CASE Debounce \/ ArrowDown \/ Poll \/ Deploy
  BY <1>s, <1>3 DEF Debounce, ArrowDown, Poll, Deploy, form
<1>4. ASSUME NEW i, NameStack(i) PROVE ProbesInv'
  BY <1>r, <1>4 DEF NameStack
<1>5. CASE NextStep \/ DeployAnother
  BY <1>r, <1>5 DEF NextStep, DeployAnother
<1>6. CASE Back
  BY <1>r, <1>i, <1>6 DEF Back
<1>7. ASSUME NEW b, InspectAnswers(b) \/ ChangeBranch(b) PROVE ProbesInv'
  BY <1>r, <1>7 DEF InspectAnswers, ChangeBranch
<1>8. ASSUME NEW x, Edit(x) \/ ApplyFix(x) PROVE ProbesInv'
  BY <1>r, <1>8 DEF Edit, ApplyFix, SetField
<1>9. ASSUME NEW h, PickHost(h) \/ HostsChange(h) PROVE ProbesInv'
  BY <1>r, <1>9 DEF PickHost, HostsChange
<1>k. ASSUME UNCHANGED <<mode, step, online, hostId, v, item>> PROVE CheckInput' = CheckInput /\ ValidInput' = ValidInput
  BY <1>k DEF CheckInput, ValidInput, Target
<1>10. CASE CheckAsks
  <2>1. check' = Fired(check, CheckInput) /\ valid' = valid /\ CheckInput' = CheckInput /\ ValidInput' = ValidInput
    BY <1>10, <1>k DEF CheckAsks
  <2> QED
    BY <2>1, FiredInv DEF ProbesInv
<1>11. CASE ValidAsks
  <2>1. valid' = Fired(valid, ValidInput) /\ check' = check /\ CheckInput' = CheckInput /\ ValidInput' = ValidInput
    BY <1>11, <1>k DEF ValidAsks
  <2> QED
    BY <2>1, FiredInv DEF ProbesInv
<1>12. ASSUME NEW a \in check.asked, CheckAnswers(a) PROVE ProbesInv'
  <2>1. PICK r \in {None} \cup [of : {a.of}, bad : BOOLEAN] : check' = Answered(check, a, r)
    BY <1>12 DEF CheckAnswers
  <2>2. valid' = valid /\ CheckInput' = CheckInput /\ ValidInput' = ValidInput
    BY <1>12, <1>k DEF CheckAnswers
  <2> QED
    BY <2>1, <2>2, AnsweredInv DEF ProbesInv
<1>13. ASSUME NEW a \in valid.asked, ValidAnswers(a) PROVE ProbesInv'
  <2>1. PICK r \in {None} \cup [of : {a.of}, bad : BOOLEAN] : valid' = Answered(valid, a, r)
    BY <1>13 DEF ValidAnswers
  <2>2. check' = check /\ CheckInput' = CheckInput /\ ValidInput' = ValidInput
    BY <1>13, <1>k DEF ValidAnswers
  <2> QED
    BY <2>1, <2>2, AnsweredInv DEF ProbesInv
<1>14. ASSUME NEW p, PostOk(p) PROVE ProbesInv'
  <2>1. CASE Mounted(p)
    BY <1>r, <1>i, <1>14, <2>1 DEF PostOk
  <2>2. CASE ~Mounted(p)
    BY <1>s, <1>14, <2>2 DEF PostOk
  <2> QED
    BY <2>1, <2>2
<1>15. ASSUME NEW p, PostFails(p) \/ JobEnds(p) PROVE ProbesInv'
  BY <1>s, <1>15 DEF PostFails, JobEnds, form
<1>16. CASE BackToConfiguration
  BY <1>r, <1>n, <1>16 DEF BackToConfiguration
<1>17. CASE UNCHANGED deployVars
  BY <1>s, <1>17 DEF deployVars, form
<1> QED
  BY <1>1, <1>2, <1>3, <1>4, <1>5, <1>6, <1>7, <1>8, <1>9, <1>10, <1>11, <1>12, <1>13, <1>14, <1>15, <1>16, <1>17 DEF DeployStep

-----------------------------------------------------------------------------
(* A call of trackJob, a list of toasts for each job.                      *)
IsTracker(t) == DOMAIN t = {"job", "owner", "misses", "silent", "seen"} /\ t.job \in Jobs
ToldInv == work \in Seq(Statuses) /\ told \in Seq(Seq(Toasts)) /\ Len(told) = Len(work) /\ \A t \in trackers : IsTracker(t)

(* What a poll may do: it keeps its tracker or ends it and tells its job.  *)
Keeps(t) == UNCHANGED <<work, told>> /\ \E u : u.job = t.job /\ IsTracker(u) /\ trackers' = (trackers \ {t}) \cup {u}
EndsTelling(t) == UNCHANGED work /\ trackers' = trackers \ {t} /\ \E x \in Toasts : Tell(t.job, x)

(* A poll is one of the two.                                               *)
LEMMA PollTells ==
    ASSUME ToldInv, NEW t \in trackers, PollRuns(t) \/ PollEnds(t) \/ PollMisses(t) \/ GivesUp(t)
    PROVE  Keeps(t) \/ EndsTelling(t)
<1>t. IsTracker(t)
  BY DEF ToldInv
<1>1. CASE PollRuns(t)
  <2>1. PollAnswered(t).job = t.job /\ IsTracker(PollAnswered(t))
    BY <1>t DEF PollAnswered, IsTracker
  <2> QED
    BY <1>1, <2>1 DEF PollRuns, Keeps
<1>2. CASE PollEnds(t)
  BY <1>2 DEF PollEnds, EndsTelling, Verdict, Toasts
<1>3. CASE PollMisses(t)
  <2> DEFINE u == [t EXCEPT !.misses = @ + 1, !.silent = @ + 1]
  <2>1. u.job = t.job /\ IsTracker(u)
    BY <1>t DEF IsTracker
  <2> QED
    BY <1>3, <2>1 DEF PollMisses, Keeps
<1>4. CASE GivesUp(t)
  BY <1>4 DEF GivesUp, EndsTelling, Toasts
<1> QED
  BY <1>1, <1>2, <1>3, <1>4

(* Tell adds one toast for one job.                                        *)
LEMMA TellInv ==
    ASSUME ToldInv, NEW j \in Jobs, NEW x \in Toasts, Tell(j, x), UNCHANGED work
    PROVE  /\ told' \in Seq(Seq(Toasts)) /\ Len(told') = Len(told) /\ told'[j] = Append(told[j], x) /\ Len(told'[j]) = Len(told[j]) + 1
           /\ \A i \in Jobs \ {j} : told'[i] = told[i]
<1>1. told' = [told EXCEPT ![j] = Append(told[j], x)] /\ told[j] \in Seq(Toasts) /\ j \in 1..Len(told)
  BY DEF Tell, ToldInv, Jobs
<1>2. Append(told[j], x) \in Seq(Toasts) /\ Len(Append(told[j], x)) = Len(told[j]) + 1
  BY <1>1
<1> QED
  BY <1>1, <1>2 DEF ToldInv, Jobs

(* A job that starts is a new one, and nothing is told of it.              *)
LEMMA StartInv ==
    ASSUME ToldInv, StartJob
    PROVE  /\ work' \in Seq(Statuses) /\ told' \in Seq(Seq(Toasts)) /\ Len(told') = Len(work') /\ Len(work') = Len(work) + 1
           /\ Len(work) \in Nat /\ told'[Len(work) + 1] = <<>> /\ \A i \in Jobs : told'[i] = told[i]
<1>1. <<>> \in Seq(Toasts) /\ "running" \in Statuses
  BY DEF Statuses
<1> QED
  BY <1>1 DEF ToldInv, StartJob, Jobs

(* A job that ends stays the job it is.                                    *)
LEMMA DoneInv == ASSUME ToldInv, NEW j \in Jobs, WorkIsDone(j) PROVE work' \in Seq(Statuses) /\ Len(work') = Len(work)
BY DEF ToldInv, WorkIsDone, Statuses, Jobs

-----------------------------------------------------------------------------
(* The host page hands every job it starts to trackJob: one call each, and *)
(* nothing is told before it returns.                                      *)
PageToldInv ==
    /\ ToldInv
    /\ \A t \in trackers : told[t.job] = <<>> /\ \A u \in trackers : u.job = t.job => u = t
    /\ \A j \in Jobs : Len(told[j]) <= 1

(* No step of the host page or its side panel breaks it.                   *)
LEMMA PageToldStays == PageToldInv /\ (ListStep \/ PanelStep \/ UNCHANGED trackVars) => PageToldInv'
<1> SUFFICES ASSUME PageToldInv, ListStep \/ PanelStep \/ UNCHANGED trackVars PROVE PageToldInv'
  OBVIOUS
<1>s. ASSUME UNCHANGED trackVars PROVE PageToldInv'
  BY <1>s DEF PageToldInv, ToldInv, IsTracker, trackVars, Jobs
<1>1. ASSUME NEW q, JobStarts(q) PROVE PageToldInv'
  <2> DEFINE n == Tracker(Len(work) + 1, Owner(q))
  <2>1. StartJob /\ trackers' = trackers \cup {n}
    BY <1>1 DEF JobStarts
  <2>2. n.job = Len(work) + 1 /\ DOMAIN n = {"job", "owner", "misses", "silent", "seen"}
    BY DEF Tracker
  <2> HIDE DEF n
  <2>3. ToldInv'
    BY <2>1, <2>2, StartInv DEF PageToldInv, ToldInv, IsTracker, Jobs
  <2>4. \A t \in trackers : t.job \in Jobs /\ t.job # Len(work) + 1
    BY StartInv, <2>1 DEF PageToldInv, ToldInv, IsTracker, Jobs
  <2>5. \A j \in Jobs' : Len(told'[j]) <= 1
    <3>1. ASSUME NEW j \in Jobs' PROVE Len(told'[j]) <= 1
      <4>1. j \in Jobs \/ j = Len(work) + 1
        BY <2>1, StartInv, <3>1 DEF PageToldInv, Jobs
      <4> QED
        BY <2>1, StartInv, <4>1 DEF PageToldInv
    <3> QED
      BY <3>1
  <2> QED
    BY <2>1, <2>2, <2>3, <2>4, <2>5, StartInv DEF PageToldInv
<1>2. ASSUME NEW t \in trackers, PageTracks(t) PROVE PageToldInv'
  <2>1. CASE Keeps(t)
    BY <2>1 DEF Keeps, PageToldInv, ToldInv, IsTracker, Jobs
  <2>2. CASE EndsTelling(t)
    <3>1. PICK x \in Toasts : Tell(t.job, x)
      BY <2>2 DEF EndsTelling
    <3>2. t.job \in Jobs /\ told[t.job] = <<>> /\ UNCHANGED work /\ trackers' = trackers \ {t}
      BY <2>2 DEF EndsTelling, PageToldInv, ToldInv, IsTracker
    <3>3. /\ told' \in Seq(Seq(Toasts)) /\ Len(told') = Len(told) /\ Len(told'[t.job]) = 1
          /\ \A i \in Jobs \ {t.job} : told'[i] = told[i]
      <4>1. ToldInv /\ Len(<<>>) = 0 /\ 0 + 1 = 1
        BY DEF PageToldInv
      <4> QED
        BY <3>1, <3>2, <4>1, TellInv
    <3>4. ToldInv'
      BY <3>2, <3>3 DEF PageToldInv, ToldInv, IsTracker, Jobs
    <3>5. \A j \in Jobs' : Len(told'[j]) <= 1
      <4>1. Jobs' = Jobs
        BY <3>2 DEF Jobs
      <4>2. ASSUME NEW j \in Jobs PROVE Len(told'[j]) <= 1
        <5>1. CASE j = t.job
          <6>1. Len(told'[j]) = 1
            BY <3>3, <5>1
          <6> QED
            BY <6>1
        <5>2. CASE j # t.job
          BY <3>3, <5>2 DEF PageToldInv
        <5> QED
          BY <5>1, <5>2
      <4> QED
        BY <4>1, <4>2
    <3>6. \A u \in trackers' : u.job \in Jobs \ {t.job} /\ told'[u.job] = <<>>
      BY <3>2, <3>3 DEF PageToldInv, ToldInv, IsTracker
    <3> QED
      BY <3>2, <3>4, <3>5, <3>6 DEF PageToldInv
  <2> QED
    BY <1>2, <2>1, <2>2, PollTells DEF PageTracks, PageToldInv
<1>3. ASSUME NEW t \in trackers, PageJobEnds(t) PROVE PageToldInv'
  <2>1. WorkIsDone(t.job) /\ UNCHANGED <<trackers, told>> /\ t.job \in Jobs
    BY <1>3 DEF PageJobEnds, PageToldInv, ToldInv, IsTracker
  <2> QED
    BY <2>1, DoneInv DEF PageToldInv, ToldInv, IsTracker, Jobs
<1>4. CASE Refresh \/ Confirmed \/ Dismissed \/ BulkStop \/ BulkStart \/ HeaderJob \/ StorageJob \/ StackRun \/ StackStop
  BY <1>s, <1>4 DEF Refresh, Confirmed, Dismissed, BulkStop, BulkStart, HeaderJob, StorageJob, StackRun, StackStop, Asks
<1>5. ASSUME NEW n, Elsewhere(n) \/ Select(n) \/ CardAction(n) \/ UpdateContainer(n) \/ RemoveContainer(n) PROVE PageToldInv'
  BY <1>s, <1>5 DEF Elsewhere, Select, CardAction, UpdateContainer, RemoveContainer, Asks
<1>6. ASSUME NEW q, BulkAnswers(q) \/ CardAnswers(q) \/ RemoveAnswers(q) \/ JobRefused(q) PROVE PageToldInv'
  BY <1>s, <1>6 DEF BulkAnswers, CardAnswers, RemoveAnswers, JobRefused
<1>7. CASE CloseSide \/ PanelAction \/ SwitchTab \/ RemoveShown \/ DetailArrives \/ EditConfig \/ CancelEdit \/ SaveEnv
  BY <1>s, <1>7 DEF CloseSide, PanelAction, SwitchTab, RemoveShown, DetailArrives, EditConfig, CancelEdit, SaveEnv, Asks
<1>8. ASSUME NEW n, NEW e, OpenSide(n, e) \/ EditRows(e) PROVE PageToldInv'
  BY <1>s, <1>8 DEF OpenSide, EditRows
<1> QED
  BY <1>s, <1>1, <1>2, <1>3, <1>4, <1>5, <1>6, <1>7, <1>8 DEF ListStep, PanelStep, PageAnswers, PageWork

-----------------------------------------------------------------------------
(* A dialog tells the end of the job it shows once, unless it is a rebuild *)
(* or its job was handed to trackJob before; trackJob has no other jobs.   *)
IsJobDialog(d) == DOMAIN d = {"kind", "mount", "step", "text", "original", "blocked", "force", "busy", "job", "shown", "notified"}
JobInv ==
    /\ ToldInv /\ jmounts \in Nat /\ OneStartPerDialog /\ ToldOnce
    /\ \A p \in jposts : p.mount \in Nat /\ p.mount <= jmounts
    /\ \A t \in trackers : t.job \in left
    /\ jd # None =>
        /\ IsJobDialog(jd) /\ jd.mount = jmounts /\ jd.job \in 0..Len(work)
        /\ jd.shown = "none" \/ jd.job # 0
        /\ jd.busy = TRUE \/ \A p \in jposts : p.mount # jmounts
        /\ (jd.kind # "rebuild" /\ jd.job # 0 /\ ~jd.notified /\ jd.job \notin left) => told[jd.job] = <<>>

(* No step of a dialog, of its requests or of trackJob breaks it.          *)
LEMMA JobStays == JobInv /\ (JobStep \/ UNCHANGED jobVars) => JobInv'
<1> SUFFICES ASSUME JobInv, JobStep \/ UNCHANGED jobVars PROVE JobInv'
  OBVIOUS
<1>t. ASSUME UNCHANGED trackVars PROVE ToldInv'
  BY <1>t DEF JobInv, ToldInv, IsTracker, trackVars, Jobs
<1>j. ASSUME UNCHANGED <<jmounts, jposts, left, trackVars>>, jd # None, IsJobDialog(jd'), jd'.mount = jd.mount,
             jd'.kind = jd.kind, (jd'.job = jd.job /\ jd'.shown = jd.shown) \/ (jd'.job = 0 /\ jd'.shown = "none"), jd'.notified = jd.notified, jd'.busy = jd.busy
      PROVE  JobInv'
  BY <1>j, <1>t DEF JobInv, trackVars, OneStartPerDialog, ToldOnce, Jobs, ToldInv
<1>1. CASE UNCHANGED jobVars
  BY <1>1, <1>t DEF JobInv, jobVars, trackVars, OneStartPerDialog, ToldOnce, Jobs, ToldInv, IsJobDialog
<1>2. ASSUME NEW k, NEW j \in {0} \cup Jobs, OpenJobDialog(k, j) PROVE JobInv'
  <2> DEFINE d == [kind |-> k, mount |-> jmounts', step |-> IF k = "new" THEN 0 ELSE 1, text |-> None, original |-> None,
              blocked |-> FALSE, force |-> FALSE, busy |-> FALSE, job |-> j, shown |-> "none", notified |-> FALSE]
  <2>1. jmounts' = jmounts + 1 /\ jd' = d /\ (j # 0 => k = "rebuild") /\ UNCHANGED <<jposts, left, trackVars>>
    BY <1>2 DEF OpenJobDialog
  <2>2. IsJobDialog(d) /\ d.mount = jmounts + 1 /\ d.job = j /\ d.kind = k /\ d.shown = "none"
    BY <2>1 DEF IsJobDialog
  <2> HIDE DEF d
  <2>3. \A p \in jposts : p.mount # jmounts + 1
    BY DEF JobInv
  <2> QED
    BY <1>2, <1>t, <2>1, <2>2, <2>3 DEF JobInv, trackVars, OneStartPerDialog, ToldOnce, Jobs, ToldInv
<1>3. CASE Fetched \/ SetForce \/ ToCompose \/ (\E x \in Contents : EditText(x))
  <2>1. UNCHANGED <<jmounts, jposts, left, trackVars>> /\ jd # None
    BY <1>3 DEF Fetched, SetForce, ToCompose, EditText
  <2>2. \/ \E x, b : jd' = [jd EXCEPT !.text = x, !.original = x, !.blocked = b]
        \/ \E x : jd' = [jd EXCEPT !.text = x]
        \/ jd' = [jd EXCEPT !.force = TRUE]
        \/ jd' = [jd EXCEPT !.step = 1 - @]
    BY <1>3 DEF Fetched, SetForce, ToCompose, EditText
  <2>3. IsJobDialog(jd)
    BY <2>1 DEF JobInv
  <2>4. IsJobDialog(jd') /\ jd'.mount = jd.mount /\ jd'.kind = jd.kind /\ jd'.job = jd.job /\ jd'.shown = jd.shown /\ jd'.notified = jd.notified /\ jd'.busy = jd.busy
    BY <2>2, <2>3 DEF IsJobDialog
  <2> QED
    BY <1>j, <2>1, <2>4
<1>4. CASE Apply
  <2> DEFINE q == [kind |-> jd.kind, mount |-> jd.mount, text |-> jd.text]
  <2>1. UNCHANGED <<jmounts, left, trackVars>> /\ jd # None /\ ~jd.busy /\ jposts' = jposts \cup {q} /\ jd' = [jd EXCEPT !.busy = TRUE]
    BY <1>4 DEF Apply, MayApply
  <2>2. q.mount = jmounts /\ IsJobDialog(jd) /\ \A p \in jposts : p.mount # jmounts
    BY <2>1 DEF JobInv
  <2> HIDE DEF q
  <2>3. IsJobDialog(jd') /\ jd'.mount = jd.mount /\ jd'.kind = jd.kind /\ jd'.job = jd.job /\ jd'.shown = jd.shown /\ jd'.notified = jd.notified /\ jd'.busy = TRUE
    BY <2>1, <2>2 DEF IsJobDialog
  <2>4. OneStartPerDialog'
    BY <2>1, <2>2 DEF JobInv, OneStartPerDialog
  <2> QED
    BY <1>t, <2>1, <2>2, <2>3, <2>4 DEF JobInv, trackVars, ToldOnce, Jobs, ToldInv
<1>5. ASSUME NEW p \in jposts, Started(p) PROVE JobInv'
  <2>1. StartJob /\ jposts' = jposts \ {p} /\ UNCHANGED <<jmounts, left, trackers>>
    BY <1>5 DEF Started
  <2>2. jd # None => IsJobDialog(jd)
    BY DEF JobInv
  <2>a. ToldInv
    BY DEF JobInv
  <2>3. ToldInv'
    BY <2>1, <2>a, StartInv DEF ToldInv, IsTracker, Jobs
  <2>4. OneStartPerDialog'
    BY <2>1 DEF JobInv, OneStartPerDialog
  <2>5. ToldOnce'
    <3>1. ASSUME NEW j \in Jobs', j \notin left' PROVE Len(told'[j]) <= 1
      <4>1. j \in Jobs \/ (j = Len(work) + 1 /\ told'[j] = <<>>)
        BY <2>1, <2>a, StartInv, <3>1 DEF Jobs
      <4>2. CASE j \in Jobs
        BY <2>1, <2>a, <3>1, <4>2, StartInv DEF JobInv, ToldOnce
      <4>3. CASE told'[j] = <<>>
        BY <4>3
      <4> QED
        BY <4>1, <4>2, <4>3
    <3> QED
      BY <3>1 DEF ToldOnce
  <2>6. CASE DialogMounted(p)
    <3>1. jd' = [jd EXCEPT !.busy = FALSE, !.job = Len(work) + 1, !.shown = "none", !.notified = FALSE] /\ jd # None /\ jd.mount = p.mount
      BY <1>5, <2>6 DEF Started, DialogMounted
    <3>2. IsJobDialog(jd') /\ jd'.mount = jd.mount /\ jd'.job = Len(work) + 1 /\ jd'.shown = "none"
      BY <2>2, <3>1 DEF IsJobDialog
    <3>3. \A q \in jposts' : q.mount # jmounts
      BY <2>1, <3>1 DEF JobInv, OneStartPerDialog
    <3>4. told'[Len(work) + 1] = <<>> /\ Len(work') = Len(work) + 1 /\ Len(work) \in Nat
      BY <2>1, <2>a, StartInv
    <3> QED
      BY <2>1, <2>3, <2>4, <2>5, <3>1, <3>2, <3>3, <3>4 DEF JobInv
  <2>7. CASE ~DialogMounted(p)
    <3>1. jd' = jd
      BY <1>5, <2>7 DEF Started
    <3>2. \A i \in Jobs : told'[i] = told[i]
      BY <2>1, <2>a, StartInv
    <3>3. Len(work') = Len(work) + 1 /\ Len(work) \in Nat
      BY <2>1, <2>a, StartInv
    <3> QED
      BY <2>1, <2>3, <2>4, <2>5, <3>1, <3>2, <3>3 DEF JobInv, IsJobDialog, Jobs
  <2> QED
    BY <2>6, <2>7
<1>6. ASSUME NEW p \in jposts, Refused(p) PROVE JobInv'
  <2>1. jposts' = jposts \ {p} /\ UNCHANGED <<jmounts, left, trackVars>>
    BY <1>6 DEF Refused
  <2>2. jd' # None => jd # None /\ IsJobDialog(jd') /\ jd'.mount = jd.mount /\ jd'.kind = jd.kind /\ jd'.job = jd.job /\ jd'.shown = jd.shown /\ jd'.notified = jd.notified
                   /\ (jd'.busy = jd.busy \/ jd.mount = p.mount)
    BY <1>6 DEF Refused, JobInv, IsJobDialog, DialogMounted
  <2>3. OneStartPerDialog'
    BY <2>1 DEF JobInv, OneStartPerDialog
  <2> QED
    BY <1>t, <2>1, <2>2, <2>3 DEF JobInv, OneStartPerDialog, trackVars, ToldOnce, Jobs, ToldInv
<1>7. ASSUME NEW j \in Jobs, WorkEnds(j) PROVE JobInv'
  <2>1. UNCHANGED <<jd, jmounts, jposts, left, trackers, told>> /\ WorkIsDone(j)
    BY <1>7 DEF WorkEnds
  <2>2. work' \in Seq(Statuses) /\ Len(work') = Len(work)
    BY <2>1, DoneInv DEF JobInv
  <2> QED
    BY <2>1, <2>2 DEF JobInv, ToldInv, IsTracker, IsJobDialog, Jobs, OneStartPerDialog, ToldOnce
<1>8. CASE ShowJob
  <2>1. jd # None /\ jd.job # 0 /\ jd' = [jd EXCEPT !.shown = work[jd.job], !.notified = @ \/ Announces(jd)]
        /\ UNCHANGED <<jmounts, jposts, left, work, trackers>>
    BY <1>8 DEF ShowJob
  <2>2. IsJobDialog(jd) /\ jd.job \in Jobs
    BY <2>1 DEF JobInv, Jobs
  <2>3. IsJobDialog(jd') /\ jd'.mount = jd.mount /\ jd'.kind = jd.kind /\ jd'.job = jd.job /\ jd'.busy = jd.busy
        /\ jd'.notified = (jd.notified \/ Announces(jd))
    BY <2>1, <2>2 DEF IsJobDialog
  <2>4. CASE Announces(jd)
    <3>1. PICK x \in Toasts : Tell(jd.job, x)
      BY <1>8, <2>4 DEF ShowJob, Verdict, Toasts
    <3>2. jd.job \notin left => told[jd.job] = <<>>
      BY <2>1, <2>4 DEF JobInv, Announces
    <3>3. /\ told' \in Seq(Seq(Toasts)) /\ Len(told') = Len(told) /\ Len(told'[jd.job]) = Len(told[jd.job]) + 1
          /\ \A i \in Jobs \ {jd.job} : told'[i] = told[i]
      BY <2>1, <2>2, <3>1, TellInv DEF JobInv
    <3>4. ToldInv'
      BY <2>1, <3>3 DEF JobInv, ToldInv, IsTracker, Jobs
    <3>5. ToldOnce'
      <4>1. ASSUME NEW j \in Jobs, j \notin left PROVE Len(told'[j]) <= 1
        <5>1. CASE j = jd.job
          <6>1. Len(told[jd.job]) = 0
            BY <3>2, <4>1, <5>1
          <6>2. Len(told'[j]) = Len(told[jd.job]) + 1
            BY <3>3, <5>1
          <6> QED
            BY <6>1, <6>2
        <5>2. CASE j # jd.job
          BY <3>3, <4>1, <5>2 DEF JobInv, ToldOnce
        <5> QED
          BY <5>1, <5>2
      <4> QED
        BY <2>1, <4>1 DEF ToldOnce, Jobs
    <3> QED
      BY <2>1, <2>3, <2>4, <3>4, <3>5 DEF JobInv, OneStartPerDialog
  <2>5. CASE ~Announces(jd)
    <3>1. UNCHANGED told
      BY <1>8, <2>5 DEF ShowJob
    <3>2. ToldInv' /\ OneStartPerDialog' /\ ToldOnce'
      BY <2>1, <3>1 DEF JobInv, OneStartPerDialog, ToldOnce, ToldInv, IsTracker, Jobs
    <3>3. (jd.kind # "rebuild" /\ jd'.job # 0 /\ ~jd'.notified /\ jd.job \notin left) => told[jd.job] = <<>>
      BY <2>1, <2>3, <2>5 DEF JobInv
    <3> QED
      BY <2>1, <2>3, <3>1, <3>2, <3>3 DEF JobInv
  <2> QED
    BY <2>4, <2>5
<1>9. CASE TryAgain
  <2>1. jd # None /\ jd' = [jd EXCEPT !.job = 0, !.shown = "none"] /\ UNCHANGED <<jmounts, jposts, left, trackVars>>
    BY <1>9 DEF TryAgain
  <2>2. IsJobDialog(jd') /\ jd'.mount = jd.mount /\ jd'.kind = jd.kind /\ jd'.job = 0 /\ jd'.shown = "none" /\ jd'.notified = jd.notified /\ jd'.busy = jd.busy
    BY <2>1 DEF JobInv, IsJobDialog
  <2> QED
    BY <1>j, <2>1, <2>2
<1>10. CASE CloseJobDialog
  <2>j. Tracked(jd) => jd.job \in Jobs
    BY <1>10 DEF CloseJobDialog, Tracked, JobInv, Jobs
  <2>1. jd # None /\ jd' = None /\ UNCHANGED <<jmounts, jposts, work, told>>
    BY <1>10 DEF CloseJobDialog
  <2>2. CASE Tracked(jd) /\ jd.job \in Jobs
    <3> DEFINE n == Tracker(jd.job, "rebuild")
    <3>1. trackers' = trackers \cup {n} /\ left' = left \cup {jd.job}
      BY <1>10, <2>2 DEF CloseJobDialog, Tracked
    <3>2. n.job = jd.job /\ IsTracker(n)
      BY <2>2 DEF Tracker, IsTracker
    <3> HIDE DEF n
    <3> QED
      BY <2>1, <2>2, <3>1, <3>2 DEF JobInv, OneStartPerDialog, ToldOnce, ToldInv, IsTracker, Jobs
  <2>3. CASE ~Tracked(jd)
    <3>1. UNCHANGED <<trackers, left>>
      BY <1>10, <2>3 DEF CloseJobDialog, Tracked
    <3> QED
      BY <2>1, <3>1 DEF JobInv, OneStartPerDialog, ToldOnce, ToldInv, IsTracker, Jobs
  <2> QED
    BY <2>2, <2>3, <2>j
<1>11. ASSUME NEW t \in trackers, Polls(t), UNCHANGED <<jd, jmounts, jposts, left>> PROVE JobInv'
  <2>1. CASE Keeps(t)
    BY <1>11, <2>1 DEF Keeps, JobInv, OneStartPerDialog, ToldOnce, ToldInv, IsTracker, Jobs, IsJobDialog
  <2>2. CASE EndsTelling(t)
    <3>1. PICK x \in Toasts : Tell(t.job, x)
      BY <2>2 DEF EndsTelling
    <3>2. t.job \in Jobs /\ t.job \in left /\ UNCHANGED work /\ trackers' = trackers \ {t}
      BY <2>2 DEF EndsTelling, JobInv, ToldInv, IsTracker
    <3>3. /\ told' \in Seq(Seq(Toasts)) /\ Len(told') = Len(told) /\ \A i \in Jobs \ {t.job} : told'[i] = told[i]
      BY <3>1, <3>2, TellInv DEF JobInv
    <3>4. ToldInv' /\ OneStartPerDialog'
      BY <1>11, <3>2, <3>3 DEF JobInv, OneStartPerDialog, ToldInv, IsTracker, Jobs
    <3>5. ToldOnce'
      BY <1>11, <3>2, <3>3 DEF JobInv, ToldOnce, Jobs
    <3>6. jd # None /\ jd.job # 0 /\ jd.job \notin left => told'[jd.job] = told[jd.job]
      BY SMTT(30), <3>2, <3>3 DEF JobInv, Jobs
    <3> QED
      BY <1>11, <3>2, <3>4, <3>5, <3>6 DEF JobInv, IsJobDialog
  <2> QED
    BY <1>11, <2>1, <2>2, PollTells DEF Polls, JobInv
<1> QED
  BY <1>1, <1>2, <1>3, <1>4, <1>5, <1>6, <1>7, <1>8, <1>9, <1>10, <1>11 DEF JobStep, TrackerPolls

-----------------------------------------------------------------------------
(* A dialog that has a request on its way is busy.                         *)
IsFormDialog(d) == DOMAIN d = {"kind", "mount", "busy", "val", "host", "step", "saved", "dirty", "sel", "raced", "relisted"}
IsFormPost(q) == DOMAIN q = {"kind", "mount", "op", "then", "of", "val", "host", "sel", "held", "list", "relisted"}
FormInv ==
    /\ fmounts \in Nat /\ OneRequestPerDialog
    /\ \A q \in fposts : IsFormPost(q) /\ q.mount \in Nat /\ q.mount <= fmounts /\ q.then \in {"save", "test"}
    /\ fd # None =>
        /\ IsFormDialog(fd) /\ fd.mount = fmounts
        /\ fd.busy = "no" => \A q \in fposts : q.mount # fmounts

(* No step of a form dialog or of its requests breaks it.                  *)
LEMMA FormStays == FormInv /\ (FormStep \/ UNCHANGED formVars) => FormInv'
<1> SUFFICES ASSUME FormInv, FormStep \/ UNCHANGED formVars PROVE FormInv'
  OBVIOUS
<1>d. ASSUME UNCHANGED <<fmounts, fposts>>, fd' # None => fd # None /\ IsFormDialog(fd') /\ fd'.mount = fd.mount /\ fd'.busy = fd.busy PROVE FormInv'
  BY <1>d DEF FormInv, OneRequestPerDialog
<1>i. fd # None => IsFormDialog(fd)
  BY DEF FormInv
<1>1. CASE UNCHANGED formVars
  BY <1>d, <1>i, <1>1 DEF formVars, IsFormDialog
<1>2. ASSUME NEW k, OpenForm(k) PROVE FormInv'
  <2> DEFINE d == [kind |-> k, mount |-> fmounts', busy |-> "no", val |-> None,
              host |-> IF k = "monitor" /\ listed # {} THEN CHOOSE h \in listed : TRUE ELSE None,
              step |-> 0, saved |-> 0, dirty |-> k = "channel", sel |-> IF k = "key" THEN listed ELSE {},
              raced |-> FALSE, relisted |-> FALSE]
  <2>1. fd' = d /\ fmounts' = fmounts + 1 /\ UNCHANGED fposts
    BY <1>2 DEF OpenForm
  <2>2. IsFormDialog(d) /\ d.mount = fmounts + 1
    BY <2>1 DEF IsFormDialog
  <2> HIDE DEF d
  <2> QED
    BY <2>1, <2>2 DEF FormInv, OneRequestPerDialog
<1>3. ASSUME NEW x, SetConfig(x) PROVE FormInv'
  <2>1. fd' = [fd EXCEPT !.val = x, !.dirty = TRUE, !.raced = @ \/ fd.busy # "no"] /\ fd # None /\ UNCHANGED <<fmounts, fposts>>
    BY <1>3 DEF SetConfig
  <2> QED
    BY <1>d, <1>i, <2>1 DEF IsFormDialog
<1>4. ASSUME NEW x, NameNetwork(x) PROVE FormInv'
  BY <1>d, <1>i, <1>4 DEF NameNetwork, IsFormDialog
<1>5. ASSUME NEW h, PickMonitorHost(h) PROVE FormInv'
  BY <1>d, <1>i, <1>5 DEF PickMonitorHost, IsFormDialog
<1>6. ASSUME NEW h, ToggleHost(h) PROVE FormInv'
  BY <1>d, <1>i, <1>6 DEF ToggleHost, IsFormDialog
<1>7. ASSUME NEW h, ContainersChange(h) PROVE FormInv'
  BY <1>d, <1>i, <1>7 DEF ContainersChange, IsFormDialog
<1>8. ASSUME NEW S, HostsRelisted(S) PROVE FormInv'
  BY <1>d, <1>i, <1>8 DEF HostsRelisted, IsFormDialog
<1>9. CASE CloseForm \/ SaveClean
  BY <1>d, <1>9 DEF CloseForm, SaveClean
<1>10. CASE PickContainer \/ KeyStep
  BY <1>d, <1>i, <1>10 DEF PickContainer, KeyStep, IsFormDialog
<1>11. ASSUME NEW op, NEW then \in {"save", "test"}, fd # None, Ask(op, then) PROVE FormInv'
  <2> DEFINE n == FormRequest(op, then)
  <2>1. fd.busy = "no" /\ fposts' = fposts \cup {n} /\ fd' = [fd EXCEPT !.busy = then] /\ UNCHANGED fmounts
    BY <1>11 DEF Ask, FormIdle
  <2>2. IsFormPost(n) /\ n.mount = fmounts /\ n.then = then
    BY <1>11 DEF FormRequest, IsFormPost, FormInv
  <2>3. IsFormDialog(fd') /\ fd'.mount = fmounts /\ fd'.busy = then
    BY <1>11, <2>1 DEF FormInv, IsFormDialog
  <2>4. \A q \in fposts : q.mount # fmounts
    BY <1>11, <2>1 DEF FormInv
  <2> HIDE DEF n
  <2> QED
    BY <1>11, <2>1, <2>2, <2>3, <2>4 DEF FormInv, OneRequestPerDialog
<1>12. CASE SaveForm \/ CreateKey \/ \E t \in {"save", "test"} : Persist(t)
  BY <1>11, <1>12 DEF SaveForm, CreateKey, Persist
<1>13. ASSUME NEW q \in fposts, fposts' = fposts \ {q}, UNCHANGED fmounts,
              fd' # None => fd # None /\ IsFormDialog(fd') /\ fd'.mount = fd.mount /\ (fd'.busy = fd.busy \/ fd.mount = q.mount) PROVE FormInv'
  BY <1>13 DEF FormInv, OneRequestPerDialog
<1>14. ASSUME NEW q \in fposts, FormFails(q) \/ SendAnswers(q) PROVE FormInv'
  <2>1. FormFails(q)
    BY <1>14 DEF SendAnswers
  <2> QED
    BY <1>13, <1>i, <2>1 DEF FormFails, IsFormDialog, FormShown
<1>15. ASSUME NEW q \in fposts, FormSaves(q) PROVE FormInv'
  BY <1>13, <1>15 DEF FormSaves
<1>16. ASSUME NEW q \in fposts, KeyAnswers(q) PROVE FormInv'
  BY <1>13, <1>i, <1>16 DEF KeyAnswers, IsFormDialog, FormShown
<1>17. ASSUME NEW q \in fposts, PersistAnswers(q) PROVE FormInv'
  <2>1. CASE q.then = "save"
    BY <1>13, <1>17, <2>1 DEF PersistAnswers
  <2>2. CASE q.then # "save"
    <3> DEFINE n == Kept(fd, q)
               r == [q EXCEPT !.op = "send", !.of = n]
    <3>1. fposts' = (fposts \ {q}) \cup {r} /\ UNCHANGED fmounts /\ fd' = IF FormShown(q) THEN Stored(fd, n) ELSE fd
      BY <1>17, <2>2 DEF PersistAnswers
    <3>2. IsFormPost(q) /\ q.mount \in Nat /\ q.mount <= fmounts /\ q.then \in {"save", "test"}
      BY DEF FormInv
    <3>3. IsFormPost(r) /\ r.mount = q.mount /\ r.then = q.then
      BY <3>2 DEF IsFormPost
    <3>4. fd # None => IsFormDialog(fd') /\ fd'.mount = fd.mount /\ fd'.busy = fd.busy
      BY <1>i, <3>1 DEF Stored, IsFormDialog
    <3>5. fd = None => fd' = None
      BY <3>1 DEF FormShown
    <3> HIDE DEF r
    <3> QED
      BY <3>1, <3>2, <3>3, <3>4, <3>5 DEF FormInv, OneRequestPerDialog
  <2> QED
    BY <2>1, <2>2
<1> QED
  BY <1>1, <1>2, <1>3, <1>4, <1>5, <1>6, <1>7, <1>8, <1>9, <1>10, <1>12, <1>14, <1>15, <1>16, <1>17 DEF FormStep

-----------------------------------------------------------------------------
(* A dialog waits for its submission or for its loop, never for both, and  *)
(* for neither once it is connected.  Loops are numbered from 1.           *)
IsGDialog(d) == DOMAIN d = {"mount", "step", "method", "busy", "wait", "loop", "account", "known"}
Submits(q) == q.kind \in GMethods
GithubNumbers ==
    /\ moves \in Nat /\ gmounts \in Nat /\ gmounts <= moves /\ moves <= MaxMoves /\ loops \in Nat
    /\ greeted \in [1..MaxMoves -> Nat] /\ ConnectedOnce
    /\ \A m \in 1..MaxMoves : m > gmounts => greeted[m] = 0
GithubRequests ==
    /\ \A q \in greqs :
        /\ q.mount \in 1..gmounts
        /\ q.kind \in {"poll", "tick"} => q.loop # 0
        /\ Submits(q) => greeted[q.mount] = 0
    /\ \A p, q \in greqs : Submits(p) /\ Submits(q) /\ p.mount = q.mount => p = q
GithubScreen ==
    gd # None =>
        /\ IsGDialog(gd) /\ gd.mount = gmounts /\ gmounts # 0 /\ gd.method \in GMethods
        /\ gd.wait # "none" => gd.loop # 0
        /\ gd.loop # 0 => gd.step = 0 /\ gd.wait # "none" /\ ~gd.busy
        /\ gd.step = 0 => greeted[gmounts] = 0
        /\ \A q \in greqs : q.mount = gmounts =>
            /\ Submits(q) => gd.busy = TRUE /\ gd.step = 0 /\ gd.loop = 0
            /\ q.kind = "finish" => gd.step # 0
GithubInv == GithubNumbers /\ GithubRequests /\ GithubScreen

(* connected(), by a request that is not there any more: its dialog was    *)
(* not connected before, and nothing else is submitted for it.             *)
LEMMA ConnectedInv ==
    ASSUME GithubInv, NEW q \in greqs, NEW a, Connected(q, a), greqs' = greqs \ {q}, UNCHANGED <<moves, gmounts, loops>>,
           greeted[q.mount] = 0, \A p \in greqs : Submits(p) /\ p.mount = q.mount => p = q
    PROVE  GithubInv'
<1>a. MaxMoves \in Nat /\ gmounts \in Nat /\ gmounts <= MaxMoves /\ greeted \in [1..MaxMoves -> Nat]
  BY BaseConstants DEF GithubInv, GithubNumbers
<1>b. q.mount \in 1..gmounts
  BY DEF GithubInv, GithubRequests
<1>1. q.mount \in 1..MaxMoves /\ greeted' = [greeted EXCEPT ![q.mount] = 0 + 1]
  BY <1>a, <1>b DEF Connected
<1>2. /\ greeted' \in [1..MaxMoves -> Nat] /\ greeted'[q.mount] = 1
      /\ \A m \in 1..MaxMoves : m # q.mount => greeted'[m] = greeted[m]
  BY <1>a, <1>1
<1>3. GithubNumbers'
  <2>1. ASSUME NEW m \in 1..MaxMoves PROVE greeted'[m] <= 1 /\ (m > gmounts => greeted'[m] = 0)
    BY <1>a, <1>b, <1>2, <2>1 DEF GithubInv, GithubNumbers, ConnectedOnce
  <2> QED
    BY <1>2, <2>1 DEF GithubInv, GithubNumbers, ConnectedOnce
<1>4. GithubRequests'
  <2>1. \A p \in greqs' : p.mount \in 1..gmounts /\ p.mount \in 1..MaxMoves
    BY <1>a DEF GithubInv, GithubRequests
  <2>2. \A p \in greqs' : Submits(p) => greeted'[p.mount] = 0
    BY <1>2, <2>1 DEF GithubInv, GithubRequests
  <2> QED
    BY <2>1, <2>2 DEF GithubInv, GithubRequests, Submits
<1>5. GithubScreen'
  <2>1. CASE GShown(q)
    <3>1. gd' = [gd EXCEPT !.step = 1, !.account = a, !.wait = "none", !.loop = 0, !.busy = FALSE] /\ gd # None /\ gd.mount = q.mount
      BY <2>1 DEF Connected, GShown
    <3>2. IsGDialog(gd') /\ gd'.step = 1 /\ gd'.wait = "none" /\ gd'.loop = 0 /\ gd'.mount = gd.mount /\ gd'.method = gd.method
      BY <3>1 DEF IsGDialog, GithubInv, GithubScreen
    <3>3. \A p \in greqs' : p.mount = gmounts => ~Submits(p)
      BY <3>1 DEF GithubInv, GithubScreen
    <3> QED
      BY <3>1, <3>2, <3>3 DEF GithubInv, GithubScreen, Submits
  <2>2. CASE ~GShown(q)
    <3>1. gd' = gd
      BY <2>2 DEF Connected
    <3>2. gd # None => gmounts # q.mount /\ gmounts \in 1..MaxMoves
      BY <1>a, <2>2 DEF GShown, GithubInv, GithubScreen
    <3> QED
      BY <1>2, <3>1, <3>2 DEF GithubInv, GithubScreen, Submits, IsGDialog
  <2> QED
    BY <2>1, <2>2
<1> QED
  BY <1>3, <1>4, <1>5 DEF GithubInv

(* No step of the dialog, of its loops or of its requests breaks it.       *)
LEMMA GithubStays == GithubInv /\ (GithubStep \/ UNCHANGED <<githubVars, moves>>) => GithubInv'
<1> SUFFICES ASSUME GithubInv, GithubStep \/ UNCHANGED <<githubVars, moves>> PROVE GithubInv'
  OBVIOUS
<1> USE BaseConstants
<1>1. CASE UNCHANGED <<githubVars, moves>>
  BY <1>1 DEF githubVars, GithubInv, GithubNumbers, GithubRequests, GithubScreen, ConnectedOnce, IsGDialog, Submits
<1>2. CASE OpenGithub
  <2> DEFINE d == [mount |-> gmounts', step |-> 0, method |-> "pat", busy |-> FALSE, wait |-> "none", loop |-> 0,
                   account |-> None, known |-> {}]
  <2>1. gmounts' = gmounts + 1 /\ moves' = moves + 1 /\ moves' <= MaxMoves /\ gd' = d /\ UNCHANGED <<loops, greqs, greeted>>
    BY <1>2 DEF OpenGithub, Move, Spend
  <2>2. IsGDialog(d) /\ d.mount = gmounts + 1 /\ d.step = 0 /\ d.wait = "none" /\ d.loop = 0 /\ d.method \in GMethods
    BY <2>1 DEF IsGDialog, GMethods
  <2> HIDE DEF d
  <2>3. greeted[gmounts + 1] = 0 /\ \A q \in greqs : q.mount # gmounts + 1 /\ q.mount \in 1..gmounts'
    BY <2>1 DEF GithubInv, GithubNumbers, GithubRequests, GithubScreen
  <2> QED
    BY <2>1, <2>2, <2>3 DEF GithubInv, GithubNumbers, GithubRequests, GithubScreen, ConnectedOnce, Submits
<1>3. CASE CloseGithub
  BY <1>3 DEF CloseGithub, GithubInv, GithubNumbers, GithubRequests, GithubScreen, ConnectedOnce, Submits
<1>4. CASE Submit
  <2> DEFINE n == Request(gd.method, 0)
  <2>1. gd # None /\ gd.step = 0 /\ gd.wait = "none" /\ ~gd.busy /\ moves' = moves + 1 /\ moves' <= MaxMoves
        /\ gd' = [gd EXCEPT !.busy = TRUE] /\ greqs' = greqs \cup {n} /\ UNCHANGED <<gmounts, loops, greeted>>
    BY <1>4 DEF Submit, Move, Spend
  <2>2. n.mount = gmounts /\ n.kind = gd.method /\ gd.method \in GMethods /\ greeted[gmounts] = 0 /\ gmounts \in 1..gmounts /\ gd.loop = 0
    BY <2>1 DEF GithubInv, GithubNumbers, GithubRequests, GithubScreen, Request
  <2>3. IsGDialog(gd') /\ gd'.busy = TRUE /\ gd'.step = 0 /\ gd'.wait = gd.wait /\ gd'.loop = gd.loop /\ gd'.mount = gd.mount /\ gd'.method = gd.method
    BY <2>1 DEF GithubInv, GithubNumbers, GithubRequests, GithubScreen, IsGDialog
  <2> HIDE DEF n
  <2>4. \A p \in greqs : p.mount = gmounts => ~Submits(p) /\ p.kind # "finish"
    BY <2>1 DEF GithubInv, GithubNumbers, GithubRequests, GithubScreen
  <2>5. Submits(n) /\ n.kind \notin {"finish", "poll", "tick"}
    BY <2>2 DEF Submits, GMethods
  <2>6. \A q \in greqs' : /\ q.mount \in 1..gmounts /\ (q.kind \in {"poll", "tick"} => q.loop # 0)
                          /\ Submits(q) => greeted[q.mount] = 0 /\ \A p \in greqs' : Submits(p) /\ p.mount = q.mount => p = q
    BY <2>1, <2>2, <2>4, <2>5 DEF GithubInv, GithubNumbers, GithubRequests, GithubScreen
  <2>7. \A q \in greqs' : q.mount = gmounts => q.kind # "finish"
    BY <2>1, <2>4, <2>5
  <2> QED
    BY <2>1, <2>2, <2>3, <2>6, <2>7 DEF GithubInv, GithubNumbers, GithubRequests, GithubScreen, ConnectedOnce
<1>5. CASE (\E m \in GMethods : ChooseMethod(m)) \/ GithubBack
  <2>1. gd # None /\ UNCHANGED <<gmounts, loops, greqs, greeted>> /\ moves' \in moves..MaxMoves
    BY <1>5 DEF ChooseMethod, GithubBack, Spend, GithubInv, GithubNumbers, GithubRequests, GithubScreen
  <2>2. \/ \E m \in GMethods : gd' = [gd EXCEPT !.method = m]
        \/ gd' = [gd EXCEPT !.wait = "none", !.loop = 0]
    BY <1>5 DEF ChooseMethod, GithubBack
  <2>3. IsGDialog(gd') /\ gd'.busy = gd.busy /\ gd'.step = gd.step /\ gd'.mount = gd.mount /\ gd'.method \in GMethods
        /\ ((gd'.wait = gd.wait /\ gd'.loop = gd.loop) \/ (gd'.wait = "none" /\ gd'.loop = 0))
    <3>a. IsGDialog(gd) /\ gd.method \in GMethods
      BY <2>1 DEF GithubInv, GithubScreen
    <3>1. CASE \E m \in GMethods : gd' = [gd EXCEPT !.method = m]
      <4>1. PICK m \in GMethods : gd' = [gd EXCEPT !.method = m]
        BY <3>1
      <4> QED
        BY <3>a, <4>1 DEF IsGDialog
    <3>2. CASE gd' = [gd EXCEPT !.wait = "none", !.loop = 0]
      BY <3>a, <3>2 DEF IsGDialog
    <3> QED
      BY <2>2, <3>1, <3>2
  <2> QED
    BY <2>1, <2>3 DEF GithubInv, GithubNumbers, GithubRequests, GithubScreen, ConnectedOnce, Submits
<1>6. CASE Approve \/ \E a \in Accounts : Install(a)
  BY <1>6 DEF Approve, Install, GithubInv, GithubNumbers, GithubRequests, GithubScreen, ConnectedOnce, Submits, IsGDialog, Move, Spend
<1>7. CASE PollDevice \/ TickAsksList
  <2>1. PICK k \in {"poll", "tick"}, n \in 0..1 : gd # None /\ gd.wait # "none" /\ greqs' = greqs \cup {Request(k, n)}
                                                  /\ UNCHANGED <<gd, gmounts, loops, greeted, moves>>
    BY <1>7 DEF PollDevice, TickAsksList
  <2> DEFINE r == Request(k, n)
  <2>2. r.mount = gmounts /\ r.kind = k /\ r.loop = gd.loop /\ gd.loop # 0 /\ ~Submits(r) /\ r.kind # "finish" /\ gmounts \in 1..gmounts
    BY <2>1 DEF GithubInv, GithubNumbers, GithubRequests, GithubScreen, Request, Submits, GMethods
  <2> HIDE DEF r
  <2>3. greqs' = greqs \cup {r}
    BY <2>1 DEF r
  <2> QED
    BY <2>1, <2>2, <2>3 DEF GithubInv, GithubNumbers, GithubRequests, GithubScreen, ConnectedOnce, IsGDialog, Submits
<1>8. CASE Finish
  <2> DEFINE r == Request("finish", 0)
  <2>1. gd # None /\ gd.step = 1 /\ ~gd.busy /\ gd' = [gd EXCEPT !.busy = TRUE] /\ greqs' = greqs \cup {r} /\ UNCHANGED <<gmounts, loops, greeted, moves>>
    BY <1>8 DEF Finish
  <2>2. r.mount = gmounts /\ r.kind = "finish" /\ ~Submits(r) /\ gmounts \in 1..gmounts
    BY <2>1 DEF GithubInv, GithubNumbers, GithubRequests, GithubScreen, Request, Submits, GMethods
  <2>3. IsGDialog(gd') /\ gd'.busy = TRUE /\ gd'.step = 1 /\ gd'.wait = gd.wait /\ gd'.loop = gd.loop /\ gd'.mount = gd.mount /\ gd'.method = gd.method
    BY <2>1 DEF GithubInv, GithubNumbers, GithubRequests, GithubScreen, IsGDialog
  <2> HIDE DEF r
  <2>4. gd.loop = 0 /\ \A p \in greqs : p.mount = gmounts => ~Submits(p)
    BY <2>1 DEF GithubInv, GithubNumbers, GithubRequests, GithubScreen
  <2> QED
    BY <2>1, <2>2, <2>3, <2>4 DEF GithubInv, GithubNumbers, GithubRequests, GithubScreen, ConnectedOnce, Submits
<1>9. ASSUME NEW q \in greqs, NEW a \in Accounts, PatAnswers(q, a) PROVE GithubInv'
  BY <1>9, ConnectedInv DEF PatAnswers, GithubInv, GithubNumbers, GithubRequests, GithubScreen, Submits, GMethods
<1>10. ASSUME NEW q \in greqs, Alive(q), q.kind \in {"poll", "tick"}
       PROVE  greeted[q.mount] = 0 /\ \A p \in greqs : Submits(p) /\ p.mount = q.mount => p = q
  BY <1>10 DEF Alive, GShown, GithubInv, GithubNumbers, GithubRequests, GithubScreen
<1>11. ASSUME NEW q \in greqs, greqs' = greqs \ {q}, UNCHANGED <<moves, gd, gmounts, loops, greeted>> PROVE GithubInv'
  BY <1>11 DEF GithubInv, GithubNumbers, GithubRequests, GithubScreen, ConnectedOnce, IsGDialog, Submits
<1>12. ASSUME NEW q \in greqs, PollAnswers(q) \/ TickAnswers(q) PROVE GithubInv'
  <2>1. q.kind \in {"poll", "tick"} /\ greqs' = greqs \ {q} /\ UNCHANGED <<moves, gmounts, loops>>
    BY <1>12 DEF PollAnswers, TickAnswers
  <2>2. (Alive(q) /\ \E a \in Accounts \cup accts : Connected(q, a)) \/ UNCHANGED <<gd, greeted>>
    BY <1>12 DEF PollAnswers, TickAnswers
  <2> QED
    BY <1>10, <1>11, <2>1, <2>2, ConnectedInv
<1>13. ASSUME NEW q \in greqs, LoopStarts(q) PROVE GithubInv'
  <2>1. Submits(q) /\ greqs' = greqs \ {q} /\ loops' = loops + 1 /\ UNCHANGED <<gmounts, greeted, moves>>
    BY <1>13 DEF LoopStarts, Submits, GMethods
  <2>2. CASE GShown(q)
    <3>1. PICK K : gd' = [gd EXCEPT !.wait = q.kind, !.loop = loops', !.known = K, !.busy = FALSE]
      BY <1>13, <2>2 DEF LoopStarts
    <3>2. gd # None /\ gd.mount = q.mount /\ gd.step = 0 /\ q.kind # "none" /\ loops' # 0 /\ loops' \in Nat
      BY <2>1, <2>2 DEF GithubInv, GithubNumbers, GithubRequests, GithubScreen, GShown, Submits, GMethods
    <3>3. IsGDialog(gd') /\ gd'.busy = FALSE /\ gd'.step = 0 /\ gd'.wait = q.kind /\ gd'.loop = loops' /\ gd'.mount = gd.mount /\ gd'.method = gd.method
      BY <3>1, <3>2 DEF GithubInv, GithubNumbers, GithubRequests, GithubScreen, IsGDialog
    <3>4. \A p \in greqs' : p.mount = gmounts => ~Submits(p) /\ p.kind # "finish"
      BY <2>1, <3>2 DEF GithubInv, GithubNumbers, GithubRequests, GithubScreen
    <3> QED
      BY <2>1, <3>2, <3>3, <3>4 DEF GithubInv, GithubNumbers, GithubRequests, GithubScreen, ConnectedOnce, Submits
  <2>3. CASE ~GShown(q)
    <3>1. gd' = gd
      BY <1>13, <2>3 DEF LoopStarts
    <3> QED
      BY <2>1, <3>1 DEF GithubInv, GithubNumbers, GithubRequests, GithubScreen, ConnectedOnce, IsGDialog, Submits
  <2> QED
    BY <2>2, <2>3
<1>14. ASSUME NEW q \in greqs, GithubFails(q) \/ FinishAnswers(q) PROVE GithubInv'
  <2>1. q.kind \in GMethods \cup {"finish"} /\ greqs' = greqs \ {q} /\ UNCHANGED <<gmounts, loops, greeted, moves>>
    BY <1>14 DEF GithubFails, FinishAnswers, GMethods
  <2>2. CASE ~GShown(q)
    BY <1>11, <1>14, <2>1, <2>2 DEF GithubFails, FinishAnswers
  <2>3. CASE GShown(q)
    <3>1. gd # None /\ gd.mount = q.mount /\ gd.mount = gmounts /\ IsGDialog(gd)
      BY <2>3 DEF GShown, GithubInv, GithubNumbers, GithubRequests, GithubScreen
    <3>2. gd' = [gd EXCEPT !.busy = FALSE] \/ (q.kind = "finish" /\ gd' = [gd EXCEPT !.step = 2, !.busy = FALSE])
      BY <1>14, <2>3 DEF GithubFails, FinishAnswers
    <3>3. IsGDialog(gd') /\ gd'.busy = FALSE /\ (gd'.step = gd.step \/ (q.kind = "finish" /\ gd'.step = 2))
          /\ gd'.wait = gd.wait /\ gd'.loop = gd.loop /\ gd'.mount = gd.mount /\ gd'.method = gd.method
      <4>1. CASE gd' = [gd EXCEPT !.busy = FALSE]
        <5>1. IsGDialog(gd') /\ gd'.busy = FALSE /\ gd'.step = gd.step
              /\ gd'.wait = gd.wait /\ gd'.loop = gd.loop /\ gd'.mount = gd.mount /\ gd'.method = gd.method
          BY <3>1, <4>1 DEF IsGDialog
        <5> QED
          BY <5>1
      <4>2. CASE q.kind = "finish" /\ gd' = [gd EXCEPT !.step = 2, !.busy = FALSE]
        BY <3>1, <4>2 DEF IsGDialog
      <4> QED
        BY <3>2, <4>1, <4>2
    <3>4. q.kind = "finish" => gd.step # 0
      BY <3>1 DEF GithubInv, GithubNumbers, GithubRequests, GithubScreen
    <3>5. \A p \in greqs' : p.mount = gmounts => ~Submits(p)
      BY <2>1, <3>1, <3>4 DEF GithubInv, GithubNumbers, GithubRequests, GithubScreen, Submits
    <3> QED
      BY <2>1, <3>1, <3>3, <3>4, <3>5 DEF GithubInv, GithubNumbers, GithubRequests, GithubScreen, ConnectedOnce, Submits
  <2> QED
    BY <2>2, <2>3
<1>15. ASSUME NEW q \in greqs, PollFails(q) PROVE GithubInv'
  <2>1. greqs' = greqs \ {q} /\ UNCHANGED <<gmounts, loops, greeted, moves>>
    BY <1>15 DEF PollFails
  <2>2. CASE ~Alive(q)
    BY <1>11, <1>15, <2>1, <2>2 DEF PollFails
  <2>3. CASE Alive(q)
    <3>1. gd # None /\ IsGDialog(gd) /\ gd' = [gd EXCEPT !.wait = "none", !.loop = 0]
      BY <1>15, <2>3 DEF PollFails, Alive, GShown, GithubInv, GithubNumbers, GithubRequests, GithubScreen
    <3>2. IsGDialog(gd') /\ gd'.busy = gd.busy /\ gd'.step = gd.step /\ gd'.wait = "none" /\ gd'.loop = 0 /\ gd'.mount = gd.mount /\ gd'.method = gd.method
      BY <3>1 DEF IsGDialog
    <3> QED
      BY <2>1, <3>1, <3>2 DEF GithubInv, GithubNumbers, GithubRequests, GithubScreen, ConnectedOnce, Submits
  <2> QED
    BY <2>2, <2>3
<1> QED
  BY <1>1, <1>2, <1>3, <1>4, <1>5, <1>6, <1>7, <1>8, <1>9, <1>12, <1>13, <1>14, <1>15 DEF GithubStep

-----------------------------------------------------------------------------
(* Dialogs that rename are numbered by the move that opened them; one that *)
(* has sent its request is busy.                                           *)
IsOp(o) == DOMAIN o = {"kind", "rows", "val", "ver", "card", "nr"}
RenameInv ==
    /\ moves \in Nat /\ OneRenamePerDialog
    /\ \A o \in wops : IsOp(o) /\ (o.kind = "rename" => o.nr \in Nat /\ o.nr <= moves)
    /\ wren # None =>
        /\ DOMAIN wren = {"row", "name", "busy", "nr"} /\ wren.nr \in Nat /\ wren.nr <= moves
        /\ wren.busy = TRUE \/ \A o \in wops : o.kind = "rename" => o.nr # wren.nr

(* Requests are answered or taken notice of: they stay what they are.      *)
LEMMA OpsStay ==
    ASSUME RenameInv, moves' \in Nat, moves <= moves',
           \A o \in wops' : IsOp(o) /\ (o.kind = "rename" => \E q \in wops : q.kind = "rename" /\ q.nr = o.nr),
           \A o, q \in wops' : o.kind = "rename" /\ q.kind = "rename" /\ o.nr = q.nr => o = q,
           wren' = wren \/ wren' = None
    PROVE  RenameInv'
BY DEF RenameInv, OneRenamePerDialog

(* A list that is shown again: cards that are gone take no answers.        *)
LEMMA CardsGo ==
    ASSUME RenameInv, moves' \in Nat, moves <= moves', NEW shows, NEW issues, ShowsCards(shows, issues)
    PROVE  RenameInv'
<1> DEFINE G(o) == [o EXCEPT !.card = @ /\ o.rows \subseteq Cards(shows, issues)]
<1>1. wops' = {G(o) : o \in wops} /\ (wren' = wren \/ wren' = None)
  BY DEF ShowsCards
<1>2. \A o \in wops : IsOp(G(o)) /\ G(o).kind = o.kind /\ G(o).nr = o.nr
  BY DEF RenameInv, IsOp
<1> HIDE DEF G
<1> QED
  BY <1>1, <1>2, OpsStay DEF RenameInv, OneRenamePerDialog

(* A request that is no renaming, or the one of the dialog on screen.      *)
LEMMA SendsOther ==
    ASSUME RenameInv, moves' \in Nat, moves <= moves', NEW kind, NEW S, NEW x, NEW nr, Send(kind, S, x, nr), kind # "rename", wren' = wren
    PROVE  RenameInv'
<1> DEFINE n == [kind |-> kind, rows |-> S, val |-> x, ver |-> None, card |-> TRUE, nr |-> nr]
<1>1. wops' = wops \cup {n} /\ IsOp(n) /\ n.kind = kind
  BY DEF Send, IsOp
<1> HIDE DEF n
<1> QED
  BY <1>1, OpsStay DEF RenameInv, OneRenamePerDialog

(* No step of the Alerts or Uptime page breaks it.                         *)
LEMMA RenameStays == RenameInv /\ (WatchStep \/ UNCHANGED <<watchVars, moves>>) => RenameInv'
<1> SUFFICES ASSUME RenameInv, WatchStep \/ UNCHANGED <<watchVars, moves>> PROVE RenameInv'
  OBVIOUS
<1>m. moves \in Nat
  BY DEF RenameInv
<1>s. ASSUME wops' = wops, wren' = wren \/ wren' = None, moves' \in Nat, moves <= moves' PROVE RenameInv'
  BY <1>s, OpsStay DEF RenameInv, OneRenamePerDialog
<1>1. CASE UNCHANGED <<watchVars, moves>>
  BY <1>m, <1>s, <1>1 DEF watchVars
<1>2. ASSUME NEW w, ChooseView(w) PROVE RenameInv'
  BY <1>m, <1>2, CardsGo DEF ChooseView, Move, Spend
<1>3. ASSUME NEW w, ViewShown(w) PROVE RenameInv'
  BY <1>m, <1>s, <1>3, CardsGo DEF ViewShown
<1>4. CASE ChooseIssues
  BY <1>m, <1>4, CardsGo DEF ChooseIssues, Spend
<1>5. ASSUME NEW w, PollView(w) \/ ViewRead(w) \/ ViewAged(w) PROVE RenameInv'
  BY <1>m, <1>s, <1>5 DEF PollView, ViewRead, ViewAged
<1>6. ASSUME NEW k, NEW S, NEW x, k # "rename", ActOn(k, S, x) PROVE RenameInv'
  <2>1. moves' \in Nat /\ moves <= moves'
    BY <1>m, <1>6 DEF ActOn, Spend
  <2> QED
    BY <1>6, <2>1, SendsOther DEF ActOn
<1>7. CASE MarkAllRead \/ \E r \in Watched : MarkRead(r) \/ SnoozeAlert(r) \/ CheckNow(r) \/ SetEnabled(r)
  BY <1>6, <1>7 DEF MarkAllRead, MarkRead, SnoozeAlert, CheckNow, SetEnabled
<1>8. ASSUME NEW r, AskRemoval(r) PROVE RenameInv'
  BY <1>m, <1>s, <1>8 DEF AskRemoval, Spend
<1>9. ASSUME NEW yes \in BOOLEAN, AnswerRemoval(yes) PROVE RenameInv'
  <2>1. UNCHANGED <<moves, wren>> /\ (UNCHANGED wops \/ Send("hide", {wask}, TRUE, moves))
    BY <1>9 DEF AnswerRemoval
  <2>2. moves' \in Nat /\ moves <= moves' /\ wren' = wren
    BY <1>m, <2>1
  <2>3. CASE UNCHANGED wops
    BY <1>s, <2>2, <2>3
  <2>4. CASE Send("hide", {wask}, TRUE, moves)
    <3>1. "hide" # "rename"
      OBVIOUS
    <3> QED
      BY <2>2, <2>4, <3>1, SendsOther
  <2> QED
    BY <2>1, <2>3, <2>4
<1>10. ASSUME NEW r, OpenRename(r) PROVE RenameInv'
  <2> DEFINE d == [row |-> r, name |-> wshown.list[r].name, busy |-> FALSE, nr |-> moves']
  <2>1. moves' = moves + 1 /\ wren' = d /\ wops' = wops
    BY <1>10 DEF OpenRename, Move, Spend
  <2>2. DOMAIN d = {"row", "name", "busy", "nr"} /\ d.nr = moves + 1
    BY <2>1
  <2> HIDE DEF d
  <2> QED
    BY <1>m, <2>1, <2>2 DEF RenameInv, OneRenamePerDialog
<1>11. ASSUME NEW x, TypeName(x) PROVE RenameInv'
  <2>1. moves' = moves + 1 /\ wren # None /\ wren' = [wren EXCEPT !.name = x] /\ wops' = wops
    BY <1>11 DEF TypeName, Move, Spend
  <2>2. DOMAIN wren' = {"row", "name", "busy", "nr"} /\ wren'.nr = wren.nr /\ wren'.busy = wren.busy
    BY <2>1 DEF RenameInv
  <2> QED
    BY <1>m, <2>1, <2>2 DEF RenameInv, OneRenamePerDialog
<1>12. CASE SaveName
  <2>1. wren # None /\ ~wren.busy /\ moves' = moves + 1
    BY <1>12 DEF SaveName, Move, Spend
  <2>2. CASE wren' = None /\ UNCHANGED wops
    BY <1>m, <1>s, <2>1, <2>2
  <2>3. CASE wren' = [wren EXCEPT !.busy = TRUE] /\ Send("rename", {wren.row}, wren.name, wren.nr)
    <3> DEFINE n == [kind |-> "rename", rows |-> {wren.row}, val |-> wren.name, ver |-> None, card |-> TRUE, nr |-> wren.nr]
    <3>1. wops' = wops \cup {n} /\ IsOp(n) /\ n.nr = wren.nr
      BY <2>3 DEF Send, IsOp
    <3>2. DOMAIN wren' = {"row", "name", "busy", "nr"} /\ wren'.nr = wren.nr /\ wren'.busy = TRUE
      BY <2>1, <2>3 DEF RenameInv
    <3>3. wren.nr \in Nat /\ wren.nr <= moves /\ \A o \in wops : o.kind = "rename" => o.nr # wren.nr
      BY <2>1 DEF RenameInv
    <3> HIDE DEF n
    <3> QED
      BY <1>m, <2>1, <3>1, <3>2, <3>3 DEF RenameInv, OneRenamePerDialog
  <2> QED
    BY <1>12, <2>2, <2>3 DEF SaveName
<1>13. CASE CancelRename
  BY <1>m, <1>s, <1>13 DEF CancelRename
<1>14. ASSUME NEW o \in wops, OpApplied(o) PROVE RenameInv'
  <2> DEFINE n == [o EXCEPT !.ver = wver']
  <2>1. wops' = (wops \ {o}) \cup {n} /\ UNCHANGED <<wren, moves>>
    BY <1>14 DEF OpApplied
  <2>2. IsOp(n) /\ n.kind = o.kind /\ n.nr = o.nr
    BY <1>14 DEF RenameInv, IsOp
  <2> HIDE DEF n
  <2> QED
    BY <1>m, <2>1, <2>2, OpsStay DEF RenameInv, OneRenamePerDialog
<1>15. ASSUME NEW o \in wops, OpAnswered(o) PROVE RenameInv'
  <2>1. wops' = wops \ {o} /\ (wren' = wren \/ wren' = None) /\ UNCHANGED moves
    BY <1>15 DEF OpAnswered
  <2> QED
    BY <1>m, <2>1, OpsStay DEF RenameInv, OneRenamePerDialog
<1>16. ASSUME NEW o \in wops, OpFails(o) PROVE RenameInv'
  <2>1. wops' = wops \ {o} /\ UNCHANGED moves
    BY <1>16 DEF OpFails
  <2>2. CASE o.kind = "rename" /\ wren # None /\ wren.nr = o.nr
    <3>1. wren' = [wren EXCEPT !.busy = FALSE]
      BY <1>16, <2>2 DEF OpFails
    <3>2. DOMAIN wren' = {"row", "name", "busy", "nr"} /\ wren'.nr = wren.nr
      BY <2>2, <3>1 DEF RenameInv
    <3> QED
      BY <1>m, <2>1, <2>2, <3>2 DEF RenameInv, OneRenamePerDialog
  <2>3. CASE ~(o.kind = "rename" /\ wren # None /\ wren.nr = o.nr)
    <3>1. wren' = wren
      BY <1>16, <2>3 DEF OpFails
    <3> QED
      BY <1>m, <2>1, <3>1, OpsStay DEF RenameInv, OneRenamePerDialog
  <2> QED
    BY <2>2, <2>3
<1>17. ASSUME NEW r, NEW x, RowChanges(r, x) PROVE RenameInv'
  BY <1>m, <1>s, <1>17 DEF RowChanges, Spend
<1> QED
  BY <1>1, <1>2, <1>3, <1>4, <1>5, <1>7, <1>8, <1>9, <1>10, <1>11, <1>12, <1>13, <1>14, <1>15, <1>16, <1>17 DEF WatchStep

-----------------------------------------------------------------------------
(* The last request for a prediction is the only one that counts, and is   *)
(* for what is selected.                                                   *)
PredictInv ==
    /\ ImpactIsOfSelection
    /\ DOMAIN predict = {"timer", "asked", "busy"}
    /\ \A a \in predict.asked : DOMAIN a = {"of", "cur"} /\ (a.cur = TRUE => a.of = picked)

(* A change of the selection: predictions asked for before no longer       *)
(* count.                                                                  *)
LEMMA PicksInv == ASSUME PredictInv, NEW S, Picks(S) PROVE PredictInv'
<1> DEFINE gone == {[a EXCEPT !.cur = FALSE] : a \in predict.asked}
<1>1. \A a \in predict.asked : DOMAIN [a EXCEPT !.cur = FALSE] = {"of", "cur"} /\ [a EXCEPT !.cur = FALSE].cur = FALSE
  BY DEF PredictInv
<1>2. \A b \in gone : DOMAIN b = {"of", "cur"} /\ b.cur = FALSE
  BY <1>1
<1>3. CASE S = picked
  BY <1>3 DEF Picks, Repredict, PredictInv, ImpactIsOfSelection
<1>4. CASE S # picked /\ S = {}
  <2>1. impact' = None /\ predict' = [predict EXCEPT !.timer = FALSE, !.asked = gone] /\ picked' = S
    BY <1>4 DEF Picks, Repredict
  <2> HIDE DEF gone
  <2>2. DOMAIN predict' = {"timer", "asked", "busy"} /\ predict'.asked = gone
    BY <2>1 DEF PredictInv
  <2> QED
    BY <1>2, <2>1, <2>2 DEF PredictInv, ImpactIsOfSelection
<1>5. CASE S # picked /\ S # {}
  <2>1. predict' = [timer |-> TRUE, asked |-> gone, busy |-> TRUE] /\ impact' = impact /\ picked' = S
    BY <1>5 DEF Picks, Repredict
  <2> HIDE DEF gone
  <2>2. DOMAIN predict' = {"timer", "asked", "busy"} /\ predict'.asked = gone /\ predict'.busy = TRUE
    BY <2>1
  <2> QED
    BY <1>2, <2>1, <2>2 DEF PredictInv, ImpactIsOfSelection
<1> QED
  BY <1>3, <1>4, <1>5

(* No step of the Machines page breaks it.                                 *)
LEMMA PredictStays == PredictInv /\ (PatchStep \/ BaselineStep \/ UNCHANGED machineVars) => PredictInv'
<1> SUFFICES ASSUME PredictInv, PatchStep \/ BaselineStep \/ UNCHANGED machineVars PROVE PredictInv'
  OBVIOUS
<1>s. ASSUME UNCHANGED <<picked, impact, predict>> PROVE PredictInv'
  BY <1>s DEF PredictInv, ImpactIsOfSelection
<1>1. CASE (\E S \in SUBSET Pkgs : Scanned(S)) \/ (\E p \in Pkgs : TogglePkg(p)) \/ SelectAll \/ \E q \in orders : OrderDone(q)
  BY <1>1, PicksInv DEF Scanned, TogglePkg, SelectAll, OrderDone
<1>2. CASE PredictAsks
  <2> DEFINE n == [of |-> picked, cur |-> TRUE]
  <2>1. DOMAIN n = {"of", "cur"} /\ n.of = picked
    OBVIOUS
  <2>2. predict' = [predict EXCEPT !.timer = FALSE, !.asked = @ \cup {n}] /\ UNCHANGED <<picked, impact>>
    BY <1>2 DEF PredictAsks
  <2> HIDE DEF n
  <2>3. DOMAIN predict' = {"timer", "asked", "busy"} /\ predict'.asked = predict.asked \cup {n} /\ predict'.busy = predict.busy
    BY <2>2 DEF PredictInv
  <2> QED
    BY <2>1, <2>2, <2>3 DEF PredictInv, ImpactIsOfSelection
<1>3. ASSUME NEW a \in predict.asked, PredictAnswers(a) PROVE PredictInv'
  <2>1. picked' = picked
    BY <1>3 DEF PredictAnswers
  <2>2. CASE a.cur
    <3>1. PICK ok \in BOOLEAN : impact' = (IF ok THEN a.of ELSE None) /\ predict' = [predict EXCEPT !.asked = @ \ {a}, !.busy = FALSE]
      BY <1>3, <2>2 DEF PredictAnswers, StillAsked
    <3>2. DOMAIN predict' = {"timer", "asked", "busy"} /\ predict'.asked = predict.asked \ {a}
      BY <3>1 DEF PredictInv
    <3>3. impact' # None => impact' = picked
      BY <2>2, <3>1 DEF PredictInv
    <3> QED
      BY <2>1, <3>2, <3>3 DEF PredictInv, ImpactIsOfSelection
  <2>3. CASE ~a.cur
    <3>1. impact' = impact /\ predict' = [predict EXCEPT !.asked = @ \ {a}]
      BY <1>3, <2>3 DEF PredictAnswers, StillAsked
    <3>2. DOMAIN predict' = {"timer", "asked", "busy"} /\ predict'.asked = predict.asked \ {a} /\ predict'.busy = predict.busy
      BY <3>1 DEF PredictInv
    <3> QED
      BY <2>1, <3>1, <3>2 DEF PredictInv, ImpactIsOfSelection
  <2> QED
    BY <2>2, <2>3
<1>4. CASE InstallPicked \/ AskMachine \/ TellMachine \/ MachineYes \/ MachineNo
  BY <1>s, <1>4 DEF InstallPicked, AskMachine, TellMachine, MachineYes, MachineNo
<1>5. CASE BaselineStep
  BY <1>s, <1>5 DEF BaselineStep, TogglePart, ToggleDraft, EditBaseline, RemoveBaseline, CancelDraft, SaveDraft, Refetch, PutAnswers, PutFails, patchVars
<1>6. CASE UNCHANGED machineVars
  BY <1>s, <1>6 DEF machineVars, patchVars
<1> QED
  BY <1>1, <1>2, <1>3, <1>4, <1>5, <1>6 DEF PatchStep

-----------------------------------------------------------------------------
(* Lines are numbered per socket; a buffer that ends with line e of the    *)
(* socket followed holds the lines before it without a hole.               *)
LogLine == [stream : Nat, n : Int]
EndsAt(w, s, e) == s \in Seq(LogLine) /\ \A i \in 1..Len(s) : s[i] = [stream |-> w, n |-> e - Len(s) + i]

(* Slicing keeps the end.                                                  *)
LEMMA LastLinesEnd ==
    ASSUME NEW w, NEW s, NEW e \in Int, EndsAt(w, s, e)
    PROVE  EndsAt(w, LastLines(s), e) /\ Len(LastLines(s)) = IF Len(s) > MaxLines THEN MaxLines ELSE Len(s)
<1>a. MaxLines \in Nat /\ MaxLines # 0 /\ s \in Seq(LogLine) /\ Len(s) \in Nat
  BY LogConstants DEF EndsAt
<1>1. CASE Len(s) > MaxLines
  <2> DEFINE t == SubSeq(s, Len(s) - MaxLines + 1, Len(s))
  <2>1. LastLines(s) = t
    BY <1>1 DEF LastLines
  <2>2. t \in Seq(LogLine) /\ Len(t) = MaxLines /\ \A i \in 1..MaxLines : t[i] = s[Len(s) - MaxLines + i] 
    BY <1>a, <1>1
  <2> HIDE DEF t
  <2>3. ASSUME NEW i \in 1..MaxLines PROVE t[i] = [stream |-> w, n |-> e - MaxLines + i]
    <3>1. Len(s) - MaxLines + i \in 1..Len(s)
      BY <1>a, <1>1
    <3>2. s[Len(s) - MaxLines + i] = [stream |-> w, n |-> e - Len(s) + (Len(s) - MaxLines + i)]
      BY <3>1 DEF EndsAt
    <3>3. e - Len(s) + (Len(s) - MaxLines + i) = e - MaxLines + i
      BY <1>a
    <3> QED
      BY <2>2, <3>2, <3>3
  <2> QED
    BY <1>1, <2>1, <2>2, <2>3 DEF EndsAt
<1>2. CASE ~(Len(s) > MaxLines)
  BY <1>2 DEF LastLines
<1> QED
  BY <1>1, <1>2

(* What follows without a hole may be appended.                            *)
LEMMA AppendEnds ==
    ASSUME NEW w, NEW s, NEW t, NEW d \in Int, NEW e \in Int, EndsAt(w, s, d), EndsAt(w, t, e), s = <<>> \/ d = e - Len(t)
    PROVE  EndsAt(w, s \o t, e) /\ Len(s \o t) = Len(s) + Len(t)
<1>1. s \in Seq(LogLine) /\ t \in Seq(LogLine) /\ Len(s) \in Nat /\ Len(t) \in Nat
  BY DEF EndsAt
<1>2. s \o t \in Seq(LogLine) /\ Len(s \o t) = Len(s) + Len(t)
  BY <1>1
<1>3. ASSUME NEW i \in 1..(Len(s) + Len(t)) PROVE (s \o t)[i] = [stream |-> w, n |-> e - (Len(s) + Len(t)) + i]
  <2>1. CASE i <= Len(s)
    <3>1. (s \o t)[i] = s[i] /\ i \in 1..Len(s) /\ s # <<>>
      BY <1>1, <2>1
    <3>2. s[i] = [stream |-> w, n |-> d - Len(s) + i]
      BY <3>1 DEF EndsAt
    <3>3. d - Len(s) + i = e - (Len(s) + Len(t)) + i
      BY <1>1, <3>1
    <3> QED
      BY <3>1, <3>2, <3>3
  <2>2. CASE i > Len(s)
    <3>1. (s \o t)[i] = t[i - Len(s)] /\ i - Len(s) \in 1..Len(t)
      BY <1>1, <2>2
    <3>2. t[i - Len(s)] = [stream |-> w, n |-> e - Len(t) + (i - Len(s))] /\ e - Len(t) + (i - Len(s)) = e - (Len(s) + Len(t)) + i
      BY <1>1, <3>1 DEF EndsAt
    <3> QED
      BY <3>1, <3>2
  <2> QED
    BY <1>1, <2>1, <2>2
<1> QED
  BY <1>2, <1>3 DEF EndsAt

(* What is shown joins the buffer, unless the buffer was cut: it then      *)
(* replaces what is shown.  The socket followed was not left.              *)
LinesInv ==
    /\ seq \in Nat /\ stream \in Nat /\ live \in BOOLEAN
    /\ EndsAt(stream, pending, seq)
    /\ \E d \in Int : EndsAt(stream, lines, d) /\ (Len(pending) < MaxLines => d = seq - Len(pending))
    /\ pending # <<>> => timer = TRUE \/ live = FALSE
SockInv ==
    /\ stream \in 0..MaxStreams /\ opened \in Nat /\ DOMAIN sock = Streams
    /\ stream # 0 => sock[stream] \notin {"none", "aborting", "closing"}
    /\ StatusIsOfThisSocket
LogInv == LinesInv /\ SockInv

(* A flush joins the buffer to what is shown, or replaces what is shown by *)
(* a buffer that was cut.                                                  *)
LEMMA FlushEnds ==
    ASSUME LinesInv, NEW on \in BOOLEAN, FlushLines(on), live' = on, UNCHANGED <<seq, stream>>
    PROVE  LinesInv'
<1>a. MaxLines \in Nat /\ MaxLines # 0 /\ seq \in Nat /\ EndsAt(stream, pending, seq) /\ Len(pending) \in Nat
  BY LogConstants DEF LinesInv, EndsAt
<1>1. PICK d \in Int : EndsAt(stream, lines, d) /\ (Len(pending) < MaxLines => d = seq - Len(pending))
  BY DEF LinesInv
<1>2. CASE ~on \/ pending = <<>>
  BY <1>2 DEF FlushLines, LinesInv, EndsAt
<1>3. CASE on /\ pending # <<>>
  <2>1. lines' = LastLines(lines \o pending) /\ pending' = <<>>
    BY <1>3 DEF FlushLines
  <2>2. EndsAt(stream, LastLines(lines \o pending), seq)
    <3>1. CASE Len(pending) < MaxLines
      <4>1. EndsAt(stream, lines \o pending, seq)
        BY <1>1, <1>a, <3>1, AppendEnds
      <4> QED
        BY <1>a, <4>1, LastLinesEnd
    <3>2. CASE ~(Len(pending) < MaxLines)
      <4> DEFINE u == lines \o pending
                 t == SubSeq(u, Len(u) - MaxLines + 1, Len(u))
      <4>1. lines \in Seq(LogLine) /\ pending \in Seq(LogLine) /\ Len(lines) \in Nat
        BY <1>1, <1>a DEF EndsAt
      <4>2. u \in Seq(LogLine) /\ Len(u) = Len(lines) + Len(pending)
        BY <4>1
      <4>3. ASSUME NEW k \in 1..Len(pending) PROVE u[Len(lines) + k] = [stream |-> stream, n |-> seq - Len(pending) + k]
        <5>1. u[Len(lines) + k] = pending[k]
          BY <4>1, <1>a
        <5> QED
          BY <1>a, <5>1 DEF EndsAt
      <4> HIDE DEF u
      <4>4. LastLines(u) = IF Len(u) > MaxLines THEN t ELSE u
        BY DEF LastLines
      <4>5. CASE Len(u) > MaxLines
        <5>1. t \in Seq(LogLine) /\ Len(t) = MaxLines /\ \A i \in 1..MaxLines : t[i] = u[Len(u) - MaxLines + i]
          <6>1. Len(u) - MaxLines + 1 \in 1..Len(u) /\ Len(u) \in Nat /\ Len(u) - (Len(u) - MaxLines + 1) + 1 = MaxLines
            BY <1>a, <4>2, <4>5
          <6>2. Len(t) = MaxLines /\ \A i \in 1..MaxLines : t[i] = u[(Len(u) - MaxLines + 1) + i - 1]
            BY <1>a, <4>2, <6>1, SubSeqProperties
          <6>3. t \in Seq(LogLine)
            BY <4>2, <6>1, SubSeqProperties
          <6>4. \A i \in 1..MaxLines : (Len(u) - MaxLines + 1) + i - 1 = Len(u) - MaxLines + i
            BY <1>a, <6>1
          <6> HIDE DEF t
          <6> QED
            BY <6>2, <6>3, <6>4
        <5> HIDE DEF t
        <5>2. ASSUME NEW i \in 1..MaxLines PROVE t[i] = [stream |-> stream, n |-> seq - MaxLines + i]
          <6> DEFINE k == Len(pending) - MaxLines + i
          <6>1. k \in 1..Len(pending) /\ Len(u) - MaxLines + i = Len(lines) + k /\ seq - Len(pending) + k = seq - MaxLines + i
            BY <1>a, <3>2, <4>1, <4>2
          <6> HIDE DEF k
          <6> QED
            BY <4>3, <5>1, <6>1
        <5> QED
          BY <4>4, <4>5, <5>1, <5>2 DEF EndsAt, u
      <4>6. CASE ~(Len(u) > MaxLines)
        <5>1. Len(lines) = 0 /\ lines = <<>>
          BY <1>a, <3>2, <4>1, <4>2, <4>6
        <5>2. EndsAt(stream, lines \o pending, seq)
          BY <1>1, <1>a, <5>1, AppendEnds
        <5> QED
          BY <4>4, <4>6, <5>2 DEF u
      <4> QED
        BY <4>5, <4>6
    <3> QED
      BY <3>1, <3>2
  <2>3. EndsAt(stream', lines', seq) /\ EndsAt(stream', pending', seq) /\ Len(pending') = 0 /\ seq' = seq /\ seq' - Len(pending') = seq
    BY <1>a, <2>1, <2>2 DEF EndsAt
  <2> QED
    BY <1>a, <2>1, <2>3 DEF LinesInv
<1> QED
  BY <1>2, <1>3

(* A new socket starts with nothing shown or buffered.                     *)
LEMMA EffectRuns == ASSUME LogInv, RunEffect, live' \in BOOLEAN PROVE LogInv'
<1>a. MaxStreams \in Nat /\ opened \in Nat /\ opened < MaxStreams /\ stream' = opened + 1 /\ opened' = opened + 1
  BY LogConstants DEF RunEffect, LogInv, SockInv
<1>1. DOMAIN Cleaned(stream) = Streams
  BY DEF Cleaned, LogInv, SockInv
<1>2. sock' = [Cleaned(stream) EXCEPT ![opened + 1] = "connecting"] /\ opened + 1 \in Streams
  BY <1>a DEF RunEffect, Streams
<1>3. DOMAIN sock' = Streams /\ sock'[stream'] = "connecting"
  BY <1>a, <1>1, <1>2
<1>4. logStatus' = "connecting"
  BY DEF RunEffect
<1>5. SockInv'
  BY <1>a, <1>3, <1>4 DEF SockInv, StatusIsOfThisSocket
<1>6. lines' = <<>> /\ pending' = <<>> /\ seq' = 0
  BY DEF RunEffect
<1>7. EndsAt(stream', <<>>, 0) /\ Len(<<>>) = 0
  BY DEF EndsAt
<1>8. LinesInv'
  BY <1>a, <1>6, <1>7 DEF LinesInv
<1> QED
  BY <1>5, <1>8 DEF LogInv

(* So does a view that is gone.                                            *)
LEMMA Unmounted == ASSUME LogInv, LogUnmount PROVE LogInv'
<1>1. DOMAIN sock' = Streams /\ stream' = 0 /\ opened' = opened /\ lines' = <<>> /\ pending' = <<>> /\ seq' = 0 /\ live' = TRUE
  BY DEF Cleaned, LogInv, SockInv, LogUnmount
<1>2. EndsAt(stream', <<>>, 0) /\ Len(<<>>) = 0
  BY DEF EndsAt
<1> QED
  BY <1>1, <1>2, LogConstants DEF LogInv, SockInv, LinesInv, StatusIsOfThisSocket

(* No step of a view or of any socket breaks it.                           *)
LEMMA LogStays == LogInv /\ (LogStep \/ UNCHANGED logVars) => LogInv'
<1> SUFFICES ASSUME LogInv, LogStep \/ UNCHANGED logVars PROVE LogInv'
  OBVIOUS
<1>l. ASSUME UNCHANGED <<stream, lines, pending, timer, live, seq>> PROVE LinesInv'
  BY <1>l DEF LogInv, LinesInv, EndsAt
<1>s. ASSUME UNCHANGED <<stream, opened, sock, logStatus>> PROVE SockInv'
  BY <1>s DEF LogInv, SockInv, StatusIsOfThisSocket
<1>1. CASE UNCHANGED logVars
  BY <1>l, <1>s, <1>1 DEF LogInv, logVars
<1>2. CASE SetMode
  BY <1>2, EffectRuns DEF SetMode, LogInv, LinesInv
<1>3. CASE SetLive
  <2>1. CASE live
    BY <1>s, <1>3, <2>1 DEF SetLive, LogInv, LinesInv, EndsAt
  <2>2. CASE ~live
    <3>1. FlushLines(TRUE) /\ live' = TRUE /\ UNCHANGED <<seq, stream>>
      BY <1>3, <2>2 DEF SetLive, LogInv, LinesInv
    <3> QED
      BY <1>s, <1>3, <3>1, FlushEnds DEF SetLive, LogInv
  <2> QED
    BY <2>1, <2>2
<1>4. CASE FlushTimer
  BY <1>s, <1>4, FlushEnds DEF FlushTimer, LogInv, LinesInv
<1>5. ASSUME NEW s \in Streams, SockOpens(s) \/ SockError(s) PROVE LogInv'
  <2>1. LinesInv'
    BY <1>l, <1>5 DEF SockOpens, SockError
  <2>2. SockInv'
    <3>1. \E x \in {"open", "closing", "broken"} : sock' = [sock EXCEPT ![s] = x] /\ (s = stream => x # "closing" /\ logStatus' = IF x = "open" THEN "live" ELSE "error")
          /\ (s # stream => logStatus' = logStatus) /\ UNCHANGED <<stream, opened>>
      <4>1. CASE SockOpens(s)
        <5>1. CASE sock[s] = "connecting"
          BY <4>1, <5>1 DEF SockOpens
        <5>2. CASE sock[s] # "connecting"
          <6>1. sock[s] = "aborting" /\ s # stream
            BY <4>1, <5>2 DEF SockOpens, LogInv, SockInv, Streams
          <6> QED
            BY <4>1, <5>2, <6>1 DEF SockOpens
        <5> QED
          BY <5>1, <5>2
      <4>2. CASE SockError(s)
        BY <4>2 DEF SockError
      <4> QED
        BY <1>5, <4>1, <4>2
    <3> QED
      BY <3>1 DEF LogInv, SockInv, StatusIsOfThisSocket
  <2> QED
    BY <2>1, <2>2 DEF LogInv
<1>6. ASSUME NEW s \in Streams, SockClose(s) PROVE LogInv'
  <2>1. LinesInv'
    BY <1>l, <1>6, FlushEnds DEF SockClose, LogInv, LinesInv
  <2>2. SockInv'
    BY <1>6 DEF SockClose, LogInv, SockInv, StatusIsOfThisSocket
  <2> QED
    BY <2>1, <2>2 DEF LogInv
<1>7. ASSUME NEW s \in Streams, NEW k \in 1..MaxSent, SockMessage(s, k) PROVE LogInv'
  <2> DEFINE new == [i \in 1..k |-> [stream |-> s, n |-> seq + i]]
  <2>a. MaxLines \in Nat /\ MaxLines # 0 /\ k \in Nat \ {0} /\ seq \in Nat /\ s = stream /\ stream \in Nat /\ EndsAt(stream, pending, seq)
    BY <1>7, LogConstants DEF SockMessage, LogInv, LinesInv
  <2>1. pending' = LastLines(pending \o new) /\ seq' = seq + k /\ timer' = TRUE /\ UNCHANGED <<stream, opened, sock, logStatus, lines, live>>
    BY <1>7 DEF SockMessage
  <2>2. EndsAt(stream, new, seq + k) /\ Len(new) = k
    <3>1. new \in Seq(LogLine) /\ Len(new) = k
      BY <2>a DEF LogLine
    <3>2. ASSUME NEW i \in 1..Len(new) PROVE new[i] = [stream |-> stream, n |-> (seq + k) - Len(new) + i]
      <4>1. (seq + k) - Len(new) + i = seq + i /\ i \in 1..k
        BY <2>a, <3>1
      <4>2. new[i] = [stream |-> s, n |-> seq + i]
        BY <4>1
      <4> HIDE DEF new
      <4> QED
        BY <2>a, <4>1, <4>2
    <3> HIDE DEF new
    <3> DEFINE e == seq + k
    <3>3. \A i \in 1..Len(new) : new[i] = [stream |-> stream, n |-> e - Len(new) + i]
      BY <3>2
    <3> HIDE DEF e
    <3>4. EndsAt(stream, new, e)
      BY <3>1, <3>3 DEF EndsAt
    <3> QED
      BY <3>1, <3>4 DEF e
  <2> HIDE DEF new
  <2>3. seq + k \in Int /\ seq = seq + k - Len(new)
    BY <2>a, <2>2
  <2>4. EndsAt(stream, pending \o new, seq + k) /\ Len(pending \o new) = Len(pending) + k
    BY <2>a, <2>2, <2>3, AppendEnds
  <2>5. EndsAt(stream, LastLines(pending \o new), seq + k)
        /\ Len(LastLines(pending \o new)) = IF Len(pending) + k > MaxLines THEN MaxLines ELSE Len(pending) + k
    BY <2>3, <2>4, LastLinesEnd
  <2>6. EndsAt(stream', pending', seq') /\ Len(pending') = IF Len(pending) + k > MaxLines THEN MaxLines ELSE Len(pending) + k
    BY <2>1, <2>5 DEF EndsAt
  <2>7. PICK d \in Int : EndsAt(stream, lines, d) /\ (Len(pending) < MaxLines => d = seq - Len(pending))
    BY DEF LogInv, LinesInv
  <2>8. EndsAt(stream', lines', d)
    BY <2>1, <2>7 DEF EndsAt
  <2>9. Len(pending') < MaxLines => d = seq' - Len(pending')
    <3>1. Len(pending) \in Nat
      BY <2>a DEF EndsAt
    <3> QED
      BY <2>1, <2>a, <2>6, <2>7, <3>1
  <2>10. LinesInv'
    <3>1. \E e \in Int : EndsAt(stream', lines', e) /\ (Len(pending') < MaxLines => e = seq' - Len(pending'))
      BY <2>8, <2>9
    <3> QED
      BY <2>1, <2>a, <2>6, <3>1 DEF LinesInv, LogInv
  <2> QED
    BY <1>s, <2>1, <2>10 DEF LogInv
<1> QED
  BY <1>1, <1>2, <1>3, <1>4, <1>5, <1>6, <1>7 DEF LogStep

(* What the view's invariants say on screen.                               *)
LEMMA LogImplies == LogInv => ShownIsConsecutive /\ BufferedIsScheduled /\ StatusIsOfThisSocket
<1> SUFFICES ASSUME LogInv PROVE ShownIsConsecutive /\ BufferedIsScheduled
  BY DEF LogInv, SockInv
<1>1. PICK d \in Int : EndsAt(stream, lines, d)
  BY DEF LogInv, LinesInv
<1>2. lines \in Seq(LogLine) /\ Len(lines) \in Nat
  BY <1>1 DEF EndsAt
<1>3. ShownIsConsecutive
  <2>1. ASSUME NEW i \in 1..Len(lines) PROVE lines[i].stream = stream /\ lines[i].n = d - Len(lines) + i
    <3>1. lines[i] = [stream |-> stream, n |-> d - Len(lines) + i]
      BY <1>1 DEF EndsAt
    <3> QED
      BY <3>1
  <2>2. ASSUME NEW i \in 1..Len(lines), i < Len(lines) PROVE lines[i + 1].n = lines[i].n + 1
    <3>1. i + 1 \in 1..Len(lines) /\ d - Len(lines) + (i + 1) = (d - Len(lines) + i) + 1
      BY <1>2, <2>2
    <3>2. lines[i + 1].n = d - Len(lines) + (i + 1) /\ lines[i].n = d - Len(lines) + i
      BY <2>1, <3>1
    <3> QED
      BY <3>1, <3>2
  <2> QED
    BY <2>1, <2>2 DEF ShownIsConsecutive
<1>4. pending \in Seq(LogLine) /\ seq \in Nat /\ Len(pending) \in Nat /\ \A i \in 1..Len(pending) : pending[i] = [stream |-> stream, n |-> seq - Len(pending) + i]
  BY DEF LogInv, LinesInv, EndsAt
<1>5. pending # <<>> => pending[Len(pending)] = [stream |-> stream, n |-> seq]
  <2> SUFFICES ASSUME pending # <<>> PROVE pending[Len(pending)] = [stream |-> stream, n |-> seq]
    OBVIOUS
  <2>1. Len(pending) \in 1..Len(pending) /\ seq - Len(pending) + Len(pending) = seq
    BY <1>4
  <2> QED
    BY <1>4, <2>1
<1> QED
  BY <1>3, <1>5 DEF BufferedIsScheduled, LogInv, LinesInv

-----------------------------------------------------------------------------
(* Keys are given out once, in order.                                      *)
TabsInv ==
    /\ tabs \in Seq(Tab) /\ tabSeq \in Nat
    /\ \A i \in 1..Len(tabs) : tabs[i].key <= tabSeq
    /\ \A i, j \in 1..Len(tabs) : tabs[i].key = tabs[j].key => i = j

(* The run of a mounted effect is not disposed, the only one of its tab,   *)
(* and what its tab shows; a disposed run is closed or about to find out.  *)
TabStates == {"none", "connecting", "open", "ended"}
StateOf(at) == IF at \in {"over", "closed"} THEN "ended" ELSE IF at = "open" THEN "open" ELSE "connecting"
ShowsRun(k) ==
    /\ k \in TabKeys /\ cur[k] \in 1..Len(runs) /\ runs[cur[k]].key = k /\ ~runs[cur[k]].disposed
    /\ terms[k] \in {0, cur[k]}
    /\ k \in ended <=> runs[cur[k]].at \in {"over", "closed"}
    /\ tabStatus[k] = StateOf(runs[cur[k]].at)
IsGone(x) == x.disposed /\ x.at \in {"import", "fonts", "closed"}
RunsInv ==
    /\ runs \in Seq(Run) /\ known \in [Ssh -> HostKeys \cup {None}] /\ ended \subseteq TabIds
    /\ cur \in [TabIds -> Nat] /\ terms \in [TabIds -> Nat] /\ tabStatus \in [TabIds -> TabStates]
    /\ \A r \in 1..Len(runs) : IsGone(runs[r]) \/ (~runs[r].disposed /\ cur[runs[r].key] = r)
    /\ \A k \in TabIds : IF cur[k] = 0 THEN terms[k] = 0 /\ k \notin ended ELSE ShowsRun(k)
TermInv == TabsInv /\ RunsInv

(* A step of one run.                                                      *)
LEMMA RunGoes ==
    ASSUME RunsInv, NEW r \in 1..Len(runs), NEW u \in Run, u.key = runs[r].key, runs' = [runs EXCEPT ![r] = u],
           UNCHANGED <<tabs, cur>>, known' \in [Ssh -> HostKeys \cup {None}],
           \/ IsGone(runs[r]) /\ IsGone(u) /\ UNCHANGED <<ended, tabStatus, terms>>
           \/ /\ ~runs[r].disposed /\ ~u.disposed
              /\ terms' = terms \/ terms' = [terms EXCEPT ![u.key] = r]
              /\ ended' = IF u.at \in {"over", "closed"} THEN ended \cup {u.key} ELSE ended
              /\ u.at \notin {"over", "closed"} => runs[r].at \notin {"over", "closed"}
              /\ tabStatus' = [tabStatus EXCEPT ![u.key] = StateOf(u.at)]
    PROVE  RunsInv'
<1>a. runs \in Seq(Run) /\ Len(runs) \in Nat /\ cur \in [TabIds -> Nat] /\ terms \in [TabIds -> Nat] /\ tabStatus \in [TabIds -> TabStates] /\ ended \subseteq TabIds
  BY DEF RunsInv
<1>b. runs' \in Seq(Run) /\ Len(runs') = Len(runs) /\ runs'[r] = u /\ \A q \in 1..Len(runs) : q # r => runs'[q] = runs[q]
  BY <1>a
<1>c. TabKeys' = TabKeys /\ r \in Nat /\ r # 0
  BY <1>a DEF TabKeys
<1>d. u.key \in TabIds
  BY DEF Run
<1>1. CASE IsGone(runs[r]) /\ IsGone(u) /\ UNCHANGED <<ended, tabStatus, terms>>
  <2>1. \A q \in 1..Len(runs') : IsGone(runs'[q]) \/ (~runs'[q].disposed /\ cur'[runs'[q].key] = q)
    BY <1>1, <1>b DEF RunsInv
  <2>2. ASSUME NEW k \in TabIds, cur[k] # 0 PROVE ShowsRun(k)'
    <3>1. ShowsRun(k) /\ cur[k] # r
      BY <1>1, <2>2 DEF RunsInv, ShowsRun, IsGone
    <3> QED
      BY <1>1, <1>b, <1>c, <3>1 DEF ShowsRun
  <2> QED
    BY <1>1, <1>a, <1>b, <2>1, <2>2 DEF RunsInv
<1>2. CASE ~(IsGone(runs[r]) /\ IsGone(u) /\ UNCHANGED <<ended, tabStatus, terms>>)
  <2>a. /\ ~runs[r].disposed /\ ~u.disposed
        /\ terms' = terms \/ terms' = [terms EXCEPT ![u.key] = r]
        /\ ended' = IF u.at \in {"over", "closed"} THEN ended \cup {u.key} ELSE ended
        /\ u.at \notin {"over", "closed"} => runs[r].at \notin {"over", "closed"}
        /\ tabStatus' = [tabStatus EXCEPT ![u.key] = StateOf(u.at)]
    BY <1>2
  <2>b. cur[u.key] = r
    BY <2>a DEF RunsInv, IsGone
  <2>1. \A q \in 1..Len(runs') : IsGone(runs'[q]) \/ (~runs'[q].disposed /\ cur'[runs'[q].key] = q)
    BY <2>a, <2>b, <1>b DEF RunsInv
  <2>2. ShowsRun(u.key)
    BY <1>c, <1>d, <2>b DEF RunsInv
  <2>3. ShowsRun(u.key)'
    BY <2>2, <2>a, <2>b, <1>a, <1>b, <1>c, <1>d DEF ShowsRun
  <2>4. ASSUME NEW k \in TabIds, k # u.key PROVE terms'[k] = terms[k] /\ tabStatus'[k] = tabStatus[k] /\ (k \in ended' <=> k \in ended)
    BY <2>a, <2>4, <1>a
  <2>5. ASSUME NEW k \in TabIds, cur[k] # 0, k # u.key PROVE ShowsRun(k)'
    <3>1. ShowsRun(k) /\ cur[k] # r
      BY <2>5 DEF RunsInv, ShowsRun
    <3> QED
      BY <1>b, <1>c, <2>4, <2>5, <3>1 DEF ShowsRun
  <2>6. terms' \in [TabIds -> Nat] /\ tabStatus' \in [TabIds -> TabStates] /\ ended' \subseteq TabIds
    BY <1>a, <1>c, <1>d, <2>a DEF StateOf, TabStates
  <2>7. ASSUME NEW k \in TabIds, cur'[k] = 0 PROVE terms'[k] = 0 /\ k \notin ended'
    BY <1>c, <2>7, <2>4, <2>b DEF RunsInv
  <2> QED
    BY <1>a, <1>b, <2>1, <2>3, <2>5, <2>6, <2>7 DEF RunsInv
<1> QED
  BY <1>1, <1>2

(* The cleanup disposes of the runs of some tabs.                          *)
LEMMA Cleans ==
    ASSUME RunsInv, NEW ks
    PROVE  /\ CleanRuns(ks) \in Seq(Run) /\ Len(CleanRuns(ks)) = Len(runs) /\ Len(runs) \in Nat
           /\ \A r \in 1..Len(runs) :
                IF runs[r].key \in ks THEN IsGone(CleanRuns(ks)[r]) /\ CleanRuns(ks)[r].key = runs[r].key
                ELSE CleanRuns(ks)[r] = runs[r]
<1>a. runs \in Seq(Run) /\ Len(runs) \in Nat
  BY DEF RunsInv
<1>1. ASSUME NEW x \in Run PROVE Disposed(x) \in Run /\ IsGone(Disposed(x)) /\ Disposed(x).key = x.key
  BY DEF Run, Disposed, IsGone
<1>2. ASSUME NEW r \in 1..Len(runs) PROVE CleanRuns(ks)[r] = IF runs[r].key \in ks /\ cur[runs[r].key] = r THEN Disposed(runs[r]) ELSE runs[r]
  BY <1>a DEF CleanRuns
<1>3. ASSUME NEW r \in 1..Len(runs) PROVE runs[r] \in Run /\ CleanRuns(ks)[r] \in Run
  BY <1>a, <1>1, <1>2
<1>4. CleanRuns(ks) \in Seq(Run) /\ Len(CleanRuns(ks)) = Len(runs)
  BY <1>a, <1>3 DEF CleanRuns
<1>5. ASSUME NEW r \in 1..Len(runs) PROVE IF runs[r].key \in ks THEN IsGone(CleanRuns(ks)[r]) /\ CleanRuns(ks)[r].key = runs[r].key
                ELSE CleanRuns(ks)[r] = runs[r]
  <2>1. IsGone(runs[r]) \/ cur[runs[r].key] = r
    BY DEF RunsInv
  <2> QED
    BY <1>1, <1>2, <1>3, <2>1
<1> QED
  BY <1>a, <1>4, <1>5

(* Closing some tabs leaves the other tabs with their runs.                *)
LEMMA Unmounts ==
    ASSUME RunsInv, NEW ks, Unmount(ks), UNCHANGED known, tabStatus' \in [TabIds -> TabStates],
           \A k \in TabKeys \ ks : k \in TabKeys' /\ tabStatus'[k] = tabStatus[k]
    PROVE  RunsInv'
<1>a. cur \in [TabIds -> Nat] /\ terms \in [TabIds -> Nat] /\ ended \subseteq TabIds
  BY DEF RunsInv
<1>b. runs' = CleanRuns(ks) /\ cur' = [k \in TabIds |-> IF k \in ks THEN 0 ELSE cur[k]] /\ ended' = ended \ ks
      /\ terms' = [k \in TabIds |-> IF k \in ks THEN 0 ELSE terms[k]]
  BY DEF Unmount
<1>1. runs' \in Seq(Run) /\ Len(runs') = Len(runs)
      /\ \A r \in 1..Len(runs) : IF runs[r].key \in ks THEN IsGone(runs'[r]) /\ runs'[r].key = runs[r].key ELSE runs'[r] = runs[r]
  BY <1>b, Cleans
<1>2. cur' \in [TabIds -> Nat] /\ terms' \in [TabIds -> Nat] /\ ended' \subseteq TabIds
  BY <1>a, <1>b
<1>3. \A r \in 1..Len(runs') : IsGone(runs'[r]) \/ (~runs'[r].disposed /\ cur'[runs'[r].key] = r)
  <2> SUFFICES ASSUME NEW r \in 1..Len(runs'), runs[r].key \notin ks, ~IsGone(runs[r]) PROVE ~runs'[r].disposed /\ cur'[runs'[r].key] = r
    BY <1>1
  <2>1. runs'[r] = runs[r] /\ ~runs[r].disposed /\ cur[runs[r].key] = r
    BY <1>1 DEF RunsInv
  <2>2. runs[r].key \in TabIds
    <3>1. runs \in Seq(Run) /\ r \in 1..Len(runs)
      BY <1>1 DEF RunsInv
    <3>2. runs[r] \in Run
      BY <3>1
    <3> QED
      BY <3>2 DEF Run
  <2> QED
    BY <1>b, <2>1, <2>2
<1>4. ASSUME NEW k \in TabIds PROVE IF cur'[k] = 0 THEN terms'[k] = 0 /\ k \notin ended' ELSE ShowsRun(k)'
  <2>1. CASE k \in ks
    BY <1>b, <2>1
  <2>2. CASE k \notin ks
    <3>1. cur'[k] = cur[k] /\ terms'[k] = terms[k] /\ (k \in ended' <=> k \in ended)
      BY <1>b, <2>2
    <3>2. CASE cur[k] = 0
      BY <3>1, <3>2 DEF RunsInv
    <3>3. CASE cur[k] # 0
      <4>1. ShowsRun(k)
        BY <3>3 DEF RunsInv
      <4>2. k \in TabKeys' /\ tabStatus'[k] = tabStatus[k]
        BY <2>2, <4>1 DEF ShowsRun
      <4>3. cur[k] \in 1..Len(runs) /\ runs'[cur[k]] = runs[cur[k]]
        BY <1>1, <2>2, <4>1 DEF ShowsRun
      <4> QED
        BY <1>1, <3>1, <3>3, <4>1, <4>2, <4>3 DEF ShowsRun
    <3> QED
      BY <3>2, <3>3
  <2> QED
    BY <2>1, <2>2
<1> QED
  BY <1>1, <1>2, <1>3, <1>4 DEF RunsInv

(* XTerm's effect, in a new tab or after the cleanup of its last run.      *)
LEMMA Starts ==
    ASSUME RunsInv, NEW k \in TabIds, NEW before \in Seq(Run), Len(before) = Len(runs), StartRun(k, before),
           \A r \in 1..Len(runs) : IF runs[r].key = k THEN IsGone(before[r]) /\ before[r].key = k ELSE before[r] = runs[r],
           UNCHANGED known, TabKeys \subseteq TabKeys', k \in TabKeys', terms' = [terms EXCEPT ![k] = 0]
    PROVE  RunsInv'
<1> DEFINE n == [key |-> k, at |-> "import", disposed |-> FALSE, hello |-> None]
<1>a. cur \in [TabIds -> Nat] /\ terms \in [TabIds -> Nat] /\ ended \subseteq TabIds /\ tabStatus \in [TabIds -> TabStates] /\ Len(runs) \in Nat /\ Len(before) \in Nat
  BY DEF RunsInv
<1>b. runs' = Append(before, n) /\ cur' = [cur EXCEPT ![k] = Len(runs) + 1] /\ ended' = ended \ {k} /\ tabStatus' = [tabStatus EXCEPT ![k] = "connecting"]
  BY DEF StartRun
<1>c. n \in Run /\ n.key = k /\ n.at = "import" /\ n.disposed = FALSE
  BY DEF Run
<1> HIDE DEF n
<1>d. runs' \in Seq(Run) /\ Len(runs') = Len(runs) + 1 /\ runs'[Len(runs) + 1] = n /\ \A r \in 1..Len(runs) : runs'[r] = before[r]
  BY <1>a, <1>b, <1>c
<1>e. cur' \in [TabIds -> Nat] /\ terms' \in [TabIds -> Nat] /\ ended' \subseteq TabIds /\ tabStatus' \in [TabIds -> TabStates] /\ cur'[k] = Len(runs) + 1 /\ terms'[k] = 0
      /\ tabStatus'[k] = "connecting" /\ \A j \in TabIds \ {k} : cur'[j] = cur[j] /\ terms'[j] = terms[j] /\ tabStatus'[j] = tabStatus[j]
  BY <1>a, <1>b DEF TabStates
<1>3. ASSUME NEW r \in 1..Len(runs') PROVE IsGone(runs'[r]) \/ (~runs'[r].disposed /\ cur'[runs'[r].key] = r)
  <2>1. CASE r = Len(runs) + 1
    BY <1>c, <1>d, <1>e, <2>1
  <2>2. CASE r # Len(runs) + 1
    <3>1. r \in 1..Len(runs) /\ runs'[r] = before[r]
      BY <1>a, <1>d, <1>3, <2>2
    <3>2. CASE runs[r].key = k
      BY <3>1, <3>2
    <3>3. CASE runs[r].key # k
      <4>1. runs \in Seq(Run) /\ runs'[r] = runs[r]
        BY <3>1, <3>3 DEF RunsInv
      <4>2. runs[r] \in Run
        BY <3>1, <4>1
      <4>3. runs[r].key \in TabIds \ {k}
        BY <3>3, <4>2 DEF Run
      <4> QED
        BY <1>e, <3>1, <4>1, <4>3 DEF RunsInv
    <3> QED
      BY <3>2, <3>3
  <2> QED
    BY <2>1, <2>2
<1>4. ASSUME NEW j \in TabIds PROVE IF cur'[j] = 0 THEN terms'[j] = 0 /\ j \notin ended' ELSE ShowsRun(j)'
  <2>1. CASE j = k
    <3>1. Len(runs) + 1 \in 1..Len(runs') /\ cur'[k] # 0 /\ k \notin ended'
      BY <1>a, <1>b, <1>d, <1>e
    <3> QED
      BY <1>c, <1>d, <1>e, <2>1, <3>1 DEF ShowsRun, StateOf
  <2>2. CASE j # k
    <3>1. cur'[j] = cur[j] /\ terms'[j] = terms[j] /\ tabStatus'[j] = tabStatus[j] /\ (j \in ended' <=> j \in ended)
      BY <1>b, <1>e, <2>2
    <3>2. CASE cur[j] = 0
      BY <3>1, <3>2 DEF RunsInv
    <3>3. CASE cur[j] # 0
      <4>1. ShowsRun(j)
        BY <3>3 DEF RunsInv
      <4>2. cur[j] \in 1..Len(runs) /\ runs[cur[j]].key # k
        BY <2>2, <4>1 DEF ShowsRun
      <4>3. runs'[cur[j]] = runs[cur[j]] /\ cur[j] \in 1..Len(runs')
        BY <1>a, <1>d, <4>2
      <4> QED
        BY <3>1, <3>3, <4>1, <4>3 DEF ShowsRun
    <3> QED
      BY <3>2, <3>3
  <2> QED
    BY <2>1, <2>2
<1> QED
  BY <1>d, <1>e, <1>3, <1>4 DEF RunsInv

(* A tab of its own, with a key no run has had.                            *)
LEMMA TabAdded ==
    ASSUME TermInv, NEW t \in Targets, NewTab(t), UNCHANGED known
    PROVE  TermInv'
<1> DEFINE n == [key |-> tabSeq + 1, target |-> t]
<1>a. tabs \in Seq(Tab) /\ Len(tabs) \in Nat /\ tabSeq \in Nat /\ tabSeq < MaxTabs /\ MaxTabs \in Nat /\ runs \in Seq(Run) /\ terms \in [TabIds -> Nat]
  BY TerminalConstants DEF TermInv, TabsInv, RunsInv, NewTab
<1>b. tabs' = Append(tabs, n) /\ tabSeq' = tabSeq + 1 /\ terms' = terms
  BY DEF NewTab
<1>c. tabSeq + 1 \in TabIds /\ n \in Tab /\ n.key = tabSeq + 1
  BY <1>a DEF TabIds, Tab
<1> HIDE DEF n
<1>d. tabs' \in Seq(Tab) /\ Len(tabs') = Len(tabs) + 1 /\ tabs'[Len(tabs) + 1] = n /\ \A i \in 1..Len(tabs) : tabs'[i] = tabs[i]
  BY <1>a, <1>b, <1>c
<1>e. \A i \in 1..Len(tabs) : tabs[i].key <= tabSeq /\ tabs[i].key \in Nat
  <2>1. \A i \in 1..Len(tabs) : tabs[i] \in Tab
    BY <1>a
  <2> QED
    BY <2>1 DEF TermInv, TabsInv, Tab, TabIds
<1>1. TabsInv'
  <2>1. \A i \in 1..Len(tabs') : tabs'[i].key <= tabSeq'
    BY <1>a, <1>b, <1>c, <1>d, <1>e
  <2>2. ASSUME NEW i \in 1..Len(tabs'), NEW j \in 1..Len(tabs'), tabs'[i].key = tabs'[j].key PROVE i = j
    <3>1. CASE i = Len(tabs) + 1 /\ j # i
      <4>1. j \in 1..Len(tabs)
        BY <1>a, <1>d, <3>1
      <4>2. tabs'[j].key <= tabSeq /\ tabs'[j].key \in Nat /\ tabs'[i].key = tabSeq + 1
        BY <1>c, <1>d, <1>e, <3>1, <4>1
      <4> QED
        BY <1>a, <2>2, <4>2
    <3>2. CASE j = Len(tabs) + 1 /\ j # i
      <4>1. i \in 1..Len(tabs)
        BY <1>a, <1>d, <3>2
      <4>2. tabs'[i].key <= tabSeq /\ tabs'[i].key \in Nat /\ tabs'[j].key = tabSeq + 1
        BY <1>c, <1>d, <1>e, <3>2, <4>1
      <4> QED
        BY <1>a, <2>2, <4>2
    <3>3. CASE i # Len(tabs) + 1 /\ j # Len(tabs) + 1
      <4>1. i \in 1..Len(tabs) /\ j \in 1..Len(tabs)
        BY <1>a, <1>d, <3>3
      <4>2. tabs[i].key = tabs[j].key
        BY <1>d, <2>2, <4>1
      <4> QED
        BY <4>1, <4>2 DEF TermInv, TabsInv
    <3> QED
      BY <3>1, <3>2, <3>3
  <2> QED
    BY <1>a, <1>b, <1>d, <2>1, <2>2 DEF TabsInv
<1>2. TabKeys \subseteq TabKeys' /\ tabSeq + 1 \in TabKeys' /\ tabSeq + 1 \notin TabKeys
  BY SMTT(30), <1>a, <1>c, <1>d, <1>e DEF TabKeys
<1>3. cur[tabSeq + 1] = 0 /\ terms[tabSeq + 1] = 0
  BY <1>c, <1>2 DEF TermInv, RunsInv, ShowsRun
<1>4. CASE StartRun(tabSeq + 1, runs)
  <2>1. \A r \in 1..Len(runs) : runs[r].key = tabSeq + 1 => IsGone(runs[r])
    BY <1>3 DEF TermInv, RunsInv
  <2>2. terms' = [terms EXCEPT ![tabSeq + 1] = 0]
    BY <1>a, <1>b, <1>c, <1>3
  <2>3. RunsInv'
    BY <1>a, <1>c, <1>2, <1>4, <2>1, <2>2, Starts DEF TermInv
  <2> QED
    BY <1>1, <2>3 DEF TermInv
<1>5. CASE UNCHANGED <<runs, cur, ended, tabStatus>>
  <2>1. \A k \in TabIds : ShowsRun(k) => ShowsRun(k)'
    BY <1>2, <1>5, <1>b DEF ShowsRun
  <2>2. RunsInv'
    BY <1>5, <1>b, <2>1 DEF TermInv, RunsInv
  <2> QED
    BY <1>1, <2>2 DEF TermInv
<1> QED
  BY <1>4, <1>5 DEF NewTab

(* Steps that only look at tabs and runs.                                  *)
LEMMA WindowKeeps ==
    ASSUME TermInv, UNCHANGED <<tabs, tabSeq, runs, cur, ended, tabStatus, terms>>, known' \in [Ssh -> HostKeys \cup {None}]
    PROVE  TermInv'
<1>1. TabKeys' = TabKeys
  BY DEF TabKeys
<1>2. \A k \in TabIds : ShowsRun(k)' <=> ShowsRun(k)
  BY <1>1 DEF ShowsRun
<1> QED
  BY <1>2 DEF TermInv, TabsInv, RunsInv

(* One tab goes, the others keep their order.                              *)
LEMMA TabClosed ==
    ASSUME TermInv, NEW k \in TabIds, CloseTab(k)
    PROVE  TermInv'
<1> DEFINE i == TabIndex(k)
           s == SubSeq(tabs, 1, i - 1) \o SubSeq(tabs, i + 1, Len(tabs))
<1>a. tabs \in Seq(Tab) /\ Len(tabs) \in Nat /\ tabSeq \in Nat /\ k \in TabKeys
  BY DEF TermInv, TabsInv, CloseTab
<1>b. i \in 1..Len(tabs) /\ tabs[i].key = k
  BY <1>a DEF TabKeys, TabIndex
<1> HIDE DEF i
<1> DEFINE p == SubSeq(tabs, 1, i - 1)
           q == SubSeq(tabs, i + 1, Len(tabs))
<1>p. p \in Seq(Tab) /\ Len(p) = i - 1 /\ \A j \in 1..(i - 1) : p[j] = tabs[j]
  BY <1>a, <1>b
<1>q. q \in Seq(Tab) /\ Len(q) = Len(tabs) - i /\ \A j \in 1..(Len(tabs) - i) : q[j] = tabs[j + i]
  BY <1>a, <1>b
<1> HIDE DEF p, q
<1>c. s \in Seq(Tab) /\ Len(s) = Len(tabs) - 1
  <2>1. s = p \o q
    BY DEF p, q
  <2> HIDE DEF s
  <2> QED
    BY SMTT(30), <1>a, <1>b, <1>p, <1>q, <2>1
<1>d. ASSUME NEW j \in 1..(Len(tabs) - 1) PROVE s[j] = tabs[IF j < i THEN j ELSE j + 1]
  <2>1. s = p \o q
    BY DEF p, q
  <2> HIDE DEF s
  <2>2. CASE j < i
    <3>1. j \in 1..(i - 1) /\ s[j] = p[j]
      BY <1>a, <1>b, <1>p, <1>q, <1>d, <2>1, <2>2
    <3> QED
      BY <1>p, <2>2, <3>1
  <2>3. CASE ~(j < i)
    <3>1. j - (i - 1) \in 1..(Len(tabs) - i) /\ s[j] = q[j - (i - 1)] /\ j - (i - 1) + i = j + 1
      BY <1>a, <1>b, <1>p, <1>q, <1>d, <2>1, <2>3
    <3> QED
      BY <1>q, <2>3, <3>1
  <2> QED
    BY <2>2, <2>3
<1>e. s = <<>> => CloseWindow
  BY DEF CloseTab, i
<1>f. s # <<>> => Unmount({k}) /\ tabs' = s /\ UNCHANGED <<tabSeq, tabStatus, known>>
  BY DEF CloseTab, i
<1> HIDE DEF s
<1>1. CASE CloseWindow
  <2>1. tabs' = <<>> /\ Unmount(TabKeys) /\ tabStatus' \in [TabIds -> TabStates] /\ UNCHANGED <<tabSeq, known>>
    BY <1>1 DEF CloseWindow, TabStates
  <2>2. RunsInv'
    BY <2>1, Unmounts DEF TermInv
  <2> QED
    BY <1>a, <2>1, <2>2 DEF TermInv, TabsInv
<1>2. CASE s # <<>>
  <2>1. TabsInv'
    <3>1. ASSUME NEW j \in 1..Len(s) PROVE s[j].key <= tabSeq
      <4>1. (IF j < i THEN j ELSE j + 1) \in 1..Len(tabs) /\ j \in 1..(Len(tabs) - 1)
        BY <1>a, <1>b, <1>c
      <4> QED
        BY <1>d, <4>1 DEF TermInv, TabsInv
    <3>2. ASSUME NEW j \in 1..Len(s), NEW l \in 1..Len(s), s[j].key = s[l].key PROVE j = l
      <4>1. (IF j < i THEN j ELSE j + 1) \in 1..Len(tabs) /\ j \in 1..(Len(tabs) - 1)
        BY <1>a, <1>b, <1>c
      <4>2. (IF l < i THEN l ELSE l + 1) \in 1..Len(tabs) /\ l \in 1..(Len(tabs) - 1)
        BY <1>a, <1>b, <1>c
      <4>3. (IF j < i THEN j ELSE j + 1) = (IF l < i THEN l ELSE l + 1)
        BY <1>d, <3>2, <4>1, <4>2 DEF TermInv, TabsInv
      <4> QED
        BY <1>b, <4>1, <4>2, <4>3
    <3> QED
      BY <1>2, <1>c, <1>f, <3>1, <3>2 DEF TermInv, TabsInv
  <2>2. ASSUME NEW l \in TabKeys \ {k} PROVE l \in TabKeys'
    <3>1. PICK m \in 1..Len(tabs) : tabs[m].key = l
      BY DEF TabKeys
    <3> DEFINE j == IF m < i THEN m ELSE m - 1
    <3>2. m # i
      BY <1>b, <3>1
    <3>3. j \in 1..(Len(tabs) - 1) /\ (IF j < i THEN j ELSE j + 1) = m
      BY <1>a, <1>b, <3>2
    <3> HIDE DEF j
    <3>4. s[j] = tabs[m]
      BY <1>d, <3>3
    <3> QED
      BY <1>2, <1>c, <1>f, <3>1, <3>3, <3>4 DEF TabKeys
  <2>3. RunsInv'
    BY <1>2, <1>f, <2>2, Unmounts DEF TermInv, RunsInv
  <2> QED
    BY <2>1, <2>3 DEF TermInv
<1> QED
  BY <1>1, <1>2, <1>e

(* No step of the window, of a run or of a log view breaks it.             *)
LEMMA TermStays == TermInv /\ (TermStep \/ UNCHANGED windowVars) => TermInv'
<1> SUFFICES ASSUME TermInv, TermStep \/ UNCHANGED windowVars PROVE TermInv'
  OBVIOUS
<1>k. known \in [Ssh -> HostKeys \cup {None}] /\ runs \in Seq(Run) /\ Len(runs) \in Nat /\ ended \subseteq TabIds /\ tabStatus \in [TabIds -> TabStates]
  BY DEF TermInv, RunsInv
<1>r. \A r \in 1..Len(runs) : runs[r] \in Run /\ runs[r].key \in TabIds
  <2>1. \A r \in 1..Len(runs) : runs[r] \in Run
    BY <1>k
  <2> QED
    BY <2>1 DEF Run
<1>t. ASSUME RunsInv', UNCHANGED <<tabs, tabSeq>> PROVE TermInv'
  BY <1>t DEF TermInv, TabsInv
<1>1. CASE UNCHANGED windowVars
  BY <1>1, <1>k, WindowKeeps DEF windowVars, termVars
<1>2. ASSUME NEW t \in Targets, Focus(t), UNCHANGED known PROVE TermInv'
  BY <1>2, <1>k, WindowKeeps DEF Focus
<1>3. ASSUME NEW t \in Shells \cup {Logs}, OpenTerminal(t) \/ PlusMenu(t) PROVE TermInv'
  <2>1. t \in Targets /\ UNCHANGED known /\ (Focus(t) \/ NewTab(t))
    BY <1>3 DEF OpenTerminal, PlusMenu, Targets
  <2> QED
    BY <1>2, <2>1, TabAdded
<1>4. ASSUME NEW a \in Ssh, ConnectSsh(a) PROVE TermInv'
  BY <1>4, TabAdded DEF ConnectSsh, Targets
<1>5. ASSUME NEW a \in Ssh, ForgetRecent(a) \/ ForgetHostKey(a) PROVE TermInv'
  BY <1>5, <1>k, WindowKeeps DEF ForgetRecent, ForgetHostKey
<1>6. ASSUME NEW k \in TabIds, SelectTab(k) PROVE TermInv'
  BY <1>6, <1>k, WindowKeeps DEF SelectTab
<1>7. ASSUME NEW k \in TabIds, CloseTab(k) PROVE TermInv'
  BY <1>7, TabClosed
<1>8. ASSUME NEW k \in TabIds, Reconnect(k) PROVE TermInv'
  <2>1. StartRun(k, CleanRuns({k})) /\ terms' = [terms EXCEPT ![k] = 0] /\ UNCHANGED <<tabs, tabSeq, known>> /\ k \in ended
    BY <1>8 DEF Reconnect
  <2>2. k \in TabKeys /\ TabKeys' = TabKeys
    <3>1. cur[k] # 0
      BY <2>1 DEF TermInv, RunsInv
    <3>2. ShowsRun(k)
      BY <3>1 DEF TermInv, RunsInv
    <3> QED
      BY <2>1, <3>2 DEF ShowsRun, TabKeys
  <2>3. CleanRuns({k}) \in Seq(Run) /\ Len(CleanRuns({k})) = Len(runs)
        /\ \A r \in 1..Len(runs) : IF runs[r].key = k THEN IsGone(CleanRuns({k})[r]) /\ CleanRuns({k})[r].key = k ELSE CleanRuns({k})[r] = runs[r]
    <3>1. \A r \in 1..Len(runs) : runs[r].key \in {k} <=> runs[r].key = k
      OBVIOUS
    <3> QED
      BY <3>1, Cleans DEF TermInv
  <2>4. RunsInv'
    BY <2>1, <2>2, <2>3, Starts DEF TermInv
  <2> QED
    BY <1>t, <2>1, <2>4
<1>9. CASE CloseWindow
  <2>1. tabs' = <<>> /\ Unmount(TabKeys) /\ tabStatus' \in [TabIds -> TabStates] /\ UNCHANGED <<tabSeq, known>>
    BY <1>9 DEF CloseWindow, TabStates
  <2>2. RunsInv'
    BY <2>1, Unmounts DEF TermInv
  <2> QED
    BY <2>1, <2>2 DEF TermInv, TabsInv
<1>10. ASSUME NEW r \in 1..Len(runs), Imported(r) \/ FontsReady(r) PROVE TermInv'
  <2> DEFINE x == IF IsMounted(r) THEN (IF runs[r].at = "import" THEN "fonts" ELSE "dial") ELSE "closed"
             u == [runs[r] EXCEPT !.at = x]
  <2>1. runs[r] \in Run /\ runs[r].at \in {"import", "fonts"} /\ runs[r].key \in TabIds
    BY <1>10, <1>r DEF Imported, FontsReady
  <2>2. runs' = [runs EXCEPT ![r].at = x] /\ UNCHANGED <<tabs, tabSeq, cur, ended, tabStatus, known>>
        /\ (terms' = terms \/ (IsMounted(r) /\ terms' = [terms EXCEPT ![runs[r].key] = r]))
    BY <1>10 DEF Imported, FontsReady
  <2>3. x \in {"fonts", "dial", "closed"} /\ (IsMounted(r) => x \in {"fonts", "dial"}) /\ (~IsMounted(r) => x = "closed")
    OBVIOUS
  <2> HIDE DEF x
  <2>4. u \in Run /\ u.at = x /\ u.key = runs[r].key /\ u.disposed = runs[r].disposed
    BY <2>1, <2>3 DEF Run
  <2>5. runs' = [runs EXCEPT ![r] = u]
    BY <2>2
  <2> HIDE DEF u
  <2>6. CASE IsMounted(r)
    <3>1. ~runs[r].disposed /\ ~u.disposed /\ cur[u.key] = r /\ r # 0
      BY <1>k, <2>4, <2>6 DEF IsMounted, TermInv, RunsInv, IsGone
    <3>2. ShowsRun(u.key)
      BY <2>1, <2>4, <3>1 DEF TermInv, RunsInv
    <3>3. tabStatus[u.key] = "connecting"
      BY <2>1, <3>1, <3>2 DEF ShowsRun, StateOf
    <3>4. tabStatus' = [tabStatus EXCEPT ![u.key] = StateOf(u.at)]
      BY <1>k, <2>2, <2>3, <2>4, <2>6, <3>3 DEF StateOf
    <3>5. ended' = (IF u.at \in {"over", "closed"} THEN ended \cup {u.key} ELSE ended) /\ runs[r].at \notin {"over", "closed"}
      BY <2>1, <2>2, <2>3, <2>4, <2>6
    <3>6. terms' = terms \/ terms' = [terms EXCEPT ![u.key] = r]
      BY <2>2, <2>4
    <3>7. RunsInv'
      BY <1>k, <2>2, <2>4, <2>5, <3>1, <3>4, <3>5, <3>6, RunGoes DEF TermInv
    <3> QED
      BY <1>t, <2>2, <3>7
  <2>7. CASE ~IsMounted(r)
    <3>1. IsGone(runs[r]) /\ IsGone(u) /\ UNCHANGED <<ended, tabStatus, terms>>
      BY <2>1, <2>2, <2>3, <2>4, <2>7 DEF IsMounted, IsGone
    <3>2. RunsInv'
      BY <1>k, <2>2, <2>4, <2>5, <3>1, RunGoes DEF TermInv
    <3> QED
      BY <1>t, <2>2, <3>2
  <2> QED
    BY <2>6, <2>7
<1>11. ASSUME NEW r \in 1..Len(runs), SessionOpens(r) PROVE TermInv'
  <2>1. runs[r] \in Run /\ runs[r].at = "dial" /\ runs[r].key \in TabIds /\ ~runs[r].disposed
    BY <1>11, <1>r DEF SessionOpens, TermInv, RunsInv, IsGone
  <2>2. PICK h \in HostKeys \cup {None} : runs' = [runs EXCEPT ![r].at = "open", ![r].hello = h]
    BY <1>11, <1>k DEF SessionOpens
  <2> DEFINE u == [runs[r] EXCEPT !.at = "open", !.hello = h]
  <2>4. u \in Run /\ u.at = "open" /\ u.key = runs[r].key /\ u.disposed = runs[r].disposed
    BY <2>1 DEF Run
  <2>5. runs' = [runs EXCEPT ![r] = u]
    BY <1>k, <2>2
  <2> HIDE DEF u
  <2>6. UNCHANGED <<tabs, tabSeq, cur, ended, known, terms>> /\ tabStatus' = [tabStatus EXCEPT ![u.key] = StateOf(u.at)]
    BY <1>11, <2>4 DEF SessionOpens, StateOf
  <2>7. RunsInv'
    BY <1>k, <2>1, <2>4, <2>5, <2>6, RunGoes DEF TermInv
  <2> QED
    BY <1>t, <2>6, <2>7
<1>12. ASSUME NEW r \in 1..Len(runs), SessionExits(r) \/ SessionCloses(r) PROVE TermInv'
  <2>1. runs[r] \in Run /\ runs[r].at \in {"dial", "open", "over"} /\ runs[r].key \in TabIds /\ ~runs[r].disposed
    BY <1>12, <1>r DEF SessionExits, SessionCloses, TermInv, RunsInv, IsGone
  <2>2. PICK x \in {"over", "closed"} : runs' = [runs EXCEPT ![r].at = x] /\ tabStatus' = [tabStatus EXCEPT ![runs[r].key] = "ended"]
    BY <1>12 DEF SessionExits, SessionCloses, RunStep
  <2> DEFINE u == [runs[r] EXCEPT !.at = x]
  <2>4. u \in Run /\ u.at = x /\ u.key = runs[r].key /\ u.disposed = runs[r].disposed
    BY <2>1 DEF Run
  <2>5. runs' = [runs EXCEPT ![r] = u]
    BY <1>k, <2>2
  <2> HIDE DEF u
  <2>6. UNCHANGED <<tabs, tabSeq, cur, known, terms>> /\ ended' = ended \cup {u.key} /\ tabStatus' = [tabStatus EXCEPT ![u.key] = StateOf(u.at)]
    BY <1>12, <2>2, <2>4 DEF SessionExits, SessionCloses, StateOf
  <2>7. RunsInv'
    BY <1>k, <2>1, <2>4, <2>5, <2>6, RunGoes DEF TermInv
  <2> QED
    BY <1>t, <2>6, <2>7
<1>13. ASSUME NEW r \in 1..Len(runs), NEW fp \in HostKeys, HostKeyMessage(r, fp) PROVE TermInv'
  <2>1. known' \in [Ssh -> HostKeys \cup {None}]
    BY <1>13, <1>k DEF HostKeyMessage
  <2> QED
    BY <1>13, <2>1, WindowKeeps DEF HostKeyMessage
<1>14. CASE LogView
  BY <1>14, <1>k, WindowKeeps DEF LogView, termVars
<1> QED
  BY <1>1, <1>3, <1>4, <1>5, <1>6, <1>7, <1>8, <1>9, <1>10, <1>11, <1>12, <1>13, <1>14 DEF TermStep

(* The logs tab mounts a log view, and its closing unmounts it.            *)
LEMMA ViewStays == LogInv /\ (TermStep \/ UNCHANGED windowVars) => LogInv'
<1> SUFFICES ASSUME LogInv, TermStep \/ UNCHANGED windowVars PROVE LogInv'
  OBVIOUS
<1>s. ASSUME UNCHANGED logVars PROVE LogInv'
  BY <1>s, LogStays
<1>n. ASSUME NEW t, NewTab(t) PROVE LogInv'
  BY <1>s, <1>n, EffectRuns DEF NewTab, LogMount
<1>u. ASSUME NEW ks, Unmount(ks) PROVE LogInv'
  BY <1>s, <1>u, Unmounted DEF Unmount
<1>1. CASE UNCHANGED windowVars
  BY <1>s, <1>1 DEF windowVars
<1>2. ASSUME NEW t, OpenTerminal(t) \/ PlusMenu(t) PROVE LogInv'
  BY <1>s, <1>n, <1>2 DEF OpenTerminal, PlusMenu, Focus
<1>3. ASSUME NEW a, ConnectSsh(a) \/ ForgetRecent(a) \/ ForgetHostKey(a) PROVE LogInv'
  BY <1>s, <1>n, <1>3 DEF ConnectSsh, ForgetRecent, ForgetHostKey
<1>4. CASE CloseWindow
  BY <1>u, <1>4 DEF CloseWindow
<1>5. ASSUME NEW k, SelectTab(k) \/ CloseTab(k) \/ Reconnect(k) PROVE LogInv'
  BY <1>s, <1>u, <1>4, <1>5 DEF SelectTab, CloseTab, Reconnect
<1>6. ASSUME NEW r, Imported(r) \/ FontsReady(r) \/ SessionOpens(r) \/ SessionExits(r) \/ SessionCloses(r) PROVE LogInv'
  BY <1>s, <1>6 DEF Imported, FontsReady, SessionOpens, SessionExits, SessionCloses
<1>7. ASSUME NEW r, NEW fp, HostKeyMessage(r, fp) PROVE LogInv'
  BY <1>s, <1>7 DEF HostKeyMessage
<1>8. CASE LogView
  BY <1>8, LogStays DEF LogView
<1> QED
  BY <1>1, <1>2, <1>3, <1>4, <1>5, <1>6, <1>7, <1>8 DEF TermStep

(* What the window's invariants say on screen.                             *)
LEMMA TermImplies == TermInv => NoHiddenSession /\ StatusIsOfThisRun /\ CopyReadsShownTerminal
<1> SUFFICES ASSUME TermInv PROVE NoHiddenSession /\ StatusIsOfThisRun /\ CopyReadsShownTerminal
  OBVIOUS
<1>1. NoHiddenSession
  <2> SUFFICES ASSUME NEW r \in 1..Len(runs), runs[r].at \in {"dial", "open", "over"} PROVE runs[r].key \in TabKeys /\ cur[runs[r].key] = r
    BY DEF NoHiddenSession
  <2>1. runs \in Seq(Run) /\ ~IsGone(runs[r])
    BY DEF TermInv, RunsInv, IsGone
  <2>2. cur[runs[r].key] = r /\ r # 0
    BY <2>1 DEF TermInv, RunsInv
  <2>3. runs[r].key \in TabIds
    <3>1. runs[r] \in Run
      BY <2>1
    <3> QED
      BY <3>1 DEF Run
  <2> QED
    BY <2>2, <2>3 DEF TermInv, RunsInv, ShowsRun
<1>2. TabKeys \subseteq TabIds
  <2>1. \A i \in 1..Len(tabs) : tabs[i] \in Tab
    BY DEF TermInv, TabsInv
  <2> QED
    BY <2>1 DEF TabKeys, Tab
<1>3. StatusIsOfThisRun
  BY <1>2 DEF StatusIsOfThisRun, TermInv, RunsInv, ShowsRun, StateOf
<1>4. CopyReadsShownTerminal
  BY DEF CopyReadsShownTerminal, TermInv, RunsInv, ShowsRun
<1> QED
  BY <1>1, <1>3, <1>4

-----------------------------------------------------------------------------
(* Pages share nothing: what one of them keeps stays while another is      *)
(* looked at.                                                              *)
SavesInv ==
    /\ IF page = "host" THEN HostInv ELSE tests = {}
    /\ IF page = "login" THEN LoginInv ELSE csaves = {} /\ creds = {}

(* No dialog is open and nothing is on its way.                            *)
LEMMA SavesStart == Init => SavesInv
<1> SUFFICES ASSUME Init PROVE SavesInv
  OBVIOUS
<1>1. CASE page = "host"
  <2>1. (CHOOSE a \in Addrs : TRUE) \in Addrs
    BY HostConstants
  <2> QED
    BY <1>1, <2>1, BaseConstants DEF Init, HostInit, HostInv, HostTypeOK, SavesInv, RegistryInit
<1>2. CASE page = "login"
  BY <1>2 DEF Init, HostInit, SavesInv, RegistryInit, LoginInv, TestedLoginWorks
<1> QED
  BY <1>1, <1>2 DEF Init, HostInit, SavesInv, RegistryInit

(* A step is one of the page looked at.                                    *)
LEMMA SavesFrame ==
    ASSUME [Next]_vars
    PROVE  /\ page' = page
           /\ page = "host" => HostStep \/ UNCHANGED <<hostVars, moves>>
           /\ page # "host" => UNCHANGED hostVars
           /\ page = "login" => LoginStep \/ UNCHANGED <<credVars, moves>>
           /\ page # "login" => UNCHANGED credVars
<1>1. CASE UNCHANGED vars
  BY <1>1 DEF vars, registryVars
<1>2. CASE KeepsTags
  BY <1>2 DEF KeepsTags, OthersStay, TagStep, AskDelete, ConfirmDelete, DismissDelete, DigestLookedUp, DigestDeleted, DeleteFailed, TagsFetched, Push
<1>3. CASE Deploys \/ EditsHost \/ RunsJob \/ FillsForm \/ Connects \/ Lists \/ ShowsContainer \/ Patches \/ KeepsBaseline
  BY <1>3 DEF Deploys, EditsHost, RunsJob, FillsForm, Connects, Lists, ShowsContainer, Patches, KeepsBaseline, OthersStay, registryVars
<1>4. CASE Sets \/ Switches \/ Filters \/ KeepsLogins \/ UsesTerminal \/ Watches \/ PicksHosts \/ Imports
  BY <1>4 DEF Sets, Switches, Filters, KeepsLogins, UsesTerminal, Watches, PicksHosts, Imports, OthersStay, registryVars
<1> QED
  BY <1>1, <1>2, <1>3, <1>4 DEF Next

(* No step of any page breaks it.                                          *)
LEMMA SavesStay == SavesInv /\ [Next]_vars => SavesInv'
<1> SUFFICES ASSUME SavesInv, [Next]_vars PROVE SavesInv'
  OBVIOUS
<1>1. page' = page
  BY SavesFrame
<1>2. CASE page = "host"
  <2>1. HostInv'
    <3>1. CASE HostStep
      BY <1>2, <3>1, HostStays DEF SavesInv
    <3>2. CASE UNCHANGED <<hostVars, moves>>
      BY <1>2, <3>2 DEF SavesInv, HostInv, HostTypeOK, hostVars, RunInv
    <3> QED
      BY <1>2, <3>1, <3>2, SavesFrame
  <2>2. UNCHANGED credVars
    BY <1>2, SavesFrame
  <2> QED
    BY <1>1, <1>2, <2>1, <2>2 DEF SavesInv, credVars
<1>3. CASE page = "login"
  <2>1. LoginInv'
    <3>1. CASE LoginStep
      BY <1>3, <3>1, LoginStays DEF SavesInv
    <3>2. CASE UNCHANGED <<credVars, moves>>
      BY <1>3, <3>2 DEF SavesInv, LoginInv, credVars, TestedLoginWorks
    <3> QED
      BY <1>3, <3>1, <3>2, SavesFrame
  <2>2. UNCHANGED hostVars
    BY <1>3, SavesFrame
  <2> QED
    BY <1>1, <1>3, <2>1, <2>2 DEF SavesInv, hostVars
<1>4. CASE page \notin {"host", "login"}
  BY <1>1, <1>4, SavesFrame DEF SavesInv, hostVars, credVars
<1> QED
  BY <1>2, <1>3, <1>4

(* A run of test() stores what it found in order, a login what was tested  *)
(* or refused.                                                             *)
LEMMA SavesImply == SavesInv => OnlyTestedIsSaved
<1> SUFFICES ASSUME SavesInv PROVE OnlyTestedIsSaved
  OBVIOUS
<1>1. CancelStopsTheSave /\ SavedWasTested
  <2>1. CASE page = "host"
    BY <2>1 DEF SavesInv, HostInv, HostTypeOK, TestRun, RunInv, CancelStopsTheSave, SavedWasTested
  <2>2. CASE page # "host"
    BY <2>2 DEF SavesInv, CancelStopsTheSave, SavedWasTested
  <2> QED
    BY <2>1, <2>2
<1>2. TestedLoginWorks /\ AnywayWasRefused
  BY DEF SavesInv, LoginInv, TestedLoginWorks, AnywayWasRefused
<1> QED
  BY <1>1, <1>2 DEF OnlyTestedIsSaved

(* The host dialog saves only what a test of it found in order, and        *)
(* nothing once Cancel was pressed under the test (HostDialog.tsx:75); a   *)
(* registry login is called tested only if it was, and saved anyway only   *)
(* after it was refused (RegistriesTab.tsx:428).                           *)
THEOREM SavesSound == Spec => []OnlyTestedIsSaved
<1>1. Init => SavesInv
  BY SavesStart
<1>2. SavesInv /\ [Next]_vars => SavesInv'
  BY SavesStay
<1>3. SavesInv => OnlyTestedIsSaved
  BY SavesImply
<1> QED
  BY <1>1, <1>2, <1>3, PTL DEF Spec

-----------------------------------------------------------------------------
(* What each page keeps sound while it is looked at; what a page that is   *)
(* not looked at keeps is untouched, and starts sound.                     *)
TwiceInv ==
    /\ PostsInv /\ AnnounceInv /\ FormInv
    /\ IF page = "github" THEN GithubInv ELSE ConnectedOnce
    /\ IF page = "watch" THEN RenameInv ELSE OneRenamePerDialog
    /\ IF page = "job" THEN JobInv ELSE OneStartPerDialog
    /\ page \in {"list", "panel"} => PageToldInv
    /\ ToldOnce

(* Nothing was sent or told.                                               *)
LEMMA TwiceStart == Init => TwiceInv
<1> SUFFICES ASSUME Init PROVE TwiceInv
  OBVIOUS
<1> USE BaseConstants
<1>1. PostsInv /\ AnnounceInv
  BY DEF Init, DeployInit, PostsInv, OnePostPerForm, AnnounceInv, AnnouncedOnce, FollowsItsOwnJob
<1>2. FormInv
  BY DEF Init, FormInit, FormInv, OneRequestPerDialog
<1>3. GithubInv /\ ConnectedOnce
  BY DEF Init, GithubInit, GithubInv, GithubNumbers, GithubRequests, GithubScreen, ConnectedOnce
<1>4. RenameInv
  BY DEF Init, WatchInit, RenameInv, OneRenamePerDialog
<1>5. work = <<>> /\ trackers = {} /\ told = <<>> /\ ToldInv
  BY DEF Init, JobInit, TrackInit, ToldInv
<1>6. Jobs = {}
  BY <1>5 DEF Jobs
<1>7. JobInv /\ PageToldInv
  BY <1>5, <1>6 DEF Init, JobInit, JobInv, PageToldInv, OneStartPerDialog, ToldOnce
<1> QED
  BY <1>1, <1>2, <1>3, <1>4, <1>7 DEF TwiceInv, RenameInv, JobInv

(* A step is one of the page looked at; the others keep what they have.    *)
LEMMA PageSteps ==
    ASSUME [Next]_vars
    PROVE  /\ page' = page
           /\ DeployStep \/ UNCHANGED deployVars
           /\ FormStep \/ UNCHANGED formVars
           /\ IF page = "github" THEN GithubStep \/ UNCHANGED <<githubVars, moves>> ELSE UNCHANGED githubVars
           /\ IF page = "watch" THEN WatchStep \/ UNCHANGED <<watchVars, moves>> ELSE UNCHANGED watchVars
           /\ IF page = "job" THEN JobStep \/ UNCHANGED jobVars ELSE UNCHANGED jobOnly
           /\ page \in {"list", "panel"} => ListStep \/ PanelStep \/ UNCHANGED trackVars
           /\ page \notin {"job", "list", "panel"} => UNCHANGED trackVars
           /\ PatchStep \/ BaselineStep \/ UNCHANGED machineVars
           /\ TermStep \/ UNCHANGED windowVars
<1>1. CASE UNCHANGED vars
  BY <1>1 DEF vars, jobVars, jobOnly, pageVars
<1>2. CASE Deploys \/ EditsHost \/ FillsForm \/ Patches \/ KeepsBaseline \/ Sets
  BY <1>2 DEF Deploys, EditsHost, FillsForm, Patches, KeepsBaseline, Sets, OthersStay
<1>3. CASE Connects \/ Lists \/ ShowsContainer
  BY <1>3 DEF Connects, Lists, ShowsContainer, OthersStay
<1>4. CASE RunsJob \/ Watches \/ UsesTerminal
  BY <1>4 DEF RunsJob, Watches, UsesTerminal, OthersStay
<1>5. CASE Switches \/ Filters \/ KeepsTags \/ KeepsLogins \/ PicksHosts \/ Imports
  BY <1>5 DEF Switches, Filters, KeepsTags, KeepsLogins, PicksHosts, Imports, OthersStay
<1> QED
  BY <1>1, <1>2, <1>3, <1>4, <1>5 DEF Next

(* No step of any page breaks it.                                          *)
LEMMA TwiceStay == TwiceInv /\ [Next]_vars => TwiceInv'
<1> SUFFICES ASSUME TwiceInv, [Next]_vars PROVE TwiceInv'
  OBVIOUS
<1>1. PostsInv' /\ AnnounceInv' /\ FormInv'
  BY PageSteps, DeployPosts, AnnounceStays, FormStays DEF TwiceInv
<1>2. IF page' = "github" THEN GithubInv' ELSE ConnectedOnce'
  <2>1. CASE page = "github"
    BY <2>1, PageSteps, GithubStays DEF TwiceInv
  <2>2. CASE page # "github"
    BY <2>2, PageSteps DEF TwiceInv, githubVars, ConnectedOnce
  <2> QED
    BY <2>1, <2>2
<1>3. IF page' = "watch" THEN RenameInv' ELSE OneRenamePerDialog'
  <2>1. CASE page = "watch"
    BY <2>1, PageSteps, RenameStays DEF TwiceInv
  <2>2. CASE page # "watch"
    BY <2>2, PageSteps DEF TwiceInv, watchVars, OneRenamePerDialog
  <2> QED
    BY <2>1, <2>2
<1>4. CASE page = "job"
  <2>1. page' = "job" /\ JobInv'
    BY <1>4, PageSteps, JobStays DEF TwiceInv
  <2> QED
    BY <1>1, <1>2, <1>3, <2>1 DEF TwiceInv, JobInv
<1>5. CASE page # "job"
  <2>1. UNCHANGED jobOnly /\ page' = page
    BY <1>5, PageSteps
  <2>2. OneStartPerDialog' /\ UNCHANGED left
    BY <1>5, <2>1 DEF TwiceInv, jobOnly, OneStartPerDialog
  <2>3. CASE page \in {"list", "panel"}
    <3>1. PageToldInv'
      BY <2>3, PageSteps, PageToldStays DEF TwiceInv
    <3> QED
      BY <1>1, <1>2, <1>3, <1>5, <2>1, <2>2, <3>1 DEF TwiceInv, PageToldInv, ToldOnce
  <2>4. CASE page \notin {"list", "panel"}
    <3>1. UNCHANGED <<trackVars, left>>
      BY <1>5, <2>2, <2>4, PageSteps
    <3>2. ToldOnce'
      BY <3>1 DEF TwiceInv, ToldOnce, trackVars, Jobs
    <3> QED
      BY <1>1, <1>2, <1>3, <1>5, <2>1, <2>2, <2>4, <3>2 DEF TwiceInv
  <2> QED
    BY <2>3, <2>4
<1> QED
  BY <1>4, <1>5

(* A form is sent once however often its button is pressed, and the end of *)
(* a deploy, a job or a GitHub connection is told once however often it is *)
(* polled and its dialog reopened (ImageFlow.tsx, PullDialog.tsx:51,       *)
(* ChannelDialog.tsx:177, GithubDialog.tsx:65, DeployProgress.tsx:18,      *)
(* MonitorCard.tsx:184).                                                   *)
THEOREM SentAndToldOnce == Spec => []NothingTwice
<1>1. Init => TwiceInv
  BY TwiceStart
<1>2. TwiceInv /\ [Next]_vars => TwiceInv'
  BY TwiceStay
<1>3. TwiceInv => NothingTwice
  BY DEF TwiceInv, NothingTwice, PostsInv, AnnounceInv, FormInv, GithubInv, GithubNumbers, RenameInv, JobInv
<1> QED
  BY <1>1, <1>2, <1>3, PTL DEF Spec

-----------------------------------------------------------------------------
(* Answers that count are for what is on screen: on every page, looked at  *)
(* or not.                                                                 *)
LateInv == ProbesInv /\ AnnounceInv /\ PredictInv /\ LogInv /\ TermInv

(* Nothing was asked, opened or dialled.                                   *)
LEMMA LateStart == Init => LateInv
<1> SUFFICES ASSUME Init PROVE LateInv
  OBVIOUS
<1>1. ProbesInv
  BY IdleInv DEF Init, DeployInit, ProbesInv
<1>2. AnnounceInv
  BY TwiceStart DEF TwiceInv
<1>3. PredictInv
  BY DEF Init, MachineInit, PredictInv, ImpactIsOfSelection
<1>4. LogInv
  <2>1. EndsAt(stream, <<>>, 0) /\ Len(<<>>) = 0
    BY DEF EndsAt
  <2> QED
    BY <2>1, LogConstants DEF Init, TermInit, LogInit, LogInv, LinesInv, SockInv, StatusIsOfThisSocket
<1>5. TermInv
  BY DEF Init, TermInit, TermInv, TabsInv, RunsInv, TabStates
<1> QED
  BY <1>1, <1>2, <1>3, <1>4, <1>5 DEF LateInv

(* The last answer that counted is what is shown.                          *)
LEMMA LateImplies == LateInv => LateAnswersAreDropped
<1> SUFFICES ASSUME LateInv PROVE LateAnswersAreDropped
  OBVIOUS
<1>1. CheckIsOfThisForm /\ ValidIsOfThisContent
  BY DEF LateInv, ProbesInv, ProbeInv, CheckIsOfThisForm, ValidIsOfThisContent
<1>2. FollowsItsOwnJob /\ ImpactIsOfSelection
  BY DEF LateInv, AnnounceInv, PredictInv
<1> QED
  BY <1>1, <1>2, LogImplies, TermImplies DEF LateInv, LateAnswersAreDropped

(* Answers and events of a form, selection, job, socket or terminal that   *)
(* is no longer the one on screen are not shown for it, in whatever order  *)
(* they arrive, and a tab that is closed or reconnected while it loads     *)
(* leaves no session behind (shared.tsx:213, ComposeEditor.tsx,            *)
(* MachinePanel.tsx:210, DeployProgress.tsx:18, logStream.tsx:68, :88,     *)
(* XTerm.tsx:53).                                                          *)
THEOREM LateAnswersDropped == Spec => []LateAnswersAreDropped
<1>1. Init => LateInv
  BY LateStart
<1>2. LateInv /\ [Next]_vars => LateInv'
  BY PageSteps, ProbesStay, AnnounceStays, PredictStays, TermStays, ViewStays DEF LateInv
<1>3. LateInv => LateAnswersAreDropped
  BY LateImplies
<1> QED
  BY <1>1, <1>2, <1>3, PTL DEF Spec
=============================================================================
