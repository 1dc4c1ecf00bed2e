----------------------------- MODULE HostDialog -----------------------------
(***************************************************************************)
(* The dialog that adds or edits a host (web/components/dialogs/           *)
(* HostDialog.tsx): details, the key to authorise, then a connection test  *)
(* that saves the host when it succeeds.                                   *)
(*                                                                         *)
(* A test is an asynchronous function that outlives the dialog: it goes on *)
(* after every await unless runId moved on.  Cancel moves it on, closing   *)
(* the dialog with Escape or a click outside does not.                     *)
(***************************************************************************)
EXTENDS WebBase

CONSTANTS
    Addrs       \* what name, address and user of a host are abstracted to

ASSUME HostConstants == Addrs # {}

VARIABLES
    hosts,      \* addresses of the hosts in the database; a name is unique
    hd,         \* the dialog on screen, or None
    mounts,     \* dialogs opened so far
    tests,      \* the runs of test() that have not returned
    deletes,    \* DELETE requests on their way
    stopped     \* history: dialogs left with Cancel before anything was sent to be saved

hostVars == <<hosts, hd, mounts, tests, deletes, stopped>>

Methods == {"key", "password", "local"}
HostForm == [addr : Addrs \cup {None}, method : Methods, pw : BOOLEAN]
EmptyForm == [addr |-> None, method |-> "key", pw |-> FALSE]
Dialog == [mount : 1..MaxMoves, edits : Addrs \cup {None}, step : 0..2, form : HostForm, loaded : BOOLEAN,
           result : {"none", "ok", "bad"}, end : {"none", "saved", "error"}]
TestRun == [mount : 1..MaxMoves, edits : Addrs \cup {None}, form : HostForm, about : Addrs,
        at : {"test", "reveal", "post", "patch", "retest"}, ok : BOOLEAN, cur : BOOLEAN]

HostTypeOK ==
    /\ hosts \subseteq Addrs /\ mounts \in 0..MaxMoves
    /\ hd \in Dialog \cup {None} /\ tests \subseteq TestRun
    /\ deletes \subseteq [mount : 1..MaxMoves, host : Addrs] /\ stopped \subseteq 1..MaxMoves

HostInit ==
    /\ hosts = {CHOOSE a \in Addrs : TRUE}
    /\ hd = None /\ mounts = 0 /\ tests = {} /\ deletes = {} /\ stopped = {}

-----------------------------------------------------------------------------
(* test()                                                                  *)

\* runId.current++ of dialog d.
Outdated(d) == {IF r.mount = d.mount THEN [r EXCEPT !.cur = FALSE] ELSE r : r \in tests}

\* An edit that leaves the password blank tests the stored host, not the form.
Tested(d) == IF d.edits # None /\ d.form.method = "password" /\ ~d.form.pw THEN d.edits ELSE d.form.addr

StartTest(d) ==
    /\ hd' = [d EXCEPT !.step = 2, !.result = "none", !.end = "none"]
    /\ tests' = Outdated(d) \cup
         {[mount |-> d.mount, edits |-> d.edits, form |-> d.form, about |-> Tested(d),
           at |-> "test", ok |-> FALSE, cur |-> TRUE]}
    /\ UNCHANGED <<hosts, deletes, stopped>>

Shows(r) == hd # None /\ hd.mount = r.mount
Goes(r, s) == tests' = (tests \ {r}) \cup {s}
Returns(r) == tests' = tests \ {r}

\* The answer of the test, or an error; a run that is outdated returns.
ShowResult(r, ok) ==
    /\ Goes(r, [r EXCEPT !.at = "reveal", !.ok = ok])
    /\ hd' = IF Shows(r) THEN [hd EXCEPT !.result = IF ok THEN "ok" ELSE "bad"] ELSE hd
TestAnswers(r) ==
    /\ r.at = "test"
    /\ \E ok \in BOOLEAN : IF r.cur THEN ShowResult(r, ok) ELSE Returns(r) /\ UNCHANGED hd
    /\ UNCHANGED <<hosts, mounts, deletes, stopped, moves>>

\* (mutant) A run does not look whether it is outdated.
MayGoOn_Always(r) == r.ok
\* The steps are revealed one by one, and a run that is outdated meanwhile returns.
MayGoOn(r) == r.cur /\ r.ok
Revealed(r) ==
    /\ r.at = "reveal"
    /\ IF MayGoOn(r) THEN Goes(r, [r EXCEPT !.at = IF r.edits # None THEN "patch" ELSE "post"])
       ELSE Returns(r)
    /\ UNCHANGED <<hosts, hd, mounts, deletes, stopped, moves>>

Ends(r, e) == hd' = IF r.cur /\ Shows(r) THEN [hd EXCEPT !.end = e] ELSE hd

\* POST /api/hosts; an answer may be lost after the host was added.
PostAnswers(r) ==
    /\ r.at = "post" /\ Returns(r)
    /\ \/ r.form.addr \notin hosts /\ hosts' = hosts \cup {r.form.addr} /\ Ends(r, "saved")
       \/ hosts' = hosts \cup {r.form.addr} /\ Ends(r, "error")
       \/ hosts' = hosts /\ Ends(r, "error")
    /\ UNCHANGED <<mounts, deletes, stopped, moves>>

\* A host keeps its id under another address: whatever refers to it still does.
Moved(e, r) == IF e = r.edits THEN r.form.addr ELSE e
PatchAnswers(r) ==
    /\ r.at = "patch"
    /\ \/ /\ r.edits \in hosts /\ r.form.addr \notin hosts \ {r.edits}
          /\ hosts' = (hosts \ {r.edits}) \cup {r.form.addr}
          /\ tests' = {[t EXCEPT !.edits = Moved(@, r), !.at = IF t = r THEN "retest" ELSE @] : t \in tests}
          /\ hd' = IF hd # None THEN [hd EXCEPT !.edits = Moved(@, r)] ELSE hd
          /\ deletes' = {[q EXCEPT !.host = Moved(@, r)] : q \in deletes}
       \/ hosts' = hosts /\ Returns(r) /\ Ends(r, "error") /\ UNCHANGED deletes
    /\ UNCHANGED <<mounts, stopped, moves>>

\* Whether the second test succeeded is not looked at.
RetestAnswers(r) ==
    /\ r.at = "retest" /\ Returns(r)
    /\ \E e \in {"saved", "error"} : Ends(r, e)
    /\ UNCHANGED <<hosts, mounts, deletes, stopped, moves>>

-----------------------------------------------------------------------------
(* The dialog.                                                             *)

\* openDialog({ type: "host" }); a prefilled dialog starts with the test.
OpenHost(h, prefill) ==
    /\ hd = None /\ Spend(2) /\ mounts' = mounts + 1
    /\ h # None => h \in hosts /\ prefill = None
    /\ LET d == [mount |-> mounts', edits |-> h, step |-> 0, loaded |-> FALSE, result |-> "none", end |-> "none",
                 form |-> IF prefill = None THEN EmptyForm ELSE [addr |-> prefill, method |-> "password", pw |-> TRUE]]
       IN IF prefill = None THEN hd' = d /\ UNCHANGED <<hosts, tests, deletes, stopped>>
          ELSE StartTest(d)

\* (mutant) Every revalidation fills the form.
Fill_Always(d) == TRUE
\* The effect on existing.data, which SWR revalidates: it fills the form once.
Fill(d) == ~d.loaded
ExistingArrives ==
    /\ hd # None /\ hd.edits # None /\ Fill(hd)
    /\ \E m \in Methods :
         hd' = [hd EXCEPT !.loaded = TRUE, !.form = [addr |-> hd.edits, method |-> m, pw |-> FALSE]]
    /\ UNCHANGED <<hosts, mounts, tests, deletes, stopped, moves>>

SetForm(f) ==
    /\ hd # None /\ hd.step = 0 /\ f # hd.form /\ f.addr # None /\ Spend(2)
    /\ f.pw => f.method = "password"
    /\ hd' = [hd EXCEPT !.form = f]
    /\ UNCHANGED <<hosts, mounts, tests, deletes, stopped>>

\* next(): a form that lacks something stays.
Complete(d) == d.form.addr # None /\ (d.form.method = "password" /\ d.edits = None => d.form.pw)
HostNext ==
    /\ hd # None /\ hd.step = 0 /\ Complete(hd)
    /\ IF hd.form.method = "key" THEN hd' = [hd EXCEPT !.step = 1] /\ UNCHANGED <<hosts, tests, deletes, stopped>>
       ELSE StartTest(hd)
    /\ UNCHANGED <<mounts, moves>>
KeyAdded == hd # None /\ hd.step = 1 /\ StartTest(hd) /\ UNCHANGED <<mounts, moves>>

Over(d) == d.end # "none" \/ (d.result = "bad" /\ ~\E r \in tests : r.mount = d.mount /\ r.cur)
Retry == hd # None /\ hd.step = 2 /\ Over(hd) /\ hd.end # "saved" /\ Spend(2) /\ StartTest(hd) /\ UNCHANGED mounts
HostBack ==
    /\ hd # None /\ (hd.step = 1 \/ (hd.step = 2 /\ Over(hd) /\ hd.end # "saved"))
    /\ hd' = [hd EXCEPT !.step = IF hd.step = 2 /\ hd.form.method = "key" THEN 1 ELSE 0]
    /\ UNCHANGED <<hosts, mounts, tests, deletes, stopped, moves>>

\* "Add another"
Again ==
    /\ hd # None /\ hd.end = "saved" /\ hd.edits = None /\ Move
    /\ hd' = [hd EXCEPT !.form = EmptyForm, !.result = "none", !.end = "none", !.step = 0]
    /\ tests' = Outdated(hd) /\ UNCHANGED <<hosts, mounts, deletes, stopped>>

\* Cancel under a running test.
CancelTest ==
    /\ hd # None /\ hd.step = 2 /\ ~Over(hd)
    /\ hd' = None /\ tests' = Outdated(hd)
    /\ stopped' = IF \E r \in tests : r.mount = hd.mount /\ r.at \in {"post", "patch", "retest"}
                  THEN stopped ELSE stopped \cup {hd.mount}
    /\ UNCHANGED <<hosts, mounts, deletes, moves>>
\* Escape, the cross, a click outside, or "Open host".
CloseHost == hd # None /\ hd' = None /\ UNCHANGED <<hosts, mounts, tests, deletes, stopped, moves>>

\* remove(), after its question was answered.
RemoveHost ==
    /\ hd # None /\ hd.edits # None /\ hd.step = 0 /\ Move
    /\ deletes' = deletes \cup {[mount |-> hd.mount, host |-> hd.edits]}
    /\ UNCHANGED <<hosts, hd, mounts, tests, stopped>>
\* onClose() of a late answer closes the dialog on screen, whichever it is.
DeleteAnswers(q) ==
    /\ deletes' = deletes \ {q}
    /\ \/ hosts' = hosts \ {q.host} /\ hd' = None
       \/ UNCHANGED <<hosts, hd>>
    /\ UNCHANGED <<mounts, tests, stopped, moves>>

HostStep ==
    \/ \E h, p \in Addrs \cup {None} : OpenHost(h, p)
    \/ \E f \in HostForm : SetForm(f)
    \/ ExistingArrives \/ HostNext \/ KeyAdded \/ Retry \/ HostBack \/ Again \/ CancelTest \/ CloseHost \/ RemoveHost
    \/ \E r \in tests : TestAnswers(r) \/ Revealed(r) \/ PostAnswers(r) \/ PatchAnswers(r) \/ RetestAnswers(r)
    \/ \E q \in deletes : DeleteAnswers(q)

\* Requests are answered and timers fire.
Proceeds == \E r \in tests : r.cur /\ (TestAnswers(r) \/ Revealed(r) \/ PostAnswers(r) \/ PatchAnswers(r) \/ RetestAnswers(r))

-----------------------------------------------------------------------------
(* Cancel under a running test that has not asked for the host to be saved *)
(* yet stops it: nothing that dialog tested is saved later, whatever       *)
(* answer is still on its way (HostDialog.tsx:78, 82).                     *)
CancelStopsTheSave == \A r \in tests : r.mount \in stopped => r.at \in {"test", "reveal"}

(* A test has ended with its host saved, an error, or a failed step.  That *)
(* is so again and again: the dialog never stays at its spinner            *)
(* (HostDialog.tsx:60).                                                    *)
TestSettles == hd = None \/ hd.step # 2 \/ Over(hd)

(* Host data that is fetched again while the user edits never replaces     *)
(* what was typed (HostDialog.tsx:43).                                     *)
EditIsKept ==
    [][hd # None /\ hd.loaded /\ hd' # None /\ hd'.mount = hd.mount /\ moves' = moves /\ hd'.step = hd.step => hd'.form = hd.form]_hostVars

(* What is saved was tested, address and all, unless the password of an    *)
(* edited host was left blank: then the stored host was tested instead     *)
(* (HostDialog.tsx:70).                                                    *)
SavedWasTested ==
    \A r \in tests : r.at \in {"post", "patch", "retest"} =>
        r.ok /\ (r.about = r.form.addr \/ (r.edits # None /\ r.form.method = "password" /\ ~r.form.pw))
============================================================================
