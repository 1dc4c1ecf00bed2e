----------------------------- MODULE MachinePage ----------------------------
(***************************************************************************)
(* The operating system's side of a host: the updates of a machine with    *)
(* the prediction of what installing them restarts, its hardening checks   *)
(* and services (web/components/machines/MachinePanel.tsx), and the        *)
(* baselines (web/app/(app)/machines/page.tsx).                            *)
(*                                                                         *)
(* A change of a baseline sends all of it: the copy on screen with one     *)
(* rule or machine toggled.  Copies are fetched again every 60 s and after *)
(* each change.                                                            *)
(***************************************************************************)
EXTENDS WebBase

CONSTANTS
    Pkgs, Urgent,   \* packages, and those that are security updates
    Parts           \* the rules and the machines a baseline may name

ASSUME MachineConstants == Urgent \subseteq Pkgs

VARIABLES
    pkgs,       \* the machine's pending updates, as shown
    picked,     \* the ones selected
    swapped,    \* history: a scan replaced packages and left their number
    impact,     \* the prediction shown: the packages it is for, or None
    predict,    \* its debounced request: timer, requests on their way, predicting
    mquest, orders,     \* the question on screen; what was sent to the machine
    stored, version,    \* the baseline, or None; the changes made to it
    copy,       \* what is shown of it, and its version
    draft,      \* BaselineDialog: the form, or None
    puts,       \* changes on their way
    meant, overlapped   \* history: the baseline with every change applied to it in turn;
                        \*   a change was made to a copy that was not the last

patchVars == <<pkgs, picked, swapped, impact, predict, mquest, orders>>
baseVars == <<stored, version, copy, draft, puts, meant, overlapped>>
machineVars == <<patchVars, baseVars>>

Order == [what : {"install", "job"}, names : SUBSET Pkgs, nr : 1..MaxMoves]
Base == SUBSET Parts
Put == [op : {"toggle", "form", "delete", "create"}, part : Parts \cup {None}, body : Base, from : Nat, nr : 1..MaxMoves]

MachineTypeOK ==
    /\ pkgs \subseteq Pkgs /\ picked \subseteq Pkgs /\ swapped \in BOOLEAN /\ impact \in (SUBSET Pkgs) \cup {None}
    /\ predict.timer \in BOOLEAN /\ predict.busy \in BOOLEAN /\ predict.asked \subseteq [of : SUBSET Pkgs, cur : BOOLEAN]
    /\ mquest \in Order \cup {None} /\ orders \subseteq Order
    /\ stored \in Base \cup {None} /\ version \in Nat /\ copy \in [base : Base \cup {None}, at : Nat]
    /\ draft \in [base : Base, at : Nat, new : BOOLEAN] \cup {None} /\ puts \subseteq Put
    /\ meant \in Base \cup {None} /\ overlapped \in BOOLEAN

\* The tab has been loaded, and the prediction of its first selection with it.
MachineInit ==
    /\ pkgs = Pkgs /\ picked = Urgent /\ swapped = FALSE /\ impact = IF Urgent = {} THEN None ELSE Urgent
    /\ predict = [timer |-> FALSE, asked |-> {}, busy |-> FALSE]
    /\ mquest = None /\ orders = {}
    /\ stored = Parts /\ version = 0 /\ copy = [base |-> Parts, at |-> 0] /\ draft = None /\ puts = {}
    /\ meant = Parts /\ overlapped = FALSE

-----------------------------------------------------------------------------
(* UpdatesTab                                                              *)

\* The effect that runs when the selection changed: the request of the last one is
\* forgotten.  Nothing selected needs no prediction, but predicting stays as it was.
Repredict(S) ==
    LET gone == {[a EXCEPT !.cur = FALSE] : a \in predict.asked} IN
    IF S = picked THEN UNCHANGED <<impact, predict>>
    ELSE IF S = {} THEN impact' = None /\ predict' = [predict EXCEPT !.timer = FALSE, !.asked = gone]
    ELSE predict' = [timer |-> TRUE, asked |-> gone, busy |-> TRUE] /\ UNCHANGED impact
Picks(S) == picked' = S /\ Repredict(S)

\* A scan, or a reload after a job.  The security updates are selected again when the
\* number of packages changed, whatever their names.
Reset(S) == IF Cardinality(S) # Cardinality(pkgs) THEN S \cap Urgent ELSE picked
Scanned(S) ==
    /\ S # pkgs /\ Spend(2) /\ pkgs' = S /\ Picks(Reset(S))
    /\ swapped' = (Cardinality(S) = Cardinality(pkgs))
    /\ UNCHANGED <<mquest, orders, baseVars>>
TogglePkg(p) ==
    /\ p \in pkgs /\ Move /\ Picks(IF p \in picked THEN picked \ {p} ELSE picked \cup {p})
    /\ UNCHANGED <<pkgs, swapped, mquest, orders, baseVars>>
SelectAll ==
    /\ pkgs # {} /\ Spend(2) /\ Picks(IF Cardinality(picked) = Cardinality(pkgs) THEN {} ELSE pkgs)
    /\ swapped' = FALSE
    /\ UNCHANGED <<pkgs, mquest, orders, baseVars>>

PredictAsks ==
    /\ predict.timer
    /\ predict' = [predict EXCEPT !.timer = FALSE, !.asked = @ \cup {[of |-> picked, cur |-> TRUE]}]
    /\ UNCHANGED <<pkgs, picked, swapped, impact, mquest, orders, baseVars, moves>>
\* (mutant) The answer is taken whatever is selected by then.
StillAsked_Always(a) == TRUE
StillAsked(a) == a.cur
PredictAnswers(a) ==
    /\ \E ok \in BOOLEAN :
         IF StillAsked(a)
         THEN /\ impact' = IF ok THEN a.of ELSE None
              /\ predict' = [predict EXCEPT !.asked = @ \ {a}, !.busy = FALSE]
         ELSE UNCHANGED impact /\ predict' = [predict EXCEPT !.asked = @ \ {a}]
    /\ UNCHANGED <<pkgs, picked, swapped, mquest, orders, baseVars, moves>>

\* install(), and the other things a machine is told after a question: a fix, a service's
\* stop or restart, a reboot, the fleet's updates; apt update and a start are not asked about.
InstallPicked ==
    /\ picked # {} /\ Spend(2) /\ mquest' = [what |-> "install", names |-> picked, nr |-> moves']
    /\ UNCHANGED <<pkgs, picked, swapped, impact, predict, orders, baseVars>>
AskMachine ==
    /\ Spend(2) /\ mquest' = [what |-> "job", names |-> {}, nr |-> moves']
    /\ UNCHANGED <<pkgs, picked, swapped, impact, predict, orders, baseVars>>
TellMachine ==
    /\ Spend(2) /\ orders' = orders \cup {[what |-> "job", names |-> {}, nr |-> moves']}
    /\ UNCHANGED <<pkgs, picked, swapped, impact, predict, mquest, baseVars>>
MachineYes ==
    /\ mquest # None /\ mquest' = None /\ orders' = orders \cup {mquest}
    /\ UNCHANGED <<pkgs, picked, swapped, impact, predict, baseVars, moves>>
MachineNo ==
    /\ mquest # None /\ mquest' = None
    /\ UNCHANGED <<pkgs, picked, swapped, impact, predict, orders, baseVars, moves>>
\* The job is over: what it installed is gone from the list that is fetched again.
OrderDone(q) ==
    /\ orders' = orders \ {q}
    /\ \E ok \in BOOLEAN :
         LET S == IF ok THEN pkgs \ q.names ELSE pkgs IN
         /\ pkgs' = S /\ Picks(Reset(S))
         /\ swapped' = (swapped /\ S = pkgs)
    /\ UNCHANGED <<mquest, baseVars, moves>>

PatchStep ==
    \/ \E S \in SUBSET Pkgs : Scanned(S)
    \/ \E p \in Pkgs : TogglePkg(p)
    \/ SelectAll \/ PredictAsks \/ InstallPicked \/ AskMachine \/ TellMachine \/ MachineYes \/ MachineNo
    \/ \E a \in predict.asked : PredictAnswers(a)
    \/ \E q \in orders : OrderDone(q)
PredictReturns == \E a \in predict.asked : a.cur /\ PredictAnswers(a)

-----------------------------------------------------------------------------
(* BaselinesView                                                           *)

Flip(S, p) == IF p \in S THEN S \ {p} ELSE S \cup {p}
SendPut(op, p, b, at) == puts' = puts \cup {[op |-> op, part |-> p, body |-> b, from |-> at, nr |-> moves']}

\* patch(): the copy on screen with one rule or machine toggled.
Body(b, p) == Flip(b, p)
TogglePart(p) ==
    /\ copy.base # None /\ Move /\ SendPut("toggle", p, Body(copy.base, p), copy.at)
    /\ UNCHANGED <<patchVars, stored, version, copy, draft, meant, overlapped>>
RemoveBaseline ==
    /\ copy.base # None /\ Spend(2) /\ SendPut("delete", None, {}, copy.at)
    /\ UNCHANGED <<patchVars, stored, version, copy, draft, meant, overlapped>>

\* BaselineDialog: its form is filled once, from the copy of that moment; without a
\* baseline it makes the first one, with every rule.
EditBaseline ==
    /\ draft = None /\ Move
    /\ draft' = [base |-> IF copy.base = None THEN Parts ELSE copy.base, at |-> copy.at, new |-> copy.base = None]
    /\ UNCHANGED <<patchVars, stored, version, copy, puts, meant, overlapped>>
ToggleDraft(p) ==
    /\ draft # None /\ Move /\ draft' = [draft EXCEPT !.base = Flip(@, p)]
    /\ UNCHANGED <<patchVars, stored, version, copy, puts, meant, overlapped>>
CancelDraft == draft # None /\ draft' = None /\ UNCHANGED <<patchVars, stored, version, copy, puts, meant, overlapped, moves>>
SaveDraft ==
    /\ draft # None /\ Move /\ SendPut(IF draft.new THEN "create" ELSE "form", None, draft.base, draft.at)
    /\ UNCHANGED <<patchVars, stored, version, copy, draft, meant, overlapped>>

\* The request is carried out; a dialog on screen is closed by any form that was saved.
PutAnswers(q) ==
    /\ q.op = "create" <=> stored = None
    /\ puts' = puts \ {q} /\ version' = version + 1
    /\ stored' = IF q.op = "delete" THEN None ELSE q.body
    /\ meant' = CASE q.op = "delete" -> None [] q.op = "toggle" -> Flip(meant, q.part) [] OTHER -> q.body
    /\ overlapped' = (q.op = "toggle" /\ (overlapped \/ q.from # version))
    /\ draft' = IF q.op \in {"form", "create"} THEN None ELSE draft
    /\ UNCHANGED <<patchVars, copy, moves>>
PutFails(q) == puts' = puts \ {q} /\ UNCHANGED <<patchVars, stored, version, copy, draft, meant, overlapped, moves>>
\* reload(), or the next poll.
Refetch ==
    /\ copy.at # version /\ copy' = [base |-> stored, at |-> version]
    /\ UNCHANGED <<patchVars, stored, version, draft, puts, meant, overlapped, moves>>

BaselineStep ==
    \/ \E p \in Parts : TogglePart(p) \/ ToggleDraft(p)
    \/ EditBaseline \/ RemoveBaseline \/ CancelDraft \/ SaveDraft \/ Refetch
    \/ \E q \in puts : PutAnswers(q) \/ PutFails(q)

-----------------------------------------------------------------------------
(* What is selected, and would be installed, is on the list, whatever was  *)
(* scanned or installed meanwhile, unless a scan replaced packages and     *)
(* left their number: the selection is reset by the number                 *)
(* (MachinePanel.tsx:193).                                                 *)
PickedIsListed == ~swapped => picked \subseteq pkgs

(* A prediction that is not being made anew is that of the selection on    *)
(* screen, in whatever order the answers come (MachinePanel.tsx:199).      *)
ImpactIsOfSelection == impact # None /\ ~predict.busy => impact = picked

(* The prediction is made, as it must be in the end, or there is nothing   *)
(* to predict.                                                             *)
PredictionSettles == picked # {} => ~predict.busy

(* A baseline is what its toggles make it, each of them applied to what    *)
(* the one before left: one is lost only if it was made on a copy that was *)
(* fetched before another change was carried out (machines/page.tsx:260).  *)
LostOnlyByOverlap == ~overlapped => stored = meant
============================================================================
