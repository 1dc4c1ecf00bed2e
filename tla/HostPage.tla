------------------------------ MODULE HostPage ------------------------------
(***************************************************************************)
(* The page of a host and what acts on its containers: the containers,     *)
(* stacks, storage and networks tabs (web/components/host, web/app/(app)/  *)
(* hosts/[id]/page.tsx), the same lists of every host (web/app/(app)/      *)
(* resources/page.tsx) and the side panel of a container                   *)
(* (web/components/sidecar/ContainerSidecar.tsx).                          *)
(*                                                                         *)
(* What is shown is a copy that is polled; what is done is a request by    *)
(* the id the copy had.  A container that is recreated has a new id: its   *)
(* name with a generation.  A question (confirm) is answered later than it *)
(* was asked, and trackJob (TrackJob) returns later still.                 *)
(***************************************************************************)
EXTENDS TrackJob

CONSTANTS
    Names,      \* containers
    Envs        \* environments of a container

ASSUME PageConstants == None \notin Names \X Nat

VARIABLES
    cont,       \* name -> generation of the container, 0 when it is gone
    env,        \* name -> its environment
    list,       \* the polled copy of cont
    sel,        \* selected ids
    quest,      \* the question on screen, or None
    side,       \* the side panel, or None
    preqs,      \* requests on their way
    card,       \* names whose card shows a spinner
    stack       \* the stack's card shows a spinner

pageVars == <<cont, env, list, sel, quest, side, preqs, card, stack, trackVars>>
world == <<cont, env>>
panel == <<quest, side>>

Gens == 0..(MaxMoves + 1)
Id == Names \X Gens
Owners == {"host", "stack", "update", "env"}
PageOwner == [what : Owners, req : 0..MaxMoves, mount : 0..MaxMoves, id : Id \cup {None}, rows : Envs \cup {None}]
IsRequest(q) == q.what \in Owners \cup {"bulk", "act", "remove"} /\ q.ids \subseteq Id /\ q.nr \in 0..MaxMoves /\ q.rows \in Envs \cup {None}
PageTypeOK ==
    /\ cont \in [Names -> Gens] /\ env \in [Names -> Envs] /\ list \in [Names -> Gens]
    /\ sel \subseteq Id /\ (quest = None \/ IsRequest(quest))
    /\ side = None \/ (side.mount \in 1..MaxMoves /\ side.nr \in 1..MaxMoves /\ side.id \in Id /\ side.rows \in Envs \cup {None} /\ side.data \in Id \cup {None})
    /\ \A q \in preqs : IsRequest(q)
    /\ card \subseteq Names /\ stack \in BOOLEAN
    /\ TrackTypeOK(PageOwner)

PageInit ==
    /\ TrackInit
    /\ cont = [n \in Names |-> 1] /\ env = CHOOSE f \in [Names -> Envs] : \A m, n \in Names : m # n => f[m] # f[n]
    /\ list = cont /\ sel = {} /\ quest = None /\ side = None /\ preqs = {} /\ card = {} /\ stack = FALSE

IdOf(n) == <<n, list[n]>>
ListedIds(l) == {<<n, l[n]>> : n \in {m \in Names : l[m] # 0}}
Real(i) == i \in ListedIds(cont)

-----------------------------------------------------------------------------
(* What is polled.                                                         *)

\* (mutant) Selections are never dropped.
Kept_All(S, l) == S
\* The list, and the effect that drops selections that no longer exist.
KeptSel(S, l) == S \cap ListedIds(l)
Refresh ==
    /\ list # cont /\ list' = cont /\ sel' = KeptSel(sel, cont)
    /\ UNCHANGED <<world, panel, preqs, card, stack, trackVars, moves>>
\* Someone else recreates or removes a container.
Elsewhere(n) ==
    /\ cont[n] # 0 /\ Spend(2) /\ \E g \in {0, cont[n] + 1} : cont' = [cont EXCEPT ![n] = g]
    /\ UNCHANGED <<env, list, sel, panel, preqs, card, stack, trackVars>>

-----------------------------------------------------------------------------
(* Questions and requests.                                                 *)

Plain(w, S) == [what |-> w, ids |-> S, asked |-> S, rows |-> None, from |-> None, early |-> FALSE, nr |-> 0, mount |-> 0]
Sent(q) == preqs' = preqs \cup {q}
\* confirm(): a question replaces the one on screen, which is then answered with no.
Asks(q) == quest' = q /\ UNCHANGED <<world, list, sel, side, preqs, card, stack, trackVars>>

\* The answer yes: the request is sent, for what was captured when it was asked.
Captured(q) == q
Confirmed ==
    /\ quest # None /\ quest' = None /\ Sent(Captured(quest))
    /\ side' = IF quest.what = "env" /\ side # None /\ side.nr = quest.nr THEN [side EXCEPT !.saving = TRUE] ELSE side
    /\ stack' = (stack \/ quest.what = "stack")
    /\ UNCHANGED <<world, list, sel, card, trackVars, moves>>
Dismissed == quest # None /\ quest' = None /\ UNCHANGED <<world, list, sel, side, preqs, card, stack, trackVars, moves>>

-----------------------------------------------------------------------------
(* The containers tab, and the list of every host's containers.            *)

Select(n) ==
    /\ list[n] # 0 /\ Move
    /\ sel' = IF IdOf(n) \in sel THEN sel \ {IdOf(n)} ELSE sel \cup {IdOf(n)}
    /\ UNCHANGED <<world, list, panel, preqs, card, stack, trackVars>>
\* bulk(): stop is asked about, start and restart are not.
BulkStop == sel # {} /\ Move /\ Asks(Plain("bulk", sel))
BulkStart ==
    /\ sel # {} /\ Move /\ Sent(Plain("bulk", sel))
    /\ UNCHANGED <<world, list, sel, panel, card, stack, trackVars>>
\* Its answer, of which some may have failed, clears the selection made meanwhile too;
\* an error keeps it.
BulkAnswers(q) ==
    /\ q.what = "bulk" /\ preqs' = preqs \ {q}
    /\ sel' \in {{}, sel}
    /\ UNCHANGED <<world, list, panel, card, stack, trackVars, moves>>

\* A card's start, stop, restart, pause: wrap() shows a spinner until it is answered.
CardAction(n) ==
    /\ list[n] # 0 /\ n \notin card /\ Spend(2)
    /\ card' = card \cup {n} /\ Sent(Plain("act", {IdOf(n)}))
    /\ UNCHANGED <<world, list, sel, panel, stack, trackVars>>
CardAnswers(q) ==
    /\ q.what = "act" /\ preqs' = preqs \ {q}
    /\ card' = IF q.nr = 0 THEN card \ {i[1] : i \in q.ids} ELSE card
    /\ side' = IF side # None /\ side.mount = q.nr THEN [side EXCEPT !.busy = FALSE] ELSE side
    /\ UNCHANGED <<world, list, sel, quest, stack, trackVars, moves>>

UpdateContainer(n) == list[n] # 0 /\ Spend(2) /\ Asks(Plain("update", {IdOf(n)}))
RemoveContainer(n) == list[n] # 0 /\ Spend(2) /\ Asks(Plain("remove", {IdOf(n)}))
\* The panel's remove (nr is its mount) closes the panel on screen when it succeeded.
RemoveAnswers(q) ==
    /\ q.what = "remove" /\ preqs' = preqs \ {q}
    /\ \E ok \in BOOLEAN :
         /\ cont' = IF ok THEN [n \in Names |-> IF <<n, cont[n]>> \in q.ids THEN 0 ELSE cont[n]] ELSE cont
         /\ side' = IF ok /\ q.nr # 0 THEN None ELSE side
    /\ UNCHANGED <<env, list, sel, quest, card, stack, trackVars, moves>>

-----------------------------------------------------------------------------
(* The host's header, its storage and networks, its stacks: jobs.          *)

\* Update all, prune, reboot; the buttons of a host that is offline are disabled.
HeaderJob == Spend(2) /\ Asks(Plain("host", {}))
StorageJob ==
    /\ Spend(2) /\ Sent(Plain("host", {}))
    /\ UNCHANGED <<world, list, sel, panel, card, stack, trackVars>>
\* run() of a stack's card: deploy, restart, and stop, which looks up its impact and asks.
StackRun ==
    /\ ~stack /\ Spend(2) /\ stack' = TRUE /\ Sent(Plain("stack", {}))
    /\ UNCHANGED <<world, list, sel, panel, card, trackVars>>
StackStop == ~stack /\ Spend(2) /\ Asks(Plain("stack", {}))

Owner(q) == [what |-> q.what, req |-> q.nr, mount |-> q.mount, id |-> IF q.ids = {} THEN None ELSE CHOOSE i \in q.ids : TRUE, rows |-> q.rows]
\* trackJob is given the request: it fails, or its job starts.  An id that is gone is refused.
JobStarts(q) ==
    /\ q.what \in Owners /\ (\A i \in q.ids : Real(i))
    /\ preqs' = preqs \ {q} /\ StartJob
    /\ trackers' = trackers \cup {Tracker(Len(work) + 1, Owner(q))}
    /\ UNCHANGED <<world, list, sel, panel, card, stack, moves>>

\* What follows await trackJob(...): the spinner stops, and a save that succeeded ends the
\* edit in progress, of the panel's container of that moment.
After(o, t) ==
    /\ stack' = (stack /\ o.what # "stack")
    /\ side' = IF o.what = "env" /\ side # None
               THEN [side EXCEPT !.saving = @ /\ side.nr # o.req,
                                 !.editing = @ /\ ~(side.mount = o.mount /\ t = "ok")] ELSE side
JobRefused(q) ==
    /\ q.what \in Owners /\ preqs' = preqs \ {q}
    /\ After([what |-> q.what, req |-> q.nr, mount |-> q.mount], "failed")
    /\ UNCHANGED <<world, list, sel, quest, card, trackVars, moves>>

\* A job of the server ends; an update and a new environment recreate the container.
PageJobEnds(t) ==
    /\ WorkIsDone(t.job)
    /\ LET i == t.owner.id
           ok == work'[t.job] = "success" /\ t.owner.what \in {"update", "env"} /\ Real(i) /\ i[2] <= MaxMoves
       IN /\ cont' = IF ok THEN [cont EXCEPT ![i[1]] = @ + 1] ELSE cont
          /\ env' = IF ok /\ t.owner.what = "env" THEN [env EXCEPT ![i[1]] = t.owner.rows] ELSE env
    /\ UNCHANGED <<list, sel, panel, preqs, card, stack, trackers, told, moves>>
PageTracks(t) ==
    /\ \/ (PollRuns(t) \/ PollMisses(t)) /\ UNCHANGED <<side, stack>>
       \/ PollEnds(t) /\ After(t.owner, Verdict(work[t.job]))
       \/ GivesUp(t) /\ After(t.owner, "failed")
    /\ UNCHANGED <<world, list, sel, quest, preqs, card, moves>>

-----------------------------------------------------------------------------
(* The side panel.                                                         *)

\* openContainer: by a card, or by the palette over an open panel.  Data of the container
\* shown before stays until its own arrives (keepPreviousData).
Reopened(s, i) == [s EXCEPT !.id = i, !.editing = FALSE, !.saving = FALSE]
OpenSide(n, editing) ==
    /\ list[n] # 0 /\ Move
    /\ side # None => side.id # IdOf(n) /\ ~editing
    /\ side' = IF side # None THEN [Reopened(side, IdOf(n)) EXCEPT !.nr = moves']
               ELSE [mount |-> moves', nr |-> moves', id |-> IdOf(n), data |-> None, editing |-> editing, rows |-> None, from |-> None,
                     early |-> FALSE, saving |-> FALSE, busy |-> FALSE]
    /\ UNCHANGED <<world, list, sel, quest, preqs, card, stack, trackVars>>
CloseSide == side # None /\ quest = None /\ side' = None /\ UNCHANGED <<world, list, sel, quest, preqs, card, stack, trackVars, moves>>

\* Its buttons act on the container whose data is shown.
PanelAction ==
    /\ side # None /\ side.data # None /\ ~side.busy /\ Spend(2)
    /\ side' = [side EXCEPT !.busy = TRUE]
    /\ Sent([Plain("act", {side.data}) EXCEPT !.nr = side.mount])
    /\ UNCHANGED <<world, list, sel, quest, card, stack, trackVars>>
RemoveShown == side # None /\ side.data # None /\ Spend(2) /\ Asks([Plain("remove", {side.data}) EXCEPT !.nr = side.mount])

\* The effect of EnvTab when it is entered in, or put in, edit mode: rows from what is shown.
Snapshot(s) == [s EXCEPT !.rows = env[s.data[1]], !.from = s.data, !.early = s.data # s.id]
Polled(s) == IF s.editing /\ s.data = None THEN Snapshot([s EXCEPT !.data = s.id]) ELSE [s EXCEPT !.data = s.id]
DetailArrives ==
    /\ side # None /\ Real(side.id) /\ side' = Polled(side)
    /\ UNCHANGED <<world, list, sel, quest, preqs, card, stack, trackVars, moves>>
EditConfig ==
    /\ side # None /\ side.data # None /\ ~side.editing
    /\ side' = Snapshot([side EXCEPT !.editing = TRUE])
    /\ UNCHANGED <<world, list, sel, quest, preqs, card, stack, trackVars, moves>>
\* Another tab and back: EnvTab is mounted anew, what was typed in it is gone.
SwitchTab ==
    /\ side # None /\ side.editing /\ side.data # None /\ Move
    /\ side' = Snapshot([side EXCEPT !.nr = moves', !.saving = FALSE])
    /\ UNCHANGED <<world, list, sel, quest, preqs, card, stack, trackVars>>
CancelEdit ==
    /\ side # None /\ side.editing /\ ~side.saving /\ side' = [side EXCEPT !.editing = FALSE]
    /\ UNCHANGED <<world, list, sel, quest, preqs, card, stack, trackVars, moves>>
EditRows(x) ==
    /\ side # None /\ side.editing /\ side.rows \notin {x, None} /\ Spend(2)
    /\ side' = [side EXCEPT !.rows = x]
    /\ UNCHANGED <<world, list, sel, quest, preqs, card, stack, trackVars>>
SaveEnv ==
    /\ side # None /\ side.editing /\ ~side.saving /\ side.rows # None /\ Spend(2)
    /\ Asks([Plain("env", {side.data}) EXCEPT !.rows = side.rows, !.from = side.from, !.early = side.early,
                                           !.nr = side.nr, !.mount = side.mount])

\* The lists and the side panel, each with what is done elsewhere.
PageAnswers ==
    \/ \E q \in preqs : BulkAnswers(q) \/ CardAnswers(q) \/ RemoveAnswers(q) \/ JobStarts(q) \/ JobRefused(q)
    \/ \E t \in trackers : PageTracks(t)
PageWork == \E t \in trackers : PageJobEnds(t)
ListStep ==
    \/ Refresh \/ Confirmed \/ Dismissed \/ BulkStop \/ BulkStart \/ PageAnswers \/ PageWork
    \/ HeaderJob \/ StorageJob \/ StackRun \/ StackStop
    \/ \E n \in Names : Elsewhere(n) \/ Select(n) \/ CardAction(n) \/ UpdateContainer(n) \/ RemoveContainer(n)
PanelStep ==
    \/ Refresh \/ Confirmed \/ Dismissed \/ PageAnswers \/ PageWork
    \/ CloseSide \/ PanelAction \/ SwitchTab \/ RemoveShown \/ DetailArrives \/ EditConfig \/ CancelEdit \/ SaveEnv
    \/ \E n \in Names : Elsewhere(n) \/ \E e \in BOOLEAN : OpenSide(n, e)
    \/ \E x \in Envs : EditRows(x)

-----------------------------------------------------------------------------
(* "Drop selections that no longer exist" (hosts/[id]/page.tsx:85): what a *)
(* bulk action is asked about is on the screen.                            *)
SelectionIsListed == sel \subseteq ListedIds(list)

(* A bulk stop acts on the containers its question named, whatever was     *)
(* polled or selected while it was on screen (hosts/[id]/page.tsx:143).    *)
BulkIsWhatWasAsked == \A q \in preqs : q.what = "bulk" => q.ids = q.asked

(* The environment saved to a container was read from that container, even *)
(* if the panel was turned to another one, unless editing began on the     *)
(* data of the one shown before (ContainerSidecar.tsx:40, 277).            *)
EnvIsOfItsContainer == \A q \in preqs : q.what = "env" /\ ~q.early => q.ids = {q.from}

(* "Only snapshot when entering edit mode" (ContainerSidecar.tsx:282):     *)
(* polls never change rows that are being edited.                          *)
RowsAreKept ==
    [][side # None /\ side.editing /\ side.rows # None /\ side' # None /\ side'.nr = side.nr /\ side'.editing /\ moves' = moves
       => side'.rows = side.rows]_pageVars

(* A spinner is always shown for something that will end it: a request on  *)
(* its way or a tracked job (StacksTab.tsx:105, ContainersTab.tsx:190,     *)
(* ContainerSidecar.tsx:305).                                              *)
SpinnersAreBacked ==
    /\ stack => (\E q \in preqs : q.what = "stack") \/ (\E t \in trackers : t.owner.what = "stack")
    /\ \A n \in card : \E q \in preqs : q.what = "act" /\ q.nr = 0 /\ n \in {i[1] : i \in q.ids}
    /\ side # None /\ side.busy => \E q \in preqs : q.what = "act" /\ q.nr = side.mount
    /\ side # None /\ side.saving =>
         (\E q \in preqs : q.what = "env" /\ q.nr = side.nr) \/ (\E t \in trackers : t.owner.what = "env" /\ t.owner.req = side.nr)

(* No spinner turns, as it must be in the end.                             *)
SpinnersStop == ~stack /\ card = {} /\ (side # None => ~side.saving /\ ~side.busy)
============================================================================
