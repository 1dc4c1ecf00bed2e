---------------------------- MODULE ToggleLists -----------------------------
(***************************************************************************)
(* Lists of rows that are switched, removed or snoozed and shown as they   *)
(* will be before the server has answered: notification channels           *)
(* (NotificationsTab.tsx), GitHub accounts and the stacks that deploy on   *)
(* push (GithubTab.tsx), hosts exposed to MCP and API keys (McpTab.tsx),   *)
(* snoozed suggestions (FleetPulse.tsx).                                   *)
(*                                                                         *)
(* The list lives in SWR's cache: writing to it makes a fetch on its way   *)
(* stale, asking for a new fetch replaces the one on its way.              *)
(***************************************************************************)
EXTENDS WebBase

CONSTANT Rows

VARIABLES
    table,      \* which list it is
    truth,      \* the server's rows
    showing,    \* the rows shown
    tops,       \* changes on their way
    tasked,     \* the question whether to remove a row, with the list as it was asked, or None
    fetch,      \* the fetch on its way, with the rows once the server has read them
    torn        \* history since the last clean fetch: why the list may be wrong

tableVars == <<table, truth, showing, tops, tasked, fetch, torn>>

Tables == {"channels", "accounts", "exposed", "stacks", "snoozed", "keys"}
RowState == {"on", "off", "gone"}
RowList == [Rows -> RowState]
NoFetch == [on |-> FALSE, got |-> None]
Asked == [on |-> TRUE, got |-> None]
Reasons == {"overlap", "lost", "crossed", "other"}

TableTypeOK ==
    /\ table \in Tables /\ truth \in RowList /\ showing \in RowList /\ torn \subseteq Reasons
    /\ \A q \in tops : q.todo \in (SUBSET Rows) \ {{}} /\ q.to \in RowState /\ q.prev \in RowList
                      /\ q.sent \in SUBSET q.todo /\ q.bad \in BOOLEAN
    /\ tasked # None => tasked.row \in Rows /\ tasked.list \in RowList
    /\ fetch \in [on : BOOLEAN, got : RowList \cup {None}]

TableInit ==
    /\ table \in Tables /\ truth = [r \in Rows |-> "on"] /\ showing = truth
    /\ tops = {} /\ tasked = None /\ fetch = NoFetch /\ torn = {}

With(list, S, x) == [r \in Rows |-> IF r \in S /\ list[r] # "gone" THEN x ELSE list[r]]

\* What is sent in one request: each stack has its own, a reset of the snoozes is one.
Unit(S) == IF table = "stacks" THEN {{r} : r \in S} ELSE {S}

\* The change is shown at once, in the list as the handler knows it (prev), and sent.
Start(S, x, prev) ==
    /\ showing' = With(prev, S, x) /\ fetch' = NoFetch
    /\ tops' = tops \cup {[todo |-> S, to |-> x, prev |-> prev, sent |-> {}, bad |-> FALSE, nr |-> moves']}
    /\ torn' = torn \cup IF tops # {} \/ prev # showing THEN {"overlap"} ELSE {}
    /\ UNCHANGED <<table, truth>>
MayChange == tasked = None /\ Spend(2)
SwitchRow(r) ==
    /\ table \in {"channels", "accounts", "exposed", "stacks"} /\ showing[r] # "gone" /\ MayChange
    /\ Start({r}, IF showing[r] = "on" THEN "off" ELSE "on", showing) /\ UNCHANGED tasked
\* All on, all off: the stacks that are not; nothing is sent when there is none.
SwitchAll(x) ==
    /\ table = "stacks" /\ \E r \in Rows : showing[r] # x
    /\ MayChange /\ Start({r \in Rows : showing[r] # x}, x, showing) /\ UNCHANGED tasked
\* A suggestion is snoozed, or all of them are shown again.
Snooze(r) ==
    /\ table = "snoozed" /\ showing[r] = "on" /\ MayChange /\ Start({r}, "off", showing) /\ UNCHANGED tasked
ShowSnoozed ==
    /\ table = "snoozed" /\ \E r \in Rows : showing[r] = "off"
    /\ MayChange /\ Start({r \in Rows : showing[r] = "off"}, "on", showing) /\ UNCHANGED tasked
AskRemove(r) ==
    /\ table \in {"channels", "keys"} /\ tasked = None /\ showing[r] # "gone" /\ Spend(2)
    /\ tasked' = [row |-> r, list |-> showing]
    /\ UNCHANGED <<table, truth, showing, tops, fetch, torn>>
ConfirmRemove ==
    /\ tasked # None /\ tasked' = None /\ UNCHANGED moves
    /\ Start({tasked.row}, "gone", tasked.list)
DismissRemove ==
    /\ tasked # None /\ tasked' = None /\ UNCHANGED <<table, truth, showing, tops, fetch, torn, moves>>

\* The server carries the request out; a row that is gone is refused.
RequestApplied(q, S) ==
    /\ q.sent = {} /\ \A r \in S : truth[r] # "gone"
    /\ truth' = With(truth, S, q.to) /\ tops' = (tops \ {q}) \cup {[q EXCEPT !.sent = S]}
    /\ UNCHANGED <<table, showing, tasked, fetch, torn, moves>>

\* (mutant) A refused change stays on screen.
RollsBack_Never(bad) == FALSE
RollsBack(bad) == bad /\ table # "snoozed"
\* (mutant) Only a change that went through is followed by a fetch.
Refetches_IfGood(q, bad) == ~bad
Refetches(q, bad) ==
    \/ table \in {"stacks", "snoozed"}
    \/ ~bad /\ (table \in {"accounts", "exposed"} \/ q.to = "gone")

\* The request S of q has come back; the handler goes on to the next one, or ends.
RequestBack(q, S, ok) ==
    LET rest == q.todo \ S
        bad == q.bad \/ ~ok
    IN IF rest # {}
       THEN /\ tops' = (tops \ {q}) \cup {[q EXCEPT !.todo = rest, !.sent = {}, !.bad = bad]}
            /\ UNCHANGED <<showing, fetch>>
       ELSE /\ tops' = tops \ {q}
            /\ showing' = IF RollsBack(bad) THEN q.prev ELSE showing
            /\ fetch' = IF Refetches(q, bad) THEN Asked ELSE IF RollsBack(bad) THEN NoFetch ELSE fetch
RequestAnswered(q) ==
    /\ q.sent # {} /\ RequestBack(q, q.sent, TRUE) /\ UNCHANGED <<table, truth, tasked, torn, moves>>
RequestRefused(q, S) ==
    /\ q.sent = {} /\ RequestBack(q, S, FALSE) /\ UNCHANGED <<table, truth, tasked, torn, moves>>
AnswerLost(q) ==
    /\ q.sent # {} /\ RequestBack(q, q.sent, FALSE) /\ torn' = torn \cup {"lost"}
    /\ UNCHANGED <<table, truth, tasked, moves>>

\* The window has focus again, or a poll is due.
FocusFetch ==
    /\ ~fetch.on /\ Move /\ fetch' = Asked
    /\ UNCHANGED <<table, truth, showing, tops, tasked, torn>>
FetchRead ==
    /\ fetch = Asked /\ fetch' = [on |-> TRUE, got |-> truth] /\ UNCHANGED <<table, truth, showing, tops, tasked, torn, moves>>
FetchShown ==
    /\ fetch.got # None /\ fetch' = NoFetch /\ showing' = fetch.got
    /\ torn' = IF tops = {} /\ tasked = None /\ fetch.got = truth THEN {} ELSE torn \cup {"crossed"}
    /\ UNCHANGED <<table, truth, tops, tasked, moves>>
\* Another browser switches a row.
OtherChanges(r) ==
    /\ truth[r] \in {"on", "off"} /\ Spend(2)
    /\ truth' = [truth EXCEPT ![r] = IF @ = "on" THEN "off" ELSE "on"] /\ torn' = torn \cup {"other"}
    /\ UNCHANGED <<table, showing, tops, tasked, fetch>>

TableStep ==
    \/ \E x \in {"on", "off"} : SwitchAll(x)
    \/ \E r \in Rows : SwitchRow(r) \/ Snooze(r) \/ AskRemove(r) \/ OtherChanges(r)
    \/ ShowSnoozed \/ ConfirmRemove \/ DismissRemove \/ FocusFetch \/ FetchRead \/ FetchShown
    \/ \E q \in tops : RequestAnswered(q) \/ AnswerLost(q) \/ \E S \in Unit(q.todo) : RequestApplied(q, S) \/ RequestRefused(q, S)
TableProceeds ==
    \/ FetchRead \/ FetchShown
    \/ \E q \in tops : RequestAnswered(q) \/ AnswerLost(q) \/ \E S \in Unit(q.todo) : RequestApplied(q, S) \/ RequestRefused(q, S)

-----------------------------------------------------------------------------
(* Once nothing is on its way the rows are shown as they are stored,       *)
(* whichever requests were refused (NotificationsTab.tsx:70,               *)
(* GithubTab.tsx:91, McpTab.tsx:68, 282), unless two changes overlapped,   *)
(* an answer was lost, a fetch crossed a change or someone else made one.  *)
RowsShownAreStored == tops = {} /\ ~fetch.on /\ torn = {} => showing = truth

(* Where every change ends with a fetch (GithubTab.tsx:259,                *)
(* FleetPulse.tsx:190, 192), overlapping changes, lost answers and batches *)
(* that failed halfway have left no wrong row on screen in the end.        *)
RowsEndTrue == table \in {"stacks", "snoozed"} => (showing = truth \/ "other" \in torn)
============================================================================
