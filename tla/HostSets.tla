------------------------------ MODULE HostSets ------------------------------
(***************************************************************************)
(* Two places where a set of hosts is put together next to a list of hosts *)
(* that may be old: the hosts to monitor (uptime/ConfigurePanel.tsx, where *)
(* no hosts stands for all of them), and the import of an SSH config       *)
(* (settings/HostsTab.tsx with hosts-lib.ts), which adds one host after    *)
(* the other.  A line of a config is a Host line with its names, a Match   *)
(* line, or a HostName line; Port and User are read as HostName is.  Names *)
(* that differ in case only are left out.                                  *)
(***************************************************************************)
EXTENDS WebBase

CONSTANTS
    HostNames,  \* names of hosts
    Wild,       \* names with wildcards, as a Host line may have
    Lines,      \* lines of a config: [key |-> "host", names |-> ...], [key |-> "match"], [key |-> "hostname", addr |-> ...]
    MaxText     \* bound: lines pasted

ASSUME SetConstants ==
    /\ IsFiniteSet(HostNames) /\ MaxText \in Nat
    /\ \A l \in Lines : l.key \in {"host", "match", "hostname"} /\ (l.key = "host" => l.names \in Seq(HostNames \cup Wild))

VARIABLES
    fleet,      \* the hosts of the server
    fleetSeen,  \* the hosts of the page: the cache of GET /api/hosts
    hostIds,    \* settings.uptime.hostIds of the server
    pickedIds,  \* the same as shown
    psaves,     \* PATCHes of it on their way
    crossed,    \* history: since the last fetch PATCHes overlapped, or an answer was lost
    itext,      \* what was pasted
    iopen,      \* the card is open
    irun,       \* the import under way, or None
    itold,      \* the last toast of an import, or None
    imade       \* history: the hosts imports have made

setVars == <<fleet, fleetSeen, hostIds, pickedIds, psaves, crossed, itext, iopen, irun, itold, imade>>
pickVars == <<hostIds, pickedIds, psaves, crossed>>
importVars == <<itext, iopen, irun, itold, imade>>

Pastes == UNION {[1..n -> Lines] : n \in 0..MaxText}

SetTypeOK ==
    /\ fleet \subseteq HostNames /\ fleetSeen \subseteq HostNames /\ hostIds \subseteq HostNames /\ pickedIds \subseteq HostNames
    /\ \A q \in psaves : q.val \subseteq HostNames /\ q.prev \subseteq HostNames /\ q.done \in BOOLEAN
    /\ crossed \in BOOLEAN /\ iopen \in BOOLEAN /\ imade \subseteq HostNames /\ Len(itext) <= MaxText
    /\ irun # None => irun.todo \subseteq DOMAIN irun.out /\ irun.sent \in BOOLEAN

SetInit ==
    /\ fleet \in {{}, HostNames} /\ fleetSeen = fleet /\ hostIds = {} /\ pickedIds = {} /\ psaves = {} /\ crossed = FALSE
    /\ itext = <<>> /\ iopen = FALSE /\ irun = None /\ itold = None /\ imade = {}

\* A host is added or deleted elsewhere; the page fetches the hosts when it is entered, focused or told to.
HostComes(n, w) ==
    /\ n \notin fleet /\ Spend(w) /\ fleet' = fleet \cup {n} /\ UNCHANGED <<fleetSeen, pickVars, importVars>>
HostGoes(n, w) ==
    /\ n \in fleet /\ Spend(w) /\ fleet' = fleet \ {n} /\ UNCHANGED <<fleetSeen, pickVars, importVars>>
HostsFetched ==
    /\ fleetSeen # fleet /\ fleetSeen' = fleet /\ UNCHANGED <<fleet, pickVars, importVars, moves>>

-----------------------------------------------------------------------------
(* The hosts to monitor.                                                   *)

Selected == IF pickedIds = {} THEN fleetSeen ELSE pickedIds \cap fleetSeen
Toggled(h) == IF h \in Selected THEN Selected \ {h} ELSE Selected \cup {h}
\* toggleHost: at least one host stays; all of them are saved as none.
TogglePick(h) ==
    LET next == Toggled(h)
        save == IF Cardinality(next) = Cardinality(fleetSeen) THEN {} ELSE next
    IN /\ h \in fleetSeen /\ next # {} /\ Spend(2)
       /\ pickedIds' = save /\ psaves' = psaves \cup {[val |-> save, prev |-> pickedIds, done |-> FALSE, nr |-> moves']}
       /\ crossed' = (crossed \/ psaves # {})
       /\ UNCHANGED <<fleet, fleetSeen, hostIds, importVars>>
\* The rest of useSettings.save, see Settings.
PicksApplied(q) ==
    /\ ~q.done /\ hostIds' = q.val /\ psaves' = (psaves \ {q}) \cup {[q EXCEPT !.done = TRUE]}
    /\ UNCHANGED <<fleet, fleetSeen, pickedIds, crossed, importVars, moves>>
PicksSaved(q) ==
    /\ q.done /\ pickedIds' = q.val /\ psaves' = psaves \ {q} /\ UNCHANGED <<fleet, fleetSeen, hostIds, crossed, importVars, moves>>
PicksFail(q) ==
    /\ pickedIds' = q.prev /\ psaves' = psaves \ {q} /\ crossed' = (crossed \/ q.done)
    /\ UNCHANGED <<fleet, fleetSeen, hostIds, importVars, moves>>
PicksFetched ==
    /\ crossed /\ pickedIds' = hostIds /\ crossed' = (psaves # {})
    /\ UNCHANGED <<fleet, fleetSeen, hostIds, psaves, importVars, moves>>
\* hostIncluded of the server.
Included(some, hosts) == IF some = {} THEN hosts ELSE some \cap hosts

PickStep ==
    \/ \E n \in HostNames : HostComes(n, 1) \/ HostGoes(n, 1) \/ TogglePick(n)
    \/ HostsFetched \/ PicksFetched
    \/ \E q \in psaves : PicksApplied(q) \/ PicksSaved(q) \/ PicksFail(q)

-----------------------------------------------------------------------------
(* The import.                                                             *)

\* parseSshConfig, a line: st is what was flushed and the block being read.
NoBlock == [on |-> FALSE, names |-> <<>>, addr |-> None]
Flush(st) ==
    LET names == st.cur.names
        outs[i \in 0..Len(names)] ==
            IF i = 0 THEN st.out
            ELSE IF names[i] \in Wild THEN outs[i - 1]
            ELSE Append(outs[i - 1], [name |-> names[i], addr |-> IF st.cur.addr = None THEN names[i] ELSE st.cur.addr])
    IN outs[Len(names)]
ParseLine(st, line) ==
    CASE line.key = "host" -> [out |-> Flush(st), cur |-> [on |-> TRUE, names |-> line.names, addr |-> None]]
      [] line.key = "match" -> [out |-> Flush(st), cur |-> NoBlock]
      [] line.key = "hostname" -> IF st.cur.on THEN [st EXCEPT !.cur.addr = line.addr] ELSE st
parseSshConfig(text) ==
    LET st[i \in 0..Len(text)] == IF i = 0 THEN [out |-> <<>>, cur |-> NoBlock] ELSE ParseLine(st[i - 1], text[i])
    IN Flush(st[Len(text)])
\* The first entry of a name counts.
Firsts(out) == {i \in DOMAIN out : \A j \in 1..(i - 1) : out[j].name # out[i].name}
Entries(text) == LET out == parseSshConfig(text) IN {out[i] : i \in Firsts(out)}

OpenImport ==
    /\ ~iopen /\ iopen' = TRUE /\ UNCHANGED <<fleet, fleetSeen, pickVars, itext, irun, itold, imade, moves>>
CancelImport ==
    /\ iopen /\ Spend(2) /\ iopen' = FALSE /\ UNCHANGED <<fleet, fleetSeen, pickVars, itext, irun, itold, imade>>
\* The text is pasted, or erased; editing it is both.
Paste(t) ==
    /\ iopen /\ t # itext /\ (itext = <<>> \/ t = <<>>) /\ Spend(2) /\ itext' = t /\ UNCHANGED <<fleet, fleetSeen, pickVars, iopen, irun, itold, imade>>
\* run(): the entries that are new to the page, as they are now.
RunImport ==
    LET out == parseSshConfig(itext)
        fresh == {i \in Firsts(out) : out[i].name \notin fleetSeen}
    IN /\ iopen /\ irun = None /\ fresh # {} /\ Move
       /\ irun' = [out |-> out, all |-> fresh, todo |-> fresh, sent |-> FALSE, ok |-> {}, failed |-> {}]
       /\ UNCHANGED <<fleet, fleetSeen, pickVars, itext, iopen, itold, imade>>
Current == CHOOSE i \in irun.todo : \A j \in irun.todo : i <= j
ImportGoesOn == irun # None /\ irun.todo # {} /\ UNCHANGED <<fleetSeen, pickVars, itext, iopen, itold, moves>>
\* POST /api/hosts: Store.Create, which refuses a name that is taken.
HostMade ==
    /\ ImportGoesOn /\ ~irun.sent /\ irun.out[Current].name \notin fleet
    /\ fleet' = fleet \cup {irun.out[Current].name} /\ imade' = imade \cup {irun.out[Current].name}
    /\ irun' = [irun EXCEPT !.sent = TRUE]
HostToldMade ==
    /\ ImportGoesOn /\ irun.sent
    /\ irun' = [irun EXCEPT !.todo = @ \ {Current}, !.sent = FALSE, !.ok = @ \cup {Current}] /\ UNCHANGED <<fleet, imade>>
HostRefused ==
    /\ ImportGoesOn
    /\ irun' = [irun EXCEPT !.todo = @ \ {Current}, !.sent = FALSE, !.failed = @ \cup {Current}] /\ UNCHANGED <<fleet, imade>>
\* The toast; if something was imported the text is cleared, whatever it is by now, and the card closes.
EndImport ==
    /\ irun # None /\ irun.todo = {} /\ irun' = None
    /\ itold' = [ok |-> {irun.out[i].name : i \in irun.ok}, failed |-> Cardinality(irun.failed), of |-> Cardinality(irun.all)]
    /\ IF irun.ok # {} THEN itext' = <<>> /\ iopen' = FALSE ELSE UNCHANGED <<itext, iopen>>
    /\ UNCHANGED <<fleet, fleetSeen, pickVars, imade, moves>>

ImportStep ==
    \/ OpenImport \/ CancelImport \/ RunImport \/ HostMade \/ HostToldMade \/ HostRefused \/ EndImport \/ HostsFetched
    \/ \E t \in Pastes : Paste(t)
    \/ \E n \in HostNames : HostComes(n, 2) \/ HostGoes(n, 2)

-----------------------------------------------------------------------------
(* A click on a host changes whether that one is monitored and leaves all  *)
(* other hosts the page knows alone, although "all" is stored as "none"    *)
(* and hosts that were deleted stay in the list (ConfigurePanel.tsx:24).   *)
OneHostChanges ==
    [][Cardinality(psaves') > Cardinality(psaves) =>
        LET before == Included(pickedIds, fleetSeen)
            after == Included(pickedIds', fleetSeen)
        IN after # {} /\ Cardinality((before \ after) \cup (after \ before)) = 1]_setVars

(* The hosts shown as selected are the ones the server monitors, once      *)
(* nothing is on its way and the list of hosts is the server's, unless     *)
(* saves overlapped or an answer was lost.                                 *)
SelectedIsIncluded == psaves = {} /\ ~crossed /\ fleetSeen = fleet => Selected = Included(hostIds, fleet)

(* What parseSshConfig reads line by line is what the config says as a     *)
(* whole: a host for each name without wildcards, with the last HostName   *)
(* of its block, which ends at the next Host or Match; the first block     *)
(* that has the name counts (hosts-lib.ts:27, 57).                         *)
Heads(text) == {i \in DOMAIN text : text[i].key \in {"host", "match"}}
Block(text, h) == {i \in DOMAIN text : i > h /\ \A g \in Heads(text) : g > h => i < g}
AddressIn(text, h, n) ==
    LET H == {i \in Block(text, h) : text[i].key = "hostname"}
    IN IF H = {} THEN n ELSE text[CHOOSE i \in H : \A j \in H : j <= i].addr
Naming(text, n) == {h \in DOMAIN text : text[h].key = "host" /\ \E i \in DOMAIN text[h].names : text[h].names[i] = n}
ParsedAsWritten ==
    Entries(itext) =
        {[name |-> n, addr |-> AddressIn(itext, CHOOSE h \in Naming(itext, n) : \A g \in Naming(itext, n) : h <= g, n)] :
            n \in {x \in HostNames : Naming(itext, x) # {}}}

(* What is told of an import adds up to what was clicked, and every host   *)
(* told to be imported was made by an import, also when the text was       *)
(* edited, the card closed or hosts were added while it ran                *)
(* (HostsTab.tsx:182).                                                     *)
ImportIsAccounted == itold # None => itold.ok \subseteq imade /\ Cardinality(itold.ok) + itold.failed = itold.of
============================================================================
