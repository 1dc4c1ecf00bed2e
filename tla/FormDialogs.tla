----------------------------- MODULE FormDialogs ----------------------------
(***************************************************************************)
(* The dialogs that save a form and close: a notification channel          *)
(* (ChannelDialog.tsx), an uptime monitor (MonitorDialog.tsx), a Docker    *)
(* network and a container that joins one (NetworkDialogs.tsx), and an     *)
(* MCP API key (ApiKeyDialog.tsx).                                         *)
(*                                                                         *)
(* Fields stay editable while a request is on its way, the lists they      *)
(* offer are fetched again at any time, and the answer of a dialog that    *)
(* was closed closes the one on screen: onClose is setDialog(null).        *)
(***************************************************************************)
EXTENDS WebBase

CONSTANTS
    Vals,       \* configurations of a channel, names of a network
    MHosts      \* hosts

ASSUME FormConstants == IsFiniteSet(MHosts) /\ None # "container"

VARIABLES
    fd,         \* the dialog on screen, or None
    fmounts,    \* dialogs opened so far
    fposts,     \* requests on their way
    channels,   \* the channels saved, in order: their configuration
    listed,     \* the hosts in the list
    holder      \* the host that has the container a monitor can watch, or None

formVars == <<fd, fmounts, fposts, channels, listed, holder>>

Forms == {"channel", "monitor", "network", "attach", "key"}
Fields == Vals \cup MHosts \cup {None, "container"}
FormDialog == [kind : Forms, mount : 1..MaxMoves, busy : {"no", "save", "test"}, val : Fields, host : MHosts \cup {None},
               step : 0..2, saved : Nat, dirty : BOOLEAN, sel : SUBSET MHosts, raced : BOOLEAN, relisted : BOOLEAN]
FormPost == [kind : Forms, mount : 1..MaxMoves, op : {"post", "patch", "send"}, then : {"save", "test"}, of : Nat,
             val : Fields, host : MHosts \cup {None}, sel : SUBSET MHosts, held : MHosts \cup {None}, list : SUBSET MHosts, relisted : BOOLEAN]

FormTypeOK ==
    /\ fd \in FormDialog \cup {None} /\ fmounts \in 0..MaxMoves /\ fposts \subseteq FormPost
    /\ channels \in Seq(Vals) /\ listed \subseteq MHosts /\ holder \in MHosts \cup {None}

FormInit ==
    /\ fd = None /\ fmounts = 0 /\ fposts = {} /\ channels = <<>>
    /\ listed = MHosts /\ holder \in MHosts

OpenForm(k) ==
    /\ fd = None /\ Move /\ fmounts' = fmounts + 1
    /\ fd' = [kind |-> k, mount |-> fmounts', busy |-> "no", val |-> None,
              host |-> IF k = "monitor" /\ listed # {} THEN CHOOSE h \in listed : TRUE ELSE None,
              step |-> 0, saved |-> 0, dirty |-> k = "channel", sel |-> IF k = "key" THEN listed ELSE {},
              raced |-> FALSE, relisted |-> FALSE]
    /\ UNCHANGED <<fposts, channels, listed, holder>>
CloseForm == fd # None /\ fd' = None /\ UNCHANGED <<fmounts, fposts, channels, listed, holder, moves>>

-----------------------------------------------------------------------------
(* Requests.                                                               *)

FormRequest(op, then) ==
    [kind |-> fd.kind, mount |-> fd.mount, op |-> op, then |-> then, of |-> fd.saved, val |-> fd.val, host |-> fd.host,
     sel |-> fd.sel, held |-> holder, list |-> listed, relisted |-> fd.relisted]
FormIdle(d) == d.busy = "no"
Ask(op, then) ==
    /\ FormIdle(fd) /\ Move
    /\ fposts' = fposts \cup {FormRequest(op, then)}
    /\ fd' = [fd EXCEPT !.busy = then]
    /\ UNCHANGED <<fmounts, channels, listed, holder>>

FormShown(q) == fd # None /\ fd.mount = q.mount
\* catch and finally: the error is shown, the buttons are back.
FormFails(q) ==
    /\ fposts' = fposts \ {q}
    /\ fd' = IF FormShown(q) THEN [fd EXCEPT !.busy = "no"] ELSE fd
    /\ UNCHANGED <<fmounts, channels, listed, holder, moves>>
\* A save that succeeded closes the dialog on screen.
FormSaves(q) ==
    /\ q.kind \in {"monitor", "network", "attach"}
    /\ fposts' = fposts \ {q} /\ fd' = None
    /\ UNCHANGED <<fmounts, channels, listed, holder, moves>>

-----------------------------------------------------------------------------
(* ChannelDialog                                                           *)

\* setField, the name, or another type, which empties the form.
SetConfig(x) ==
    /\ fd # None /\ fd.kind = "channel" /\ x # fd.val /\ Move
    /\ x = None => fd.saved = 0
    /\ fd' = [fd EXCEPT !.val = x, !.dirty = TRUE, !.raced = @ \/ fd.busy # "no"]
    /\ UNCHANGED <<fmounts, fposts, channels, listed, holder>>

\* persist(): a channel that is saved and not dirty is taken as it is.
Persist(then) ==
    /\ fd # None /\ fd.kind = "channel" /\ fd.val # None
    /\ fd.saved = 0 \/ fd.dirty \/ then = "test"
    /\ Ask(IF fd.saved = 0 THEN "post" ELSE IF fd.dirty THEN "patch" ELSE "send", then)
SaveClean ==
    /\ fd # None /\ fd.kind = "channel" /\ fd.saved # 0 /\ ~fd.dirty /\ fd.busy = "no"
    /\ fd' = None /\ UNCHANGED <<fmounts, fposts, channels, listed, holder, moves>>

Stored(d, n) == [d EXCEPT !.saved = n, !.dirty = FALSE]
Kept(d, q) == IF q.op = "post" THEN Len(channels) + 1 ELSE q.of
PersistAnswers(q) ==
    /\ q.kind = "channel" /\ q.op # "send"
    /\ channels' = IF q.op = "post" THEN Append(channels, q.val) ELSE [channels EXCEPT ![q.of] = q.val]
    /\ LET n == Kept(fd, q) IN
       IF q.then = "save" THEN fposts' = fposts \ {q} /\ fd' = None
       ELSE /\ fposts' = (fposts \ {q}) \cup {[q EXCEPT !.op = "send", !.of = n]}
            /\ fd' = IF FormShown(q) THEN Stored(fd, n) ELSE fd
    /\ UNCHANGED <<fmounts, listed, holder, moves>>
SendAnswers(q) == q.op = "send" /\ FormFails(q)

-----------------------------------------------------------------------------
(* MonitorDialog, NetworkDialog, AttachNetworkDialog                       *)

\* The effect that drops a container which is not on the host chosen.
Chosen(v, h, at) == IF v = "container" /\ h # at THEN None ELSE v

PickMonitorHost(h) ==
    /\ fd # None /\ fd.kind = "monitor" /\ h \in listed \ {fd.host} /\ Move
    /\ fd' = [fd EXCEPT !.host = h, !.val = Chosen(@, h, holder)]
    /\ UNCHANGED <<fmounts, fposts, channels, listed, holder>>
PickContainer ==
    /\ fd # None /\ fd.kind \in {"monitor", "attach"} /\ fd.val # "container"
    /\ fd.kind = "monitor" => fd.host = holder
    /\ holder # None
    /\ fd' = [fd EXCEPT !.val = "container"]
    /\ UNCHANGED <<fmounts, fposts, channels, listed, holder, moves>>
\* The container list is fetched again: the container moved, or is gone.
ContainersChange(h) ==
    /\ h # holder /\ Move /\ holder' = h
    /\ fd' = IF fd # None /\ fd.kind = "monitor" THEN [fd EXCEPT !.val = Chosen(@, fd.host, h)] ELSE fd
    /\ UNCHANGED <<fmounts, fposts, channels, listed>>
NameNetwork(x) ==
    /\ fd # None /\ fd.kind = "network" /\ x # fd.val
    /\ fd' = [fd EXCEPT !.val = x]
    /\ UNCHANGED <<fmounts, fposts, channels, listed, holder, moves>>
SaveForm == fd # None /\ fd.kind \in {"monitor", "network", "attach"} /\ fd.val # None /\ Ask("post", "save")

-----------------------------------------------------------------------------
(* ApiKeyDialog                                                            *)

KeyStep ==
    /\ fd # None /\ fd.kind = "key" /\ fd.step \in {0, 1}
    /\ fd' = [fd EXCEPT !.step = 1 - @]
    /\ UNCHANGED <<fmounts, fposts, channels, listed, holder, moves>>
ToggleHost(h) ==
    /\ fd # None /\ fd.kind = "key" /\ fd.step = 1 /\ h \in listed
    /\ fd' = [fd EXCEPT !.sel = IF h \in @ THEN @ \ {h} ELSE @ \cup {h}]
    /\ UNCHANGED <<fmounts, fposts, channels, listed, holder, moves>>
HostsRelisted(S) ==
    /\ S # listed /\ Spend(2) /\ listed' = S
    /\ fd' = IF fd # None THEN [fd EXCEPT !.relisted = TRUE] ELSE fd
    /\ UNCHANGED <<fmounts, fposts, channels, holder>>

\* create(): at least one host, and as many as there are is "all", sent as no host at all.
MayCreate(d) == listed # {} => d.sel # {}
CreateKey == fd # None /\ fd.kind = "key" /\ fd.step = 1 /\ MayCreate(fd) /\ Ask("post", "save")
SentHosts(q) == IF q.list # {} /\ Cardinality(q.sel) = Cardinality(q.list) THEN {} ELSE q.sel
\* The key is shown once; a dialog that was closed shows it never.
KeyAnswers(q) ==
    /\ q.kind = "key" /\ fposts' = fposts \ {q}
    /\ fd' = IF FormShown(q) THEN [fd EXCEPT !.busy = "no", !.step = 2] ELSE fd
    /\ UNCHANGED <<fmounts, channels, listed, holder, moves>>

FormStep ==
    \/ \E k \in Forms : OpenForm(k)
    \/ \E x \in Vals \cup {None} : SetConfig(x)
    \/ \E x \in Vals : NameNetwork(x)
    \/ \E h \in MHosts : PickMonitorHost(h) \/ ToggleHost(h)
    \/ \E h \in MHosts \cup {None} : ContainersChange(h)
    \/ \E S \in SUBSET MHosts : HostsRelisted(S)
    \/ \E t \in {"save", "test"} : Persist(t)
    \/ CloseForm \/ SaveClean \/ PickContainer \/ SaveForm \/ KeyStep \/ CreateKey
    \/ \E q \in fposts : FormFails(q) \/ FormSaves(q) \/ PersistAnswers(q) \/ SendAnswers(q) \/ KeyAnswers(q)

-----------------------------------------------------------------------------
(* Two clicks never send two requests of one dialog: a channel is created  *)
(* once, however Send test and Save are mixed (ChannelDialog.tsx:177).     *)
OneRequestPerDialog == \A p, q \in fposts : p.mount = q.mount => p = q

(* A channel dialog that has nothing to save shows what is saved, unless a *)
(* field was edited while a request was on its way: its edit is then taken *)
(* for saved (ChannelDialog.tsx:79).                                       *)
CleanIsSaved ==
    fd # None /\ fd.kind = "channel" /\ ~fd.dirty /\ ~fd.raced => fd.saved # 0 /\ channels[fd.saved] = fd.val

(* A container monitor names a container of its host, whatever was changed *)
(* after the container was picked (MonitorDialog.tsx:32).                  *)
MonitorIsOnItsHost == \A q \in fposts : q.kind = "monitor" => q.host = q.held

(* A key covers only hosts that were selected, unless the host list was    *)
(* fetched again meanwhile: "all" compares two counts (ApiKeyDialog.tsx:49).*)
KeyCoversSelection ==
    \A q \in fposts : q.kind = "key" /\ ~q.relisted =>
        (IF SentHosts(q) = {} THEN q.list ELSE SentHosts(q)) \subseteq q.sel
============================================================================
