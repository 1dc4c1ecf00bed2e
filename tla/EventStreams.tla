---------------------------- MODULE EventStreams ----------------------------
(***************************************************************************)
(* The Docker event streams of one host                                    *)
(* (server/internal/monitor/events.go): the supervisor that starts and     *)
(* cancels them, the goroutines that read them, and DELETE of the host.    *)
(*                                                                         *)
(* A section under m.evMu, or a SQL statement, is one step.  evCancel[host]*)
(* holds the cancel function of a stream; the model holds the stream.      *)
(***************************************************************************)
EXTENDS Naturals, FiniteSets

CONSTANTS
    Streams,  \* bound: goroutines the supervisor starts
    None      \* no stream registered

ASSUME NoneIsNoStream == None \notin Streams

VARIABLES
    exists,     \* the host's row exists
    online,     \* its status is online or degraded
    evCancel,   \* evCancel[host]: the registered stream, or None
    stage,      \* where each stream's goroutine is
    cancelled,  \* streams whose context has ended
    sup,        \* the supervisor: "idle", "listed" or "done"
    want,       \* whether the list it holds wants the host
    forget      \* a DELETE handler has deleted the row and not yet called Forget

streamVars == <<exists, online, evCancel, stage, cancelled, sup, want, forget>>
env == <<exists, online, forget>>

StreamTypeOK ==
    /\ exists \in BOOLEAN /\ online \in BOOLEAN
    /\ evCancel \in Streams \cup {None}
    /\ stage \in [Streams -> {"none", "connect", "read", "returned", "gone"}]
    /\ cancelled \subseteq Streams
    /\ sup \in {"idle", "listed", "done"} /\ want \in BOOLEAN
    /\ forget \in BOOLEAN

StreamInit ==
    /\ exists = TRUE /\ online \in BOOLEAN /\ forget = FALSE
    /\ evCancel = None
    /\ stage = [s \in Streams |-> "none"]
    /\ cancelled = {}
    /\ sup = "idle" /\ want = FALSE

-----------------------------------------------------------------------------
(* syncEventStreams: list the hosts ...                                    *)
ListHosts ==
    /\ sup = "idle"
    /\ sup' = "listed"
    /\ want' = (exists /\ online)
    /\ UNCHANGED <<env, evCancel, stage, cancelled>>

(* Mutant: the registration goes, the stream is not cancelled.             *)
Cancel_Uncalled ==
    /\ evCancel # None
    /\ evCancel' = None
    /\ UNCHANGED cancelled

(* Cancel the registered stream and forget it.                             *)
Cancel ==
    /\ evCancel # None
    /\ cancelled' = cancelled \cup {evCancel}
    /\ evCancel' = None

(* ... then, with evMu held: cancel the stream of a host that is not       *)
(* wanted ...                                                              *)
SyncCancel ==
    /\ sup = "listed" /\ ~want
    /\ sup' = "idle"
    /\ Cancel \/ (evCancel = None /\ UNCHANGED <<evCancel, cancelled>>)
    /\ UNCHANGED <<env, stage, want>>

(* Mutant: a stream is started whether or not one is registered.           *)
MayStart_Always == TRUE

MayStart == evCancel = None

(* ... start one for a host that has none ...                              *)
SyncStart(s) ==
    /\ sup = "listed" /\ want /\ MayStart
    /\ stage[s] = "none"
    /\ sup' = "idle" /\ want' = FALSE
    /\ evCancel' = s
    /\ stage' = [stage EXCEPT ![s] = "connect"]
    /\ UNCHANGED <<env, cancelled>>

(* ... and leave a host alone that has one.                                *)
SyncKeep ==
    /\ sup = "listed" /\ want /\ evCancel # None
    /\ sup' = "idle" /\ want' = FALSE
    /\ UNCHANGED <<env, evCancel, stage, cancelled>>

-----------------------------------------------------------------------------
(* streamEvents: get a connection, then follow its events until the        *)
(* context ends or the stream breaks.  A message that is already there may *)
(* still be handled after the context has ended.                           *)
Connect(s) ==
    /\ stage[s] = "connect"
    /\ stage' = [stage EXCEPT ![s] = "read"]
    /\ UNCHANGED <<env, evCancel, cancelled, sup, want>>

ConnectFails(s) ==
    /\ stage[s] = "connect"
    /\ stage' = [stage EXCEPT ![s] = "returned"]
    /\ UNCHANGED <<env, evCancel, cancelled, sup, want>>

(* The stream returns: its context ended ...                               *)
ReadCancelled(s) ==
    /\ stage[s] = "read" /\ s \in cancelled
    /\ stage' = [stage EXCEPT ![s] = "returned"]
    /\ UNCHANGED <<env, evCancel, cancelled, sup, want>>

(* ... or the events stream broke.                                         *)
ReadBreaks(s) ==
    /\ stage[s] = "read"
    /\ stage' = [stage EXCEPT ![s] = "returned"]
    /\ UNCHANGED <<env, evCancel, cancelled, sup, want>>

(* Mutant: a stream that returns drops whatever is registered.             *)
Own_Any(s) == TRUE

(* sctx.Err() == nil: nobody has cancelled this stream.                    *)
Own(s) == s \notin cancelled

(* "Only remove our own registration (a newer stream may have replaced     *)
(* it)."  It is the registered cancel function that is called.             *)
Leave(s) ==
    /\ stage[s] = "returned"
    /\ stage' = [stage EXCEPT ![s] = "gone"]
    /\ IF evCancel # None /\ Own(s) THEN Cancel ELSE UNCHANGED <<evCancel, cancelled>>
    /\ UNCHANGED <<env, sup, want>>

-----------------------------------------------------------------------------
(* A poll changes the status.                                              *)
Poll ==
    /\ exists
    /\ online' = ~online
    /\ UNCHANGED <<exists, forget, evCancel, stage, cancelled, sup, want>>

(* DELETE /api/hosts/:id: delete the row ...                               *)
DeleteHost ==
    /\ exists
    /\ exists' = FALSE /\ forget' = TRUE
    /\ UNCHANGED <<online, evCancel, stage, cancelled, sup, want>>

(* ... then Forget, which calls stopEvents.                                *)
StopEvents ==
    /\ forget
    /\ forget' = FALSE
    /\ Cancel \/ (evCancel = None /\ UNCHANGED <<evCancel, cancelled>>)
    /\ UNCHANGED <<exists, online, stage, sup, want>>

(* The server's context ends: with it those of the streams, and the        *)
(* supervisor returns.  The registrations stay.                            *)
Shutdown ==
    /\ sup # "done"
    /\ sup' = "done" /\ want' = FALSE
    /\ cancelled' = cancelled \cup {s \in Streams : stage[s] # "none"}
    /\ UNCHANGED <<env, evCancel, stage>>

StreamStep(s) == Connect(s) \/ ConnectFails(s) \/ ReadCancelled(s) \/ Leave(s)
SyncStep == SyncCancel \/ SyncKeep \/ \E s \in Streams : SyncStart(s)

StreamNext ==
    \/ ListHosts \/ SyncStep
    \/ \E s \in Streams : StreamStep(s) \/ ReadBreaks(s)
    \/ Poll \/ DeleteHost \/ StopEvents \/ Shutdown

(* The supervisor runs every 15 s, Get has 10 s, a cancelled stream        *)
(* returns and a handler that has started ends.                            *)
StreamFairness ==
    /\ WF_streamVars(ListHosts) /\ WF_streamVars(SyncStep) /\ WF_streamVars(StopEvents)
    /\ \A s \in Streams : WF_streamVars(Connect(s) \/ ConnectFails(s))
                          /\ WF_streamVars(ReadCancelled(s)) /\ WF_streamVars(Leave(s))

StreamSpec == StreamInit /\ [][StreamNext]_streamVars
FairStreams == StreamSpec /\ StreamFairness

-----------------------------------------------------------------------------
(* Properties.                                                             *)

Alive(s) == stage[s] \in {"connect", "read", "returned"} /\ s \notin cancelled

(* The registration and the streams agree while the server runs: a stream  *)
(* that nobody has cancelled is the registered one (so at most one follows *)
(* the host, and it can be cancelled), and what is registered still runs.  *)
RegisteredIsAlive ==
    sup # "done" => \A s \in Streams : Alive(s) <=> evCancel = s

(* "Only remove our own registration": a stream that ends never cancels or *)
(* unregisters another one.                                                *)
LeavesOthersAlone ==
    [][\A s \in Streams : stage[s] = "returned" /\ stage'[s] = "gone" =>
            /\ cancelled' \subseteq cancelled \cup {s}
            /\ evCancel' # evCancel => evCancel = s]_streamVars

(* A host that stays deleted or offline is not followed for ever, although *)
(* the supervisor works from a list that may be older than the DELETE.     *)
UnwantedIsDropped ==
    <>[]~(exists /\ online) => <>[](\A s \in Streams : ~Alive(s))

(* A host that stays online has a stream again and again, however often    *)
(* its streams break (until the bound on streams is used up).              *)
WantedIsFollowed ==
    <>[](exists /\ online /\ sup # "done") =>
        []<>((\E s \in Streams : Alive(s)) \/ \A s \in Streams : stage[s] # "none")

(* The streams follow the host's row: none in the end for a host that is   *)
(* deleted or offline, and one again for a host that is online             *)
(* (syncEventStreams).                                                     *)
StreamsFollowTheHost == UnwantedIsDropped /\ WantedIsFollowed
=============================================================================
