------------------------------ MODULE HostConn ------------------------------
(***************************************************************************)
(* The connection cache of one host (server/internal/hosts/conn.go,        *)
(* Manager) against the host's row (store.go) and the handlers that edit,  *)
(* delete and test the host (server/internal/api/hosts.go).                *)
(*                                                                         *)
(* Callers are goroutines that call Manager.Get: polls, API requests,      *)
(* jobs, terminals.  A dial has the identity of the connection it makes.   *)
(* What happens under m.mu, or in one SQL statement, is one step.          *)
(***************************************************************************)
EXTENDS Naturals, FiniteSets

CONSTANTS
    Callers,       \* goroutines that need a connection
    Editors,       \* PATCH requests
    Deleters,      \* DELETE requests
    Testers,       \* POST /api/hosts/:id/test requests
    Janitor,       \* the loop that calls CloseIdle
    Conns,         \* bound: dials made
    Addrs,         \* addresses (with port) the host can be given
    MaxEdits,      \* bound: edits
    MaxReinstalls, \* bound: servers that change their host key
    None

ASSUME Actors ==
    /\ \A S, T \in {Callers, Editors, Deleters, Testers, {Janitor}} : S # T => S \cap T = {}
    /\ None \notin Conns \cup Addrs

VARIABLES
    srv,      \* key generation of the server at each address
    exists,   \* the host's row exists
    rec,      \* its address and host_key
    cache,    \* m.conns[host]
    dials,    \* m.dials[host]
    stage,    \* where each dial is; "ok" and "failed" once d.done is closed
    target,   \* the settings a dial read, and the key the server presented
    closed,   \* connections Conn.Close has run on
    idle,     \* the cached connection has not been touched for idleTimeout
    overlap,  \* history: dials in flight when the row changed under them
    phase, ref,  \* where each actor is; the connection or dial it works on
    ret,      \* where it goes on after Invalidate
    cur,      \* the row an editor or a tester read
    edits, reinstalls

connVars == <<srv, exists, rec, cache, dials, stage, target, closed, idle, overlap, phase, ref, ret, cur, edits, reinstalls>>

Procs == Callers \cup Editors \cup Deleters \cup Testers \cup {Janitor}
Keys == Addrs \X Nat
Running == {"load", "connect", "pin", "install", "fail"}
NoKey == <<>>                      \* host_key = '': trust on first use
Row == [addr : Addrs, key : Keys \cup {NoKey}]

(* The key the server at an address presents.                              *)
ServerKey(a) == <<a, srv[a]>>

ConnTypeOK ==
    /\ srv \in [Addrs -> Nat]
    /\ exists \in BOOLEAN /\ rec \in Row
    /\ cache \in Conns \cup {None} /\ dials \in Conns \cup {None}
    /\ stage \in [Conns -> {"none", "ok", "failed"} \cup Running]
    /\ \A d \in Conns : stage[d] \notin {"none", "load"} =>
           target[d].addr \in Addrs /\ {target[d].key, target[d].seen} \subseteq Keys \cup {NoKey}
    /\ closed \subseteq Conns /\ idle \in BOOLEAN /\ overlap \subseteq Conns
    /\ phase \in [Procs -> {"idle", "alive", "inval", "close", "relock", "wait", "have", "write", "connect", "pin"}]
    /\ ref \in [Procs -> Conns \cup {None}]
    /\ ret \in [Procs -> {"idle", "relock"}]
    /\ edits \in Nat /\ reinstalls \in Nat

ConnInit ==
    /\ srv = [a \in Addrs |-> 0]
    /\ exists = TRUE
    /\ rec \in [addr : Addrs, key : {NoKey}]
    /\ cache = None /\ dials = None
    /\ stage = [d \in Conns |-> "none"]
    /\ target = [d \in Conns |-> NoKey]
    /\ closed = {} /\ idle = FALSE /\ overlap = {}
    /\ phase = [p \in Procs |-> "idle"]
    /\ ref = [p \in Procs |-> None]
    /\ ret = [p \in Procs |-> "idle"]
    /\ cur = [p \in Procs |-> NoKey]
    /\ edits = 0 /\ reinstalls = 0

(* A call returns: its locals are gone.                                    *)
Return(p) ==
    /\ phase' = [phase EXCEPT ![p] = "idle"]
    /\ ref' = [ref EXCEPT ![p] = None]
    /\ cur' = [cur EXCEPT ![p] = NoKey]

row == <<srv, exists, rec, edits, reinstalls>>

-----------------------------------------------------------------------------
(* Manager.Get.                                                            *)

(* Mutant: a dial is started whether or not one is in flight.              *)
JoinOrDial_NoJoin(c) ==
    \E d \in Conns :
        /\ stage[d] = "none"
        /\ dials' = d
        /\ stage' = [stage EXCEPT ![d] = "load"]
        /\ ref' = [ref EXCEPT ![c] = d]

(* With m.mu held: wait for the dial in flight, or start one.              *)
JoinOrDial(c) ==
    \/ /\ dials # None
       /\ ref' = [ref EXCEPT ![c] = dials]
       /\ UNCHANGED <<dials, stage>>
    \/ /\ dials = None
       /\ \E d \in Conns :
            /\ stage[d] = "none"
            /\ dials' = d
            /\ stage' = [stage EXCEPT ![d] = "load"]
            /\ ref' = [ref EXCEPT ![c] = d]

GetLookup(c) ==
    /\ phase[c] = "idle"
    /\ \/ /\ cache # None
          /\ ref' = [ref EXCEPT ![c] = cache]
          /\ phase' = [phase EXCEPT ![c] = "alive"]
          /\ UNCHANGED <<dials, stage>>
       \/ /\ cache = None
          /\ JoinOrDial(c)
          /\ phase' = [phase EXCEPT ![c] = "wait"]
    /\ UNCHANGED <<row, cache, target, closed, idle, overlap, ret, cur>>

(* alive: the connection is not closed, and was used within 30 s or        *)
(* answered the keepalive.                                                 *)
GetAlive(c) ==
    /\ phase[c] = "alive" /\ ref[c] \notin closed
    /\ idle' = (idle /\ ref[c] # cache)
    /\ phase' = [phase EXCEPT ![c] = "have"]
    /\ UNCHANGED <<row, cache, dials, stage, target, closed, overlap, ref, ret, cur>>

(* It is closed, or the keepalive failed or took 5 s.  Invalidate the host *)
(* (not the connection) and lock again.                                    *)
GetDead(c) ==
    /\ phase[c] = "alive"
    /\ phase' = [phase EXCEPT ![c] = "inval"]
    /\ ret' = [ret EXCEPT ![c] = "relock"]
    /\ UNCHANGED <<row, cache, dials, stage, target, closed, idle, overlap, ref, cur>>

(* After Invalidate, Get looks at m.dials but not at m.conns again.        *)
GetRelock(c) ==
    /\ phase[c] = "relock"
    /\ JoinOrDial(c)
    /\ phase' = [phase EXCEPT ![c] = "wait"]
    /\ ret' = [ret EXCEPT ![c] = "idle"]
    /\ UNCHANGED <<row, cache, target, closed, idle, overlap, cur>>

GetDialed(c) ==
    /\ phase[c] = "wait"
    /\ \/ /\ stage[ref[c]] = "ok"
          /\ phase' = [phase EXCEPT ![c] = "have"]
          /\ UNCHANGED <<ref, cur>>
       \/ stage[ref[c]] = "failed" /\ Return(c)
    /\ UNCHANGED <<row, cache, dials, stage, target, closed, idle, overlap, ret>>

(* The caller's context ends first; the dial goes on without it.           *)
GetCancelled(c) ==
    /\ phase[c] = "wait"
    /\ Return(c)
    /\ UNCHANGED <<row, cache, dials, stage, target, closed, idle, overlap, ret>>

(* Docker and Exec touch the connection.                                   *)
Use(c) ==
    /\ phase[c] = "have"
    /\ idle' = (idle /\ ref[c] # cache)
    /\ Return(c)
    /\ UNCHANGED <<row, cache, dials, stage, target, closed, overlap, ret>>

(* A failed poll and a reboot invalidate the host.                         *)
UseFails(c) ==
    /\ phase[c] = "have"
    /\ phase' = [phase EXCEPT ![c] = "inval"]
    /\ ret' = [ret EXCEPT ![c] = "idle"]
    /\ UNCHANGED <<row, cache, dials, stage, target, closed, idle, overlap, ref, cur>>

-----------------------------------------------------------------------------
(* Invalidate: forget what is cached now, then close it.                   *)

Forgotten == None

InvalidateForget(p) ==
    /\ phase[p] = "inval"
    /\ ref' = [ref EXCEPT ![p] = cache]
    /\ cache' = Forgotten /\ idle' = FALSE
    /\ phase' = [phase EXCEPT ![p] = IF cache = None THEN ret[p] ELSE "close"]
    /\ UNCHANGED <<row, dials, stage, target, closed, overlap, ret, cur>>

InvalidateClose(p) ==
    /\ phase[p] = "close"
    /\ closed' = closed \cup {ref[p]}
    /\ phase' = [phase EXCEPT ![p] = ret[p]]
    /\ ref' = [ref EXCEPT ![p] = None]
    /\ UNCHANGED <<row, cache, dials, stage, target, idle, overlap, ret, cur>>

(* CloseIdle: take an idle connection out under m.mu, close it after.      *)
CloseIdle ==
    /\ phase[Janitor] = "idle"
    /\ cache # None /\ idle
    /\ ref' = [ref EXCEPT ![Janitor] = cache]
    /\ cache' = None /\ idle' = FALSE
    /\ phase' = [phase EXCEPT ![Janitor] = "close"]
    /\ UNCHANGED <<row, dials, stage, target, closed, overlap, ret, cur>>

(* idleTimeout passes without a touch; only CloseIdle looks.               *)
GoIdle ==
    /\ cache # None /\ ~idle
    /\ idle' = TRUE
    /\ UNCHANGED <<row, cache, dials, stage, target, closed, overlap, phase, ref, ret, cur>>

-----------------------------------------------------------------------------
(* The dial goroutine: load the row, connect, pin the key, install.        *)
MoveDial(d, s) == stage' = [stage EXCEPT ![d] = s]

DialLoad(d) ==
    /\ stage[d] = "load"
    /\ IF exists
       THEN /\ target' = [target EXCEPT ![d] = [addr |-> rec.addr, key |-> rec.key, seen |-> NoKey]]
            /\ MoveDial(d, "connect")
       ELSE MoveDial(d, "fail") /\ target' = [target EXCEPT ![d] = [addr |-> rec.addr, key |-> NoKey, seen |-> NoKey]]
    /\ UNCHANGED <<row, cache, dials, closed, idle, overlap, phase, ref, ret, cur>>

(* The host key callback refuses a key other than the pinned one.          *)
DialConnect(d) ==
    /\ stage[d] = "connect"
    /\ target[d].key \in {NoKey, ServerKey(target[d].addr)}
    /\ target' = [target EXCEPT ![d].seen = ServerKey(target[d].addr)]
    /\ MoveDial(d, IF target[d].key = NoKey THEN "pin" ELSE "install")
    /\ UNCHANGED <<row, cache, dials, closed, idle, overlap, phase, ref, ret, cur>>

(* Refused, unreachable, or out of time.                                   *)
DialConnectFails(d) ==
    /\ stage[d] = "connect"
    /\ MoveDial(d, "fail")
    /\ UNCHANGED <<row, cache, dials, target, closed, idle, overlap, phase, ref, ret, cur>>

(* Mutant: PinHostKey without "AND host_key = ''".                         *)
PinHostKey_Always(k) == rec' = [rec EXCEPT !.key = k]

PinHostKey(k) == rec' = [rec EXCEPT !.key = IF rec.key = NoKey /\ exists THEN k ELSE rec.key]

(* An UPDATE that fails is logged and the connection is used all the same. *)
DialPin(d) ==
    /\ stage[d] = "pin"
    /\ PinHostKey(target[d].seen) \/ UNCHANGED rec
    /\ MoveDial(d, "install")
    /\ UNCHANGED <<srv, exists, edits, reinstalls, cache, dials, target, closed, idle, overlap, phase, ref, ret, cur>>

(* Mutant: d.done is closed only when the dial succeeded.                  *)
FailedDial_Silent(d) == UNCHANGED stage

FailedDial(d) == MoveDial(d, "failed")

(* Leave m.dials, enter m.conns and wake the callers that wait.            *)
DialInstall(d) ==
    /\ stage[d] = "install"
    /\ dials' = None /\ cache' = d /\ idle' = FALSE
    /\ MoveDial(d, "ok")
    /\ UNCHANGED <<row, target, closed, overlap, phase, ref, ret, cur>>

DialGivesUp(d) ==
    /\ stage[d] = "fail"
    /\ dials' = None
    /\ FailedDial(d)
    /\ UNCHANGED <<row, cache, target, closed, idle, overlap, phase, ref, ret, cur>>

-----------------------------------------------------------------------------
(* PATCH /api/hosts/:id: read the row, write the patched row back, and     *)
(* invalidate when connection settings changed.                            *)
EditRead(e) ==
    /\ phase[e] = "idle" /\ exists /\ edits < MaxEdits
    /\ edits' = edits + 1
    /\ cur' = [cur EXCEPT ![e] = rec]
    /\ phase' = [phase EXCEPT ![e] = "write"]
    /\ UNCHANGED <<srv, exists, rec, reinstalls, cache, dials, stage, target, closed, idle, overlap, ref, ret>>

(* Dials that have read a row which is now another one.                    *)
Overlapped == overlap \cup {d \in Conns : stage[d] \in Running \ {"load", "fail"}}

(* Mutant: only a key reset counts as a change of connection settings.     *)
ConnChanged_ResetOnly(e, a, reset, login) == reset

ConnChanged(e, a, reset, login) == a # cur[e].addr \/ reset \/ login

(* a is the address and port the patch asks for, login that it changes the *)
(* user, the method or the password, which leaves the pinned key alone.    *)
EditWrite(e, a, reset, login) ==
    /\ phase[e] = "write" /\ exists
    /\ rec' = [addr |-> a, key |-> IF a # cur[e].addr \/ reset THEN NoKey ELSE cur[e].key]
    /\ overlap' = IF a # rec.addr THEN Overlapped ELSE overlap
    /\ phase' = [phase EXCEPT ![e] = IF ConnChanged(e, a, reset, login) THEN "inval" ELSE "idle"]
    /\ cur' = [cur EXCEPT ![e] = NoKey]
    /\ ret' = [ret EXCEPT ![e] = "idle"]
    /\ UNCHANGED <<srv, exists, edits, reinstalls, cache, dials, stage, target, closed, idle, ref>>

(* The host was deleted in between: UPDATE ... RETURNING finds no row.     *)
EditGone(e) ==
    /\ phase[e] = "write" /\ ~exists
    /\ Return(e)
    /\ UNCHANGED <<row, cache, dials, stage, target, closed, idle, overlap, ret>>

(* DELETE /api/hosts/:id, whose Monitor.Forget invalidates.                *)
DeleteHost(e) ==
    /\ phase[e] = "idle" /\ exists
    /\ exists' = FALSE
    /\ overlap' = Overlapped
    /\ phase' = [phase EXCEPT ![e] = "inval"]
    /\ ret' = [ret EXCEPT ![e] = "idle"]
    /\ UNCHANGED <<srv, rec, edits, reinstalls, cache, dials, stage, target, closed, idle, ref, cur>>

-----------------------------------------------------------------------------
(* POST /api/hosts/:id/test dials a connection of its own, pins the key of *)
(* a host that had none when it read the row, and invalidates.             *)
TestRead(t) ==
    /\ phase[t] = "idle" /\ exists
    /\ cur' = [cur EXCEPT ![t] = [addr |-> rec.addr, key |-> rec.key, seen |-> NoKey]]
    /\ phase' = [phase EXCEPT ![t] = "connect"]
    /\ UNCHANGED <<row, cache, dials, stage, target, closed, idle, overlap, ref, ret>>

TestConnect(t) ==
    /\ phase[t] = "connect"
    /\ cur[t].key \in {NoKey, ServerKey(cur[t].addr)}
    /\ cur' = [cur EXCEPT ![t].seen = ServerKey(cur[t].addr)]
    /\ phase' = [phase EXCEPT ![t] = "pin"]
    /\ UNCHANGED <<row, cache, dials, stage, target, closed, idle, overlap, ref, ret>>

TestFails(t) ==
    /\ phase[t] = "connect"
    /\ Return(t)
    /\ UNCHANGED <<row, cache, dials, stage, target, closed, idle, overlap, ret>>

TestPin(t) ==
    /\ phase[t] = "pin"
    /\ IF cur[t].key = NoKey THEN PinHostKey(cur[t].seen) \/ UNCHANGED rec ELSE UNCHANGED rec
    /\ phase' = [phase EXCEPT ![t] = "inval"]
    /\ ret' = [ret EXCEPT ![t] = "idle"]
    /\ cur' = [cur EXCEPT ![t] = NoKey]
    /\ UNCHANGED <<srv, exists, edits, reinstalls, cache, dials, stage, target, closed, idle, overlap, ref>>

(* The server is reinstalled and has a new host key.                       *)
Reinstall(a) ==
    /\ reinstalls < MaxReinstalls
    /\ reinstalls' = reinstalls + 1
    /\ srv' = [srv EXCEPT ![a] = @ + 1]
    /\ UNCHANGED <<exists, rec, edits, cache, dials, stage, target, closed, idle, overlap, phase, ref, ret, cur>>

-----------------------------------------------------------------------------
Invalidate(p) == InvalidateForget(p) \/ InvalidateClose(p)

GetStep(c) == GetAlive(c) \/ GetDead(c) \/ GetRelock(c) \/ GetDialed(c) \/ GetCancelled(c)

DialStep(d) ==
    \/ DialLoad(d) \/ DialConnect(d) \/ DialConnectFails(d)
    \/ DialPin(d) \/ DialInstall(d) \/ DialGivesUp(d)

EditStep(e) == EditGone(e) \/ \E a \in Addrs, reset, login \in BOOLEAN : EditWrite(e, a, reset, login)

TestStep(t) == TestConnect(t) \/ TestFails(t) \/ TestPin(t)

ConnNext ==
    \/ \E c \in Callers : GetLookup(c) \/ GetStep(c) \/ Use(c) \/ UseFails(c)
    \/ \E p \in Procs : Invalidate(p)
    \/ CloseIdle \/ GoIdle
    \/ \E d \in Conns : DialStep(d)
    \/ \E e \in Editors : EditRead(e) \/ EditStep(e)
    \/ \E e \in Deleters : DeleteHost(e)
    \/ \E t \in Testers : TestRead(t) \/ TestStep(t)
    \/ \E a \in Addrs : Reinstall(a)

(* Goroutines run, a dial ends within its 20 s, the housekeeping loop goes *)
(* on and time passes.  Nobody has to call Get, edit or test.              *)
Fairness ==
    /\ \A c \in Callers : WF_connVars(GetAlive(c) \/ GetDead(c)) /\ WF_connVars(GetRelock(c)) /\ WF_connVars(GetDialed(c))
    /\ \A c \in Callers : WF_connVars(Use(c) \/ UseFails(c))
    /\ \A p \in Procs : WF_connVars(Invalidate(p))
    /\ \A d \in Conns : WF_connVars(DialStep(d))
    /\ \A e \in Editors : WF_connVars(EditStep(e))
    /\ \A t \in Testers : WF_connVars(TestStep(t))
    /\ WF_connVars(CloseIdle) /\ WF_connVars(GoIdle)

ConnSpec == ConnInit /\ [][ConnNext]_connVars
FairSpec == ConnSpec /\ Fairness

-----------------------------------------------------------------------------
(* Properties.                                                             *)

(* A connection leaves m.conns before it is closed and never comes back:   *)
(* whatever invalidations, idle sweeps and dials overlap, a lookup never   *)
(* finds a connection that Dockhand itself has closed.                     *)
CachedIsOpen == cache # None => cache \notin closed /\ stage[cache] = "ok"

(* "Concurrent callers share one dial": m.dials names the one dial that is *)
(* in flight, also while callers invalidate the host and ask again.        *)
OneDial == \A d \in Conns : stage[d] \in Running => dials = d

(* A host key is pinned once.  It is never replaced by another key, only   *)
(* forgotten (by an edit), however dials, tests and reinstalls interleave. *)
KeyIsNeverReplaced ==
    [][rec.key # NoKey /\ rec'.key # NoKey => rec'.key = rec.key]_connVars

(* After an edit or a deletion the cached connection is to the host as it  *)
(* is now, unless its dial was under way when the row changed (then it is  *)
(* installed although Invalidate has run) or the handler is still at work. *)
(* (For one PATCH at a time: of two that overlap the later one writes the  *)
(* address it read back and sees no change.)                               *)
StaleOnlyByOverlap ==
    cache # None /\ (~exists \/ target[cache].addr # rec.addr) =>
        cache \in overlap \/ \E e \in Editors \cup Deleters : phase[e] = "inval"

(* A caller that waits for a dial, its own or one it joined, gets a        *)
(* connection or an error, whatever becomes of the dial and of the host.   *)
WaitEnds == \A c \in Callers : phase[c] = "wait" ~> phase[c] \in {"have", "idle"}

(* The manager's two maps tell the truth together, whatever invalidations, *)
(* idle sweeps, cancelled callers and dials overlap: conns holds an open   *)
(* connection and dials the one dial in flight (Manager.Get).              *)
CacheIsSound == ConnTypeOK /\ CachedIsOpen /\ OneDial
=============================================================================
