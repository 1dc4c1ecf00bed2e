----------------------------- MODULE LogStream -----------------------------
(***************************************************************************)
(* One live log view of the web UI: useLogStream in                        *)
(* web/components/host/logStream.tsx, driven by LogsView in                *)
(* web/components/host/LogsTab.tsx (mode buttons, Live toggle).            *)
(*                                                                         *)
(* Every mount and every change of mode opens a socket of its own and      *)
(* closes the one before; the browser may still deliver events of a        *)
(* closed socket.  A line is the socket it came through and its number     *)
(* there.                                                                  *)
(***************************************************************************)
EXTENDS WebBase

CONSTANTS
    MaxLines,    \* MAX_LINES: cap of the buffer and of the shown lines
    MaxStreams,  \* bound: sockets opened
    MaxSent      \* bound: lines a container writes into one socket

ASSUME LogConstants == MaxLines \in Nat \ {0} /\ MaxStreams \in Nat /\ MaxSent \in Nat

VARIABLES
    stream,      \* the socket of the mounted effect; 0 while not mounted
    opened,      \* sockets opened so far
    sock,        \* what the browser knows of each socket
    logStatus,   \* status of the hook
    lines,       \* shown lines
    pending,     \* pending.current
    timer,       \* a flush is scheduled
    live,        \* the Live toggle; the hook is paused while it is off
    seq          \* lines received through the current socket

logVars == <<stream, opened, sock, logStatus, lines, pending, timer, live, seq>>

Streams == 1..MaxStreams
Line == [stream : Streams, n : 1..MaxSent]

LogTypeOK ==
    /\ stream \in 0..MaxStreams /\ opened \in 0..MaxStreams
    /\ sock \in [Streams -> {"none", "connecting", "open", "aborting", "closing", "broken", "done"}]
    /\ logStatus \in {"idle", "connecting", "live", "ended", "error"}
    /\ lines \in Seq(Line) /\ pending \in Seq(Line)
    /\ Len(lines) <= MaxLines /\ Len(pending) <= MaxLines
    /\ timer \in BOOLEAN /\ live \in BOOLEAN /\ seq \in 0..MaxSent

LogInit ==
    /\ stream = 0 /\ opened = 0 /\ sock = [s \in Streams |-> "none"]
    /\ logStatus = "idle" /\ lines = <<>> /\ pending = <<>>
    /\ timer = FALSE /\ live = TRUE /\ seq = 0

(* slice(-MAX_LINES)                                                       *)
LastLines(s) == IF Len(s) > MaxLines THEN SubSeq(s, Len(s) - MaxLines + 1, Len(s)) ELSE s

(* flush: nothing while paused or empty; the timer is spent either way.    *)
FlushLines(on) ==
    /\ timer' = FALSE
    /\ IF ~on \/ pending = <<>>
       THEN UNCHANGED <<lines, pending>>
       ELSE lines' = LastLines(lines \o pending) /\ pending' = <<>>

(* The cleanup of an effect closes its socket; onerror and onopen stay     *)
(* attached and look at the closed flag.                                   *)
Cleaned(s) == CASE s = 0                     -> sock
                [] sock[s] = "connecting"    -> [sock EXCEPT ![s] = "aborting"]
                [] sock[s] = "open"          -> [sock EXCEPT ![s] = "closing"]
                [] OTHER                     -> sock

(* The effect: reset, then dial.                                           *)
RunEffect ==
    /\ opened < MaxStreams
    /\ opened' = opened + 1 /\ stream' = opened + 1
    /\ sock' = [Cleaned(stream) EXCEPT ![opened + 1] = "connecting"]
    /\ logStatus' = "connecting"
    /\ lines' = <<>> /\ pending' = <<>> /\ timer' = FALSE /\ seq' = 0

LogMount == stream = 0 /\ RunEffect /\ live' = TRUE

SetMode == stream # 0 /\ Move /\ RunEffect /\ UNCHANGED live

LogUnmount ==
    /\ sock' = Cleaned(stream) /\ stream' = 0 /\ opened' = opened
    /\ logStatus' = "idle" /\ lines' = <<>> /\ pending' = <<>>
    /\ timer' = FALSE /\ live' = TRUE /\ seq' = 0

(* Live: resuming flushes what was buffered.                               *)
SetLive ==
    /\ stream # 0 /\ Move
    /\ live' = ~live
    /\ IF live THEN UNCHANGED <<lines, pending, timer>> ELSE FlushLines(TRUE)
    /\ UNCHANGED <<stream, opened, sock, logStatus, seq>>

FlushTimer ==
    /\ timer
    /\ FlushLines(live)
    /\ UNCHANGED <<moves, stream, opened, sock, logStatus, live, seq>>

SockOpens(s) ==
    /\ sock[s] \in {"connecting", "aborting"}
    /\ sock' = [sock EXCEPT ![s] = IF sock[s] = "connecting" THEN "open" ELSE "closing"]
    /\ logStatus' = IF s = stream THEN "live" ELSE logStatus
    /\ UNCHANGED <<moves, stream, opened, lines, pending, timer, live, seq>>

(* A frame of k lines; the handler is gone once the effect is cleaned up.  *)
SockMessage(s, k) ==
    /\ sock[s] = "open" /\ s = stream /\ seq + k <= MaxSent
    /\ seq' = seq + k
    /\ pending' = LastLines(pending \o [i \in 1..k |-> [stream |-> s, n |-> seq + i]])
    /\ timer' = TRUE
    /\ UNCHANGED <<moves, stream, opened, sock, logStatus, lines, live>>

SockError(s) ==
    /\ sock[s] \in {"connecting", "open", "aborting"}
    /\ sock' = [sock EXCEPT ![s] = "broken"]
    /\ logStatus' = IF s = stream THEN "error" ELSE logStatus
    /\ UNCHANGED <<moves, stream, opened, lines, pending, timer, live, seq>>

SockClose(s) ==
    /\ sock[s] \in {"open", "closing", "broken"}
    /\ sock' = [sock EXCEPT ![s] = "done"]
    /\ IF s = stream
       THEN FlushLines(live) /\ logStatus' = IF logStatus = "error" THEN "error" ELSE "ended"
       ELSE UNCHANGED <<lines, pending, timer, logStatus>>
    /\ UNCHANGED <<moves, stream, opened, live, seq>>

(* The steps of a view that is mounted, and of its sockets.                *)
LogStep ==
    \/ SetMode \/ SetLive \/ FlushTimer
    \/ \E s \in Streams :
        \/ SockOpens(s) \/ SockError(s) \/ SockClose(s)
        \/ \E k \in 1..MaxSent : SockMessage(s, k)

-----------------------------------------------------------------------------
(* A view shows consecutive lines of the socket it follows: dropping the   *)
(* oldest of a paused buffer (logStream.tsx:111) never leaves a hole in    *)
(* what is shown later, because both are cut at the same length (:88).     *)
ShownIsConsecutive ==
    \A i \in 1..Len(lines) :
        /\ lines[i].stream = stream
        /\ i < Len(lines) => lines[i + 1].n = lines[i].n + 1

(* Whatever is buffered ends with the newest line and is going to be       *)
(* shown: a flush is scheduled, or resuming will flush it                  *)
(* (logStream.tsx:93, :131).                                               *)
BufferedIsScheduled ==
    pending # <<>> =>
        /\ pending[Len(pending)] = [stream |-> stream, n |-> seq]
        /\ timer \/ ~live

(* The status is that of the socket the view follows, whatever a socket    *)
(* it left still reports (logStream.tsx:97, :114, :116).                   *)
StatusIsOfThisSocket ==
    stream # 0 =>
        /\ logStatus = "connecting" <=> sock[stream] = "connecting"
        /\ logStatus = "live"       <=> sock[stream] = "open"
        /\ logStatus = "error"      =>  sock[stream] \in {"broken", "done"}
        /\ logStatus = "ended"      =>  sock[stream] = "done"

(* With Live on, every line that was received is shown, again and again.   *)
LinesAreShown == pending = <<>> \/ ~live
============================================================================
