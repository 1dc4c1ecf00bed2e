------------------------------ MODULE Recreate ------------------------------
(***************************************************************************)
(* Replacing a container by a copy of itself: Service.Recreate and the     *)
(* jobs that call it, Patch and UpdateContainer                            *)
(* (server/internal/dockerops/containers.go).  One container, Old, and the *)
(* ones that jobs put in its place.  Nothing keeps two jobs off the same   *)
(* container.  Every call to the Docker daemon is one step; it may be      *)
(* refused, or carried out with its answer lost.                           *)
(***************************************************************************)
EXTENDS Naturals, Sequences

CONSTANTS
    Old,        \* the container there is at first
    Jobs,       \* update and reconfigure jobs; a job names the container it creates
    MaxSec,     \* bound: the clock, in the seconds backup names are made of
    MaxFaults,  \* bound: calls that fail although they could succeed
    MaxCrashes  \* bound: restarts of the server

ASSUME Identities == Old \notin Jobs
ASSUME Bounds == MaxSec \in Nat /\ MaxFaults \in Nat /\ MaxCrashes \in Nat

VARIABLES
    there, running, name,  \* the containers, which of them run, their names
    sec,        \* time.Now().Unix()
    pc,         \* the call each job makes next
    ins,        \* what the job's inspect returned, and its options
    faults, crashes,
    initially,  \* history: Old ran at first
    clash,      \* history: a job inspected while another one was replacing
    broken      \* history: a call of a rollback, or the removal of an old
                \*   container, failed, or an answer was lost

docker == <<there, running, name>>
vars == <<there, running, name, sec, pc, ins, faults, crashes, initially, clash, broken>>

Ids == {Old} \cup Jobs
App == <<>>                         \* the container's name; a backup adds seconds to it
Rollback == {"unrename", "rbRemove", "rbRename", "rbStart"}
Ended == {"ok", "failed"}
Inspected == [target : Ids, base : Seq(Nat), was : BOOLEAN, pull : BOOLEAN]
NotYet == [target |-> Old, base |-> App, was |-> FALSE, pull |-> FALSE]

TypeOK ==
    /\ there \subseteq Ids /\ running \subseteq there
    /\ name \in [Ids -> Seq(Nat)]
    /\ sec \in Nat
    /\ pc \in [Jobs -> {"new", "pull", "rename", "stop", "create", "connect", "start", "remove"}
                       \cup Rollback \cup Ended]
    /\ ins \in [Jobs -> Inspected]
    /\ faults \in Nat /\ crashes \in Nat
    /\ initially \in BOOLEAN /\ clash \in BOOLEAN /\ broken \in BOOLEAN

Init ==
    /\ there = {Old} /\ running \in SUBSET {Old}
    /\ name = [c \in Ids |-> App]
    /\ sec = 0
    /\ pc = [j \in Jobs |-> "new"]
    /\ ins = [j \in Jobs |-> NotYet]
    /\ faults = 0 /\ crashes = 0
    /\ initially = (Old \in running) /\ clash = FALSE /\ broken = FALSE

Goto(j, s) == pc' = [pc EXCEPT ![j] = s]

-----------------------------------------------------------------------------
(* The Docker daemon.  A call that is possible succeeds unless it is one   *)
(* of the bounded faults: "refused", or carried out but "lost".            *)
Results == {"ok", "refused", "lost"}
Done(r) == r # "refused"

Call(j, r, possible) ==
    /\ Done(r) => possible
    /\ faults' = IF possible /\ r # "ok" THEN faults + 1 ELSE faults
    /\ faults' <= MaxFaults
    /\ broken' = (\/ broken
                  \/ r = "lost"
                  \/ (possible /\ r = "refused" /\ pc[j] \in Rollback \cup {"remove"}))

Free(n) == \A c \in there : name[c] # n

ContainerRename(j, c, n, r) ==
    /\ Call(j, r, c \in there /\ Free(n))
    /\ name' = IF Done(r) THEN [name EXCEPT ![c] = n] ELSE name
    /\ UNCHANGED <<there, running>>

ContainerStop(j, c, r) ==
    /\ Call(j, r, c \in there)
    /\ running' = IF Done(r) THEN running \ {c} ELSE running
    /\ UNCHANGED <<there, name>>

ContainerCreate(j, n, r) ==
    /\ Call(j, r, Free(n))
    /\ there' = IF Done(r) THEN there \cup {j} ELSE there
    /\ name' = IF Done(r) THEN [name EXCEPT ![j] = n] ELSE name
    /\ UNCHANGED running

(* The copies publish the same ports: while another one runs, a start may  *)
(* be impossible.                                                          *)
ContainerStart(j, c, r) ==
    /\ \E ports \in BOOLEAN : Call(j, r, c \in there /\ (ports => running \subseteq {c}))
    /\ running' = IF Done(r) THEN running \cup {c} ELSE running
    /\ UNCHANGED <<there, name>>

ContainerRemove(j, c, r) ==
    /\ Call(j, r, c \in there)
    /\ there' = IF Done(r) THEN there \ {c} ELSE there
    /\ running' = IF Done(r) THEN running \ {c} ELSE running
    /\ UNCHANGED name

context == <<sec, ins, crashes, initially, clash>>

-----------------------------------------------------------------------------
(* Some job has renamed a container and is not done yet.                   *)
Replacing == \E k \in Jobs : pc[k] \notin {"new", "pull", "rename"} \cup Ended

(* Patch and UpdateContainer inspect the container when the request comes  *)
(* in; the job works from that.                                            *)
Inspect(j, c, pull) ==
    /\ pc[j] = "new" /\ c \in there
    /\ ins' = [ins EXCEPT ![j] = [target |-> c, base |-> name[c], was |-> c \in running, pull |-> pull]]
    /\ Goto(j, IF pull THEN "pull" ELSE "rename")
    /\ clash' = (clash \/ Replacing)
    /\ UNCHANGED <<docker, sec, faults, crashes, initially, broken>>

(* The image is pulled first; without it the container is left alone.      *)
Pull(j, ok) ==
    /\ pc[j] = "pull"
    /\ Goto(j, IF ok THEN "rename" ELSE "failed")
    /\ UNCHANGED <<docker, faults, broken, context>>

Backup(n) == Append(n, sec)

Rename(j, r) ==
    /\ pc[j] = "rename"
    /\ ContainerRename(j, ins[j].target, Backup(ins[j].base), r)
    /\ Goto(j, CASE r # "ok" -> "failed"
                 [] r = "ok" /\ ins[j].was -> "stop"
                 [] OTHER -> "create")
    /\ UNCHANGED context

Stop(j, r) ==
    /\ pc[j] = "stop"
    /\ ContainerStop(j, ins[j].target, r)
    /\ Goto(j, IF r = "ok" THEN "create" ELSE "unrename")
    /\ UNCHANGED context

(* A container that could not be stopped gets its name back.               *)
Unrename(j, r) ==
    /\ pc[j] = "unrename"
    /\ ContainerRename(j, ins[j].target, ins[j].base, r)
    /\ Goto(j, "failed")
    /\ UNCHANGED context

(* Mutant: the error of the create is not looked at.                       *)
Create_Unchecked(j, r) ==
    /\ pc[j] = "create"
    /\ ContainerCreate(j, ins[j].base, r)
    /\ Goto(j, "connect")
    /\ UNCHANGED context

(* When the create fails, rollback("") knows of no new container.          *)
Create(j, r) ==
    /\ pc[j] = "create"
    /\ ContainerCreate(j, ins[j].base, r)
    /\ Goto(j, IF r = "ok" THEN "connect" ELSE "rbRename")
    /\ UNCHANGED context

MustStart(j) == ins[j].was \/ ins[j].pull

(* The other networks are connected; if one cannot be, roll back.          *)
Connect(j, ok) ==
    /\ pc[j] = "connect"
    /\ Goto(j, CASE ~ok -> "rbRemove"
                 [] ok /\ MustStart(j) -> "start"
                 [] OTHER -> "remove")
    /\ UNCHANGED <<docker, faults, broken, context>>

Start(j, r) ==
    /\ pc[j] = "start"
    /\ ContainerStart(j, j, r)
    /\ Goto(j, IF r = "ok" THEN "remove" ELSE "rbRemove")
    /\ UNCHANGED context

(* The job succeeds even if the old container cannot be removed.           *)
Remove(j, r) ==
    /\ pc[j] = "remove"
    /\ ContainerRemove(j, ins[j].target, r)
    /\ Goto(j, "ok")
    /\ UNCHANGED context

(* rollback: the errors of its calls are ignored.                          *)

Doomed(j) == j

RollbackRemove(j, r) ==
    /\ pc[j] = "rbRemove"
    /\ ContainerRemove(j, Doomed(j), r)
    /\ Goto(j, "rbRename")
    /\ UNCHANGED context

(* Mutant: rollback looks at the state the container has now.              *)
AfterRollback_Now(j) == IF ins[j].target \in running THEN "rbStart" ELSE "failed"

AfterRollback(j) == IF ins[j].was THEN "rbStart" ELSE "failed"

RollbackRename(j, r) ==
    /\ pc[j] = "rbRename"
    /\ ContainerRename(j, ins[j].target, ins[j].base, r)
    /\ Goto(j, AfterRollback(j))
    /\ UNCHANGED context

RollbackStart(j, r) ==
    /\ pc[j] = "rbStart"
    /\ ContainerStart(j, ins[j].target, r)
    /\ Goto(j, "failed")
    /\ UNCHANGED context

-----------------------------------------------------------------------------
Elapse ==
    /\ sec < MaxSec
    /\ sec' = sec + 1
    /\ UNCHANGED <<docker, pc, ins, faults, crashes, initially, clash, broken>>

(* The server dies with its jobs; FailStale records them as failed and     *)
(* nobody takes up what they left on the host.                             *)
Crash ==
    /\ crashes < MaxCrashes
    /\ crashes' = crashes + 1
    /\ pc' = [j \in Jobs |-> IF pc[j] \in {"new", "ok"} THEN pc[j] ELSE "failed"]
    /\ UNCHANGED <<docker, sec, ins, faults, initially, clash, broken>>

DockerStep(j, r) ==
    \/ Rename(j, r) \/ Stop(j, r) \/ Unrename(j, r) \/ Create(j, r) \/ Start(j, r) \/ Remove(j, r)
    \/ RollbackRemove(j, r) \/ RollbackRename(j, r) \/ RollbackStart(j, r)

Next ==
    \/ \E j \in Jobs, c \in Ids, pull \in BOOLEAN : Inspect(j, c, pull)
    \/ \E j \in Jobs, ok \in BOOLEAN : Pull(j, ok) \/ Connect(j, ok)
    \/ \E j \in Jobs, r \in Results : DockerStep(j, r)
    \/ Elapse \/ Crash

Spec == Init /\ [][Next]_vars

-----------------------------------------------------------------------------
(* Properties.                                                             *)

(* Whatever fails, is lost, crashes or overlaps, some container is left:   *)
(* no job removes the last copy.                                           *)
NeverGone == there # {}

Quiet == \A j \in Jobs : pc[j] \in {"new"} \cup Ended

(* No job was cut short by a crash, was started in the middle of another   *)
(* one's replacement, or met a failure while cleaning up.                  *)
Orderly == crashes = 0 /\ ~clash /\ ~broken

(* "rolling back on failure": when the jobs are done there is one          *)
(* container, it has the name, and it runs if the first one did; whichever *)
(* calls failed, and also when several jobs inspected the container before *)
(* the first of them changed it.                                           *)
OneIsInPlace ==
    Quiet /\ Orderly =>
        \E c \in Ids : there = {c} /\ name[c] = App /\ (initially => c \in running)

(* If no job succeeded it is the old container, and in its old state.      *)
FailureRestores ==
    Quiet /\ Orderly /\ (\A j \in Jobs : pc[j] # "ok") =>
        Old \in there /\ (Old \in running <=> initially)

(* A container is never lost while it is replaced (Recreate).              *)
ContainerIsSafe == TypeOK /\ NeverGone

(* Recreate leaves the new container in place or puts the old one back.    *)
EndsInPlace == OneIsInPlace /\ FailureRestores
=============================================================================
