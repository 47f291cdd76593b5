------------------------------ MODULE Sidecar ------------------------------
(***************************************************************************)
(* The brain sidecar (src-tauri/src/commands/brain/sidecar): a node        *)
(* process that serves, and writes, one on-disk brain.  Several instances  *)
(* of the app may run on one machine, each with its own handle on a child  *)
(* (BrainSidecar) and several threads that call                            *)
(* start_or_restart_brain_sidecar, for any brain.  What they share is on   *)
(* disk: per brain a lock file, held during a call, and a record of the    *)
(* sidecar that was last found healthy.                                    *)
(*                                                                         *)
(* An instance may crash at any moment.  Its threads are gone then; its    *)
(* files and its sidecar stay.  A restart is another instance: one that    *)
(* has not made a call yet is as good as not opened.                       *)
(*                                                                         *)
(* Each action is one operation on a file or one critical section of the   *)
(* mutex around the handle; neither fails.  Pids are not used again.       *)
(* Ports are left out: whether a child gets its port, and whether there is *)
(* another one for the retry, depends on other programs too, and is open.  *)
(***************************************************************************)
EXTENDS Naturals, FiniteSets

CONSTANTS
  App,        \* instances of the app
  Call,       \* bound: calls of start_or_restart_brain_sidecar
  Brain,      \* brain paths
  Sidecar,    \* bound: processes that may be spawned
  None,
  MaxFaults   \* bound: crashes of an instance or of a sidecar

ASSUME SidecarAssumption ==
  /\ None \notin App \cup Call \cup Brain \cup Sidecar
  /\ MaxFaults \in Nat

VARIABLES
  app,      \* an instance: up, closing (SHUTTING_DOWN), stopped, exited, crashed
  own,      \* the child in its BrainState
  call,     \* the calls, each a thread of an instance
  lock,     \* the lock file of a brain: the call that created it; has it its pid yet
  record,   \* the sidecar on record for a brain
  side,     \* the processes
  usurped,  \* history: brains whose lock was taken from a live call
  faults    \* counts towards MaxFaults

vars == <<app, own, call, lock, record, side, usurped, faults>>

\* saw: the owner read in the lock file; kid: the child it waits for.
NoCall == [pc |-> "idle", app |-> None, brain |-> None, saw |-> None, kid |-> None]
NoFile == [by |-> None, pid |-> FALSE]
\* by: the call that spawned it; told: it was on record; late: spawned in the shutdown.
Unborn == [st |-> "unborn", by |-> None, told |-> FALSE, late |-> FALSE]

Section == {"write", "reclaim", "forget", "spawn", "wait", "record", "check", "respawn",
            "rewait", "drop"}
PC == Section \cup {"idle", "create", "read", "steal", "again", "done"}

CallState == [pc : PC, app : App \cup {None}, brain : Brain \cup {None},
              saw : App \cup {None}, kid : Sidecar \cup {None}]
LockFile  == {NoFile} \cup [by : Call, pid : BOOLEAN]
Process   == [st : {"unborn", "warming", "serving", "dead"}, by : Call \cup {None},
              told : BOOLEAN, late : BOOLEAN]

TypeOK ==
  /\ app \in [App -> {"up", "closing", "stopped", "exited", "crashed"}]
  /\ own \in [App -> Sidecar \cup {None}]
  /\ call \in [Call -> CallState]
  /\ lock \in [Brain -> LockFile] /\ record \in [Brain -> Sidecar \cup {None}]
  /\ side \in [Sidecar -> Process]
  /\ usurped \subseteq Brain /\ faults \in Nat

Init ==
  /\ app = [a \in App |-> "up"] /\ own = [a \in App |-> None]
  /\ call = [k \in Call |-> NoCall]
  /\ lock = [b \in Brain |-> NoFile] /\ record = [b \in Brain |-> None]
  /\ side = [c \in Sidecar |-> Unborn]
  /\ usurped = {} /\ faults = 0

\* pid_is_alive, of an instance and of a sidecar.
Alive(a) == app[a] \in {"up", "closing", "stopped"}
Lives(c) == side[c].st \in {"warming", "serving"}

\* A call is under way; it holds the lock.
Running(k)   == call[k].pc \notin {"idle", "done"}
InSection(k) == call[k].pc \in Section

AppOf(c)   == call[side[c].by].app
BrainOf(c) == call[side[c].by].brain

At(k, pc)   == call[k].pc = pc
Goto(k, pc) == call' = [call EXCEPT ![k].pc = pc]
Ended(k)    == [NoCall EXCEPT !.pc = "done", !.app = call[k].app, !.brain = call[k].brain]
Return(k)   == call' = [call EXCEPT ![k] = Ended(k)]

\* tree_kill_pid
Killed(c) == [side EXCEPT ![c].st = "dead"]

\* Mutant: the handle is emptied and the process is not killed.
StoppedNot(a) == side

\* BrainSidecar::stop
Stopped(a) == IF own[a] = None THEN side ELSE Killed(own[a])

-----------------------------------------------------------------------------
(***************************************************************************)
(* The spawn lock.                                                         *)
(***************************************************************************)

\* The first check of SHUTTING_DOWN; a call that finds it set is no call here.
Begin(k, a, b) ==
  /\ call[k].pc = "idle" /\ app[a] = "up"
  /\ call' = [call EXCEPT ![k] = [NoCall EXCEPT !.pc = "create", !.app = a, !.brain = b]]
  /\ UNCHANGED <<app, own, lock, record, side, usurped, faults>>

\* create_new, of the first try and of the one after a stale lock was removed.
Create(k) ==
  LET b == call[k].brain
  IN /\ At(k, "create") \/ At(k, "again")
     /\ IF lock[b] = NoFile
        THEN lock' = [lock EXCEPT ![b] = [by |-> k, pid |-> FALSE]] /\ Goto(k, "write")
        ELSE UNCHANGED lock /\ IF At(k, "create") THEN Goto(k, "read") ELSE Return(k)
     /\ UNCHANGED <<app, own, record, side, usurped, faults>>

\* Mutant: the guard is not bound to a name and dropped at once (let _ = ...).
WriteAndDrop(k) ==
  LET b == call[k].brain
  IN /\ At(k, "write")
     /\ lock' = [lock EXCEPT ![b] = NoFile]
     /\ Goto(k, "reclaim")
     /\ UNCHANGED <<app, own, record, side, usurped, faults>>

\* The pid goes to the file that was created, whether or not it is still there.
Write(k) ==
  LET b == call[k].brain
  IN /\ At(k, "write")
     /\ lock' = IF lock[b].by = k THEN [lock EXCEPT ![b].pid = TRUE] ELSE lock
     /\ Goto(k, "reclaim")
     /\ UNCHANGED <<app, own, record, side, usurped, faults>>

\* read_recorded_pid; no file or nothing in it: the attempt is skipped.
Read(k) ==
  LET b == call[k].brain
  IN /\ At(k, "read")
     /\ IF lock[b].pid
        THEN call' = [call EXCEPT ![k].pc = "steal", ![k].saw = call[lock[b].by].app]
        ELSE Return(k)
     /\ UNCHANGED <<app, own, lock, record, side, usurped, faults>>

\* The owner is alive: skip.  It is not: remove the file, whoever has created it since.
Steal(k) ==
  LET b == call[k].brain
  IN /\ At(k, "steal")
     /\ IF Alive(call[k].saw) THEN Return(k) /\ UNCHANGED <<lock, usurped>>
        ELSE /\ call' = [call EXCEPT ![k].pc = "again", ![k].saw = None]
             /\ lock' = [lock EXCEPT ![b] = NoFile]
             /\ usurped' = IF lock[b].by # None /\ Running(lock[b].by) THEN usurped \cup {b} ELSE usurped
     /\ UNCHANGED <<app, own, record, side, faults>>

\* Drop of the guard, on every return.
Drop(k) ==
  /\ At(k, "drop")
  /\ lock' = [lock EXCEPT ![call[k].brain] = NoFile] /\ Return(k)
  /\ UNCHANGED <<app, own, record, side, usurped, faults>>

-----------------------------------------------------------------------------
(***************************************************************************)
(* Under the lock: reclaim, stop and spawn, wait, record, or retry once.   *)
(***************************************************************************)

\* Mutant: the record is taken away and its process left alone.
ReclaimSpares(k) ==
  /\ At(k, "reclaim")
  /\ Goto(k, "forget")
  /\ UNCHANGED <<app, own, lock, record, side, usurped, faults>>

\* reclaim_stale_sidecar, first half: the sidecar on record is killed if it lives.
Reclaim(k) ==
  LET r == record[call[k].brain]
  IN /\ At(k, "reclaim")
     /\ IF r = None THEN Goto(k, "spawn") ELSE Goto(k, "forget")
     /\ side' = IF r # None /\ Lives(r) THEN Killed(r) ELSE side
     /\ UNCHANGED <<app, own, lock, record, usurped, faults>>

\* Second half: the record is removed.
Forget(k) ==
  /\ At(k, "forget")
  /\ record' = [record EXCEPT ![call[k].brain] = None] /\ Goto(k, "spawn")
  /\ UNCHANGED <<app, own, lock, side, usurped, faults>>

\* stop, then spawn_at, which fails or not.
SpawnAt(k, ok, failed) ==
  LET a == call[k].app
  IN \/ \E c \in Sidecar :
          /\ side[c].st = "unborn"
          /\ side' = [Stopped(a) EXCEPT ![c] = [st |-> "warming", by |-> k, told |-> FALSE,
                                                late |-> app[a] # "up"]]
          /\ own' = [own EXCEPT ![a] = c]
          /\ call' = [call EXCEPT ![k].pc = ok, ![k].kid = c]
     \/ /\ side' = Stopped(a) /\ own' = [own EXCEPT ![a] = None]
        /\ Goto(k, failed)

\* The first critical section of the mutex.
Spawn(k) ==
  /\ At(k, "spawn")
  /\ SpawnAt(k, "wait", "check")
  /\ UNCHANGED <<app, lock, record, usurped, faults>>

\* wait_ready_at: the port answers.  The token is that of the instance: if the child was
\* stopped meanwhile, the one that replaced it may answer, on the same port.
Ready(k) ==
  LET c == own[call[k].app]
  IN /\ At(k, "wait") \/ At(k, "rewait")
     /\ c # None /\ side[c].st = "serving"
     /\ Goto(k, "record")
     /\ UNCHANGED <<app, own, lock, record, side, usurped, faults>>

\* wait_ready_at gives up.
TimedOut(k) ==
  /\ \/ At(k, "wait") /\ Goto(k, "check")
     \/ At(k, "rewait") /\ Goto(k, "drop")
  /\ UNCHANGED <<app, own, lock, record, side, usurped, faults>>

\* record_sidecar_state
Record(k) ==
  /\ At(k, "record")
  /\ record' = [record EXCEPT ![call[k].brain] = call[k].kid]
  /\ side' = [side EXCEPT ![call[k].kid].told = TRUE]
  /\ Goto(k, "drop")
  /\ UNCHANGED <<app, own, lock, usurped, faults>>

\* Mutant: the retry does not look at SHUTTING_DOWN.
CheckNothing(k) ==
  /\ At(k, "check")
  /\ Goto(k, "respawn")
  /\ UNCHANGED <<app, own, lock, record, side, usurped, faults>>

\* The second check of SHUTTING_DOWN.
Check(k) ==
  /\ At(k, "check")
  /\ Goto(k, IF app[call[k].app] = "up" THEN "respawn" ELSE "drop")
  /\ UNCHANGED <<app, own, lock, record, side, usurped, faults>>

\* The retry, which also ends when there is no other port, with the child stopped.
Respawn(k) ==
  /\ At(k, "respawn")
  /\ SpawnAt(k, "rewait", "drop")
  /\ UNCHANGED <<app, lock, record, usurped, faults>>

-----------------------------------------------------------------------------
(***************************************************************************)
(* The instances and the processes.                                        *)
(***************************************************************************)

\* mark_shutting_down, the first step of run_exit_cleanup.
MarkShuttingDown(a) ==
  /\ app[a] = "up" /\ app' = [app EXCEPT ![a] = "closing"]
  /\ UNCHANGED <<own, call, lock, record, side, usurped, faults>>

\* stop_brain_sidecar_for_exit; run_exit_cleanup runs for Destroyed and for Exit.
StopForExit(a) ==
  /\ app[a] \in {"closing", "stopped"} /\ app' = [app EXCEPT ![a] = "stopped"]
  /\ side' = Stopped(a) /\ own' = [own EXCEPT ![a] = None]
  /\ UNCHANGED <<call, lock, record, usurped, faults>>

\* The threads of an instance that is no more.
Vanish(a) == call' = [k \in Call |-> IF call[k].app = a THEN Ended(k) ELSE call[k]]

Exit(a) ==
  /\ app[a] = "stopped" /\ app' = [app EXCEPT ![a] = "exited"] /\ Vanish(a)
  /\ UNCHANGED <<own, lock, record, side, usurped, faults>>

Crash(a) ==
  /\ Alive(a) /\ faults < MaxFaults
  /\ app' = [app EXCEPT ![a] = "crashed"] /\ Vanish(a) /\ faults' = faults + 1
  /\ UNCHANGED <<own, lock, record, side, usurped>>

\* brain_wipe stops the child; the call that brings it back is a call like any other.
Wipe(a) ==
  /\ Alive(a) /\ own[a] # None
  /\ side' = Stopped(a) /\ own' = [own EXCEPT ![a] = None]
  /\ UNCHANGED <<app, call, lock, record, usurped, faults>>

\* A sidecar has bound its port and answers.
Serve(c) ==
  /\ side[c].st = "warming"
  /\ side' = [side EXCEPT ![c].st = "serving"]
  /\ UNCHANGED <<app, own, call, lock, record, usurped, faults>>

Die(c) ==
  /\ Lives(c) /\ faults < MaxFaults
  /\ side' = Killed(c) /\ faults' = faults + 1
  /\ UNCHANGED <<app, own, call, lock, record, usurped>>

CallNext(k) ==
  \/ \E a \in App, b \in Brain : Begin(k, a, b)
  \/ Create(k) \/ Write(k) \/ Read(k) \/ Steal(k) \/ Drop(k)
  \/ Reclaim(k) \/ Forget(k) \/ Spawn(k) \/ Ready(k) \/ TimedOut(k) \/ Record(k)
  \/ Check(k) \/ Respawn(k)

AppNext(a) ==
  \/ MarkShuttingDown(a) \/ StopForExit(a) \/ Exit(a) \/ Crash(a) \/ Wipe(a)

Next ==
  \/ \E k \in Call : CallNext(k)
  \/ \E a \in App : AppNext(a)
  \/ \E c \in Sidecar : Serve(c) \/ Die(c)

Spec == Init /\ [][Next]_vars

-----------------------------------------------------------------------------
(***************************************************************************)
(* Properties.                                                             *)
(***************************************************************************)

\* No instance ever has two sidecars alive, whatever its threads do and for whatever
\* brains: the one it has is in its handle, so that stop reaches it (process.rs:257-263).
OneSidecarPerApp == \A c \in Sidecar : Lives(c) => own[AppOf(c)] = c

\* Two calls for one brain are never both between taking the lock and dropping it, in one
\* instance or in two, with crashes in between (lock.rs:191-207), unless the lock of a
\* live call was removed by one that had read a dead owner's pid before it.
SpawnExclusive ==
  \A j, k \in Call :
    InSection(j) /\ InSection(k) /\ call[j].brain = call[k].brain /\ call[j].brain \notin usurped
      => j = k

\* A sidecar once found healthy and recorded is, as long as it lives, the one on record,
\* so that the next call for its brain finds it, also after a crash (lock.rs:19-22).  So
\* of those ever recorded for a brain one lives at most.
RecordFindsIt ==
  \A c \in Sidecar :
    Lives(c) /\ side[c].told /\ BrainOf(c) \notin usurped => record[BrainOf(c)] = c

\* An instance that exits leaves no sidecar behind that was spawned before it was marked
\* as shutting down, and a call in flight then spawns one more at most (mod.rs:53-71).
ExitKills ==
  /\ \A c \in Sidecar : Lives(c) /\ app[AppOf(c)] = "exited" => side[c].late
  /\ \A c, d \in Sidecar : side[c].late /\ side[d].late /\ side[c].by = side[d].by => c = d
=============================================================================
