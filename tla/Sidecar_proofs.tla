--------------------------- MODULE Sidecar_proofs ---------------------------
(***************************************************************************)
(* Proofs about the brain sidecar: its types, and the four invariants, for *)
(* any number of instances, calls, brains, processes and faults.           *)
(*                                                                         *)
(* The argument.  A process keeps the call that spawned it, and a call its *)
(* instance and its brain (Frame).  A new process goes into the handle of  *)
(* its instance in the step that kills the one that was there (Moves),     *)
(* which gives OneSidecarPerApp.  A call under the lock owns the file      *)
(* (Locked), unless it was taken from it, which gives SpawnExclusive.      *)
(* Between reclaim and drop no process once on record for the brain is     *)
(* alive (Cleared): reclaim kills the one on record, RecordFindsIt says    *)
(* that there is no other, and SpawnExclusive that nobody else records one *)
(* meanwhile.  What an instance spawns after it was marked as shutting     *)
(* down is late; a call goes to the retry only before that, so it spawns   *)
(* one late process at most (LateOnce).                                    *)
(***************************************************************************)
EXTENDS Sidecar, TLAPS

USE SidecarAssumption

\* Where a call may be that has spawned a process.
Spawned == {"wait", "record", "check", "respawn", "rewait", "drop", "done"}

\* A call that has begun has an instance and a brain.
Placed ==
  \A k \in Call : IF call[k].pc = "idle" THEN call[k].app = None
                  ELSE call[k].app \in App /\ call[k].brain \in Brain

\* A process that was spawned has a call that has spawned it; a handle holds no other.
Born ==
  \A c \in Sidecar :
    /\ side[c].by = None <=> side[c].st = "unborn"
    /\ side[c].by = None => ~side[c].told /\ ~side[c].late
    /\ side[c].by # None => call[side[c].by].pc \in Spawned
    /\ \A a \in App : own[a] = c => side[c].st # "unborn"

\* The child a call waits for is one of its own.
Kids == \A k \in Call : call[k].pc \in {"wait", "record", "rewait"} =>
           call[k].kid \in Sidecar /\ side[call[k].kid].by = k

\* A call under the lock owns the file.
Locked == \A k \in Call : InSection(k) /\ call[k].brain \notin usurped => lock[call[k].brain].by = k

\* From reclaim to drop nothing that was ever on record for the brain is alive.
Cleared == \A k \in Call, c \in Sidecar :
   /\ call[k].pc \in Section \ {"write", "reclaim", "drop"} /\ call[k].brain \notin usurped
   /\ side[c].told /\ BrainOf(c) = call[k].brain
   => ~Lives(c)

\* What lives on behind the stop at exit was spawned during the shutdown.
LeftLate == \A c \in Sidecar : Lives(c) /\ app[AppOf(c)] \in {"stopped", "exited"} => side[c].late

\* A call spawns at most one process during the shutdown.
LateOnce ==
  /\ \A c \in Sidecar : side[c].late => app[AppOf(c)] # "up" /\ call[side[c].by].pc # "respawn"
  /\ \A c, d \in Sidecar : side[c].late /\ side[d].late /\ side[c].by = side[d].by => c = d

\* A process stays what it was, but for its end.
Kept(c) ==
  /\ side'[c].by = side[c].by /\ side'[c].late = side[c].late
  /\ side[c].st = "dead" => side'[c].st = "dead"

\* What every step leaves as it is.
Frame ==
  /\ \A k \in Call : call[k].pc # "idle" =>
       call'[k].app = call[k].app /\ call'[k].brain = call[k].brain /\ call'[k].pc # "idle"
  /\ \A k \in Call : call[k].pc \in Spawned => call'[k].pc \in Spawned
  /\ \A c \in Sidecar : side[c].by # None => Kept(c)

-----------------------------------------------------------------------------
(* What the operators of the model change.                                 *)

LEMMA GotoEffect ==
  ASSUME TypeOK, NEW k \in Call, NEW p \in PC, Goto(k, p)
  PROVE  /\ call' \in [Call -> CallState] /\ \A j \in Call : j # k => call'[j] = call[j]
         /\ call'[k].pc = p /\ call'[k].app = call[k].app /\ call'[k].brain = call[k].brain
         /\ call'[k].saw = call[k].saw /\ call'[k].kid = call[k].kid
BY DEF TypeOK, Goto, CallState

LEMMA EndedEffect ==
  ASSUME TypeOK, NEW k \in Call
  PROVE  /\ Ended(k) \in CallState /\ Ended(k).pc = "done"
         /\ Ended(k).app = call[k].app /\ Ended(k).brain = call[k].brain
BY DEF TypeOK, Ended, NoCall, CallState, PC

LEMMA ReturnEffect ==
  ASSUME TypeOK, NEW k \in Call, Return(k)
  PROVE  /\ call' \in [Call -> CallState] /\ \A j \in Call : j # k => call'[j] = call[j]
         /\ call'[k].pc = "done" /\ call'[k].app = call[k].app /\ call'[k].brain = call[k].brain
BY EndedEffect DEF TypeOK, Return

LEMMA KilledEffect ==
  ASSUME TypeOK, NEW c \in Sidecar
  PROVE  /\ Killed(c) \in [Sidecar -> Process] /\ Killed(c)[c].st = "dead"
         /\ Killed(c)[c].by = side[c].by /\ Killed(c)[c].told = side[c].told
         /\ Killed(c)[c].late = side[c].late
         /\ \A d \in Sidecar : d # c => Killed(c)[d] = side[d]
BY DEF TypeOK, Killed, Process

LEMMA StoppedEffect ==
  ASSUME TypeOK, NEW a \in App
  PROVE  /\ Stopped(a) \in [Sidecar -> Process]
         /\ \A d \in Sidecar :
              /\ Stopped(a)[d].by = side[d].by /\ Stopped(a)[d].told = side[d].told
              /\ Stopped(a)[d].late = side[d].late
              /\ Stopped(a)[d].st = IF d = own[a] THEN "dead" ELSE side[d].st
<1>1. CASE own[a] = None
  BY <1>1 DEF TypeOK, Stopped
<1>2. CASE own[a] # None
  <2>1. own[a] \in Sidecar
    BY <1>2 DEF TypeOK
  <2> QED
    BY <1>2, <2>1, KilledEffect DEF Stopped
<1> QED
  BY <1>1, <1>2

\* c is the new process, None when there is none.
Spawns(k, c, ok, failed) ==
  LET a == call[k].app
  IN /\ side' \in [Sidecar -> Process] /\ own' \in [App -> Sidecar \cup {None}]
     /\ own'[a] = c /\ \A b \in App : b # a => own'[b] = own[b]
     /\ call' \in [Call -> CallState] /\ \A j \in Call : j # k => call'[j] = call[j]
     /\ call'[k].app = call[k].app /\ call'[k].brain = call[k].brain
     /\ call'[k].pc = IF c = None THEN failed ELSE ok
     /\ c # None => /\ c \in Sidecar /\ side[c].st = "unborn" /\ call'[k].kid = c
                    /\ side'[c] = [st |-> "warming", by |-> k, told |-> FALSE, late |-> app[a] # "up"]
     /\ \A d \in Sidecar : d # c =>
          /\ side'[d].by = side[d].by /\ side'[d].told = side[d].told /\ side'[d].late = side[d].late
          /\ side'[d].st = IF d = own[a] THEN "dead" ELSE side[d].st

LEMMA SpawnEffect ==
  ASSUME TypeOK, NEW k \in Call, call[k].app \in App, NEW ok \in PC, NEW failed \in PC,
         SpawnAt(k, ok, failed)
  PROVE  \E c \in Sidecar \cup {None} : Spawns(k, c, ok, failed)
<1> DEFINE a == call[k].app
<1>0. None \notin Sidecar
  BY SidecarAssumption
<1>1. CASE \E c \in Sidecar :
             /\ side[c].st = "unborn"
             /\ side' = [Stopped(a) EXCEPT ![c] = [st |-> "warming", by |-> k, told |-> FALSE,
                                                   late |-> app[a] # "up"]]
             /\ own' = [own EXCEPT ![a] = c]
             /\ call' = [call EXCEPT ![k].pc = ok, ![k].kid = c]
  <2> PICK c \in Sidecar :
             /\ side[c].st = "unborn"
             /\ side' = [Stopped(a) EXCEPT ![c] = [st |-> "warming", by |-> k, told |-> FALSE,
                                                   late |-> app[a] # "up"]]
             /\ own' = [own EXCEPT ![a] = c]
             /\ call' = [call EXCEPT ![k].pc = ok, ![k].kid = c]
    BY <1>1
  <2>1. /\ call' \in [Call -> CallState] /\ \A j \in Call : j # k => call'[j] = call[j]
        /\ call'[k].app = call[k].app /\ call'[k].brain = call[k].brain
        /\ call'[k].pc = ok /\ call'[k].kid = c
    <3> DEFINE s == [call[k] EXCEPT !.pc = ok, !.kid = c]
    <3>0. call \in [Call -> CallState]
      BY DEF TypeOK
    <3>1. call[k] \in CallState
      BY <3>0
    <3>2. s \in CallState /\ s.pc = ok /\ s.kid = c /\ s.app = call[k].app /\ s.brain = call[k].brain
      BY <3>1 DEF CallState
    <3>3. call' = [call EXCEPT ![k] = s]
      OBVIOUS
    <3> HIDE DEF s
    <3> QED
      BY ZenonT(40), <3>0, <3>2, <3>3
  <2>2. [st |-> "warming", by |-> k, told |-> FALSE, late |-> app[a] # "up"] \in Process
    BY DEF Process
  <2>3. own' \in [App -> Sidecar \cup {None}] /\ own'[a] = c /\ \A b \in App : b # a => own'[b] = own[b]
    BY DEF TypeOK
  <2> DEFINE new == [st |-> "warming", by |-> k, told |-> FALSE, late |-> app[a] # "up"]
  <2>4. side' = [Stopped(a) EXCEPT ![c] = new]
    OBVIOUS
  <2>5. new \in Process
    BY <2>2
  <2> HIDE DEF new
  <2>6. /\ side' \in [Sidecar -> Process] /\ side'[c] = new
        /\ \A d \in Sidecar : d # c => side'[d] = Stopped(a)[d]
    <3>1. Stopped(a) \in [Sidecar -> Process]
      BY StoppedEffect
    <3> QED
      BY <2>4, <2>5, <3>1
  <2>7. Spawns(k, c, ok, failed)
    BY <1>0, <2>1, <2>3, <2>6, StoppedEffect DEF Spawns, new
  <2> QED
    BY <2>7
<1>2. CASE side' = Stopped(a) /\ own' = [own EXCEPT ![a] = None] /\ Goto(k, failed)
  <2>1. own' \in [App -> Sidecar \cup {None}] /\ own'[a] = None /\ \A b \in App : b # a => own'[b] = own[b]
    BY <1>2 DEF TypeOK
  <2>2. Spawns(k, None, ok, failed)
    BY <1>0, <1>2, <2>1, GotoEffect, StoppedEffect DEF Spawns
  <2> QED
    BY <2>2
<1> QED
  BY <1>1, <1>2 DEF SpawnAt

\* A process that is killed, or starts to serve, keeps all else.
LEMMA ServeEffect ==
  ASSUME TypeOK, NEW c \in Sidecar, Serve(c)
  PROVE  /\ side' \in [Sidecar -> Process] /\ side'[c].st = "serving"
         /\ side'[c].by = side[c].by /\ side'[c].told = side[c].told /\ side'[c].late = side[c].late
         /\ \A d \in Sidecar : d # c => side'[d] = side[d]
BY DEF TypeOK, Serve, Process

LEMMA RecordEffect ==
  ASSUME TypeOK, NEW k \in Call, call[k].kid \in Sidecar, Record(k)
  PROVE  LET c == call[k].kid
         IN /\ side' \in [Sidecar -> Process] /\ side'[c].told
            /\ side'[c].by = side[c].by /\ side'[c].st = side[c].st /\ side'[c].late = side[c].late
            /\ \A d \in Sidecar : d # c => side'[d] = side[d]
BY DEF TypeOK, Record, Process

LEMMA BeginEffect ==
  ASSUME TypeOK, NEW k \in Call, NEW a \in App, NEW b \in Brain, Begin(k, a, b)
  PROVE  /\ call' \in [Call -> CallState] /\ \A j \in Call : j # k => call'[j] = call[j]
         /\ call'[k].pc = "create" /\ call'[k].app = a /\ call'[k].brain = b
BY DEF TypeOK, Begin, NoCall, CallState, PC

LEMMA VanishEffect ==
  ASSUME TypeOK, NEW a \in App, Vanish(a)
  PROVE  /\ call' \in [Call -> CallState]
         /\ \A j \in Call : IF call[j].app = a
              THEN call'[j].pc = "done" /\ call'[j].app = a /\ call'[j].brain = call[j].brain
              ELSE call'[j] = call[j]
BY EndedEffect DEF TypeOK, Vanish

\* The lock file that was there, and its creator.
LEMMA LockType == TypeOK => \A b \in Brain : lock[b] \in LockFile /\ (lock[b] = NoFile <=> lock[b].by = None)
BY SidecarAssumption DEF TypeOK, LockFile, NoFile

LEMMA LockEffect ==
  TypeOK => \A k \in Call, b \in Brain \cup {None} :
    /\ [lock EXCEPT ![b] = NoFile] \in [Brain -> LockFile]
    /\ [lock EXCEPT ![b] = [by |-> k, pid |-> FALSE]] \in [Brain -> LockFile]
    /\ lock[b].by = k => [lock EXCEPT ![b].pid = TRUE] \in [Brain -> LockFile]
<1> SUFFICES ASSUME TypeOK, NEW k \in Call, NEW b \in Brain \cup {None}
             PROVE  /\ [lock EXCEPT ![b] = NoFile] \in [Brain -> LockFile]
                    /\ [lock EXCEPT ![b] = [by |-> k, pid |-> FALSE]] \in [Brain -> LockFile]
                    /\ lock[b].by = k => [lock EXCEPT ![b].pid = TRUE] \in [Brain -> LockFile]
  OBVIOUS
<1>1. lock \in [Brain -> LockFile] /\ NoFile \in LockFile
  BY DEF TypeOK, LockFile
<1>2. [by |-> k, pid |-> FALSE] \in LockFile
  BY DEF LockFile
<1>3. ASSUME b \in Brain, lock[b].by = k PROVE [lock[b] EXCEPT !.pid = TRUE] \in LockFile
  <2>1. lock[b] \in [by : Call, pid : BOOLEAN]
    BY <1>1, <1>3, SidecarAssumption DEF LockFile, NoFile
  <2> QED
    BY <2>1 DEF LockFile
<1> HIDE DEF NoFile
<1> QED
  BY <1>1, <1>2, <1>3

LEMMA StealEffect ==
  ASSUME TypeOK, NEW k \in Call, Steal(k)
  PROVE  /\ call' \in [Call -> CallState] /\ \A j \in Call : j # k => call'[j] = call[j]
         /\ call'[k].pc \in {"again", "done"} /\ call'[k].app = call[k].app /\ call'[k].brain = call[k].brain
<1>1. CASE Return(k)
  BY <1>1, ReturnEffect
<1>2. CASE call' = [call EXCEPT ![k].pc = "again", ![k].saw = None]
  <2> DEFINE s == [call[k] EXCEPT !.pc = "again", !.saw = None]
  <2>0. call \in [Call -> CallState]
    BY DEF TypeOK
  <2>1. call[k] \in CallState
    BY <2>0
  <2>2. s \in CallState /\ s.pc = "again" /\ s.app = call[k].app /\ s.brain = call[k].brain
    BY <2>1 DEF CallState, PC
  <2>3. call' = [call EXCEPT ![k] = s]
    BY <1>2
  <2> HIDE DEF s
  <2> QED
    BY <2>0, <2>2, <2>3
<1> QED
  BY <1>1, <1>2 DEF Steal

LEMMA ReadEffect ==
  ASSUME TypeOK, NEW k \in Call, call[k].brain \in Brain, Read(k)
  PROVE  /\ call' \in [Call -> CallState] /\ \A j \in Call : j # k => call'[j] = call[j]
         /\ call'[k].pc \in {"steal", "done"} /\ call'[k].app = call[k].app /\ call'[k].brain = call[k].brain
<1> DEFINE o == call[lock[call[k].brain].by].app
<1>0. call \in [Call -> CallState]
  BY DEF TypeOK
<1>1. CASE Return(k)
  BY <1>1, ReturnEffect
<1>2. CASE lock[call[k].brain].pid /\ call' = [call EXCEPT ![k].pc = "steal", ![k].saw = o]
  <2> DEFINE s == [call[k] EXCEPT !.pc = "steal", !.saw = o]
  <2>1. lock[call[k].brain].by \in Call
    BY <1>2, LockType DEF LockFile, NoFile
  <2>2. o \in App \cup {None} /\ call[k] \in CallState
    BY <1>0, <2>1 DEF CallState
  <2> HIDE DEF o
  <2>3. s \in CallState /\ s.pc = "steal" /\ s.app = call[k].app /\ s.brain = call[k].brain
    BY <2>2 DEF CallState, PC
  <2>4. call' = [call EXCEPT ![k] = s]
    BY <1>2
  <2> HIDE DEF s
  <2> QED
    BY <1>0, <2>3, <2>4
<1> QED
  BY <1>1, <1>2 DEF Read

-----------------------------------------------------------------------------
(* Types.                                                                  *)

LEMMA TypeInit == Init => TypeOK /\ Placed
BY DEF Init, TypeOK, Placed, CallState, Process, LockFile, PC, NoCall, NoFile, Unborn

LEMMA PlacedNext == TypeOK /\ Placed /\ [Next]_vars => Placed'
<1> SUFFICES ASSUME TypeOK, Placed, [Next]_vars PROVE Placed'
  OBVIOUS
<1>1. ASSUME NEW k \in Call, NEW a \in App, NEW b \in Brain, Begin(k, a, b) PROVE Placed'
  <2>1. /\ \A j \in Call : j # k => call'[j] = call[j]
        /\ call'[k].pc = "create" /\ call'[k].app = a /\ call'[k].brain = b
    BY <1>1, BeginEffect
  <2> QED
    BY <2>1 DEF Placed
<1>2. ASSUME NEW k \in Call, Create(k) PROVE Placed'
  BY <1>2, GotoEffect, ReturnEffect DEF Create, At, Placed, PC, Section
<1>3. ASSUME NEW k \in Call, Write(k) PROVE Placed'
  BY <1>3, GotoEffect DEF Write, At, Placed, PC, Section
<1>4. ASSUME NEW k \in Call, Read(k) PROVE Placed'
  <2>1. call[k].brain \in Brain /\ call[k].app \in App
    BY <1>4 DEF Read, At, Placed
  <2> QED
    BY <1>4, <2>1, ReadEffect DEF At, Placed
<1>5. ASSUME NEW k \in Call, Steal(k) PROVE Placed'
  BY <1>5, StealEffect DEF Steal, At, Placed
<1>6. ASSUME NEW k \in Call, Drop(k) PROVE Placed'
  BY <1>6, ReturnEffect DEF Drop, At, Placed, PC, Section
<1>7. ASSUME NEW k \in Call, Reclaim(k) PROVE Placed'
  BY <1>7, GotoEffect, KilledEffect DEF Reclaim, At, Placed, PC, Section
<1>8. ASSUME NEW k \in Call, Forget(k) PROVE Placed'
  BY <1>8, GotoEffect DEF Forget, At, Placed, PC, Section
<1>9. ASSUME NEW k \in Call, Spawn(k) PROVE Placed'
  <2>1. call[k].app \in App
    BY <1>9 DEF Spawn, At, Placed
  <2>2. PICK c \in Sidecar \cup {None} : Spawns(k, c, "wait", "check")
    BY <1>9, <2>1, SpawnEffect DEF Spawn, At, PC, Section
  <2> QED
    BY <1>9, <2>2 DEF Spawns, Spawn, At, Placed
<1>10. ASSUME NEW k \in Call, Ready(k) PROVE Placed'
  BY <1>10, GotoEffect DEF Ready, At, Placed, PC, Section
<1>11. ASSUME NEW k \in Call, TimedOut(k) PROVE Placed'
  BY <1>11, GotoEffect DEF TimedOut, At, Placed, PC, Section
<1>12. ASSUME NEW k \in Call, Record(k) PROVE Placed'
  BY <1>12, GotoEffect DEF Record, At, Placed, PC, Section
<1>13. ASSUME NEW k \in Call, Check(k) PROVE Placed'
  BY <1>13, GotoEffect DEF Check, At, Placed, PC, Section
<1>14. ASSUME NEW k \in Call, Respawn(k) PROVE Placed'
  <2>1. call[k].app \in App
    BY <1>14 DEF Respawn, At, Placed
  <2>2. PICK c \in Sidecar \cup {None} : Spawns(k, c, "rewait", "drop")
    BY <1>14, <2>1, SpawnEffect DEF Respawn, At, PC, Section
  <2> QED
    BY <1>14, <2>2 DEF Spawns, Respawn, At, Placed
<1>15. ASSUME NEW a \in App, MarkShuttingDown(a) PROVE Placed'
  BY <1>15 DEF MarkShuttingDown, Placed, PC, Section
<1>16. ASSUME NEW a \in App, StopForExit(a) PROVE Placed'
  BY <1>16, StoppedEffect DEF StopForExit, Placed, PC, Section
<1>17. ASSUME NEW a \in App, Exit(a) PROVE Placed'
  <2>1. \A j \in Call : /\ call'[j].app = call[j].app /\ call'[j].brain = call[j].brain
                         /\ call'[j].pc = IF call[j].app = a THEN "done" ELSE call[j].pc
    BY <1>17, VanishEffect DEF Exit
  <2> QED
    BY <2>1, SidecarAssumption DEF Placed
<1>18. ASSUME NEW a \in App, Crash(a) PROVE Placed'
  <2>1. \A j \in Call : /\ call'[j].app = call[j].app /\ call'[j].brain = call[j].brain
                         /\ call'[j].pc = IF call[j].app = a THEN "done" ELSE call[j].pc
    BY <1>18, VanishEffect DEF Crash
  <2> QED
    BY <2>1, SidecarAssumption DEF Placed
<1>19. ASSUME NEW a \in App, Wipe(a) PROVE Placed'
  BY <1>19, StoppedEffect DEF Wipe, Placed, PC, Section
<1>20. ASSUME NEW c \in Sidecar, Serve(c) PROVE Placed'
  BY <1>20, ServeEffect DEF Serve, Placed, PC, Section
<1>21. ASSUME NEW c \in Sidecar, Die(c) PROVE Placed'
  BY <1>21, KilledEffect DEF Die, Placed, PC, Section
<1>22. CASE UNCHANGED vars
  BY <1>22 DEF vars, Placed, PC, Section
<1> QED
  BY <1>1, <1>2, <1>3, <1>4, <1>5, <1>6, <1>7, <1>8, <1>9, <1>10, <1>11, <1>12, <1>13,
     <1>14, <1>15, <1>16, <1>17, <1>18, <1>19, <1>20, <1>21, <1>22 DEF Next, CallNext, AppNext

LEMMA TypeNext == TypeOK /\ Placed /\ Kids /\ [Next]_vars => TypeOK'
<1> SUFFICES ASSUME TypeOK, Placed, Kids, [Next]_vars PROVE TypeOK'
  OBVIOUS
<1>1. ASSUME NEW k \in Call, NEW a \in App, NEW b \in Brain, Begin(k, a, b) PROVE TypeOK'
  BY <1>1, BeginEffect DEF Begin, TypeOK
<1>2. ASSUME NEW k \in Call, Create(k) PROVE TypeOK'
  <2>1. call' \in [Call -> CallState]
    BY <1>2, GotoEffect, ReturnEffect DEF Create, At, PC, Section
  <2>2. call[k].brain \in Brain
    BY <1>2 DEF Create, At, Placed
  <2>3. lock' = lock \/ lock' = [lock EXCEPT ![call[k].brain] = [by |-> k, pid |-> FALSE]]
    BY <1>2 DEF Create
  <2>4. lock' \in [Brain -> LockFile]
    <3>1. [lock EXCEPT ![call[k].brain] = [by |-> k, pid |-> FALSE]] \in [Brain -> LockFile]
      BY <2>2, LockEffect
    <3> QED
      BY <2>3, <3>1 DEF TypeOK
  <2> QED
    BY <1>2, <2>1, <2>4 DEF Create, TypeOK
<1>3. ASSUME NEW k \in Call, Write(k) PROVE TypeOK'
  <2>1. call' \in [Call -> CallState]
    BY <1>3, GotoEffect DEF Write, At, PC, Section
  <2>2. lock' \in [Brain -> LockFile]
    <3>1. call[k].brain \in Brain
      BY <1>3 DEF Write, At, Placed
    <3> QED
      BY <1>3, <3>1, LockEffect DEF Write, TypeOK
  <2> QED
    BY <1>3, <2>1, <2>2 DEF Write, TypeOK
<1>4. ASSUME NEW k \in Call, Read(k) PROVE TypeOK'
  BY <1>4, ReadEffect DEF Read, At, TypeOK, Placed, PC, Section, LockFile, NoFile
<1>5. ASSUME NEW k \in Call, Steal(k) PROVE TypeOK'
  <2>1. call' \in [Call -> CallState]
    BY <1>5, StealEffect
  <2>2. lock' \in [Brain -> LockFile]
    BY <1>5 DEF Steal, TypeOK, LockFile, NoFile
  <2>3. call[k].brain \in Brain
    BY <1>5 DEF Steal, At, Placed
  <2> QED
    BY <1>5, <2>1, <2>2, <2>3 DEF Steal, TypeOK
<1>6. ASSUME NEW k \in Call, Drop(k) PROVE TypeOK'
  BY <1>6, ReturnEffect DEF Drop, At, TypeOK, Placed, PC, Section, LockFile, NoFile
<1>7. ASSUME NEW k \in Call, Reclaim(k) PROVE TypeOK'
  BY <1>7, GotoEffect, KilledEffect DEF Reclaim, At, TypeOK, Placed, PC, Section, LockFile, NoFile
<1>8. ASSUME NEW k \in Call, Forget(k) PROVE TypeOK'
  BY <1>8, GotoEffect DEF Forget, At, TypeOK, Placed, PC, Section, LockFile, NoFile
<1>9. ASSUME NEW k \in Call, Spawn(k) PROVE TypeOK'
  <2>1. call[k].app \in App
    BY <1>9 DEF Spawn, At, Placed
  <2>2. PICK c \in Sidecar \cup {None} : Spawns(k, c, "wait", "check")
    BY <1>9, <2>1, SpawnEffect DEF Spawn, At, PC, Section
  <2> QED
    BY <1>9, <2>2 DEF Spawns, Spawn, At, TypeOK
<1>10. ASSUME NEW k \in Call, Ready(k) PROVE TypeOK'
  BY <1>10, GotoEffect DEF Ready, At, TypeOK, Placed, PC, Section, LockFile, NoFile
<1>11. ASSUME NEW k \in Call, TimedOut(k) PROVE TypeOK'
  BY <1>11, GotoEffect DEF TimedOut, At, TypeOK, Placed, PC, Section, LockFile, NoFile
<1>12. ASSUME NEW k \in Call, Record(k) PROVE TypeOK'
  <2>1. call[k].kid \in Sidecar
    BY <1>12 DEF Record, At, Kids
  <2>2. call[k].brain \in Brain
    BY <1>12 DEF Record, At, Placed
  <2> QED
    BY <1>12, <2>1, <2>2, GotoEffect, RecordEffect DEF Record, At, PC, Section, TypeOK
<1>13. ASSUME NEW k \in Call, Check(k) PROVE TypeOK'
  BY <1>13, GotoEffect DEF Check, At, TypeOK, Placed, PC, Section, LockFile, NoFile
<1>14. ASSUME NEW k \in Call, Respawn(k) PROVE TypeOK'
  <2>1. call[k].app \in App
    BY <1>14 DEF Respawn, At, Placed
  <2>2. PICK c \in Sidecar \cup {None} : Spawns(k, c, "rewait", "drop")
    BY <1>14, <2>1, SpawnEffect DEF Respawn, At, PC, Section
  <2> QED
    BY <1>14, <2>2 DEF Spawns, Respawn, At, TypeOK
<1>15. ASSUME NEW a \in App, MarkShuttingDown(a) PROVE TypeOK'
  BY <1>15 DEF MarkShuttingDown, TypeOK, Placed, PC, Section, LockFile, NoFile
<1>16. ASSUME NEW a \in App, StopForExit(a) PROVE TypeOK'
  BY <1>16, StoppedEffect DEF StopForExit, TypeOK, Placed, PC, Section, LockFile, NoFile
<1>17. ASSUME NEW a \in App, Exit(a) PROVE TypeOK'
  <2>1. call' \in [Call -> CallState]
    BY <1>17, VanishEffect DEF Exit
  <2> QED
    BY <1>17, <2>1 DEF Exit, TypeOK
<1>18. ASSUME NEW a \in App, Crash(a) PROVE TypeOK'
  <2>1. call' \in [Call -> CallState]
    BY <1>18, VanishEffect DEF Crash
  <2> QED
    BY <1>18, <2>1 DEF Crash, TypeOK
<1>19. ASSUME NEW a \in App, Wipe(a) PROVE TypeOK'
  BY <1>19, StoppedEffect DEF Wipe, TypeOK, Placed, PC, Section, LockFile, NoFile
<1>20. ASSUME NEW c \in Sidecar, Serve(c) PROVE TypeOK'
  BY <1>20, ServeEffect DEF Serve, TypeOK, Placed, PC, Section, LockFile, NoFile
<1>21. ASSUME NEW c \in Sidecar, Die(c) PROVE TypeOK'
  BY <1>21, KilledEffect DEF Die, TypeOK, Placed, PC, Section, LockFile, NoFile
<1>22. CASE UNCHANGED vars
  BY <1>22 DEF vars, TypeOK, Placed, PC, Section, LockFile, NoFile
<1> QED
  BY <1>1, <1>2, <1>3, <1>4, <1>5, <1>6, <1>7, <1>8, <1>9, <1>10, <1>11, <1>12, <1>13,
     <1>14, <1>15, <1>16, <1>17, <1>18, <1>19, <1>20, <1>21, <1>22 DEF Next, CallNext, AppNext

-----------------------------------------------------------------------------
(* How a step moves calls, instances and processes.                        *)

LEMMA FrameNext == TypeOK /\ Placed /\ Born /\ Kids /\ [Next]_vars => Frame
<1> SUFFICES ASSUME TypeOK, Placed, Born, Kids, [Next]_vars PROVE Frame
  OBVIOUS
<1>1. ASSUME NEW k \in Call, NEW a \in App, NEW b \in Brain, Begin(k, a, b) PROVE Frame
  <2>1. (\A j \in Call : j # k => call'[j] = call[j]) /\ call'[k].pc = "create"
    BY <1>1, BeginEffect
  <2>2. call[k].pc = "idle" /\ side' = side
    BY <1>1 DEF Begin
  <2> QED
    BY <2>1, <2>2 DEF Frame, Spawned, Kept
<1>2. ASSUME NEW k \in Call, Create(k) PROVE Frame
  <2>1. /\ \A j \in Call : j # k => call'[j] = call[j]
        /\ call[k].pc \in {"create", "again"} /\ call'[k].pc \in {"write", "read", "done"}
        /\ call'[k].app = call[k].app /\ call'[k].brain = call[k].brain
    BY <1>2, GotoEffect, ReturnEffect DEF Create, At, PC, Section
  <2>2. side' = side
    BY <1>2 DEF Create, At
  <2> QED
    BY <2>1, <2>2 DEF Frame, Spawned, Kept
<1>3. ASSUME NEW k \in Call, Write(k) PROVE Frame
  <2>1. /\ \A j \in Call : j # k => call'[j] = call[j]
        /\ call[k].pc \in {"write"} /\ call'[k].pc \in {"reclaim"}
        /\ call'[k].app = call[k].app /\ call'[k].brain = call[k].brain
    BY <1>3, GotoEffect DEF Write, At, PC, Section
  <2>2. side' = side
    BY <1>3 DEF Write, At
  <2> QED
    BY <2>1, <2>2 DEF Frame, Spawned, Kept
<1>4. ASSUME NEW k \in Call, Read(k) PROVE Frame
  <2>1. call[k].brain \in Brain /\ call[k].pc = "read" /\ side' = side
    BY <1>4 DEF Read, At, Placed
  <2>2. /\ \A j \in Call : j # k => call'[j] = call[j]
        /\ call'[k].pc \in {"steal", "done"} /\ call'[k].app = call[k].app /\ call'[k].brain = call[k].brain
    BY <1>4, <2>1, ReadEffect
  <2> QED
    BY <2>1, <2>2 DEF Frame, Spawned, Kept
<1>5. ASSUME NEW k \in Call, Steal(k) PROVE Frame
  <2>1. call[k].pc = "steal" /\ side' = side
    BY <1>5 DEF Steal, At
  <2>2. /\ \A j \in Call : j # k => call'[j] = call[j]
        /\ call'[k].pc \in {"again", "done"} /\ call'[k].app = call[k].app /\ call'[k].brain = call[k].brain
    BY <1>5, StealEffect
  <2> QED
    BY <2>1, <2>2 DEF Frame, Spawned, Kept
<1>6. ASSUME NEW k \in Call, Drop(k) PROVE Frame
  <2>1. /\ \A j \in Call : j # k => call'[j] = call[j]
        /\ call[k].pc \in {"drop"} /\ call'[k].pc \in {"done"}
        /\ call'[k].app = call[k].app /\ call'[k].brain = call[k].brain
    BY <1>6, ReturnEffect DEF Drop, At, PC, Section
  <2>2. side' = side
    BY <1>6 DEF Drop, At
  <2> QED
    BY <2>1, <2>2 DEF Frame, Spawned, Kept
<1>7. ASSUME NEW k \in Call, Reclaim(k) PROVE Frame
  <2>1. /\ \A j \in Call : j # k => call'[j] = call[j]
        /\ call[k].pc \in {"reclaim"} /\ call'[k].pc \in {"forget", "spawn"}
        /\ call'[k].app = call[k].app /\ call'[k].brain = call[k].brain
    BY <1>7, GotoEffect DEF Reclaim, At, PC, Section
  <2>2. \A c \in Sidecar : Kept(c)
    BY <1>7, KilledEffect DEF Reclaim, At, Kept, TypeOK, Placed
  <2> QED
    BY <2>1, <2>2 DEF Frame, Spawned, Kept
<1>8. ASSUME NEW k \in Call, Forget(k) PROVE Frame
  <2>1. /\ \A j \in Call : j # k => call'[j] = call[j]
        /\ call[k].pc \in {"forget"} /\ call'[k].pc \in {"spawn"}
        /\ call'[k].app = call[k].app /\ call'[k].brain = call[k].brain
    BY <1>8, GotoEffect DEF Forget, At, PC, Section
  <2>2. side' = side
    BY <1>8 DEF Forget, At
  <2> QED
    BY <2>1, <2>2 DEF Frame, Spawned, Kept
<1>9. ASSUME NEW k \in Call, Spawn(k) PROVE Frame
  <2>1. call[k].app \in App /\ call[k].pc = "spawn"
    BY <1>9 DEF Spawn, At, Placed
  <2>2. PICK c \in Sidecar \cup {None} : Spawns(k, c, "wait", "check")
    BY <1>9, <2>1, SpawnEffect DEF Spawn, At, PC, Section
  <2>3. \A d \in Sidecar : side[d].by # None => Kept(d)
    BY <2>2 DEF Spawns, Born, Kept
  <2>4. /\ \A j \in Call : j # k => call'[j] = call[j]
        /\ call'[k].pc \in {"wait", "check"} /\ call'[k].app = call[k].app /\ call'[k].brain = call[k].brain
    BY <2>2 DEF Spawns
  <2> QED
    BY <2>1, <2>3, <2>4 DEF Frame, Spawned
<1>10. ASSUME NEW k \in Call, Ready(k) PROVE Frame
  <2>1. /\ \A j \in Call : j # k => call'[j] = call[j]
        /\ call[k].pc \in {"wait", "rewait"} /\ call'[k].pc \in {"record"}
        /\ call'[k].app = call[k].app /\ call'[k].brain = call[k].brain
    BY <1>10, GotoEffect DEF Ready, At, PC, Section
  <2>2. side' = side
    BY <1>10 DEF Ready, At
  <2> QED
    BY <2>1, <2>2 DEF Frame, Spawned, Kept
<1>11. ASSUME NEW k \in Call, TimedOut(k) PROVE Frame
  <2>1. /\ \A j \in Call : j # k => call'[j] = call[j]
        /\ call[k].pc \in {"wait", "rewait"} /\ call'[k].pc \in {"check", "drop"}
        /\ call'[k].app = call[k].app /\ call'[k].brain = call[k].brain
    BY <1>11, GotoEffect DEF TimedOut, At, PC, Section
  <2>2. side' = side
    BY <1>11 DEF TimedOut, At
  <2> QED
    BY <2>1, <2>2 DEF Frame, Spawned, Kept
<1>12. ASSUME NEW k \in Call, Record(k) PROVE Frame
  <2>1. /\ \A j \in Call : j # k => call'[j] = call[j]
        /\ call[k].pc = "record" /\ call'[k].pc = "drop"
        /\ call'[k].app = call[k].app /\ call'[k].brain = call[k].brain
    BY <1>12, GotoEffect DEF Record, At, PC, Section
  <2>2. call[k].kid \in Sidecar
    BY <1>12 DEF Record, At, Kids
  <2>3. \A c \in Sidecar : Kept(c)
    BY <1>12, <2>2, RecordEffect DEF Kept
  <2> QED
    BY <2>1, <2>3 DEF Frame, Spawned
<1>13. ASSUME NEW k \in Call, Check(k) PROVE Frame
  <2>1. /\ \A j \in Call : j # k => call'[j] = call[j]
        /\ call[k].pc \in {"check"} /\ call'[k].pc \in {"respawn", "drop"}
        /\ call'[k].app = call[k].app /\ call'[k].brain = call[k].brain
    BY <1>13, GotoEffect DEF Check, At, PC, Section
  <2>2. side' = side
    BY <1>13 DEF Check, At
  <2> QED
    BY <2>1, <2>2 DEF Frame, Spawned, Kept
<1>14. ASSUME NEW k \in Call, Respawn(k) PROVE Frame
  <2>1. call[k].app \in App /\ call[k].pc = "respawn"
    BY <1>14 DEF Respawn, At, Placed
  <2>2. PICK c \in Sidecar \cup {None} : Spawns(k, c, "rewait", "drop")
    BY <1>14, <2>1, SpawnEffect DEF Respawn, At, PC, Section
  <2>3. \A d \in Sidecar : side[d].by # None => Kept(d)
    BY <2>2 DEF Spawns, Born, Kept
  <2>4. /\ \A j \in Call : j # k => call'[j] = call[j]
        /\ call'[k].pc \in {"rewait", "drop"} /\ call'[k].app = call[k].app /\ call'[k].brain = call[k].brain
    BY <2>2 DEF Spawns
  <2> QED
    BY <2>1, <2>3, <2>4 DEF Frame, Spawned
<1>15. ASSUME NEW a \in App, MarkShuttingDown(a) PROVE Frame
  BY <1>15 DEF MarkShuttingDown, Frame, Kept
<1>16. ASSUME NEW a \in App, StopForExit(a) PROVE Frame
  <2>1. \A d \in Sidecar : Kept(d)
    BY <1>16, StoppedEffect DEF Kept, StopForExit
  <2>2. call' = call
    BY <1>16 DEF StopForExit
  <2> QED
    BY <2>1, <2>2 DEF Frame
<1>17. ASSUME NEW a \in App, Exit(a) PROVE Frame
  <2>1. \A j \in Call : /\ call'[j].app = call[j].app /\ call'[j].brain = call[j].brain
                         /\ call'[j].pc = IF call[j].app = a THEN "done" ELSE call[j].pc
    BY <1>17, VanishEffect DEF Exit
  <2>2. side' = side
    BY <1>17 DEF Exit
  <2> QED
    BY <2>1, <2>2 DEF Frame, Spawned, Kept
<1>18. ASSUME NEW a \in App, Crash(a) PROVE Frame
  <2>1. \A j \in Call : /\ call'[j].app = call[j].app /\ call'[j].brain = call[j].brain
                         /\ call'[j].pc = IF call[j].app = a THEN "done" ELSE call[j].pc
    BY <1>18, VanishEffect DEF Crash
  <2>2. side' = side
    BY <1>18 DEF Crash
  <2> QED
    BY <2>1, <2>2 DEF Frame, Spawned, Kept
<1>19. ASSUME NEW a \in App, Wipe(a) PROVE Frame
  <2>1. \A d \in Sidecar : Kept(d)
    BY <1>19, StoppedEffect DEF Kept, Wipe
  <2>2. call' = call
    BY <1>19 DEF Wipe
  <2> QED
    BY <2>1, <2>2 DEF Frame
<1>20. ASSUME NEW c \in Sidecar, Serve(c) PROVE Frame
  <2>1. \A d \in Sidecar : Kept(d)
    BY <1>20, ServeEffect DEF Kept, Serve
  <2>2. call' = call
    BY <1>20 DEF Serve
  <2> QED
    BY <2>1, <2>2 DEF Frame
<1>21. ASSUME NEW c \in Sidecar, Die(c) PROVE Frame
  <2>1. \A d \in Sidecar : Kept(d)
    BY <1>21, KilledEffect DEF Kept, Die, Lives
  <2>2. call' = call
    BY <1>21 DEF Die
  <2> QED
    BY <2>1, <2>2 DEF Frame
<1>22. CASE UNCHANGED vars
  BY <1>22 DEF vars, Frame, Kept
<1> QED
  BY <1>1, <1>2, <1>3, <1>4, <1>5, <1>6, <1>7, <1>8, <1>9, <1>10, <1>11, <1>12, <1>13,
     <1>14, <1>15, <1>16, <1>17, <1>18, <1>19, <1>20, <1>21, <1>22 DEF Next, CallNext, AppNext

\* The process c is what the call k has just spawned.
Newborn(c, k) ==
  /\ side'[c] = [st |-> "warming", by |-> k, told |-> FALSE, late |-> app[call[k].app] # "up"]
  /\ call[k].pc \in {"spawn", "respawn"} /\ call'[k].pc \in {"wait", "rewait"}
  /\ own'[call[k].app] = c /\ app' = app

\* The process c is not a new one.
Lasting(c) ==
  /\ side'[c].by = side[c].by /\ side'[c].late = side[c].late
  /\ side[c].by = None => side'[c].told = side[c].told
  /\ Lives(c)' => Lives(c)
  /\ side'[c].st = "unborn" <=> side[c].st = "unborn"

\* How calls, instances and processes move in a step.
Moves ==
  /\ \A k \in Call : call'[k].pc = "respawn" =>
       call[k].pc = "respawn" \/ (app[call[k].app] = "up" /\ app' = app)
  /\ \A k \in Call : call'[k].pc \in {"wait", "record", "rewait"} =>
       \/ call[k].pc \in {"wait", "record", "rewait"} /\ call'[k].kid = call[k].kid
       \/ call'[k].kid \in Sidecar /\ Newborn(call'[k].kid, k)
  /\ \A a \in App : app[a] # "up" => app'[a] # "up"
  /\ \A c \in Sidecar : Lasting(c) \/ (side[c].st = "unborn" /\ \E k \in Call : Newborn(c, k))
  /\ \A a \in App : own'[a] # own[a] /\ own[a] # None => side'[own[a]].st = "dead"
  /\ \A a \in App : own'[a] \in {own[a], None} \/ \E k \in Call : Newborn(own'[a], k)
  /\ \A a \in App : app'[a] \in {"stopped", "exited"} =>
       app[a] \in {"stopped", "exited"} \/ own'[a] = None

LEMMA MovesNext == TypeOK /\ Placed /\ Born /\ Kids /\ [Next]_vars => Moves
<1> SUFFICES ASSUME TypeOK, Placed, Born, Kids, [Next]_vars PROVE Moves
  OBVIOUS
<1>1. ASSUME NEW k \in Call, NEW a \in App, NEW b \in Brain, Begin(k, a, b) PROVE Moves
  <2>1. (\A j \in Call : j # k => call'[j] = call[j]) /\ call'[k].pc = "create" /\ call'[k].app = a
    BY <1>1, BeginEffect
  <2>2. call[k].pc = "idle" /\ side' = side /\ app' = app /\ own' = own /\ app[a] = "up"
    BY <1>1 DEF Begin
  <2> QED
    BY <2>1, <2>2 DEF Moves, Newborn, Lasting, Lives
<1>2. ASSUME NEW k \in Call, Create(k) PROVE Moves
  <2>1. /\ \A j \in Call : j # k => call'[j] = call[j]
        /\ call[k].pc \in {"create", "again"} /\ call'[k].pc \in {"write", "read", "done"}
        /\ call'[k].app = call[k].app /\ call'[k].brain = call[k].brain
    BY <1>2, GotoEffect, ReturnEffect DEF Create, At, PC, Section
  <2>2. app' = app /\ own' = own /\ side' = side
    BY <1>2 DEF Create
  <2> QED
    BY <2>1, <2>2 DEF Moves, Newborn, Lasting, Lives
<1>3. ASSUME NEW k \in Call, Write(k) PROVE Moves
  <2>1. /\ \A j \in Call : j # k => call'[j] = call[j]
        /\ call[k].pc \in {"write"} /\ call'[k].pc \in {"reclaim"}
        /\ call'[k].app = call[k].app /\ call'[k].brain = call[k].brain /\ call'[k].kid = call[k].kid
    BY <1>3, GotoEffect DEF Write, At, PC, Section
  <2>2. app' = app /\ own' = own /\ side' = side
    BY <1>3 DEF Write
  <2> QED
    BY <2>1, <2>2 DEF Moves, Newborn, Lasting, Lives
<1>4. ASSUME NEW k \in Call, Read(k) PROVE Moves
  <2>1. call[k].brain \in Brain /\ call[k].pc = "read" /\ side' = side /\ app' = app /\ own' = own
    BY <1>4 DEF Read, At, Placed
  <2>2. (\A j \in Call : j # k => call'[j] = call[j]) /\ call'[k].pc \in {"steal", "done"}
    BY <1>4, <2>1, ReadEffect
  <2> QED
    BY <2>1, <2>2 DEF Moves, Newborn, Lasting, Lives
<1>5. ASSUME NEW k \in Call, Steal(k) PROVE Moves
  <2>1. call[k].pc = "steal" /\ side' = side /\ app' = app /\ own' = own
    BY <1>5 DEF Steal, At
  <2>2. (\A j \in Call : j # k => call'[j] = call[j]) /\ call'[k].pc \in {"again", "done"}
    BY <1>5, StealEffect
  <2> QED
    BY <2>1, <2>2 DEF Moves, Newborn, Lasting, Lives
<1>6. ASSUME NEW k \in Call, Drop(k) PROVE Moves
  <2>1. /\ \A j \in Call : j # k => call'[j] = call[j]
        /\ call[k].pc \in {"drop"} /\ call'[k].pc \in {"done"}
        /\ call'[k].app = call[k].app /\ call'[k].brain = call[k].brain
    BY <1>6, ReturnEffect DEF Drop, At, PC, Section
  <2>2. app' = app /\ own' = own /\ side' = side
    BY <1>6 DEF Drop
  <2> QED
    BY <2>1, <2>2 DEF Moves, Newborn, Lasting, Lives
<1>7. ASSUME NEW k \in Call, Reclaim(k) PROVE Moves
  <2>1. /\ \A j \in Call : j # k => call'[j] = call[j]
        /\ call[k].pc = "reclaim" /\ call'[k].pc \in {"forget", "spawn"}
    BY <1>7, GotoEffect DEF Reclaim, At, PC, Section
  <2>2. app' = app /\ own' = own
    BY <1>7 DEF Reclaim
  <2>3. \A c \in Sidecar : Lasting(c)
    <3>1. record[call[k].brain] \in Sidecar \cup {None}
      BY <1>7 DEF Reclaim, At, Placed, TypeOK
    <3>2. CASE side' = side
      BY <3>2 DEF Lasting, Lives
    <3>3. ASSUME NEW r \in Sidecar, Lives(r), side' = Killed(r) PROVE \A c \in Sidecar : Lasting(c)
      BY <3>3, KilledEffect DEF Lasting, Lives
    <3> QED
      BY <1>7, <3>1, <3>2, <3>3 DEF Reclaim
  <2> QED
    BY <2>1, <2>2, <2>3 DEF Moves
<1>8. ASSUME NEW k \in Call, Forget(k) PROVE Moves
  <2>1. /\ \A j \in Call : j # k => call'[j] = call[j]
        /\ call[k].pc \in {"forget"} /\ call'[k].pc \in {"spawn"}
        /\ call'[k].app = call[k].app /\ call'[k].brain = call[k].brain /\ call'[k].kid = call[k].kid
    BY <1>8, GotoEffect DEF Forget, At, PC, Section
  <2>2. app' = app /\ own' = own /\ side' = side
    BY <1>8 DEF Forget
  <2> QED
    BY <2>1, <2>2 DEF Moves, Newborn, Lasting, Lives
<1>9. ASSUME NEW k \in Call, Spawn(k) PROVE Moves
  <2>1. call[k].app \in App /\ call[k].pc = "spawn" /\ app' = app
    BY <1>9 DEF Spawn, At, Placed
  <2>2. PICK c \in Sidecar \cup {None} : Spawns(k, c, "wait", "check")
    BY <1>9, <2>1, SpawnEffect DEF Spawn, At, PC, Section
  <2>3. \A d \in Sidecar : d # c => Lasting(d)
    BY <2>1, <2>2 DEF Spawns, Lasting, Lives, Born
  <2>4. c # None => side[c].st = "unborn" /\ Newborn(c, k) /\ call'[k].kid = c /\ c \in Sidecar
    BY <2>1, <2>2 DEF Spawns, Newborn
  <2>5. \A b \in App : own'[b] # own[b] /\ own[b] # None => side'[own[b]].st = "dead"
    <3> SUFFICES ASSUME NEW b \in App, own'[b] # own[b], own[b] # None PROVE side'[own[b]].st = "dead"
      OBVIOUS
    <3>1. b = call[k].app /\ own[b] # c /\ own[b] \in Sidecar
      BY <2>2 DEF Spawns, TypeOK
    <3> QED
      BY <2>2, <3>1 DEF Spawns
  <2>6. \A b \in App : own'[b] = own[b] \/ own'[b] = c
    BY <2>2 DEF Spawns
  <2>7. /\ \A j \in Call : j # k => call'[j] = call[j]
        /\ call'[k].pc = IF c = None THEN "check" ELSE "wait"
    BY <2>2 DEF Spawns
  <2> QED
    BY <2>1, <2>3, <2>4, <2>5, <2>6, <2>7 DEF Moves
<1>10. ASSUME NEW k \in Call, Ready(k) PROVE Moves
  <2>1. /\ \A j \in Call : j # k => call'[j] = call[j]
        /\ call[k].pc \in {"wait", "rewait"} /\ call'[k].pc \in {"record"}
        /\ call'[k].app = call[k].app /\ call'[k].brain = call[k].brain /\ call'[k].kid = call[k].kid
    BY <1>10, GotoEffect DEF Ready, At, PC, Section
  <2>2. app' = app /\ own' = own /\ side' = side
    BY <1>10 DEF Ready
  <2> QED
    BY <2>1, <2>2 DEF Moves, Newborn, Lasting, Lives
<1>11. ASSUME NEW k \in Call, TimedOut(k) PROVE Moves
  <2>1. /\ \A j \in Call : j # k => call'[j] = call[j]
        /\ call[k].pc \in {"wait", "rewait"} /\ call'[k].pc \in {"check", "drop"}
        /\ call'[k].app = call[k].app /\ call'[k].brain = call[k].brain /\ call'[k].kid = call[k].kid
    BY <1>11, GotoEffect DEF TimedOut, At, PC, Section
  <2>2. app' = app /\ own' = own /\ side' = side
    BY <1>11 DEF TimedOut
  <2> QED
    BY <2>1, <2>2 DEF Moves, Newborn, Lasting, Lives
<1>12. ASSUME NEW k \in Call, Record(k) PROVE Moves
  <2>1. /\ \A j \in Call : j # k => call'[j] = call[j]
        /\ call[k].pc = "record" /\ call'[k].pc = "drop"
    BY <1>12, GotoEffect DEF Record, At, PC, Section
  <2>2. call[k].kid \in Sidecar
    BY <1>12 DEF Record, At, Kids
  <2>3. \A c \in Sidecar : Lasting(c)
    <3>1. side[call[k].kid].by # None
      BY <1>12, SidecarAssumption DEF Record, At, Kids
    <3> QED
      BY <1>12, <2>2, <3>1, RecordEffect DEF Lasting, Lives
  <2>4. app' = app /\ own' = own
    BY <1>12 DEF Record
  <2> QED
    BY <2>1, <2>3, <2>4 DEF Moves
<1>13. ASSUME NEW k \in Call, Check(k) PROVE Moves
  <2>1. /\ \A j \in Call : j # k => call'[j] = call[j]
        /\ call[k].pc \in {"check"} /\ call'[k].pc \in {"respawn", "drop"}
        /\ call'[k].app = call[k].app /\ call'[k].brain = call[k].brain /\ call'[k].kid = call[k].kid
        /\ call'[k].pc = "respawn" => app[call[k].app] = "up"
    BY <1>13, GotoEffect DEF Check, At, PC, Section
  <2>2. app' = app /\ own' = own /\ side' = side
    BY <1>13 DEF Check
  <2> QED
    BY <2>1, <2>2 DEF Moves, Newborn, Lasting, Lives
<1>14. ASSUME NEW k \in Call, Respawn(k) PROVE Moves
  <2>1. call[k].app \in App /\ call[k].pc = "respawn" /\ app' = app
    BY <1>14 DEF Respawn, At, Placed
  <2>2. PICK c \in Sidecar \cup {None} : Spawns(k, c, "rewait", "drop")
    BY <1>14, <2>1, SpawnEffect DEF Respawn, At, PC, Section
  <2>3. \A d \in Sidecar : d # c => Lasting(d)
    BY <2>1, <2>2 DEF Spawns, Lasting, Lives, Born
  <2>4. c # None => side[c].st = "unborn" /\ Newborn(c, k) /\ call'[k].kid = c /\ c \in Sidecar
    BY <2>1, <2>2 DEF Spawns, Newborn
  <2>5. \A b \in App : own'[b] # own[b] /\ own[b] # None => side'[own[b]].st = "dead"
    <3> SUFFICES ASSUME NEW b \in App, own'[b] # own[b], own[b] # None PROVE side'[own[b]].st = "dead"
      OBVIOUS
    <3>1. b = call[k].app /\ own[b] # c /\ own[b] \in Sidecar
      BY <2>2 DEF Spawns, TypeOK
    <3> QED
      BY <2>2, <3>1 DEF Spawns
  <2>6. \A b \in App : own'[b] = own[b] \/ own'[b] = c
    BY <2>2 DEF Spawns
  <2>7. /\ \A j \in Call : j # k => call'[j] = call[j]
        /\ call'[k].pc = IF c = None THEN "drop" ELSE "rewait"
    BY <2>2 DEF Spawns
  <2> QED
    BY <2>1, <2>3, <2>4, <2>5, <2>6, <2>7 DEF Moves
<1>15. ASSUME NEW a \in App, MarkShuttingDown(a) PROVE Moves
  BY <1>15 DEF MarkShuttingDown, TypeOK, Moves, Newborn, Lasting, Lives
<1>16. ASSUME NEW a \in App, StopForExit(a) PROVE Moves
  <2>1. \A d \in Sidecar : Lasting(d)
    BY <1>16, StoppedEffect DEF Lasting, Lives, StopForExit, Born
  <2>2. /\ own'[a] = None /\ (own[a] # None => side'[own[a]].st = "dead")
        /\ \A b \in App : b # a => own'[b] = own[b]
    BY <1>16, StoppedEffect DEF StopForExit, TypeOK
  <2> QED
    BY <1>16, <2>1, <2>2 DEF StopForExit, Moves, TypeOK
<1>17. ASSUME NEW a \in App, Exit(a) PROVE Moves
  <2>1. \A j \in Call : IF call[j].app = a THEN call'[j].pc = "done" ELSE call'[j] = call[j]
    BY <1>17, VanishEffect DEF Exit
  <2>2. side' = side /\ own' = own
    BY <1>17 DEF Exit
  <2>3. app[a] # "exited" /\ app' = [app EXCEPT ![a] = "exited"]
    BY <1>17 DEF Exit, Alive
  <2> QED
    BY <1>17, <2>1, <2>2, <2>3 DEF Exit, TypeOK, Moves, Newborn, Lasting, Lives
<1>18. ASSUME NEW a \in App, Crash(a) PROVE Moves
  <2>1. \A j \in Call : IF call[j].app = a THEN call'[j].pc = "done" ELSE call'[j] = call[j]
    BY <1>18, VanishEffect DEF Crash
  <2>2. side' = side /\ own' = own
    BY <1>18 DEF Crash
  <2>3. app[a] # "exited" /\ app' = [app EXCEPT ![a] = "crashed"]
    BY <1>18 DEF Crash, Alive
  <2> QED
    BY <1>18, <2>1, <2>2, <2>3 DEF Crash, TypeOK, Moves, Newborn, Lasting, Lives
<1>19. ASSUME NEW a \in App, Wipe(a) PROVE Moves
  <2>1. \A d \in Sidecar : Lasting(d)
    BY <1>19, StoppedEffect DEF Lasting, Lives, Wipe, Born
  <2>2. /\ own'[a] = None /\ (own[a] # None => side'[own[a]].st = "dead")
        /\ \A b \in App : b # a => own'[b] = own[b]
    BY <1>19, StoppedEffect DEF Wipe, TypeOK
  <2> QED
    BY <1>19, <2>1, <2>2 DEF Wipe, Moves, TypeOK
<1>20. ASSUME NEW c \in Sidecar, Serve(c) PROVE Moves
  <2>1. \A d \in Sidecar : Lasting(d)
    BY <1>20, ServeEffect DEF Lasting, Lives, Serve
  <2> QED
    BY <1>20, <2>1 DEF Serve, Moves
<1>21. ASSUME NEW c \in Sidecar, Die(c) PROVE Moves
  <2>1. \A d \in Sidecar : Lasting(d)
    BY <1>21, KilledEffect DEF Lasting, Lives, Die
  <2> QED
    BY <1>21, <2>1 DEF Die, Moves
<1>22. CASE UNCHANGED vars
  BY <1>22 DEF vars, Moves, Newborn, Lasting, Lives
<1> QED
  BY <1>1, <1>2, <1>3, <1>4, <1>5, <1>6, <1>7, <1>8, <1>9, <1>10, <1>11, <1>12, <1>13,
     <1>14, <1>15, <1>16, <1>17, <1>18, <1>19, <1>20, <1>21, <1>22 DEF Next, CallNext, AppNext

-----------------------------------------------------------------------------
(* What follows from how they move.                                        *)

LEMMA BornNext ==
  ASSUME TypeOK, TypeOK', Placed, Born, Frame, Moves
  PROVE  Born'
<1> SUFFICES ASSUME NEW c \in Sidecar
             PROVE  /\ side'[c].by = None <=> side'[c].st = "unborn"
                    /\ side'[c].by = None => ~side'[c].told /\ ~side'[c].late
                    /\ side'[c].by # None => call'[side'[c].by].pc \in Spawned
                    /\ \A a \in App : own'[a] = c => side'[c].st # "unborn"
  BY DEF Born
<1>1. side[c] \in Process /\ side'[c] \in Process
  BY DEF TypeOK
<1>2. CASE Lasting(c)
  <2>1. ASSUME NEW a \in App, own'[a] = c PROVE side'[c].st # "unborn"
    <3>1. c = own[a] \/ \E k \in Call : Newborn(c, k)
      BY <2>1, SidecarAssumption DEF Moves
    <3>2. CASE c = own[a]
      BY <1>2, <3>2 DEF Lasting, Born
    <3>3. ASSUME NEW k \in Call, Newborn(c, k) PROVE side'[c].st # "unborn"
      BY <3>3 DEF Newborn
    <3> QED
      BY <3>1, <3>2, <3>3
  <2> QED
    BY <1>1, <1>2, <2>1 DEF Lasting, Born, Frame, Process
<1>3. ASSUME NEW k \in Call, Newborn(c, k) PROVE /\ side'[c].by = k /\ side'[c].st = "warming"
                                                /\ call'[k].pc \in Spawned
  BY <1>3 DEF Newborn, Spawned
<1> QED
  BY <1>2, <1>3, SidecarAssumption DEF Moves

LEMMA KidsNext ==
  ASSUME TypeOK, Born, Kids, Frame, Moves
  PROVE  Kids'
<1> SUFFICES ASSUME NEW k \in Call, call'[k].pc \in {"wait", "record", "rewait"}
             PROVE  call'[k].kid \in Sidecar /\ side'[call'[k].kid].by = k
  BY DEF Kids
<1>1. CASE call'[k].kid \in Sidecar /\ Newborn(call'[k].kid, k)
  BY <1>1 DEF Newborn
<1>2. CASE call[k].pc \in {"wait", "record", "rewait"} /\ call'[k].kid = call[k].kid
  <2>1. call[k].kid \in Sidecar /\ side[call[k].kid].by # None
    BY <1>2, SidecarAssumption DEF Kids
  <2> QED
    BY <1>2, <2>1 DEF Kids, Frame, Kept
<1> QED
  BY <1>1, <1>2 DEF Moves

\* The instance and the brain of a process are for good.
LEMMA Origin ==
  ASSUME TypeOK, Placed, Born, Frame, NEW c \in Sidecar, side[c].by # None
  PROVE  /\ AppOf(c) \in App /\ AppOf(c)' = AppOf(c)
         /\ BrainOf(c) \in Brain /\ BrainOf(c)' = BrainOf(c)
<1>1. side[c].by \in Call /\ call[side[c].by].pc \in Spawned
  BY DEF TypeOK, Process, Born
<1>2. side'[c].by = side[c].by
  BY DEF Frame, Kept
<1> QED
  BY <1>1, <1>2 DEF Placed, Frame, Spawned, AppOf, BrainOf

LEMMA NewbornLate ==
  ASSUME NEW c \in Sidecar, NEW k \in Call, Newborn(c, k)
  PROVE  side'[c].late <=> app[call[k].app] # "up"
<1> DEFINE l == app[call[k].app] # "up"
<1>1. side'[c] = [st |-> "warming", by |-> k, told |-> FALSE, late |-> l]
  BY DEF Newborn
<1> HIDE DEF l
<1>2. side'[c].late = l
  BY <1>1
<1> QED
  BY <1>2 DEF l

LEMMA OriginNew ==
  ASSUME TypeOK, Placed, Frame, NEW c \in Sidecar, NEW k \in Call, Newborn(c, k)
  PROVE  call[k].app \in App /\ AppOf(c)' = call[k].app /\ side'[c].by = k
BY DEF Newborn, Placed, Frame, AppOf

LEMMA OneNext ==
  ASSUME TypeOK, TypeOK', Placed, Born, OneSidecarPerApp, Frame, Moves
  PROVE  OneSidecarPerApp'
<1> SUFFICES ASSUME NEW c \in Sidecar, Lives(c)' PROVE own'[AppOf(c)'] = c
  BY DEF OneSidecarPerApp
<1>1. CASE Lasting(c)
  <2>1. Lives(c) /\ side[c].by # None
    BY <1>1 DEF Lasting, Born, Lives
  <2>2. own[AppOf(c)] = c /\ AppOf(c) \in App /\ AppOf(c)' = AppOf(c)
    BY <2>1, Origin DEF OneSidecarPerApp
  <2>3. own'[AppOf(c)] # own[AppOf(c)] => side'[c].st = "dead"
    BY <2>2, SidecarAssumption DEF Moves
  <2> QED
    BY <2>2, <2>3 DEF Lives
<1>2. ASSUME NEW k \in Call, Newborn(c, k) PROVE own'[AppOf(c)'] = c
  BY <1>2, OriginNew DEF Newborn
<1> QED
  BY <1>1, <1>2 DEF Moves

LEMMA LeftLateNext ==
  ASSUME TypeOK, TypeOK', Placed, Born, OneSidecarPerApp, LeftLate, Frame, Moves
  PROVE  LeftLate'
<1> SUFFICES ASSUME NEW c \in Sidecar, Lives(c)', app'[AppOf(c)'] \in {"stopped", "exited"}
             PROVE  side'[c].late
  BY DEF LeftLate
<1>1. CASE Lasting(c)
  <2>1. Lives(c) /\ side[c].by # None /\ side'[c].late = side[c].late
    BY <1>1 DEF Lasting, Born, Lives
  <2>2. AppOf(c) \in App /\ AppOf(c)' = AppOf(c) /\ own'[AppOf(c)] = c
    BY <2>1, Origin, OneNext DEF OneSidecarPerApp
  <2>3. app[AppOf(c)] \in {"stopped", "exited"}
    BY <2>2, SidecarAssumption DEF Moves
  <2> QED
    BY <2>1, <2>3 DEF LeftLate
<1>2. ASSUME NEW k \in Call, Newborn(c, k) PROVE side'[c].late
  BY <1>2, OriginNew, NewbornLate DEF Newborn
<1> QED
  BY <1>1, <1>2 DEF Moves

LEMMA LateOnceNext ==
  ASSUME TypeOK, TypeOK', Placed, Born, LateOnce, Frame, Moves
  PROVE  LateOnce'
<1>1. ASSUME NEW c \in Sidecar, side[c].by = None PROVE ~side[c].late
  BY <1>1 DEF Born
<1>2. ASSUME NEW c \in Sidecar, side'[c].late
      PROVE  app'[AppOf(c)'] # "up" /\ call'[side'[c].by].pc # "respawn"
  <2>1. CASE Lasting(c)
    <3>1. side[c].late /\ side[c].by # None /\ side'[c].by = side[c].by /\ side[c].by \in Call
      BY <1>1, <1>2, <2>1 DEF Lasting, TypeOK, Process
    <3>2. AppOf(c) \in App /\ AppOf(c)' = AppOf(c) /\ app[AppOf(c)] # "up"
      BY <3>1, Origin DEF LateOnce
    <3> QED
      BY <3>1, <3>2 DEF LateOnce, Moves, AppOf
  <2>2. ASSUME NEW k \in Call, Newborn(c, k)
        PROVE  app'[AppOf(c)'] # "up" /\ call'[side'[c].by].pc # "respawn"
    BY <1>2, <2>2, OriginNew, NewbornLate DEF Newborn
  <2> QED
    BY <2>1, <2>2 DEF Moves
<1>3. ASSUME NEW c \in Sidecar, NEW k \in Call, Newborn(c, k), side'[c].late,
             NEW d \in Sidecar, side[d].late, side[d].by = k
      PROVE  FALSE
  <2>2. call[k].pc \in Spawned /\ call[k].pc # "respawn" /\ call[k].pc # "spawn"
    BY <1>3, SidecarAssumption DEF Born, LateOnce, Spawned
  <2> QED
    BY <1>3, <2>2 DEF Newborn
<1>4. ASSUME NEW c \in Sidecar, NEW d \in Sidecar, side'[c].late, side'[d].late, side'[c].by = side'[d].by
      PROVE  c = d
  <2>1. CASE Lasting(c) /\ Lasting(d)
    BY <1>4, <2>1 DEF Lasting, LateOnce
  <2>2. ASSUME NEW k \in Call, Newborn(c, k), NEW j \in Call, Newborn(d, j) PROVE c = d
    BY <1>4, <2>2 DEF Newborn
  <2>3. ASSUME NEW k \in Call, Newborn(c, k), Lasting(d) PROVE c = d
    BY <1>3, <1>4, <2>3 DEF Newborn, Lasting
  <2>4. ASSUME NEW k \in Call, Newborn(d, k), Lasting(c) PROVE c = d
    BY <1>3, <1>4, <2>4 DEF Newborn, Lasting
  <2> QED
    BY <2>1, <2>2, <2>3, <2>4 DEF Moves
<1> QED
  BY <1>2, <1>4 DEF LateOnce

-----------------------------------------------------------------------------
(* The lock.                                                               *)

\* A step that leaves the lock files alone brings no call under the lock.
Quiet ==
  /\ lock' = lock /\ usurped' = usurped
  /\ \A k \in Call : InSection(k)' => InSection(k)

Locking   == \E k \in Call : Create(k) \/ Write(k) \/ Steal(k) \/ Drop(k)
Recording == \E k \in Call : Reclaim(k) \/ Forget(k) \/ Record(k)

\* A step that leaves the records alone.
Clearing == Section \ {"write", "reclaim", "drop"}
Still ==
  /\ record' = record /\ usurped \subseteq usurped'
  /\ \A c \in Sidecar : side'[c].told => side[c].told
  /\ \A k \in Call : call'[k].pc \in Clearing => call[k].pc \in Clearing

LEMMA QuietNext == TypeOK /\ Placed /\ [Next]_vars => (Quiet \/ Locking)
<1> SUFFICES ASSUME TypeOK, Placed, [Next]_vars PROVE (Quiet \/ Locking)
  OBVIOUS
<1>1. ASSUME NEW k \in Call, NEW a \in App, NEW b \in Brain, Begin(k, a, b) PROVE (Quiet \/ Locking)
  <2>1. (\A j \in Call : j # k => call'[j] = call[j]) /\ call'[k].pc = "create"
    BY <1>1, BeginEffect
  <2> QED
    BY <1>1, <2>1 DEF Begin, Quiet, InSection, Section
<1>2. ASSUME NEW k \in Call, Create(k) PROVE (Quiet \/ Locking)
  BY <1>2 DEF Locking
<1>3. ASSUME NEW k \in Call, Write(k) PROVE (Quiet \/ Locking)
  BY <1>3 DEF Locking
<1>4. ASSUME NEW k \in Call, Read(k) PROVE (Quiet \/ Locking)
  <2>0. call[k].brain \in Brain
    BY <1>4 DEF Read, At, Placed
  <2>1. (\A j \in Call : j # k => call'[j] = call[j]) /\ call'[k].pc \in {"steal", "again", "done"}
    BY <1>4, <2>0, ReadEffect
  <2> QED
    BY <1>4, <2>1 DEF Read, Quiet, InSection, Section
<1>5. ASSUME NEW k \in Call, Steal(k) PROVE (Quiet \/ Locking)
  BY <1>5 DEF Locking
<1>6. ASSUME NEW k \in Call, Drop(k) PROVE (Quiet \/ Locking)
  BY <1>6 DEF Locking
<1>7. ASSUME NEW k \in Call, Reclaim(k) PROVE (Quiet \/ Locking)
  <2>1. /\ \A j \in Call : j # k => call'[j] = call[j]
        /\ call[k].pc \in {"reclaim"} /\ call'[k].pc \in {"forget", "spawn"}
    BY <1>7, GotoEffect DEF Reclaim, At, PC, Section
  <2>2. lock' = lock /\ usurped' = usurped
    BY <1>7 DEF Reclaim
  <2> QED
    BY <2>1, <2>2 DEF Quiet, InSection, Section
<1>8. ASSUME NEW k \in Call, Forget(k) PROVE (Quiet \/ Locking)
  <2>1. /\ \A j \in Call : j # k => call'[j] = call[j]
        /\ call[k].pc \in {"forget"} /\ call'[k].pc \in {"spawn"}
    BY <1>8, GotoEffect DEF Forget, At, PC, Section
  <2>2. lock' = lock /\ usurped' = usurped
    BY <1>8 DEF Forget
  <2> QED
    BY <2>1, <2>2 DEF Quiet, InSection, Section
<1>9. ASSUME NEW k \in Call, Spawn(k) PROVE (Quiet \/ Locking)
  <2>1. call[k].app \in App /\ call[k].pc = "spawn" /\ lock' = lock /\ usurped' = usurped
    BY <1>9 DEF Spawn, At, Placed
  <2>2. PICK c \in Sidecar \cup {None} : Spawns(k, c, "wait", "check")
    BY <1>9, <2>1, SpawnEffect DEF Spawn, At, PC, Section
  <2>3. /\ \A j \in Call : j # k => call'[j] = call[j]
        /\ call'[k].pc \in {"wait", "check"}
    BY <2>2 DEF Spawns
  <2>4. \A d \in Sidecar : side'[d].told => side[d].told
    BY <2>2 DEF Spawns
  <2> QED
    BY <2>1, <2>3, <2>4 DEF Quiet, InSection, Section
<1>10. ASSUME NEW k \in Call, Ready(k) PROVE (Quiet \/ Locking)
  <2>1. /\ \A j \in Call : j # k => call'[j] = call[j]
        /\ call[k].pc \in {"wait", "rewait"} /\ call'[k].pc \in {"record"}
    BY <1>10, GotoEffect DEF Ready, At, PC, Section
  <2>2. lock' = lock /\ usurped' = usurped
    BY <1>10 DEF Ready
  <2> QED
    BY <2>1, <2>2 DEF Quiet, InSection, Section
<1>11. ASSUME NEW k \in Call, TimedOut(k) PROVE (Quiet \/ Locking)
  <2>1. /\ \A j \in Call : j # k => call'[j] = call[j]
        /\ call[k].pc \in {"wait", "rewait"} /\ call'[k].pc \in {"check", "drop"}
    BY <1>11, GotoEffect DEF TimedOut, At, PC, Section
  <2>2. lock' = lock /\ usurped' = usurped
    BY <1>11 DEF TimedOut
  <2> QED
    BY <2>1, <2>2 DEF Quiet, InSection, Section
<1>12. ASSUME NEW k \in Call, Record(k) PROVE (Quiet \/ Locking)
  <2>1. /\ \A j \in Call : j # k => call'[j] = call[j]
        /\ call[k].pc \in {"record"} /\ call'[k].pc \in {"drop"}
    BY <1>12, GotoEffect DEF Record, At, PC, Section
  <2>2. lock' = lock /\ usurped' = usurped
    BY <1>12 DEF Record
  <2> QED
    BY <2>1, <2>2 DEF Quiet, InSection, Section
<1>13. ASSUME NEW k \in Call, Check(k) PROVE (Quiet \/ Locking)
  <2>1. /\ \A j \in Call : j # k => call'[j] = call[j]
        /\ call[k].pc \in {"check"} /\ call'[k].pc \in {"respawn", "drop"}
    BY <1>13, GotoEffect DEF Check, At, PC, Section
  <2>2. lock' = lock /\ usurped' = usurped
    BY <1>13 DEF Check
  <2> QED
    BY <2>1, <2>2 DEF Quiet, InSection, Section
<1>14. ASSUME NEW k \in Call, Respawn(k) PROVE (Quiet \/ Locking)
  <2>1. call[k].app \in App /\ call[k].pc = "respawn" /\ lock' = lock /\ usurped' = usurped
    BY <1>14 DEF Respawn, At, Placed
  <2>2. PICK c \in Sidecar \cup {None} : Spawns(k, c, "rewait", "drop")
    BY <1>14, <2>1, SpawnEffect DEF Respawn, At, PC, Section
  <2>3. /\ \A j \in Call : j # k => call'[j] = call[j]
        /\ call'[k].pc \in {"rewait", "drop"}
    BY <2>2 DEF Spawns
  <2>4. \A d \in Sidecar : side'[d].told => side[d].told
    BY <2>2 DEF Spawns
  <2> QED
    BY <2>1, <2>3, <2>4 DEF Quiet, InSection, Section
<1>15. ASSUME NEW a \in App, MarkShuttingDown(a) PROVE (Quiet \/ Locking)
  BY <1>15 DEF MarkShuttingDown, Quiet, InSection, Section
<1>16. ASSUME NEW a \in App, StopForExit(a) PROVE (Quiet \/ Locking)
  BY <1>16, StoppedEffect DEF StopForExit, Quiet, InSection, Section
<1>17. ASSUME NEW a \in App, Exit(a) PROVE (Quiet \/ Locking)
  <2>1. \A j \in Call : IF call[j].app = a THEN call'[j].pc = "done" ELSE call'[j] = call[j]
    BY <1>17, VanishEffect DEF Exit
  <2> QED
    BY <1>17, <2>1 DEF Exit, Quiet, InSection, Section
<1>18. ASSUME NEW a \in App, Crash(a) PROVE (Quiet \/ Locking)
  <2>1. \A j \in Call : IF call[j].app = a THEN call'[j].pc = "done" ELSE call'[j] = call[j]
    BY <1>18, VanishEffect DEF Crash
  <2> QED
    BY <1>18, <2>1 DEF Crash, Quiet, InSection, Section
<1>19. ASSUME NEW a \in App, Wipe(a) PROVE (Quiet \/ Locking)
  BY <1>19, StoppedEffect DEF Wipe, Quiet, InSection, Section
<1>20. ASSUME NEW c \in Sidecar, Serve(c) PROVE (Quiet \/ Locking)
  BY <1>20, ServeEffect DEF Serve, Quiet, InSection, Section
<1>21. ASSUME NEW c \in Sidecar, Die(c) PROVE (Quiet \/ Locking)
  BY <1>21, KilledEffect DEF Die, Quiet, InSection, Section
<1>22. CASE UNCHANGED vars
  BY <1>22 DEF vars, Quiet, InSection, Section
<1> QED
  BY <1>1, <1>2, <1>3, <1>4, <1>5, <1>6, <1>7, <1>8, <1>9, <1>10, <1>11, <1>12, <1>13,
     <1>14, <1>15, <1>16, <1>17, <1>18, <1>19, <1>20, <1>21, <1>22 DEF Next, CallNext, AppNext

LEMMA StillNext == TypeOK /\ Placed /\ [Next]_vars => (Still \/ Recording)
<1> SUFFICES ASSUME TypeOK, Placed, [Next]_vars PROVE (Still \/ Recording)
  OBVIOUS
<1>1. ASSUME NEW k \in Call, NEW a \in App, NEW b \in Brain, Begin(k, a, b) PROVE (Still \/ Recording)
  <2>1. (\A j \in Call : j # k => call'[j] = call[j]) /\ call'[k].pc = "create"
    BY <1>1, BeginEffect
  <2> QED
    BY <1>1, <2>1 DEF Begin, Still, Clearing, Section
<1>2. ASSUME NEW k \in Call, Create(k) PROVE (Still \/ Recording)
  <2>1. /\ \A j \in Call : j # k => call'[j] = call[j]
        /\ call[k].pc \in {"create", "again"} /\ call'[k].pc \in {"write", "read", "done"}
    BY <1>2, GotoEffect, ReturnEffect DEF Create, At, PC, Section
  <2>2. record' = record /\ usurped' = usurped /\ side' = side
    BY <1>2 DEF Create
  <2> QED
    BY <2>1, <2>2 DEF Still, Clearing, Section
<1>3. ASSUME NEW k \in Call, Write(k) PROVE (Still \/ Recording)
  <2>1. /\ \A j \in Call : j # k => call'[j] = call[j]
        /\ call[k].pc \in {"write"} /\ call'[k].pc \in {"reclaim"}
    BY <1>3, GotoEffect DEF Write, At, PC, Section
  <2>2. record' = record /\ usurped' = usurped /\ side' = side
    BY <1>3 DEF Write
  <2> QED
    BY <2>1, <2>2 DEF Still, Clearing, Section
<1>4. ASSUME NEW k \in Call, Read(k) PROVE (Still \/ Recording)
  <2>0. call[k].brain \in Brain
    BY <1>4 DEF Read, At, Placed
  <2>1. (\A j \in Call : j # k => call'[j] = call[j]) /\ call'[k].pc \in {"steal", "again", "done"}
    BY <1>4, <2>0, ReadEffect
  <2> QED
    BY <1>4, <2>1 DEF Read, Still, Clearing, Section
<1>5. ASSUME NEW k \in Call, Steal(k) PROVE (Still \/ Recording)
  <2>0. call[k].brain \in Brain
    BY <1>5 DEF Steal, At, Placed
  <2>1. (\A j \in Call : j # k => call'[j] = call[j]) /\ call'[k].pc \in {"steal", "again", "done"}
    BY <1>5, <2>0, StealEffect
  <2> QED
    BY <1>5, <2>1 DEF Steal, Still, Clearing, Section
<1>6. ASSUME NEW k \in Call, Drop(k) PROVE (Still \/ Recording)
  <2>1. /\ \A j \in Call : j # k => call'[j] = call[j]
        /\ call[k].pc \in {"drop"} /\ call'[k].pc \in {"done"}
    BY <1>6, ReturnEffect DEF Drop, At, PC, Section
  <2>2. record' = record /\ usurped' = usurped /\ side' = side
    BY <1>6 DEF Drop
  <2> QED
    BY <2>1, <2>2 DEF Still, Clearing, Section
<1>7. ASSUME NEW k \in Call, Reclaim(k) PROVE (Still \/ Recording)
  BY <1>7 DEF Recording
<1>8. ASSUME NEW k \in Call, Forget(k) PROVE (Still \/ Recording)
  BY <1>8 DEF Recording
<1>9. ASSUME NEW k \in Call, Spawn(k) PROVE (Still \/ Recording)
  <2>1. call[k].app \in App /\ call[k].pc = "spawn" /\ record' = record /\ usurped' = usurped
    BY <1>9 DEF Spawn, At, Placed
  <2>2. PICK c \in Sidecar \cup {None} : Spawns(k, c, "wait", "check")
    BY <1>9, <2>1, SpawnEffect DEF Spawn, At, PC, Section
  <2>3. /\ \A j \in Call : j # k => call'[j] = call[j]
        /\ call'[k].pc \in {"wait", "check"}
    BY <2>2 DEF Spawns
  <2>4. \A d \in Sidecar : side'[d].told => side[d].told
    BY <2>2 DEF Spawns
  <2> QED
    BY <2>1, <2>3, <2>4 DEF Still, Clearing, Section
<1>10. ASSUME NEW k \in Call, Ready(k) PROVE (Still \/ Recording)
  <2>1. /\ \A j \in Call : j # k => call'[j] = call[j]
        /\ call[k].pc \in {"wait", "rewait"} /\ call'[k].pc \in {"record"}
    BY <1>10, GotoEffect DEF Ready, At, PC, Section
  <2>2. record' = record /\ usurped' = usurped /\ side' = side
    BY <1>10 DEF Ready
  <2> QED
    BY <2>1, <2>2 DEF Still, Clearing, Section
<1>11. ASSUME NEW k \in Call, TimedOut(k) PROVE (Still \/ Recording)
  <2>1. /\ \A j \in Call : j # k => call'[j] = call[j]
        /\ call[k].pc \in {"wait", "rewait"} /\ call'[k].pc \in {"check", "drop"}
    BY <1>11, GotoEffect DEF TimedOut, At, PC, Section
  <2>2. record' = record /\ usurped' = usurped /\ side' = side
    BY <1>11 DEF TimedOut
  <2> QED
    BY <2>1, <2>2 DEF Still, Clearing, Section
<1>12. ASSUME NEW k \in Call, Record(k) PROVE (Still \/ Recording)
  BY <1>12 DEF Recording
<1>13. ASSUME NEW k \in Call, Check(k) PROVE (Still \/ Recording)
  <2>1. /\ \A j \in Call : j # k => call'[j] = call[j]
        /\ call[k].pc \in {"check"} /\ call'[k].pc \in {"respawn", "drop"}
    BY <1>13, GotoEffect DEF Check, At, PC, Section
  <2>2. record' = record /\ usurped' = usurped /\ side' = side
    BY <1>13 DEF Check
  <2> QED
    BY <2>1, <2>2 DEF Still, Clearing, Section
<1>14. ASSUME NEW k \in Call, Respawn(k) PROVE (Still \/ Recording)
  <2>1. call[k].app \in App /\ call[k].pc = "respawn" /\ record' = record /\ usurped' = usurped
    BY <1>14 DEF Respawn, At, Placed
  <2>2. PICK c \in Sidecar \cup {None} : Spawns(k, c, "rewait", "drop")
    BY <1>14, <2>1, SpawnEffect DEF Respawn, At, PC, Section
  <2>3. /\ \A j \in Call : j # k => call'[j] = call[j]
        /\ call'[k].pc \in {"rewait", "drop"}
    BY <2>2 DEF Spawns
  <2>4. \A d \in Sidecar : side'[d].told => side[d].told
    BY <2>2 DEF Spawns
  <2> QED
    BY <2>1, <2>3, <2>4 DEF Still, Clearing, Section
<1>15. ASSUME NEW a \in App, MarkShuttingDown(a) PROVE (Still \/ Recording)
  BY <1>15 DEF MarkShuttingDown, Still, Clearing, Section
<1>16. ASSUME NEW a \in App, StopForExit(a) PROVE (Still \/ Recording)
  BY <1>16, StoppedEffect DEF StopForExit, Still, Clearing, Section
<1>17. ASSUME NEW a \in App, Exit(a) PROVE (Still \/ Recording)
  <2>1. \A j \in Call : IF call[j].app = a THEN call'[j].pc = "done" ELSE call'[j] = call[j]
    BY <1>17, VanishEffect DEF Exit
  <2> QED
    BY <1>17, <2>1 DEF Exit, Still, Clearing, Section
<1>18. ASSUME NEW a \in App, Crash(a) PROVE (Still \/ Recording)
  <2>1. \A j \in Call : IF call[j].app = a THEN call'[j].pc = "done" ELSE call'[j] = call[j]
    BY <1>18, VanishEffect DEF Crash
  <2> QED
    BY <1>18, <2>1 DEF Crash, Still, Clearing, Section
<1>19. ASSUME NEW a \in App, Wipe(a) PROVE (Still \/ Recording)
  BY <1>19, StoppedEffect DEF Wipe, Still, Clearing, Section
<1>20. ASSUME NEW c \in Sidecar, Serve(c) PROVE (Still \/ Recording)
  BY <1>20, ServeEffect DEF Serve, Still, Clearing, Section
<1>21. ASSUME NEW c \in Sidecar, Die(c) PROVE (Still \/ Recording)
  BY <1>21, KilledEffect DEF Die, Still, Clearing, Section
<1>22. CASE UNCHANGED vars
  BY <1>22 DEF vars, Still, Clearing, Section
<1> QED
  BY <1>1, <1>2, <1>3, <1>4, <1>5, <1>6, <1>7, <1>8, <1>9, <1>10, <1>11, <1>12, <1>13,
     <1>14, <1>15, <1>16, <1>17, <1>18, <1>19, <1>20, <1>21, <1>22 DEF Next, CallNext, AppNext

LEMMA LockedNext ==
  ASSUME TypeOK, Placed, Locked, Frame, [Next]_vars
  PROVE  Locked'
<1> SUFFICES ASSUME NEW k \in Call, InSection(k)', call'[k].brain \notin usurped'
             PROVE  lock'[call'[k].brain].by = k
  BY DEF Locked
<1>0. \A j \in Call : InSection(j) => /\ call[j].brain \in Brain /\ call'[j].brain = call[j].brain
                                     /\ Running(j)
  BY DEF Placed, Frame, InSection, Section, Running
<1>1. CASE Quiet
  BY <1>0, <1>1 DEF Quiet, Locked
<1>2. ASSUME NEW j \in Call, Create(j) PROVE lock'[call'[k].brain].by = k
  <2>1. /\ \A i \in Call : i # j => call'[i] = call[i]
        /\ call'[j].brain = call[j].brain /\ call[j].brain \in Brain
        /\ IF lock[call[j].brain] = NoFile THEN call'[j].pc = "write" ELSE call'[j].pc \in {"read", "done"}
    BY <1>2, GotoEffect, ReturnEffect DEF Create, At, PC, Section, Placed
  <2>2. CASE k = j
    BY <1>2, <2>1, <2>2 DEF Create, InSection, Section, TypeOK
  <2>3. CASE k # j
    <3>1. InSection(k) /\ lock[call[k].brain].by = k
      BY <1>2, <2>1, <2>3 DEF InSection, Create, Locked
    <3>2. lock[call[k].brain] # NoFile
      BY <3>1, SidecarAssumption DEF NoFile
    <3> QED
      BY <1>0, <1>2, <2>1, <2>3, <3>1, <3>2 DEF Create, TypeOK
  <2> QED
    BY <2>2, <2>3
<1>3. ASSUME NEW j \in Call, Write(j) PROVE lock'[call'[k].brain].by = k
  <2>1. (\A i \in Call : i # j => call'[i] = call[i]) /\ call[j].pc = "write" /\ call'[j].pc = "reclaim"
    BY <1>3, GotoEffect DEF Write, At, PC, Section
  <2>2. InSection(k)
    BY <2>1 DEF InSection, Section
  <2>3. lock[call[k].brain].by = k
    BY <1>0, <1>3, <2>2 DEF Locked, Write
  <2>4. lock'[call[k].brain].by = lock[call[k].brain].by
    <3>1. lock \in [Brain -> LockFile] /\ call[k].brain \in Brain /\ call[j].brain \in Brain
      BY <1>0, <2>1, <2>2 DEF TypeOK, Placed
    <3>2. lock[call[k].brain] \in [by : Call, pid : BOOLEAN]
      BY <2>3, <3>1, SidecarAssumption DEF LockFile, NoFile
    <3> QED
      BY <1>3, <3>1, <3>2 DEF Write
  <2> QED
    BY <1>0, <2>2, <2>3, <2>4
<1>4. ASSUME NEW j \in Call, Steal(j) PROVE lock'[call'[k].brain].by = k
  <2>1. (\A i \in Call : i # j => call'[i] = call[i]) /\ call'[j].pc \in {"again", "done"}
    BY <1>4, StealEffect
  <2>2. InSection(k)
    BY <2>1 DEF InSection, Section
  <2>3. lock[call[k].brain].by = k /\ call[k].brain \notin usurped
    BY <1>0, <1>4, <2>2 DEF Locked, Steal
  <2>4. CASE lock' = lock
    BY <1>0, <2>2, <2>3, <2>4
  <2>5. CASE /\ lock' = [lock EXCEPT ![call[j].brain] = NoFile]
             /\ usurped' = IF lock[call[j].brain].by # None /\ Running(lock[call[j].brain].by)
                           THEN usurped \cup {call[j].brain} ELSE usurped
    <3>1. call[j].brain # call[k].brain
      BY <1>0, <2>2, <2>3, <2>5, SidecarAssumption
    <3> QED
      BY <1>0, <2>2, <2>3, <2>5, <3>1 DEF TypeOK
  <2> QED
    BY <1>4, <2>4, <2>5 DEF Steal
<1>5. ASSUME NEW j \in Call, Drop(j) PROVE lock'[call'[k].brain].by = k
  <2>1. (\A i \in Call : i # j => call'[i] = call[i]) /\ call[j].pc = "drop" /\ call'[j].pc = "done"
    BY <1>5, ReturnEffect DEF Drop, At
  <2>2. k # j /\ InSection(k) /\ InSection(j)
    BY <2>1 DEF InSection, Section
  <2>3. lock[call[k].brain].by = k /\ call[k].brain \notin usurped
    BY <1>0, <1>5, <2>2 DEF Locked, Drop
  <2>4. call[j].brain # call[k].brain
    BY <2>2, <2>3 DEF Locked
  <2> QED
    BY <1>0, <1>5, <2>2, <2>3, <2>4 DEF Drop, TypeOK
<1> QED
  BY <1>1, <1>2, <1>3, <1>4, <1>5, QuietNext DEF Locking

LEMMA Exclusive == Locked => SpawnExclusive
BY DEF Locked, SpawnExclusive

-----------------------------------------------------------------------------
(* The record.                                                             *)

\* A process on record is not a new one.
LEMMA Veteran ==
  ASSUME TypeOK, Placed, Born, Frame, Moves, NEW c \in Sidecar, side[c].told, Lives(c)'
  PROVE  Lives(c) /\ side[c].by # None /\ BrainOf(c) \in Brain /\ BrainOf(c)' = BrainOf(c)
<1>1. side[c].by # None /\ side[c].st # "unborn"
  BY DEF Born
<1>2. Lives(c)
  BY <1>1 DEF Moves, Lasting
<1> QED
  BY <1>1, <1>2, Origin

LEMMA ClearedNext ==
  ASSUME TypeOK, Placed, Born, Kids, Cleared, RecordFindsIt, SpawnExclusive, Frame, Moves, [Next]_vars
  PROVE  Cleared'
<1> SUFFICES ASSUME NEW k \in Call, NEW c \in Sidecar, call'[k].pc \in Clearing,
                    call'[k].brain \notin usurped', side'[c].told, BrainOf(c)' = call'[k].brain,
                    Lives(c)'
             PROVE  FALSE
  BY DEF Cleared, Clearing
<1>1. ASSUME side[c].told, call[k].pc \in Clearing, usurped \subseteq usurped' PROVE FALSE
  <2>1. call'[k].brain = call[k].brain /\ call[k].brain \in Brain
    BY <1>1 DEF Frame, Placed, Clearing, Section
  <2> QED
    BY <1>1, <2>1, Veteran DEF Cleared, Clearing
<1>2. CASE Still
  BY <1>1, <1>2 DEF Still
<1>3. ASSUME NEW j \in Call, Reclaim(j) PROVE FALSE
  <2>1. /\ \A i \in Call : i # j => call'[i] = call[i]
        /\ call[j].pc = "reclaim" /\ call'[j].brain = call[j].brain /\ call[j].brain \in Brain
    BY <1>3, GotoEffect DEF Reclaim, At, PC, Section, Placed
  <2>2. record[call[j].brain] \in Sidecar \cup {None} /\ usurped' = usurped
    BY <1>3, <2>1 DEF Reclaim, TypeOK
  <2>3. side[c].told
    <3>1. CASE side' = side
      BY <3>1
    <3>2. ASSUME NEW r \in Sidecar, side' = Killed(r) PROVE side[c].told
      BY <3>2, KilledEffect
    <3> QED
      BY <1>3, <2>2, <3>1, <3>2 DEF Reclaim
  <2>4. CASE k # j
    BY <1>1, <2>1, <2>2, <2>3, <2>4
  <2>5. CASE k = j
    <3>1. Lives(c) /\ BrainOf(c) = call[j].brain
      BY <2>1, <2>3, <2>5, Veteran
    <3>2. record[call[j].brain] = c
      BY <2>1, <2>2, <2>3, <2>5, <3>1 DEF RecordFindsIt
    <3>3. side' = Killed(c)
      BY <1>3, <3>1, <3>2, SidecarAssumption DEF Reclaim
    <3> QED
      BY <3>3, KilledEffect DEF Lives
  <2> QED
    BY <2>4, <2>5
<1>4. ASSUME NEW j \in Call, Forget(j) PROVE FALSE
  <2>1. (\A i \in Call : i # j => call'[i] = call[i]) /\ call[j].pc = "forget"
    BY <1>4, GotoEffect DEF Forget, At, PC, Section
  <2>2. side' = side /\ usurped' = usurped
    BY <1>4 DEF Forget
  <2> QED
    BY <1>1, <2>1, <2>2 DEF Clearing, Section
<1>5. ASSUME NEW j \in Call, Record(j) PROVE FALSE
  <2>1. /\ \A i \in Call : i # j => call'[i] = call[i]
        /\ call[j].pc = "record" /\ call'[j].pc = "drop" /\ usurped' = usurped
    BY <1>5, GotoEffect DEF Record, At, PC, Section
  <2>2. call[j].kid \in Sidecar /\ side[call[j].kid].by = j
    BY <2>1 DEF Kids
  <2>3. k # j /\ call'[k] = call[k] /\ call[k].pc \in Clearing
    BY <2>1 DEF Clearing
  <2>4. CASE c # call[j].kid
    BY <1>1, <1>5, <2>1, <2>2, <2>3, <2>4, RecordEffect
  <2>5. CASE c = call[j].kid
    <3>1. BrainOf(c)' = call[j].brain
      BY <2>2, <2>5, Origin, SidecarAssumption DEF BrainOf
    <3> QED
      BY <2>1, <2>3, <3>1 DEF SpawnExclusive, InSection, Clearing, Section
  <2> QED
    BY <2>4, <2>5
<1> QED
  BY <1>2, <1>3, <1>4, <1>5, StillNext DEF Recording

LEMMA RecordFindsNext ==
  ASSUME TypeOK, Placed, Born, Kids, Cleared, RecordFindsIt, Frame, Moves, [Next]_vars
  PROVE  RecordFindsIt'
<1> SUFFICES ASSUME NEW c \in Sidecar, Lives(c)', side'[c].told, BrainOf(c)' \notin usurped'
             PROVE  record'[BrainOf(c)'] = c
  BY DEF RecordFindsIt
<1>1. ASSUME side[c].told, usurped \subseteq usurped'
      PROVE  /\ Lives(c) /\ BrainOf(c) \in Brain /\ BrainOf(c)' = BrainOf(c)
             /\ BrainOf(c) \notin usurped /\ record[BrainOf(c)] = c
  BY <1>1, Veteran DEF RecordFindsIt
<1>2. CASE Still
  BY <1>1, <1>2 DEF Still
<1>3. ASSUME NEW j \in Call, Reclaim(j) PROVE record'[BrainOf(c)'] = c
  <2>1. record[call[j].brain] \in Sidecar \cup {None} /\ usurped' = usurped /\ record' = record
    BY <1>3 DEF Reclaim, At, Placed, TypeOK
  <2>2. side[c].told
    <3>1. CASE side' = side
      BY <3>1
    <3>2. ASSUME NEW r \in Sidecar, side' = Killed(r) PROVE side[c].told
      BY <3>2, KilledEffect
    <3> QED
      BY <1>3, <2>1, <3>1, <3>2 DEF Reclaim
  <2> QED
    BY <1>1, <2>1, <2>2
<1>4. ASSUME NEW j \in Call, Forget(j) PROVE record'[BrainOf(c)'] = c
  <2>1. call[j].pc = "forget" /\ side' = side /\ usurped' = usurped
    BY <1>4 DEF Forget, At
  <2>2. BrainOf(c) # call[j].brain
    BY <1>1, <2>1 DEF Cleared, Section
  <2> QED
    BY <1>1, <1>4, <2>1, <2>2 DEF Forget, TypeOK
<1>5. ASSUME NEW j \in Call, Record(j) PROVE record'[BrainOf(c)'] = c
  <2>1. call[j].pc = "record" /\ usurped' = usurped /\ call[j].brain \in Brain
    BY <1>5 DEF Record, At, Placed
  <2>2. call[j].kid \in Sidecar /\ side[call[j].kid].by = j
    BY <2>1 DEF Kids
  <2>3. CASE c = call[j].kid
    <3>1. BrainOf(c)' = call[j].brain
      BY <2>2, <2>3, Origin, SidecarAssumption DEF BrainOf
    <3> QED
      BY <1>5, <2>1, <2>3, <3>1 DEF Record, TypeOK
  <2>4. CASE c # call[j].kid
    <3>1. side[c].told
      BY <1>5, <2>2, <2>4, RecordEffect
    <3>2. BrainOf(c) # call[j].brain
      BY <1>1, <2>1, <3>1 DEF Cleared, Section
    <3> QED
      BY <1>1, <1>5, <2>1, <3>1, <3>2 DEF Record, TypeOK
  <2> QED
    BY <2>3, <2>4
<1> QED
  BY <1>2, <1>3, <1>4, <1>5, StillNext DEF Recording

-----------------------------------------------------------------------------
(* The inductive invariant and the theorems.                               *)

IInv ==
  /\ TypeOK /\ Placed /\ Born /\ Kids /\ OneSidecarPerApp
  /\ Locked /\ Cleared /\ RecordFindsIt /\ LeftLate /\ LateOnce

LEMMA InitIInv == Init => IInv
<1> SUFFICES ASSUME Init PROVE IInv
  OBVIOUS
<1>1. TypeOK /\ Placed
  BY TypeInit
<1>2. Born /\ Kids /\ OneSidecarPerApp
  BY DEF Init, Unborn, NoCall, Born, Kids, OneSidecarPerApp, Lives
<1>3. Locked /\ Cleared /\ RecordFindsIt
  BY DEF Init, Unborn, NoCall, Locked, Cleared, RecordFindsIt, InSection, Section, Lives
<1>4. LeftLate /\ LateOnce
  BY DEF Init, Unborn, LeftLate, LateOnce, Lives
<1> QED
  BY <1>1, <1>2, <1>3, <1>4 DEF IInv

LEMMA NextIInv == IInv /\ [Next]_vars => IInv'
<1> SUFFICES ASSUME IInv, [Next]_vars PROVE IInv'
  OBVIOUS
<1>1. TypeOK' /\ Placed'
  BY TypeNext, PlacedNext DEF IInv
<1>2. Frame /\ Moves
  BY FrameNext, MovesNext DEF IInv
<1>3. Born' /\ Kids' /\ OneSidecarPerApp'
  BY <1>1, <1>2, BornNext, KidsNext, OneNext DEF IInv
<1>4. Locked' /\ Cleared' /\ RecordFindsIt'
  BY <1>2, LockedNext, Exclusive, ClearedNext, RecordFindsNext DEF IInv
<1>5. LeftLate' /\ LateOnce'
  BY <1>1, <1>2, LeftLateNext, LateOnceNext DEF IInv
<1> QED
  BY <1>1, <1>3, <1>4, <1>5 DEF IInv

LEMMA Always == Spec => []IInv
BY InitIInv, NextIInv, PTL DEF Spec

\* Every variable keeps its type.
THEOREM TypeCorrect == Spec => []TypeOK
<1>1. IInv => TypeOK
  BY DEF IInv
<1> QED
  BY <1>1, Always, PTL

\* Of the processes alive, the one an instance has spawned is in its handle, so it has one
\* at most, for any number of instances, calls, brains and faults.
THEOREM OneSidecarEach == Spec => []OneSidecarPerApp
<1>1. IInv => OneSidecarPerApp
  BY DEF IInv
<1> QED
  BY <1>1, Always, PTL

\* The lock file lets one call at a time through, as long as none is taken from a call
\* under way.
THEOREM ExclusiveSection == Spec => []SpawnExclusive
<1>1. IInv => SpawnExclusive
  BY Exclusive DEF IInv
<1> QED
  BY <1>1, Always, PTL

\* What was once found healthy, and lives, is on record.
THEOREM RecordFinds == Spec => []RecordFindsIt
<1>1. IInv => RecordFindsIt
  BY DEF IInv
<1> QED
  BY <1>1, Always, PTL

\* What survives the exit of its instance was spawned during the shutdown, and each call
\* spawns one such process at most.
THEOREM ExitStopsEarlier == Spec => []ExitKills
<1>1. IInv => ExitKills
  BY DEF IInv, LeftLate, LateOnce, ExitKills
<1> QED
  BY <1>1, Always, PTL
=============================================================================
