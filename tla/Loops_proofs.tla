---------------------------- MODULE Loops_proofs ----------------------------
(***************************************************************************)
(* Proofs about the loop registry, for every set of loops and schedulers,  *)
(* every cadence, stop condition and limit.                                *)
(***************************************************************************)
EXTENDS Loops, FiniteSetTheorems, SequenceTheorems, TLAPS

USE LoopAssumption

-----------------------------------------------------------------------------
(* Operators.                                                              *)

\* The delay of markIterationFired is a number of intervals.
LEMMA PowerType == \A n \in Nat : 2 ^ n \in Nat
<1> TAKE n \in Nat
<1>1. IsFiniteSet(1 .. n) /\ Cardinality(1 .. n) = n
  BY FS_Interval
<1>2. IsFiniteSet(SUBSET (1 .. n)) /\ Cardinality(SUBSET (1 .. n)) = 2 ^ n
  BY <1>1, FS_SUBSET
<1> QED
  BY <1>2, FS_CardinalityType

\* The fields of an entry, one at a time.
LEMMA Entries ==
  /\ Absent \in Config /\ Blank \in Config
  /\ \A c \in Config : [c EXCEPT !.enabled = TRUE] \in Config /\ [c EXCEPT !.enabled = FALSE] \in Config
  /\ \A c \in Config, n \in Nat : [c EXCEPT !.next = n] \in Config
  /\ \A c \in Config, n \in Nat : [c EXCEPT !.count = n] \in Config
  /\ \A c \in Config, n \in 0 .. Threshold : [c EXCEPT !.trust = n] \in Config
<1>1. Absent \in Config
  BY DEF Absent, Config
<1>2. Blank \in Config
  <2>1. \A c \in Config : [c EXCEPT !.known = TRUE] \in Config
    BY DEF Config
  <2> QED
    BY <1>1, <2>1 DEF Blank
<1>3. \A c \in Config : [c EXCEPT !.enabled = TRUE] \in Config /\ [c EXCEPT !.enabled = FALSE] \in Config
  BY DEF Config
<1>4. \A c \in Config, n \in Nat : [c EXCEPT !.next = n] \in Config
  BY DEF Config
<1>5. \A c \in Config, n \in Nat : [c EXCEPT !.count = n] \in Config
  BY DEF Config
<1>6. \A c \in Config, n \in 0 .. Threshold : [c EXCEPT !.trust = n] \in Config
  BY DEF Config
<1> QED
  BY <1>1, <1>2, <1>3, <1>4, <1>5, <1>6

\* A copy of an entry that an operation patches is an entry.
LEMMA PatchedType == \A e \in Edit, c \in Config : Patched(e, c) \in Config
<1> TAKE e \in Edit, c \in Config
<1> DEFINE d == IF c.known THEN c ELSE Blank
           more == IF c.trust < Threshold THEN c.trust + 1 ELSE c.trust
           less == IF c.trust = Threshold THEN 0 ELSE c.trust
<1>1. d \in Config
  BY Entries
<1>2. [d EXCEPT !.enabled = FALSE, !.next = 0] \in Config
  <2> HIDE DEF d
  <2> QED
    BY <1>1, Entries
<1>3. more \in 0 .. Threshold /\ less \in 0 .. Threshold
  BY DEF Config
<1>4. [c EXCEPT !.trust = more] \in Config /\ [c EXCEPT !.trust = less] \in Config
  <2> HIDE DEF more, less
  <2> QED
    BY <1>3, Entries
<1>5. Patched(e, c) \in {[d EXCEPT !.enabled = FALSE, !.next = 0], [c EXCEPT !.trust = more],
                        [c EXCEPT !.trust = less], c}
  BY DEF Patched
<1> QED
  BY <1>2, <1>4, <1>5

\* The empty operation and a fresh one are operations.
LEMMA OpType ==
  /\ Idle \in JobType
  /\ \A e \in Edit, l \in Loop, st \in Place : Op(e, l, st) \in JobType
<1>1. Nobody \in Loop
  BY DEF Nobody
<1>2. Nothing \in [Loop -> Config] /\ Absent \in Config
  BY DEF Nothing, Absent, Config
<1>3. Idle \in JobType
  BY <1>1, <1>2 DEF Idle, JobType
<1> QED
  BY <1>3 DEF Op, JobType

\* What an operation writes is a file.
LEMMA OutputType ==
  ASSUME NEW j \in JobType, NEW f \in [Loop -> Config], now \in Nat
  PROVE  Output(j, f) \in [Loop -> Config]
<1>1. Loaded(f) \in [Loop -> Config]
  BY DEF Loaded, Overdue, Config
<1>2. Written(j, f[j.loop]) \in Config
  <2> DEFINE c == f[j.loop]
  <2>1. c \in Config /\ j.cfg \in Config /\ j.wait \in Nat /\ j.loop \in Loop
    BY DEF JobType
  <2> HIDE DEF c
  <2>2. c.count + 1 \in Nat /\ now + j.wait \in Nat /\ now + Cadence[j.loop] \in Nat
    BY <2>1 DEF Config
  <2>3. [c EXCEPT !.count = @ + 1, !.next = now + j.wait] \in Config
    BY <2>1, <2>2, Entries
  <2>4. [c EXCEPT !.enabled = TRUE, !.next = now + Cadence[j.loop]] \in Config
    BY <2>1, <2>2, Entries
  <2> QED
    BY <2>1, <2>3, <2>4, Entries DEF Written, c
<1> QED
  BY <1>1, <1>2 DEF Output
\* A loop that is created is an entry; so is what the store keeps of an operation.
LEMMA FreshType == now \in Nat => \A l \in Loop : Fresh(l) \in Config
<1> SUFFICES ASSUME now \in Nat, NEW l \in Loop PROVE Fresh(l) \in Config
  OBVIOUS
<1>1. now + Cadence[l] \in Nat
  OBVIOUS
<1> QED
  BY <1>1, Entries DEF Fresh

LEMMA ReturnType ==
  ASSUME NEW j \in JobType, Return(j), copy \in [Loop -> Config]
  PROVE  copy' \in [Loop -> Config]
<1>1. j.loop \in Loop /\ j.cfg \in Config
  BY DEF JobType
<1>2. CASE j.edit = "enable"
  BY <1>1, <1>2, Entries DEF Return
<1>3. CASE j.edit = "pause"
  BY <1>1, <1>3, Entries DEF Return
<1>4. CASE j.edit \notin {"enable", "pause"}
  BY <1>1, <1>4 DEF Return
<1> QED
  BY <1>2, <1>3, <1>4

\* The tick of an idle scheduler, and what a tick computes.
LEMMA NoTickType == NoTick \in TickType
BY DEF NoTick, TickType, Nobody

LEMMA StreakType == child \in Seq(Iteration) => \A l \in Loop : Streak(l) \in Nat
<1> SUFFICES ASSUME child \in Seq(Iteration), NEW l \in Loop PROVE Streak(l) \in Nat
  OBVIOUS
<1>1. IsFiniteSet(1 .. Len(child)) /\ DOMAIN child = 1 .. Len(child)
  BY FS_Interval
<1>2. {j \in Runs(l) : \A i \in Runs(l) : i = j \/ Newer(i, j) => child[i].state = "failed"} \subseteq 1 .. Len(child)
  BY <1>1 DEF Runs
<1> QED
  BY <1>1, <1>2, FS_Subset, FS_CardinalityType DEF Streak

LEMMA DelayType ==
  ASSUME tick \in [Mount -> TickType], NEW s \in Mount, NEW l \in Loop
  PROVE  Delay(s, l) \in Nat
<1> DEFINE k == IF tick[s].streak[l] < FailLimit THEN tick[s].streak[l] ELSE FailLimit
<1>1. k \in Nat
  BY DEF TickType
<1>2. 2 ^ k \in Nat
  <2> HIDE DEF k
  <2> QED
    BY <1>1, PowerType
<1> DEFINE p == 2 ^ k
<1>3. Cadence[l] * p \in Nat
  <2> HIDE DEF p
  <2>1. p \in Nat
    BY <1>2 DEF p
  <2> QED
    BY <2>1
<1> QED
  BY <1>3 DEF Delay

-----------------------------------------------------------------------------
(* Types.                                                                  *)

Clock    == now \in Nat /\ edits \in Nat /\ last \in [Mount -> Nat]
Registry == file \in [Loop -> Config] /\ copy \in [Loop -> Config]
Anchors  == anchor \in [Loop -> {"none", "live", "over", "gone"}]
Missions == child \in Seq(Iteration)
Mounts   == mount \in [Mount -> {"new", "up", "stopped"}]
Ticks    == tick \in [Mount -> TickType]
Jobs     == job \in [Actor -> JobType]
Cleanly  == clean \in BOOLEAN
Past ==
  /\ wanted \in [Loop -> {"none", "on", "off", "gone"}] /\ rest \in [Loop -> Nat]
  /\ lost \in [Loop -> Nat] /\ late \in [Loop -> Nat]

\* The steps of Next.
LEMMA Steps ==
  ASSUME [Next]_vars
  PROVE  \/ \E a \in Actor : Get(a)
         \/ \E a \in Actor : Read(a)
         \/ \E a \in Actor : Write(a)
         \/ \E s \in Mount : Begin(s)
         \/ \E s \in Mount : Stop(s)
         \/ \E s \in Mount : TickStarts(s)
         \/ \E s \in Mount : TickReads(s)
         \/ \E s \in Mount : TickHalts(s)
         \/ \E s \in Mount : TickTakes(s)
         \/ \E s \in Mount : TickFires(s)
         \/ \E s \in Mount : TickEnds(s)
         \/ \E e \in Editor, l \in Loop : Create(e, l)
         \/ \E e \in Editor, l \in Loop : Simple(e, l)
         \/ \E e \in Editor, l \in Loop : Skip(e, l)
         \/ \E e \in Editor, l \in Loop : Retire(e, l)
         \/ \E e \in Editor, l \in Loop : Sweep(e, l)
         \/ \E l \in Loop : AnchorEnds(l)
         \/ \E e \in Editor, i \in DOMAIN child : ChildEnds(e, i)
         \/ Crash
         \/ Advance
         \/ UNCHANGED vars
BY Zenon DEF Next, FileStep, TickStep
\* The clock, the edits and the intervals are counted.
LEMMA ClockNext ==
  ASSUME Clock, [Next]_vars
  PROVE  Clock'
<1>1. ASSUME NEW a \in Actor, Get(a) PROVE Clock'
  BY <1>1 DEF Get, store, history, Clock
<1>2. ASSUME NEW a \in Actor, Read(a) PROVE Clock'
  BY <1>2 DEF Read, store, history, Clock
<1>3. ASSUME NEW a \in Actor, Write(a) PROVE Clock'
  BY <1>3 DEF Write, store, history, Clock
<1>4. ASSUME NEW s \in Mount, Begin(s) PROVE Clock'
  BY <1>4 DEF Begin, store, history, Clock
<1>5. ASSUME NEW s \in Mount, Stop(s) PROVE Clock'
  BY <1>5 DEF Stop, store, history, Clock
<1>6. ASSUME NEW s \in Mount, TickStarts(s) PROVE Clock'
  BY <1>6 DEF TickStarts, store, history, Clock
<1>7. ASSUME NEW s \in Mount, TickReads(s) PROVE Clock'
  BY <1>7 DEF TickReads, store, history, Clock
<1>8. ASSUME NEW s \in Mount, TickHalts(s) PROVE Clock'
  BY <1>8 DEF TickHalts, store, history, Clock
<1>9. ASSUME NEW s \in Mount, TickTakes(s) PROVE Clock'
  BY <1>9 DEF TickTakes, store, history, Clock
<1>10. ASSUME NEW s \in Mount, TickFires(s) PROVE Clock'
  BY <1>10 DEF TickFires, store, history, Clock
<1>11. ASSUME NEW s \in Mount, TickEnds(s) PROVE Clock'
  BY <1>11 DEF TickEnds, store, history, Clock
<1>12. ASSUME NEW e \in Editor, NEW l \in Loop, Create(e, l) PROVE Clock'
  BY <1>12 DEF Create, store, history, Clock
<1>13. ASSUME NEW e \in Editor, NEW l \in Loop, Simple(e, l) PROVE Clock'
  BY <1>13 DEF Simple, store, history, Clock, Edited
<1>14. ASSUME NEW e \in Editor, NEW l \in Loop, Skip(e, l) PROVE Clock'
  BY <1>14 DEF Skip, store, history, Clock, Edited
<1>15. ASSUME NEW e \in Editor, NEW l \in Loop, Retire(e, l) PROVE Clock'
  BY <1>15 DEF Retire, store, history, Clock, Edited
<1>16. ASSUME NEW e \in Editor, NEW l \in Loop, Sweep(e, l) PROVE Clock'
  BY <1>16 DEF Sweep, store, history, Clock
<1>17. ASSUME NEW l \in Loop, AnchorEnds(l) PROVE Clock'
  BY <1>17 DEF AnchorEnds, store, history, Clock
<1>18. ASSUME NEW e \in Editor, NEW i \in DOMAIN child, ChildEnds(e, i) PROVE Clock'
  BY <1>18 DEF ChildEnds, store, history, Clock
<1>19. CASE Crash
  BY <1>19 DEF Crash, store, history, Clock
<1>20. CASE Advance
  BY <1>20 DEF Advance, store, history, Clock
<1>21. CASE UNCHANGED vars
  BY <1>21 DEF vars, store, history, Clock
<1> QED
  BY <1>1, <1>2, <1>3, <1>4, <1>5, <1>6, <1>7, <1>8, <1>9, <1>10, <1>11, <1>12, <1>13, <1>14, <1>15, <1>16, <1>17, <1>18, <1>19, <1>20, <1>21, Steps

\* clean is Boolean.
LEMMA CleanNext ==
  ASSUME Cleanly, [Next]_vars
  PROVE  Cleanly'
<1>1. ASSUME NEW a \in Actor, Get(a) PROVE Cleanly'
  BY Zenon, <1>1 DEF Get, store, history, Cleanly
<1>2. ASSUME NEW a \in Actor, Read(a) PROVE Cleanly'
  BY Zenon, <1>2 DEF Read, store, history, Cleanly
<1>3. ASSUME NEW a \in Actor, Write(a) PROVE Cleanly'
  BY Zenon, <1>3 DEF Write, store, history, Cleanly
<1>4. ASSUME NEW s \in Mount, Begin(s) PROVE Cleanly'
  BY Zenon, <1>4 DEF Begin, store, history, Cleanly
<1>5. ASSUME NEW s \in Mount, Stop(s) PROVE Cleanly'
  BY Zenon, <1>5 DEF Stop, store, history, Cleanly
<1>6. ASSUME NEW s \in Mount, TickStarts(s) PROVE Cleanly'
  BY Zenon, <1>6 DEF TickStarts, store, history, Cleanly
<1>7. ASSUME NEW s \in Mount, TickReads(s) PROVE Cleanly'
  BY Zenon, <1>7 DEF TickReads, store, history, Cleanly
<1>8. ASSUME NEW s \in Mount, TickHalts(s) PROVE Cleanly'
  BY Zenon, <1>8 DEF TickHalts, store, history, Cleanly
<1>9. ASSUME NEW s \in Mount, TickTakes(s) PROVE Cleanly'
  BY Zenon, <1>9 DEF TickTakes, store, history, Cleanly
<1>10. ASSUME NEW s \in Mount, TickFires(s) PROVE Cleanly'
  BY Zenon, <1>10 DEF TickFires, store, history, Cleanly
<1>11. ASSUME NEW s \in Mount, TickEnds(s) PROVE Cleanly'
  BY Zenon, <1>11 DEF TickEnds, store, history, Cleanly
<1>12. ASSUME NEW e \in Editor, NEW l \in Loop, Create(e, l) PROVE Cleanly'
  BY Zenon, <1>12 DEF Create, store, history, Cleanly
<1>13. ASSUME NEW e \in Editor, NEW l \in Loop, Simple(e, l) PROVE Cleanly'
  BY Zenon, <1>13 DEF Simple, store, history, Cleanly
<1>14. ASSUME NEW e \in Editor, NEW l \in Loop, Skip(e, l) PROVE Cleanly'
  BY Zenon, <1>14 DEF Skip, store, history, Cleanly
<1>15. ASSUME NEW e \in Editor, NEW l \in Loop, Retire(e, l) PROVE Cleanly'
  BY Zenon, <1>15 DEF Retire, store, history, Cleanly
<1>16. ASSUME NEW e \in Editor, NEW l \in Loop, Sweep(e, l) PROVE Cleanly'
  BY Zenon, <1>16 DEF Sweep, store, history, Cleanly
<1>17. ASSUME NEW l \in Loop, AnchorEnds(l) PROVE Cleanly'
  BY Zenon, <1>17 DEF AnchorEnds, store, history, Cleanly
<1>18. ASSUME NEW e \in Editor, NEW i \in DOMAIN child, ChildEnds(e, i) PROVE Cleanly'
  BY Zenon, <1>18 DEF ChildEnds, store, history, Cleanly
<1>19. CASE Crash
  BY Zenon, <1>19 DEF Crash, store, history, Cleanly
<1>20. CASE Advance
  BY Zenon, <1>20 DEF Advance, store, history, Cleanly
<1>21. CASE UNCHANGED vars
  BY Zenon, <1>21 DEF vars, store, history, Cleanly
<1> QED
  BY Zenon, <1>1, <1>2, <1>3, <1>4, <1>5, <1>6, <1>7, <1>8, <1>9, <1>10, <1>11, <1>12, <1>13, <1>14, <1>15, <1>16, <1>17, <1>18, <1>19, <1>20, <1>21, Steps

\* An anchor mission keeps its place.
LEMMA AnchorsNext ==
  ASSUME Anchors, Jobs, [Next]_vars
  PROVE  Anchors'
<1>1. ASSUME NEW a \in Actor, Get(a) PROVE Anchors'
  BY <1>1 DEF Get, store, history, Anchors
<1>2. ASSUME NEW a \in Actor, Read(a) PROVE Anchors'
  BY <1>2 DEF Read, store, history, Anchors, Return, Jobs, JobType
<1>3. ASSUME NEW a \in Actor, Write(a) PROVE Anchors'
  BY <1>3 DEF Write, store, history, Anchors, Return, Jobs, JobType
<1>4. ASSUME NEW s \in Mount, Begin(s) PROVE Anchors'
  BY <1>4 DEF Begin, store, history, Anchors, Edited
<1>5. ASSUME NEW s \in Mount, Stop(s) PROVE Anchors'
  BY <1>5 DEF Stop, store, history, Anchors, Edited
<1>6. ASSUME NEW s \in Mount, TickStarts(s) PROVE Anchors'
  BY <1>6 DEF TickStarts, store, history, Anchors, Edited
<1>7. ASSUME NEW s \in Mount, TickReads(s) PROVE Anchors'
  BY <1>7 DEF TickReads, store, history, Anchors, Edited
<1>8. ASSUME NEW s \in Mount, TickHalts(s) PROVE Anchors'
  BY <1>8 DEF TickHalts, store, history, Anchors, Edited
<1>9. ASSUME NEW s \in Mount, TickTakes(s) PROVE Anchors'
  BY <1>9 DEF TickTakes, store, history, Anchors, Edited
<1>10. ASSUME NEW s \in Mount, TickFires(s) PROVE Anchors'
  BY <1>10 DEF TickFires, store, history, Anchors, Edited
<1>11. ASSUME NEW s \in Mount, TickEnds(s) PROVE Anchors'
  BY <1>11 DEF TickEnds, store, history, Anchors, Edited
<1>12. ASSUME NEW e \in Editor, NEW l \in Loop, Create(e, l) PROVE Anchors'
  BY <1>12 DEF Create, store, history, Anchors, Edited
<1>13. ASSUME NEW e \in Editor, NEW l \in Loop, Simple(e, l) PROVE Anchors'
  BY <1>13 DEF Simple, store, history, Anchors, Edited
<1>14. ASSUME NEW e \in Editor, NEW l \in Loop, Skip(e, l) PROVE Anchors'
  BY <1>14 DEF Skip, store, history, Anchors, Edited
<1>15. ASSUME NEW e \in Editor, NEW l \in Loop, Retire(e, l) PROVE Anchors'
  BY <1>15 DEF Retire, store, history, Anchors, Edited
<1>16. ASSUME NEW e \in Editor, NEW l \in Loop, Sweep(e, l) PROVE Anchors'
  BY <1>16 DEF Sweep, store, history, Anchors, Edited
<1>17. ASSUME NEW l \in Loop, AnchorEnds(l) PROVE Anchors'
  BY <1>17 DEF AnchorEnds, store, history, Anchors, Edited
<1>18. ASSUME NEW e \in Editor, NEW i \in DOMAIN child, ChildEnds(e, i) PROVE Anchors'
  BY <1>18 DEF ChildEnds, store, history, Anchors, Edited
<1>19. CASE Crash
  BY <1>19 DEF Crash, store, history, Anchors, Edited
<1>20. CASE Advance
  BY <1>20 DEF Advance, store, history, Anchors, Edited
<1>21. CASE UNCHANGED vars
  BY <1>21 DEF vars, store, history, Anchors
<1> QED
  BY <1>1, <1>2, <1>3, <1>4, <1>5, <1>6, <1>7, <1>8, <1>9, <1>10, <1>11, <1>12, <1>13, <1>14, <1>15, <1>16, <1>17, <1>18, <1>19, <1>20, <1>21, Steps

\* A scheduler is new, up or stopped.
LEMMA MountsNext ==
  ASSUME Mounts, [Next]_vars
  PROVE  Mounts'
<1>1. ASSUME NEW a \in Actor, Get(a) PROVE Mounts'
  BY <1>1 DEF Get, store, history, Mounts
<1>2. ASSUME NEW a \in Actor, Read(a) PROVE Mounts'
  BY <1>2 DEF Read, store, history, Mounts
<1>3. ASSUME NEW a \in Actor, Write(a) PROVE Mounts'
  BY <1>3 DEF Write, store, history, Mounts
<1>4. ASSUME NEW s \in Mount, Begin(s) PROVE Mounts'
  BY <1>4 DEF Begin, store, history, Mounts
<1>5. ASSUME NEW s \in Mount, Stop(s) PROVE Mounts'
  BY <1>5 DEF Stop, store, history, Mounts
<1>6. ASSUME NEW s \in Mount, TickStarts(s) PROVE Mounts'
  BY <1>6 DEF TickStarts, store, history, Mounts
<1>7. ASSUME NEW s \in Mount, TickReads(s) PROVE Mounts'
  BY <1>7 DEF TickReads, store, history, Mounts
<1>8. ASSUME NEW s \in Mount, TickHalts(s) PROVE Mounts'
  BY <1>8 DEF TickHalts, store, history, Mounts
<1>9. ASSUME NEW s \in Mount, TickTakes(s) PROVE Mounts'
  BY <1>9 DEF TickTakes, store, history, Mounts
<1>10. ASSUME NEW s \in Mount, TickFires(s) PROVE Mounts'
  BY <1>10 DEF TickFires, store, history, Mounts
<1>11. ASSUME NEW s \in Mount, TickEnds(s) PROVE Mounts'
  BY <1>11 DEF TickEnds, store, history, Mounts
<1>12. ASSUME NEW e \in Editor, NEW l \in Loop, Create(e, l) PROVE Mounts'
  BY <1>12 DEF Create, store, history, Mounts
<1>13. ASSUME NEW e \in Editor, NEW l \in Loop, Simple(e, l) PROVE Mounts'
  BY <1>13 DEF Simple, store, history, Mounts
<1>14. ASSUME NEW e \in Editor, NEW l \in Loop, Skip(e, l) PROVE Mounts'
  BY <1>14 DEF Skip, store, history, Mounts
<1>15. ASSUME NEW e \in Editor, NEW l \in Loop, Retire(e, l) PROVE Mounts'
  BY <1>15 DEF Retire, store, history, Mounts
<1>16. ASSUME NEW e \in Editor, NEW l \in Loop, Sweep(e, l) PROVE Mounts'
  BY <1>16 DEF Sweep, store, history, Mounts
<1>17. ASSUME NEW l \in Loop, AnchorEnds(l) PROVE Mounts'
  BY <1>17 DEF AnchorEnds, store, history, Mounts
<1>18. ASSUME NEW e \in Editor, NEW i \in DOMAIN child, ChildEnds(e, i) PROVE Mounts'
  BY <1>18 DEF ChildEnds, store, history, Mounts
<1>19. CASE Crash
  BY <1>19 DEF Crash, store, history, Mounts
<1>20. CASE Advance
  BY <1>20 DEF Advance, store, history, Mounts
<1>21. CASE UNCHANGED vars
  BY <1>21 DEF vars, store, history, Mounts
<1> QED
  BY <1>1, <1>2, <1>3, <1>4, <1>5, <1>6, <1>7, <1>8, <1>9, <1>10, <1>11, <1>12, <1>13, <1>14, <1>15, <1>16, <1>17, <1>18, <1>19, <1>20, <1>21, Steps

\* The file and the store's copies are entries of loops.
LEMMA RegistryNext ==
  ASSUME Registry, Jobs, Clock, [Next]_vars
  PROVE  Registry'
<1>1. ASSUME NEW a \in Actor, Get(a) PROVE Registry'
  BY <1>1 DEF Get, store, history, Registry
<1>2. ASSUME NEW a \in Actor, Read(a) PROVE Registry'
  <2>1. CASE Pointless(job[a], file)
    <3>1. file' = file /\ Return(job[a])
      BY <1>2, <2>1 DEF Read
    <3>2. copy' \in [Loop -> Config]
      BY <3>1, ReturnType DEF Registry, Jobs
    <3> QED
      BY <3>1, <3>2 DEF Registry
  <2>2. CASE ~Pointless(job[a], file)
    BY <1>2, <2>2 DEF Read, store, Registry
  <2> QED
    BY <2>1, <2>2
<1>3. ASSUME NEW a \in Actor, Write(a) PROVE Registry'
  <2>1. file' = job[a].out /\ Return(job[a]) /\ job[a] \in JobType
    BY <1>3 DEF Write, Jobs
  <2>2. copy' \in [Loop -> Config]
    BY <2>1, ReturnType DEF Registry
  <2> QED
    BY <2>1, <2>2 DEF Registry, JobType
<1>4. ASSUME NEW s \in Mount, Begin(s) PROVE Registry'
  BY <1>4 DEF Begin, store, history, Registry
<1>5. ASSUME NEW s \in Mount, Stop(s) PROVE Registry'
  BY <1>5 DEF Stop, store, history, Registry
<1>6. ASSUME NEW s \in Mount, TickStarts(s) PROVE Registry'
  BY <1>6 DEF TickStarts, store, history, Registry
<1>7. ASSUME NEW s \in Mount, TickReads(s) PROVE Registry'
  BY <1>7 DEF TickReads, store, history, Registry
<1>8. ASSUME NEW s \in Mount, TickHalts(s) PROVE Registry'
  BY <1>8 DEF TickHalts, store, history, Registry
<1>9. ASSUME NEW s \in Mount, TickTakes(s) PROVE Registry'
  BY <1>9 DEF TickTakes, store, history, Registry
<1>10. ASSUME NEW s \in Mount, TickFires(s) PROVE Registry'
  BY <1>10 DEF TickFires, store, history, Registry
<1>11. ASSUME NEW s \in Mount, TickEnds(s) PROVE Registry'
  BY <1>11 DEF TickEnds, store, history, Registry
<1>12. ASSUME NEW e \in Editor, NEW l \in Loop, Create(e, l) PROVE Registry'
  <2>1. Fresh(l) \in Config
    BY FreshType DEF Clock
  <2> QED
    BY <1>12, <2>1 DEF Create, Registry
<1>13. ASSUME NEW e \in Editor, NEW l \in Loop, Simple(e, l) PROVE Registry'
  BY <1>13 DEF Simple, store, history, Registry
<1>14. ASSUME NEW e \in Editor, NEW l \in Loop, Skip(e, l) PROVE Registry'
  BY <1>14 DEF Skip, store, history, Registry
<1>15. ASSUME NEW e \in Editor, NEW l \in Loop, Retire(e, l) PROVE Registry'
  BY <1>15 DEF Retire, store, history, Registry
<1>16. ASSUME NEW e \in Editor, NEW l \in Loop, Sweep(e, l) PROVE Registry'
  BY <1>16 DEF Sweep, store, history, Registry
<1>17. ASSUME NEW l \in Loop, AnchorEnds(l) PROVE Registry'
  BY <1>17 DEF AnchorEnds, store, history, Registry
<1>18. ASSUME NEW e \in Editor, NEW i \in DOMAIN child, ChildEnds(e, i) PROVE Registry'
  BY <1>18 DEF ChildEnds, store, history, Registry
<1>19. CASE Crash
  BY <1>19 DEF Crash, store, history, Registry
<1>20. CASE Advance
  BY <1>20 DEF Advance, store, history, Registry
<1>21. CASE UNCHANGED vars
  BY <1>21 DEF vars, store, history, Registry
<1> QED
  BY <1>1, <1>2, <1>3, <1>4, <1>5, <1>6, <1>7, <1>8, <1>9, <1>10, <1>11, <1>12, <1>13, <1>14, <1>15, <1>16, <1>17, <1>18, <1>19, <1>20, <1>21, Steps

\* The iterations are missions.
LEMMA MissionsNext ==
  ASSUME Missions, Ticks, [Next]_vars
  PROVE  Missions'
<1>1. ASSUME NEW a \in Actor, Get(a) PROVE Missions'
  BY <1>1 DEF Get, store, history, Missions
<1>2. ASSUME NEW a \in Actor, Read(a) PROVE Missions'
  BY <1>2 DEF Read, store, history, Missions
<1>3. ASSUME NEW a \in Actor, Write(a) PROVE Missions'
  BY <1>3 DEF Write, store, history, Missions
<1>4. ASSUME NEW s \in Mount, Begin(s) PROVE Missions'
  BY <1>4 DEF Begin, store, history, Missions
<1>5. ASSUME NEW s \in Mount, Stop(s) PROVE Missions'
  BY <1>5 DEF Stop, store, history, Missions
<1>6. ASSUME NEW s \in Mount, TickStarts(s) PROVE Missions'
  BY <1>6 DEF TickStarts, store, history, Missions
<1>7. ASSUME NEW s \in Mount, TickReads(s) PROVE Missions'
  BY <1>7 DEF TickReads, store, history, Missions
<1>8. ASSUME NEW s \in Mount, TickHalts(s) PROVE Missions'
  BY <1>8 DEF TickHalts, store, history, Missions
<1>9. ASSUME NEW s \in Mount, TickTakes(s) PROVE Missions'
  BY <1>9 DEF TickTakes, store, history, Missions
<1>10. ASSUME NEW s \in Mount, TickFires(s) PROVE Missions'
  <2>1. [loop |-> tick[s].cur, iter |-> tick[s].seen[tick[s].cur] + 1, state |-> "run"] \in Iteration
    BY DEF Ticks, TickType, Iteration
  <2> QED
    BY <1>10, <2>1, AppendProperties DEF TickFires, Missions
<1>11. ASSUME NEW s \in Mount, TickEnds(s) PROVE Missions'
  BY <1>11 DEF TickEnds, store, history, Missions
<1>12. ASSUME NEW e \in Editor, NEW l \in Loop, Create(e, l) PROVE Missions'
  BY <1>12 DEF Create, store, history, Missions
<1>13. ASSUME NEW e \in Editor, NEW l \in Loop, Simple(e, l) PROVE Missions'
  BY <1>13 DEF Simple, store, history, Missions
<1>14. ASSUME NEW e \in Editor, NEW l \in Loop, Skip(e, l) PROVE Missions'
  BY <1>14 DEF Skip, store, history, Missions
<1>15. ASSUME NEW e \in Editor, NEW l \in Loop, Retire(e, l) PROVE Missions'
  BY <1>15 DEF Retire, store, history, Missions
<1>16. ASSUME NEW e \in Editor, NEW l \in Loop, Sweep(e, l) PROVE Missions'
  BY <1>16 DEF Sweep, store, history, Missions
<1>17. ASSUME NEW l \in Loop, AnchorEnds(l) PROVE Missions'
  BY <1>17 DEF AnchorEnds, store, history, Missions
<1>18. ASSUME NEW e \in Editor, NEW i \in DOMAIN child, ChildEnds(e, i) PROVE Missions'
  <2>1. PICK state \in Outcome(child[i].loop) : child' = [child EXCEPT ![i].state = state]
    BY <1>18 DEF ChildEnds
  <2>2. state \in {"run", "failed", "done", "passed"}
    BY DEF Outcome
  <2>3. child[i] \in Iteration /\ i \in 1 .. Len(child)
    BY DEF Missions
  <2>4. [child[i] EXCEPT !.state = state] \in Iteration
    BY <2>2, <2>3 DEF Iteration
  <2>5. child' = [child EXCEPT ![i] = [child[i] EXCEPT !.state = state]]
    BY <2>1
  <2> QED
    BY <2>3, <2>4, <2>5, ExceptSeq DEF Missions
<1>19. CASE Crash
  BY <1>19 DEF Crash, store, history, Missions
<1>20. CASE Advance
  BY <1>20 DEF Advance, store, history, Missions
<1>21. CASE UNCHANGED vars
  BY <1>21 DEF vars, store, history, Missions
<1> QED
  BY <1>1, <1>2, <1>3, <1>4, <1>5, <1>6, <1>7, <1>8, <1>9, <1>10, <1>11, <1>12, <1>13, <1>14, <1>15, <1>16, <1>17, <1>18, <1>19, <1>20, <1>21, Steps

\* The history is counted.
LEMMA PastNext ==
  ASSUME Past, Jobs, Ticks, Missions, [Next]_vars
  PROVE  Past'
<1>1. ASSUME NEW a \in Actor, Get(a) PROVE Past'
  BY <1>1 DEF Get, store, history, Past
<1>2. ASSUME NEW a \in Actor, Read(a) PROVE Past'
  BY <1>2 DEF Read, store, history, Past
<1>3. ASSUME NEW a \in Actor, Write(a) PROVE Past'
  <2>1. job[a] \in JobType
    BY DEF Jobs
  <2>2. Wish(job[a]) \in {"none", "on", "off", "gone"}
    BY <2>1 DEF Wish, Past, JobType
  <2>3. job[a].out[job[a].loop].next \in Nat
    BY <2>1 DEF JobType, Config
  <2>4. wanted' \in [Loop -> {"none", "on", "off", "gone"}]
    BY <1>3, <2>2 DEF Write, Past
  <2>5. rest' \in [Loop -> Nat]
    BY <1>3, <2>3 DEF Write, Past
  <2>6. late' \in [Loop -> Nat] /\ lost' = lost
    BY <1>3 DEF Write, Past
  <2> QED
    BY <2>4, <2>5, <2>6 DEF Past
<1>4. ASSUME NEW s \in Mount, Begin(s) PROVE Past'
  BY <1>4 DEF Begin, store, history, Past
<1>5. ASSUME NEW s \in Mount, Stop(s) PROVE Past'
  BY <1>5 DEF Stop, store, history, Past
<1>6. ASSUME NEW s \in Mount, TickStarts(s) PROVE Past'
  BY <1>6 DEF TickStarts, store, history, Past
<1>7. ASSUME NEW s \in Mount, TickReads(s) PROVE Past'
  BY <1>7 DEF TickReads, store, history, Past
<1>8. ASSUME NEW s \in Mount, TickHalts(s) PROVE Past'
  BY <1>8 DEF TickHalts, store, history, Past
<1>9. ASSUME NEW s \in Mount, TickTakes(s) PROVE Past'
  BY <1>9 DEF TickTakes, store, history, Past
<1>10. ASSUME NEW s \in Mount, TickFires(s) PROVE Past'
  <2>1. tick[s].cur \in Loop
    BY DEF Ticks, TickType
  <2>2. late' = late \/ late' = [late EXCEPT ![tick[s].cur] = @ + 1]
    BY <1>10 DEF TickFires
  <2>3. late' \in [Loop -> Nat]
    BY <2>1, <2>2 DEF Past
  <2> QED
    BY <1>10, <2>3 DEF TickFires, Past
<1>11. ASSUME NEW s \in Mount, TickEnds(s) PROVE Past'
  BY <1>11 DEF TickEnds, store, history, Past
<1>12. ASSUME NEW e \in Editor, NEW l \in Loop, Create(e, l) PROVE Past'
  BY <1>12 DEF Create, store, history, Past
<1>13. ASSUME NEW e \in Editor, NEW l \in Loop, Simple(e, l) PROVE Past'
  BY <1>13 DEF Simple, store, history, Past
<1>14. ASSUME NEW e \in Editor, NEW l \in Loop, Skip(e, l) PROVE Past'
  BY <1>14 DEF Skip, store, history, Past
<1>15. ASSUME NEW e \in Editor, NEW l \in Loop, Retire(e, l) PROVE Past'
  BY <1>15 DEF Retire, store, history, Past
<1>16. ASSUME NEW e \in Editor, NEW l \in Loop, Sweep(e, l) PROVE Past'
  BY <1>16 DEF Sweep, store, history, Past
<1>17. ASSUME NEW l \in Loop, AnchorEnds(l) PROVE Past'
  BY <1>17 DEF AnchorEnds, store, history, Past
<1>18. ASSUME NEW e \in Editor, NEW i \in DOMAIN child, ChildEnds(e, i) PROVE Past'
  BY <1>18 DEF ChildEnds, store, history, Past
<1>19. CASE Crash
  <2>1. ASSUME NEW l \in Loop PROVE
          Cardinality({s \in Mount : tick[s].pc = "mark" /\ tick[s].cur = l /\ job[Ticker(s)] = Idle}) \in Nat
    BY FS_Subset, FS_CardinalityType
  <2> QED
    BY <1>19, <2>1 DEF Crash, Past
<1>20. CASE Advance
  BY <1>20 DEF Advance, store, history, Past
<1>21. CASE UNCHANGED vars
  BY <1>21 DEF vars, store, history, Past
<1> QED
  BY <1>1, <1>2, <1>3, <1>4, <1>5, <1>6, <1>7, <1>8, <1>9, <1>10, <1>11, <1>12, <1>13, <1>14, <1>15, <1>16, <1>17, <1>18, <1>19, <1>20, <1>21, Steps

\* The ticks are ticks.
LEMMA TicksNext ==
  ASSUME Ticks, Registry, Missions, [Next]_vars
  PROVE  Ticks'
<1>1. ASSUME NEW a \in Actor, Get(a) PROVE Ticks'
  BY <1>1 DEF Get, store, history, Ticks
<1>2. ASSUME NEW a \in Actor, Read(a) PROVE Ticks'
  BY <1>2 DEF Read, store, history, Ticks
<1>3. ASSUME NEW a \in Actor, Write(a) PROVE Ticks'
  BY <1>3 DEF Write, store, history, Ticks
<1>4. ASSUME NEW s \in Mount, Begin(s) PROVE Ticks'
  BY <1>4 DEF Begin, store, history, Ticks
<1>5. ASSUME NEW s \in Mount, Stop(s) PROVE Ticks'
  BY <1>5 DEF Stop, store, history, Ticks
<1>6. ASSUME NEW s \in Mount, TickStarts(s) PROVE Ticks'
  <2> DEFINE over == {l \in Loop : anchor[l] = "over"}
             streak == [l \in Loop |-> Streak(l)]
             passed == {l \in Loop : Passed(l)}
  <2>1. streak \in [Loop -> Nat] /\ over \in SUBSET Loop /\ passed \in SUBSET Loop
    BY StreakType DEF Missions
  <2>2. tick' = [tick EXCEPT ![s] = [NoTick EXCEPT !.pc = "read", !.over = over, !.streak = streak, !.passed = passed]]
    BY <1>6 DEF TickStarts
  <2> HIDE DEF over, streak, passed
  <2>3. [NoTick EXCEPT !.pc = "read", !.over = over, !.streak = streak, !.passed = passed] \in TickType
    BY <2>1, NoTickType DEF TickType
  <2> QED
    BY <2>2, <2>3 DEF Ticks
<1>7. ASSUME NEW s \in Mount, TickReads(s) PROVE Ticks'
  <2> DEFINE on   == {l \in Loop : file[l].known /\ file[l].enabled}
             halt == {l \in on : \/ l \in tick[s].over
                                 \/ file[l].count >= HardCap
                                 \/ tick[s].streak[l] >= FailLimit}
             due  == {l \in on \ halt : 0 < file[l].next /\ file[l].next <= now}
             seen == [l \in Loop |-> IF l \in due THEN file[l].count ELSE 0]
  <2>1. halt \in SUBSET Loop /\ due \in SUBSET Loop /\ seen \in [Loop -> Nat]
    BY DEF Registry, Config
  <2>2. tick' = [tick EXCEPT ![s].pc = "work", ![s].halting = halt, ![s].due = due, ![s].seen = seen]
    BY <1>7 DEF TickReads
  <2> HIDE DEF on, halt, due, seen
  <2>3. tick[s] \in TickType
    BY DEF Ticks
  <2>4. [tick[s] EXCEPT !.pc = "work", !.halting = halt, !.due = due, !.seen = seen] \in TickType
    BY <2>1, <2>3 DEF TickType
  <2> QED
    BY <2>2, <2>4 DEF Ticks
<1>8. ASSUME NEW s \in Mount, TickHalts(s) PROVE Ticks'
  <2>1. PICK l \in tick[s].halting : tick' = [tick EXCEPT ![s].halting = @ \ {l}]
    BY <1>8 DEF TickHalts
  <2>2. tick[s] \in TickType
    BY DEF Ticks
  <2>3. [tick[s] EXCEPT !.halting = @ \ {l}] \in TickType
    BY <2>2 DEF TickType
  <2>4. tick' = [tick EXCEPT ![s] = [tick[s] EXCEPT !.halting = @ \ {l}]]
    BY <2>1
  <2> QED
    BY <2>3, <2>4 DEF Ticks
<1>9. ASSUME NEW s \in Mount, TickTakes(s) PROVE Ticks'
  <2>1. PICK l \in tick[s].due : \/ tick' = [tick EXCEPT ![s].due = @ \ {l}]
                                 \/ tick' = [tick EXCEPT ![s].due = @ \ {l}, ![s].pc = "mark", ![s].cur = l]
    BY <1>9 DEF TickTakes
  <2>2. tick[s] \in TickType /\ l \in Loop
    BY DEF Ticks, TickType
  <2>3. [tick[s] EXCEPT !.due = @ \ {l}] \in TickType
    BY <2>2 DEF TickType
  <2>4. [tick[s] EXCEPT !.due = @ \ {l}, !.pc = "mark", !.cur = l] \in TickType
    BY <2>2 DEF TickType
  <2>5. tick' = [tick EXCEPT ![s] = [tick[s] EXCEPT !.due = @ \ {l}]]
        \/ tick' = [tick EXCEPT ![s] = [tick[s] EXCEPT !.due = @ \ {l}, !.pc = "mark", !.cur = l]]
    BY <2>1
  <2> QED
    BY <2>3, <2>4, <2>5 DEF Ticks
<1>10. ASSUME NEW s \in Mount, TickFires(s) PROVE Ticks'
  <2>1. tick' = [tick EXCEPT ![s] = [tick[s] EXCEPT !.pc = "work"]]
    BY <1>10 DEF TickFires
  <2>2. tick[s] \in TickType
    BY DEF Ticks
  <2>3. [tick[s] EXCEPT !.pc = "work"] \in TickType
    BY <2>2 DEF TickType
  <2> QED
    BY <2>1, <2>3 DEF Ticks
<1>11. ASSUME NEW s \in Mount, TickEnds(s) PROVE Ticks'
  BY <1>11, NoTickType DEF TickEnds, Ticks
<1>12. ASSUME NEW e \in Editor, NEW l \in Loop, Create(e, l) PROVE Ticks'
  BY <1>12 DEF Create, store, history, Ticks
<1>13. ASSUME NEW e \in Editor, NEW l \in Loop, Simple(e, l) PROVE Ticks'
  BY <1>13 DEF Simple, store, history, Ticks
<1>14. ASSUME NEW e \in Editor, NEW l \in Loop, Skip(e, l) PROVE Ticks'
  BY <1>14 DEF Skip, store, history, Ticks
<1>15. ASSUME NEW e \in Editor, NEW l \in Loop, Retire(e, l) PROVE Ticks'
  BY <1>15 DEF Retire, store, history, Ticks
<1>16. ASSUME NEW e \in Editor, NEW l \in Loop, Sweep(e, l) PROVE Ticks'
  BY <1>16 DEF Sweep, store, history, Ticks
<1>17. ASSUME NEW l \in Loop, AnchorEnds(l) PROVE Ticks'
  BY <1>17 DEF AnchorEnds, store, history, Ticks
<1>18. ASSUME NEW e \in Editor, NEW i \in DOMAIN child, ChildEnds(e, i) PROVE Ticks'
  BY <1>18 DEF ChildEnds, store, history, Ticks
<1>19. CASE Crash
  BY <1>19, NoTickType DEF Crash, Ticks
<1>20. CASE Advance
  BY <1>20 DEF Advance, store, history, Ticks
<1>21. CASE UNCHANGED vars
  BY <1>21 DEF vars, store, history, Ticks
<1> QED
  BY <1>1, <1>2, <1>3, <1>4, <1>5, <1>6, <1>7, <1>8, <1>9, <1>10, <1>11, <1>12, <1>13, <1>14, <1>15, <1>16, <1>17, <1>18, <1>19, <1>20, <1>21, Steps

\* The file operations are operations.
LEMMA JobsNext ==
  ASSUME Jobs, Ticks, Registry, Clock, Missions, [Next]_vars
  PROVE  Jobs'
<1>1. ASSUME NEW a \in Actor, Get(a) PROVE Jobs'
  <2> DEFINE new == Patched(job[a].edit, file[job[a].loop])
  <2>1. \/ job' = [job EXCEPT ![a] = Idle]
        \/ job' = [job EXCEPT ![a].stage = "read", ![a].cfg = new]
    BY <1>1 DEF Get
  <2>2. job[a] \in JobType /\ new \in Config
    <3>1. job[a] \in JobType
      BY DEF Jobs
    <3>2. CASE job[a].edit \in Edit
      BY <3>1, <3>2, PatchedType DEF JobType, Registry
    <3>3. CASE job[a].edit = "none"
      BY <3>1, <3>3 DEF JobType, Registry, Patched, Turning
    <3> QED
      BY <3>1, <3>2, <3>3 DEF JobType
  <2> HIDE DEF new
  <2>3. [job[a] EXCEPT !.stage = "read", !.cfg = new] \in JobType
    BY <2>2 DEF JobType, Place
  <2>4. \/ job' = [job EXCEPT ![a] = Idle]
        \/ job' = [job EXCEPT ![a] = [job[a] EXCEPT !.stage = "read", !.cfg = new]]
    BY <2>1
  <2> QED
    BY <2>3, <2>4, OpType DEF Jobs
<1>2. ASSUME NEW a \in Actor, Read(a) PROVE Jobs'
  <2> DEFINE out == Output(job[a], file)
  <2>1. \/ job' = [job EXCEPT ![a] = Idle]
        \/ job' = [job EXCEPT ![a] = [job[a] EXCEPT !.stage = "write", !.out = out]]
    BY <1>2 DEF Read
  <2>2. job[a] \in JobType
    BY DEF Jobs
  <2>3. out \in [Loop -> Config]
    BY <2>2, OutputType DEF Registry, Clock
  <2> HIDE DEF out
  <2>4. [job[a] EXCEPT !.stage = "write", !.out = out] \in JobType
    BY <2>2, <2>3 DEF JobType, Place
  <2> QED
    BY <2>1, <2>4, OpType DEF Jobs
<1>3. ASSUME NEW a \in Actor, Write(a) PROVE Jobs'
  <2>1. job' = [b \in Actor |-> IF b = a THEN Idle ELSE [job[b] EXCEPT !.stale = @ \/ Holds(job[b])]]
    BY <1>3 DEF Write
  <2>2. ASSUME NEW j \in JobType, NEW st \in BOOLEAN PROVE [j EXCEPT !.stale = st] \in JobType
    BY DEF JobType
  <2>3. ASSUME NEW b \in Actor PROVE [job[b] EXCEPT !.stale = @ \/ Holds(job[b])] \in JobType
    <3>1. job[b] \in JobType
      BY DEF Jobs
    <3>2. (job[b].stale \/ Holds(job[b])) \in BOOLEAN
      BY Zenon
    <3> QED
      BY <2>2, <3>1, <3>2
  <2> QED
    BY <2>1, <2>3, OpType DEF Jobs
<1>4. ASSUME NEW s \in Mount, Begin(s) PROVE Jobs'
  <2>1. Op("boot", Nobody, "read") \in JobType
    BY OpType DEF Edit, Place, Nobody
  <2> QED
    BY <1>4, <2>1 DEF Begin, Jobs
<1>5. ASSUME NEW s \in Mount, Stop(s) PROVE Jobs'
  BY <1>5 DEF Stop, store, history, Jobs
<1>6. ASSUME NEW s \in Mount, TickStarts(s) PROVE Jobs'
  BY <1>6 DEF TickStarts, store, history, Jobs
<1>7. ASSUME NEW s \in Mount, TickReads(s) PROVE Jobs'
  BY <1>7 DEF TickReads, store, history, Jobs
<1>8. ASSUME NEW s \in Mount, TickHalts(s) PROVE Jobs'
  <2>1. PICK l \in Loop : job' = [job EXCEPT ![Ticker(s)] = Op("disable", l, "get")]
    BY <1>8 DEF TickHalts, Ticks, TickType
  <2>2. Op("disable", l, "get") \in JobType
    BY OpType DEF Edit, Place
  <2> QED
    BY <2>1, <2>2 DEF Jobs
<1>9. ASSUME NEW s \in Mount, TickTakes(s) PROVE Jobs'
  <2>1. PICK l \in Loop : \/ job' = [job EXCEPT ![Ticker(s)] = Op("disable", l, "get")]
                          \/ job' = [job EXCEPT ![Ticker(s)] = [Op("mark", l, "read") EXCEPT !.wait = Delay(s, l)]]
    BY <1>9 DEF TickTakes, Ticks, TickType
  <2>2. Op("disable", l, "get") \in JobType /\ Op("mark", l, "read") \in JobType
    BY OpType DEF Edit, Place
  <2>3. Delay(s, l) \in Nat
    BY DelayType DEF Ticks
  <2>4. [Op("mark", l, "read") EXCEPT !.wait = Delay(s, l)] \in JobType
    BY <2>2, <2>3 DEF JobType
  <2> QED
    BY <2>1, <2>2, <2>4 DEF Jobs
<1>10. ASSUME NEW s \in Mount, TickFires(s) PROVE Jobs'
  BY <1>10 DEF TickFires, store, history, Jobs
<1>11. ASSUME NEW s \in Mount, TickEnds(s) PROVE Jobs'
  BY <1>11 DEF TickEnds, store, history, Jobs
<1>12. ASSUME NEW e \in Editor, NEW l \in Loop, Create(e, l) PROVE Jobs'
  <2>1. Fresh(l) \in Config /\ Op("register", l, "read") \in JobType
    BY FreshType, OpType DEF Clock, Edit, Place
  <2>2. [Op("register", l, "read") EXCEPT !.cfg = Fresh(l)] \in JobType
    BY <2>1 DEF JobType
  <2> QED
    BY <1>12, <2>2 DEF Create, Begins, Jobs
<1>13. ASSUME NEW e \in Editor, NEW l \in Loop, Simple(e, l) PROVE Jobs'
  <2>1. PICK op \in JobType : job' = [job EXCEPT ![Hand(e)] = op]
    BY <1>13, OpType DEF Simple, Begins, Edited, Edit, Place
  <2> QED
    BY <2>1 DEF Jobs
<1>14. ASSUME NEW e \in Editor, NEW l \in Loop, Skip(e, l) PROVE Jobs'
  <2> DEFINE base == IF copy[l].next = 0 THEN now ELSE copy[l].next
             cfg == [copy[l] EXCEPT !.next = base + Cadence[l]]
             old == copy[l] # file[l]
  <2>1. copy[l] \in Config /\ base + Cadence[l] \in Nat
    BY DEF Registry, Clock, Config
  <2>2. cfg \in Config
    <3> HIDE DEF base
    <3> QED
      BY <2>1, Entries
  <2>3. old \in BOOLEAN
    BY Zenon
  <2>4. job' = [job EXCEPT ![Hand(e)] = [Op("skip", l, "read") EXCEPT !.cfg = cfg, !.stale = old]]
    BY <1>14 DEF Skip, Edited, Begins
  <2>5. Op("skip", l, "read") \in JobType
    BY OpType DEF Edit, Place
  <2> HIDE DEF cfg, old
  <2>6. [Op("skip", l, "read") EXCEPT !.cfg = cfg, !.stale = old] \in JobType
    BY <2>2, <2>3, <2>5 DEF JobType
  <2> QED
    BY <2>4, <2>6 DEF Jobs
<1>15. ASSUME NEW e \in Editor, NEW l \in Loop, Retire(e, l) PROVE Jobs'
  <2>1. PICK op \in JobType : job' = [job EXCEPT ![Hand(e)] = op]
    BY <1>15, OpType DEF Retire, Begins, Edited, Edit, Place
  <2> QED
    BY <2>1 DEF Jobs
<1>16. ASSUME NEW e \in Editor, NEW l \in Loop, Sweep(e, l) PROVE Jobs'
  <2>1. PICK op \in JobType : job' = [job EXCEPT ![Hand(e)] = op]
    BY <1>16, OpType DEF Sweep, Begins, Edited, Edit, Place
  <2> QED
    BY <2>1 DEF Jobs
<1>17. ASSUME NEW l \in Loop, AnchorEnds(l) PROVE Jobs'
  BY <1>17 DEF AnchorEnds, store, history, Jobs
<1>18. ASSUME NEW e \in Editor, NEW i \in DOMAIN child, ChildEnds(e, i) PROVE Jobs'
  <2>1. child[i].loop \in Loop
    <3>1. child[i] \in Iteration
      BY DEF Missions
    <3> QED
      BY <3>1 DEF Iteration
  <2>2. Op("fail", child[i].loop, "get") \in JobType /\ Op("approve", child[i].loop, "get") \in JobType
    BY <2>1, OpType DEF Edit, Place
  <2>3. \/ job' = job
        \/ job' = [job EXCEPT ![Hand(e)] = Op("fail", child[i].loop, "get")]
        \/ job' = [job EXCEPT ![Hand(e)] = Op("approve", child[i].loop, "get")]
    BY <1>18 DEF ChildEnds, Begins
  <2> QED
    BY <2>2, <2>3 DEF Jobs
<1>19. CASE Crash
  BY <1>19, OpType DEF Crash, Jobs
<1>20. CASE Advance
  BY <1>20 DEF Advance, store, history, Jobs
<1>21. CASE UNCHANGED vars
  BY <1>21 DEF vars, store, history, Jobs
<1> QED
  BY <1>1, <1>2, <1>3, <1>4, <1>5, <1>6, <1>7, <1>8, <1>9, <1>10, <1>11, <1>12, <1>13, <1>14, <1>15, <1>16, <1>17, <1>18, <1>19, <1>20, <1>21, Steps

\* Every variable has its type, in every reachable state.
LEMMA TypeInit == Init => TypeOK
<1> SUFFICES ASSUME Init PROVE TypeOK
  OBVIOUS
<1> DEFINE ran == {l \in Loop : anchor[l] = "live"}
           new(l) == [Blank EXCEPT !.enabled = TRUE, !.next = 2, !.count = 1,
                       !.trust = IF l \in Gated /\ Streak(l) = 0 THEN 1 ELSE 0]
           old == [Blank EXCEPT !.enabled = TRUE, !.next = 1]
<1>1. ASSUME NEW l \in Loop PROVE new(l) \in Config
  <2> DEFINE trust == IF l \in Gated /\ Streak(l) = 0 THEN 1 ELSE 0
  <2>1. trust \in 0 .. Threshold
    OBVIOUS
  <2> HIDE DEF trust
  <2>2. [Blank EXCEPT !.enabled = TRUE, !.next = 2, !.count = 1] \in Config
    BY Entries
  <2>3. [[Blank EXCEPT !.enabled = TRUE, !.next = 2, !.count = 1] EXCEPT !.trust = trust] \in Config
    BY <2>1, <2>2, Entries
  <2> QED
    BY <2>3 DEF trust
<1>2. old \in Config
  BY Entries
<1>3. file \in [Loop -> Config] /\ copy \in [Loop -> Config]
  <2> HIDE DEF new, old
  <2>1. file = [l \in Loop |-> IF anchor[l] # "live" THEN Absent ELSE new(l)]
    BY DEF Init, new
  <2>2. copy = [l \in Loop |-> IF anchor[l] = "live" THEN old ELSE Absent]
    BY DEF Init, old
  <2> QED
    BY <1>1, <1>2, <2>1, <2>2, Entries
<1>4. child \in Seq(Iteration)
  <2>1. child \in [1 .. Cardinality(ran) -> First]
    BY DEF Init
  <2>2. Cardinality(ran) \in Nat
    BY FS_Subset, FS_CardinalityType
  <2>3. First \subseteq Iteration
    BY DEF First, Iteration
  <2>4. child \in [1 .. Cardinality(ran) -> Iteration]
    BY <2>1, <2>3
  <2> QED
    <3>1. PICK n \in Nat : child \in [1 .. n -> Iteration]
      BY Zenon, <2>2, <2>4
    <3> QED
      BY <3>1, SeqDef
<1>5. mount \in [Mount -> {"new", "up", "stopped"}] /\ last \in [Mount -> Nat] /\ now \in Nat /\ edits \in Nat
  BY DEF Init
<1>6. tick \in [Mount -> TickType]
  BY NoTickType DEF Init
<1>7. job \in [Actor -> JobType]
  <2>1. Op("boot", Nobody, "read") \in JobType
    BY OpType DEF Edit, Place, Nobody
  <2> QED
    BY <2>1, OpType DEF Init
<1>8. clean \in BOOLEAN
  BY DEF Init
<1>9. /\ wanted \in [Loop -> {"none", "on", "off", "gone"}] /\ rest \in [Loop -> Nat]
      /\ lost \in [Loop -> Nat] /\ late \in [Loop -> Nat]
  BY DEF Init
<1>10. anchor \in [Loop -> {"none", "live", "over", "gone"}]
  BY DEF Init
<1> QED
  BY Zenon, <1>3, <1>4, <1>5, <1>6, <1>7, <1>8, <1>9, <1>10 DEF TypeOK

LEMMA TypeNext == TypeOK /\ [Next]_vars => TypeOK'
<1> SUFFICES ASSUME TypeOK, [Next]_vars PROVE TypeOK'
  OBVIOUS
<1>1. Clock /\ Registry /\ Anchors /\ Missions /\ Mounts /\ Ticks /\ Jobs /\ Cleanly /\ Past
  BY Zenon DEF TypeOK, Clock, Registry, Anchors, Missions, Mounts, Ticks, Jobs, Cleanly, Past
<1>2. Clock' /\ Registry' /\ Anchors' /\ Missions' /\ Mounts' /\ Ticks' /\ Jobs' /\ Cleanly' /\ Past'
  BY Zenon, <1>1, ClockNext, CleanNext, AnchorsNext, MountsNext, RegistryNext, MissionsNext, PastNext, TicksNext, JobsNext
<1> QED
  BY Zenon, <1>2 DEF TypeOK, Clock, Registry, Anchors, Missions, Mounts, Ticks, Jobs, Cleanly, Past

THEOREM TypeCorrect == Spec => []TypeOK
<1>1. Init => TypeOK
  BY TypeInit
<1>2. TypeOK /\ [Next]_vars => TypeOK'
  BY TypeNext
<1> QED
  BY <1>1, <1>2, PTL DEF Spec
-----------------------------------------------------------------------------
(* The last operation that landed on a loop has the last word.             *)

LEMMA AgreesAt ==
  ASSUME NEW f, NEW w, Agrees(f, w), NEW l \in Loop
  PROVE  (f[l].known <=> w[l] \in {"on", "off"}) /\ (f[l].known => (f[l].enabled <=> w[l] = "on"))
BY SMT DEF Agrees

\* What an operation knows while nobody has written the file behind its back: its copy
\* is of the entry in the file, and what it is about to write grants its own wish.
Begun(j) ==
  /\ j.edit = "none" => j.stage = "none"
  /\ j.edit = "register" => j.stage # "get" /\ (j.stage = "read" => j.cfg.known /\ j.cfg.enabled)
CopyOf(j) ==
  IF j.edit \in Turning THEN j.cfg.known /\ ~j.cfg.enabled
  ELSE /\ j.cfg.known <=> file[j.loop].known
       /\ j.cfg.enabled <=> file[j.loop].enabled
Copied(j)  == clean /\ ~j.stale /\ j.stage = "read" /\ j.edit \in Copying => CopyOf(j)
Granted(j) ==
  clean /\ ~j.stale /\ j.stage = "write" => Agrees(j.out, [wanted EXCEPT ![j.loop] = Wish(j)])
Sound(j) == Begun(j) /\ Copied(j) /\ Granted(j)

WordInv == LastWordKept /\ \A a \in Actor : Sound(job[a])

\* An operation that begins has not read anything.
LEMMA FreshSound ==
  /\ Sound(Idle)
  /\ \A e \in Edit \ {"register"}, l \in Loop : Sound(Op(e, l, "get"))
  /\ \A e \in Edit \ (Copying \cup {"register"}), l \in Loop : Sound(Op(e, l, "read"))
<1>1. Sound(Idle)
  BY DEF Sound, Begun, Copied, Granted, Idle
<1>2. ASSUME NEW e \in Edit \ {"register"}, NEW l \in Loop PROVE Sound(Op(e, l, "get"))
  <2>1. Op(e, l, "get").stage = "get" /\ Op(e, l, "get").edit = e
    BY DEF Op, Idle
  <2> QED
    BY <2>1 DEF Sound, Begun, Copied, Granted, Edit
<1>3. ASSUME NEW e \in Edit \ (Copying \cup {"register"}), NEW l \in Loop PROVE Sound(Op(e, l, "read"))
  <2>1. Op(e, l, "read").stage = "read" /\ Op(e, l, "read").edit = e
    BY DEF Op, Idle
  <2> QED
    BY <2>1 DEF Sound, Begun, Copied, Granted, Edit
<1> QED
  BY <1>1, <1>2, <1>3

\* A step that leaves the file alone and gives one actor a sound operation.
LEMMA OneJob ==
  ASSUME WordInv, NEW a \in Actor, NEW j, Sound(j), job' = [job EXCEPT ![a] = j], job \in [Actor -> JobType],
         file' = file, wanted' = wanted, clean' => clean
  PROVE  WordInv'
<1>1. LastWordKept'
  BY DEF WordInv, LastWordKept
<1>2. ASSUME NEW k, Sound(k) PROVE Sound(k)'
  BY <1>2 DEF Sound, Begun, Copied, Granted, CopyOf, Agrees, Wish
<1>3. \A b \in Actor : Sound(job'[b])
  BY DEF WordInv
<1> QED
  BY <1>1, <1>2, <1>3 DEF WordInv

\* A step of nobody's operation.
LEMMA NoJob ==
  ASSUME WordInv, job' = job, file' = file, wanted' = wanted, clean' => clean
  PROVE  WordInv'
BY DEF WordInv, LastWordKept, Sound, Begun, Copied, Granted, CopyOf, Agrees, Wish

\* getLoop reads the entry and patches it.
LEMMA GetSound == ASSUME Jobs, Registry, WordInv, NEW a \in Actor, Get(a) PROVE WordInv'
<1> DEFINE j == job[a]
           new == Patched(j.edit, file[j.loop])
           k == [j EXCEPT !.stage = "read", !.cfg = new]
<1>1. \/ job' = [job EXCEPT ![a] = Idle]
      \/ job' = [job EXCEPT ![a] = k] /\ (j.edit \in Strict => file[j.loop].known)
  BY DEF Get
<1>2. file' = file /\ wanted' = wanted /\ (clean' => clean)
  BY DEF Get, history
<1>3. j \in JobType /\ j.stage = "get" /\ Sound(j)
  BY DEF Get, Jobs, WordInv
<1>4. k.edit = j.edit /\ k.loop = j.loop /\ k.stage = "read" /\ k.cfg = new /\ k.stale = j.stale
  BY <1>3 DEF JobType
<1> HIDE DEF k, new
<1>5. ASSUME j.edit \in Strict => file[j.loop].known PROVE Sound(k)
  <2>1. Begun(k)
    BY <1>3, <1>4 DEF Begun, Sound
  <2>2. Granted(k)
    BY <1>4 DEF Granted
  <2>3. CASE j.edit \in Turning
    <3>1. new = [(IF file[j.loop].known THEN file[j.loop] ELSE Blank) EXCEPT !.enabled = FALSE, !.next = 0]
      BY <2>3 DEF Patched, Turning, new
    <3>2. file[j.loop] \in Config
      BY <1>3 DEF JobType, Registry
    <3>3. new.known /\ ~new.enabled
      BY <3>1, <3>2 DEF Config, Blank, Absent
    <3> QED
      BY <1>4, <2>1, <2>2, <2>3, <3>3 DEF Sound, Copied, CopyOf
  <2>4. CASE j.edit \notin Turning
    <3>1. file[j.loop] \in Config
      BY <1>3 DEF JobType, Registry
    <3>2. (new.known <=> file[j.loop].known) /\ (new.enabled <=> file[j.loop].enabled)
      BY <2>4, <3>1 DEF Patched, Config, new
    <3> QED
      BY <1>4, <2>1, <2>2, <2>4, <3>2 DEF Sound, Copied, CopyOf
  <2> QED
    BY <2>1, <2>2, <2>3, <2>4 DEF Sound
<1> QED
  BY <1>1, <1>2, <1>5, OneJob, FreshSound DEF Jobs

\* The read computes what will be written.
LEMMA ReadSound == ASSUME Jobs, Registry, Past, WordInv, NEW a \in Actor, Read(a) PROVE WordInv'
<1> DEFINE j == job[a]
           out == Output(j, file)
           k == [j EXCEPT !.stage = "write", !.out = out]
<1>1. \/ job' = [job EXCEPT ![a] = Idle]
      \/ job' = [job EXCEPT ![a] = k] /\ ~Pointless(j, file)
  BY DEF Read
<1>2. file' = file /\ wanted' = wanted /\ (clean' => clean)
  BY DEF Read, history
<1>3. j \in JobType /\ j.stage = "read" /\ Sound(j)
  BY DEF Read, Jobs, WordInv
<1>4. k.edit = j.edit /\ k.loop = j.loop /\ k.stage = "write" /\ k.out = out /\ k.stale = j.stale
  BY <1>3 DEF JobType
<1> HIDE DEF k, out
<1>5. ASSUME ~Pointless(j, file) PROVE Sound(k)
  <2> SUFFICES ASSUME clean, ~j.stale PROVE Agrees(out, [wanted EXCEPT ![j.loop] = Wish(j)])
    BY <1>3, <1>4 DEF Sound, Begun, Copied, Granted, Wish
  <2>1. Agrees(file, wanted)
    BY DEF WordInv, LastWordKept
  <2>2. CASE j.edit = "boot"
    <3>1. [wanted EXCEPT ![j.loop] = Wish(j)] = wanted
      BY <2>2 DEF Wish, Past, Turning
    <3>2. out = Loaded(file)
      BY <2>2 DEF Output, out
    <3>3. \A l \in Loop : (out[l].known <=> file[l].known) /\ (out[l].enabled <=> file[l].enabled)
      BY <3>2 DEF Loaded, Registry, Config
    <3> QED
      BY <2>1, <3>1, <3>3 DEF Agrees
  <2>3. CASE j.edit # "boot"
    <3> DEFINE c == file[j.loop]
               w == Written(j, c)
    <3>1. out = [file EXCEPT ![j.loop] = w] /\ j.loop \in Loop /\ c \in Config
      BY <1>3, <2>3 DEF Output, JobType, Registry, out
    <3> DEFINE asked == wanted[j.loop]
    <3>2. (c.known <=> asked \in {"on", "off"}) /\ (c.known => (c.enabled <=> asked = "on"))
      BY <2>1, <3>1, AgreesAt
    <3>3. /\ w.known <=> Wish(j) \in {"on", "off"}
          /\ w.known => (w.enabled <=> Wish(j) = "on")
      <4>1. CASE j.edit \in Copying
        <5>1. CopyOf(j) /\ w = j.cfg
          BY <1>3, <4>1 DEF Sound, Copied, Written, Copying
        <5>2. c.known
          BY <1>5, <2>3, <4>1 DEF Pointless, Copying
        <5>3. CASE j.edit \in Turning
          BY <5>1, <5>3 DEF CopyOf, Wish, Turning
        <5>4. CASE j.edit \notin Turning
          <6>1. Wish(j) = wanted[j.loop]
            BY <4>1, <5>4 DEF Wish, Copying
          <6>2. (w.known <=> c.known) /\ (w.enabled <=> c.enabled)
            BY <5>1, <5>4 DEF CopyOf
          <6> QED
            BY Zenon, <3>2, <6>1, <6>2
        <5> QED
          BY <5>3, <5>4
      <4>2. CASE j.edit = "mark"
        <5>1. c.known
          BY <1>5, <4>2 DEF Pointless
        <5>2. w.known = c.known /\ w.enabled = c.enabled
          BY <3>1, <4>2 DEF Written, Config
        <5>3. Wish(j) = wanted[j.loop]
          BY <4>2 DEF Wish, Turning
        <5> QED
          BY Zenon, <3>2, <5>1, <5>2, <5>3
      <4>3. CASE j.edit = "enable"
        <5>1. c.known
          BY <1>5, <4>3 DEF Pointless
        <5>2. w.known = c.known /\ w.enabled
          BY <3>1, <4>3 DEF Written, Config
        <5> QED
          BY <4>3, <5>1, <5>2 DEF Wish, Turning
      <4>4. CASE j.edit \in {"remove", "delete"}
        BY <4>4 DEF Written, Wish, Turning, Absent
      <4>5. CASE j.edit = "register"
        BY <1>3, <4>5 DEF Written, Wish, Turning, Sound, Begun
      <4>6. j.edit # "none"
        BY <1>3 DEF Sound, Begun
      <4> QED
        BY <1>3, <2>3, <4>1, <4>2, <4>3, <4>4, <4>5, <4>6 DEF JobType, Edit, Copying
    <3> QED
      BY <2>1, <3>1, <3>3 DEF Agrees, Registry, Past
  <2> QED
    BY <2>2, <2>3
<1> QED
  BY <1>1, <1>2, <1>5, OneJob, FreshSound DEF Jobs

\* The write that rests on what the file says grants its wish; the operations that hold
\* a copy of the file are stale from then on.
LEMMA WriteSound == ASSUME Jobs, WordInv, NEW a \in Actor, Write(a) PROVE WordInv'
<1> DEFINE k(b) == [job[b] EXCEPT !.stale = @ \/ Holds(job[b])]
<1>1. /\ job' = [b \in Actor |-> IF b = a THEN Idle ELSE k(b)]
      /\ file' = job[a].out /\ job[a].stage = "write"
      /\ clean' = (clean /\ ~job[a].stale)
      /\ wanted' = [wanted EXCEPT ![job[a].loop] = Wish(job[a])]
  BY DEF Write
<1>2. LastWordKept'
  BY <1>1 DEF LastWordKept, WordInv, Sound, Granted
<1>3. Sound(Idle)'
  BY DEF Sound, Begun, Copied, Granted, Idle
<1>4. ASSUME NEW b \in Actor, NEW m, m = k(b) PROVE Sound(m)'
  <2>1. job[b] \in JobType /\ Begun(job[b])
    BY DEF Jobs, WordInv, Sound
  <2>2. /\ k(b).edit = job[b].edit /\ k(b).stage = job[b].stage /\ k(b).cfg = job[b].cfg
        /\ Holds(job[b]) => k(b).stale
    BY <2>1 DEF JobType
  <2>3. /\ m.edit = job[b].edit /\ m.stage = job[b].stage /\ m.cfg = job[b].cfg
        /\ Holds(job[b]) => m.stale
    BY <1>4, <2>2
  <2>4. Begun(m)
    BY <2>1, <2>3 DEF Begun
  <2>5. m.stage = "write" \/ (m.stage = "read" /\ m.edit \in Copying) => m.stale
    BY <2>3 DEF Holds
  <2> QED
    BY <2>4, <2>5 DEF Sound, Begun, Copied, Granted
<1>5. \A b \in Actor : job'[b] = IF b = a THEN Idle ELSE k(b)
  BY <1>1
<1> HIDE DEF k
<1> QED
  BY <1>2, <1>3, <1>4, <1>5 DEF WordInv

LEMMA WordInit == Init => WordInv
<1> SUFFICES ASSUME Init PROVE WordInv
  OBVIOUS
<1>1. \A l \in Loop : /\ file[l].known <=> anchor[l] = "live"
                      /\ file[l].enabled <=> anchor[l] = "live"
  BY DEF Init, Blank, Absent
<1>2. \A l \in Loop : wanted[l] = IF anchor[l] = "live" THEN "on" ELSE "none"
  BY DEF Init
<1>3. LastWordKept
  BY <1>1, <1>2 DEF LastWordKept, Agrees
<1>4. Sound(Op("boot", Nobody, "read"))
  BY FreshSound DEF Edit, Copying, Nobody
<1> QED
  BY <1>3, <1>4, FreshSound DEF WordInv, Init

\* Every operation starts sound.
LEMMA WordNext == TypeOK /\ WordInv /\ [Next]_vars => WordInv'
<1> SUFFICES ASSUME TypeOK, WordInv, [Next]_vars PROVE WordInv'
  OBVIOUS
<1>0. Clock /\ Registry /\ Missions /\ Ticks /\ Jobs /\ Past
  BY Zenon DEF TypeOK, Clock, Registry, Missions, Ticks, Jobs, Past
<1>1. ASSUME NEW a \in Actor, Get(a) PROVE WordInv'
  BY <1>0, <1>1, GetSound
<1>2. ASSUME NEW a \in Actor, Read(a) PROVE WordInv'
  BY <1>0, <1>2, ReadSound
<1>3. ASSUME NEW a \in Actor, Write(a) PROVE WordInv'
  BY <1>0, <1>3, WriteSound
<1>4. ASSUME NEW s \in Mount, Begin(s) PROVE WordInv'
  <2>1. job' = [job EXCEPT ![Booter(s)] = Op("boot", Nobody, "read")] /\ Booter(s) \in Actor
    BY <1>4 DEF Begin, Actor
  <2>2. Sound(Op("boot", Nobody, "read"))
    BY FreshSound DEF Edit, Copying, Nobody
  <2>3. file' = file /\ wanted' = wanted /\ (clean' => clean)
    BY <1>4 DEF Begin, history
  <2> QED
    BY <1>0, <2>1, <2>2, <2>3, OneJob DEF Jobs
<1>5. ASSUME NEW s \in Mount, Stop(s) PROVE WordInv'
  BY <1>5, NoJob DEF Stop, history
<1>6. ASSUME NEW s \in Mount, TickStarts(s) PROVE WordInv'
  BY <1>6, NoJob DEF TickStarts
<1>7. ASSUME NEW s \in Mount, TickReads(s) PROVE WordInv'
  BY <1>7, NoJob DEF TickReads, history
<1>8. ASSUME NEW s \in Mount, TickHalts(s) PROVE WordInv'
  <2>1. PICK l \in Loop : job' = [job EXCEPT ![Ticker(s)] = Op("disable", l, "get")]
    BY <1>0, <1>8 DEF TickHalts, Ticks, TickType
  <2>2. Sound(Op("disable", l, "get")) /\ Ticker(s) \in Actor
    BY FreshSound DEF Edit, Actor
  <2>3. file' = file /\ wanted' = wanted /\ (clean' => clean)
    BY <1>8 DEF TickHalts, history
  <2> QED
    BY <1>0, <2>1, <2>2, <2>3, OneJob DEF Jobs
<1>9. ASSUME NEW s \in Mount, TickTakes(s) PROVE WordInv'
  <2>1. PICK l \in Loop : \/ job' = [job EXCEPT ![Ticker(s)] = Op("disable", l, "get")]
                          \/ job' = [job EXCEPT ![Ticker(s)] = [Op("mark", l, "read") EXCEPT !.wait = Delay(s, l)]]
    BY <1>0, <1>9 DEF TickTakes, Ticks, TickType
  <2>2. Sound(Op("disable", l, "get")) /\ Ticker(s) \in Actor
    BY FreshSound DEF Edit, Actor
  <2> DEFINE mark == [Op("mark", l, "read") EXCEPT !.wait = Delay(s, l)]
  <2>3. mark.edit = "mark" /\ mark.stage = "read"
    BY DEF Op, Idle
  <2>4. Sound(mark)
    <3> HIDE DEF mark
    <3> QED
      BY <2>3 DEF Sound, Begun, Copied, Granted, Copying
  <2>5. file' = file /\ wanted' = wanted /\ (clean' => clean)
    BY <1>9 DEF TickTakes, history
  <2> HIDE DEF mark
  <2>6. \/ job' = [job EXCEPT ![Ticker(s)] = Op("disable", l, "get")]
        \/ job' = [job EXCEPT ![Ticker(s)] = mark]
    BY <2>1 DEF mark
  <2> QED
    BY <1>0, <2>2, <2>4, <2>5, <2>6, OneJob DEF Jobs
<1>10. ASSUME NEW s \in Mount, TickFires(s) PROVE WordInv'
  BY <1>10, NoJob DEF TickFires
<1>11. ASSUME NEW s \in Mount, TickEnds(s) PROVE WordInv'
  BY <1>11, NoJob DEF TickEnds, history
<1>12. ASSUME NEW e \in Editor, NEW l \in Loop, Create(e, l) PROVE WordInv'
  <2> DEFINE op == [Op("register", l, "read") EXCEPT !.cfg = Fresh(l)]
  <2>1. job' = [job EXCEPT ![Hand(e)] = op] /\ Hand(e) \in Actor
    BY <1>12 DEF Create, Begins, Actor
  <2>2. op.edit = "register" /\ op.stage = "read" /\ op.cfg = Fresh(l)
    BY DEF Op, Idle
  <2>3. Fresh(l).known /\ Fresh(l).enabled
    BY DEF Fresh, Blank, Absent
  <2>4. Sound(op)
    <3> HIDE DEF op
    <3> QED
      BY <2>2, <2>3 DEF Sound, Begun, Copied, Granted, Copying
  <2>5. file' = file /\ wanted' = wanted /\ (clean' => clean)
    BY <1>12 DEF Create, history
  <2> HIDE DEF op
  <2> QED
    BY <1>0, <2>1, <2>4, <2>5, OneJob DEF Jobs
<1>13. ASSUME NEW e \in Editor, NEW l \in Loop, Simple(e, l) PROVE WordInv'
  <2>1. PICK op : /\ job' = [job EXCEPT ![Hand(e)] = op]
                  /\ op \in {Op("enable", l, "read"), Op("pause", l, "get"), Op("freeze", l, "get"), Op("remove", l, "read")}
    BY <1>13 DEF Simple, Edited, Begins
  <2>2. Sound(op) /\ Hand(e) \in Actor
    BY <2>1, FreshSound DEF Edit, Copying, Actor
  <2>3. file' = file /\ wanted' = wanted /\ (clean' => clean)
    BY <1>13 DEF Simple, history
  <2> QED
    BY <1>0, <2>1, <2>2, <2>3, OneJob DEF Jobs
<1>14. ASSUME NEW e \in Editor, NEW l \in Loop, Skip(e, l) PROVE WordInv'
  <2> DEFINE cfg == [copy[l] EXCEPT !.next = (IF @ = 0 THEN now ELSE @) + Cadence[l]]
             op == [Op("skip", l, "read") EXCEPT !.cfg = cfg, !.stale = copy[l] # file[l]]
  <2>1. job' = [job EXCEPT ![Hand(e)] = op] /\ Hand(e) \in Actor
    BY <1>14 DEF Skip, Edited, Begins, Actor
  <2>2. copy[l] \in Config
    BY <1>0 DEF Registry
  <2>3. cfg.known = copy[l].known /\ cfg.enabled = copy[l].enabled
    BY <2>2 DEF Config
  <2>4. op.edit = "skip" /\ op.stage = "read" /\ op.cfg = cfg /\ op.loop = l /\ (op.stale <=> copy[l] # file[l])
    <3> HIDE DEF cfg
    <3> QED
      BY DEF Op, Idle
  <2>5. Sound(op)
    <3> HIDE DEF op, cfg
    <3> QED
      BY <2>3, <2>4 DEF Sound, Begun, Copied, CopyOf, Granted, Copying, Turning
  <2>6. file' = file /\ wanted' = wanted /\ (clean' => clean)
    BY <1>14 DEF Skip, history
  <2> HIDE DEF op
  <2> QED
    BY <1>0, <2>1, <2>5, <2>6, OneJob DEF Jobs
<1>15. ASSUME NEW e \in Editor, NEW l \in Loop, Retire(e, l) PROVE WordInv'
  <2>1. PICK op : /\ job' = [job EXCEPT ![Hand(e)] = op]
                  /\ op \in {Op("archive", l, "get"), Op("delete", l, "get")}
    BY <1>15 DEF Retire, Edited, Begins
  <2>2. Sound(op) /\ Hand(e) \in Actor
    BY <2>1, FreshSound DEF Edit, Actor
  <2>3. file' = file /\ wanted' = wanted /\ (clean' => clean)
    BY <1>15 DEF Retire, history
  <2> QED
    BY <1>0, <2>1, <2>2, <2>3, OneJob DEF Jobs
<1>16. ASSUME NEW e \in Editor, NEW l \in Loop, Sweep(e, l) PROVE WordInv'
  <2>1. job' = [job EXCEPT ![Hand(e)] = Op("disable", l, "get")]
    BY <1>16 DEF Sweep, Begins
  <2>2. Sound(Op("disable", l, "get")) /\ Hand(e) \in Actor
    BY FreshSound DEF Edit, Actor
  <2>3. file' = file /\ wanted' = wanted /\ (clean' => clean)
    BY <1>16 DEF Sweep, history
  <2> QED
    BY <1>0, <2>1, <2>2, <2>3, OneJob DEF Jobs
<1>17. ASSUME NEW l \in Loop, AnchorEnds(l) PROVE WordInv'
  BY <1>17, NoJob DEF AnchorEnds, history
<1>18. ASSUME NEW e \in Editor, NEW i \in DOMAIN child, ChildEnds(e, i) PROVE WordInv'
  <2>1. child[i].loop \in Loop
    <3>1. child[i] \in Iteration
      BY <1>0 DEF Missions
    <3> QED
      BY <3>1 DEF Iteration
  <2>2. file' = file /\ wanted' = wanted /\ (clean' => clean)
    BY <1>18 DEF ChildEnds, history
  <2>3. CASE job' = job
    BY <2>2, <2>3, NoJob
  <2>4. CASE job' # job
    <3>1. PICK op : /\ job' = [job EXCEPT ![Hand(e)] = op]
                    /\ op \in {Op("fail", child[i].loop, "get"), Op("approve", child[i].loop, "get")}
      BY <1>18, <2>4 DEF ChildEnds, Begins
    <3>2. Sound(op) /\ Hand(e) \in Actor
      BY <2>1, <3>1, FreshSound DEF Edit, Actor
    <3> QED
      BY <1>0, <2>2, <3>1, <3>2, OneJob DEF Jobs
  <2> QED
    BY <2>3, <2>4
<1>19. CASE Crash
  <2>1. job' = [a \in Actor |-> Idle] /\ file' = file /\ wanted' = wanted /\ clean' = clean
    BY <1>19 DEF Crash
  <2>2. Sound(Idle)'
    BY DEF Sound, Begun, Copied, Granted, Idle
  <2> QED
    BY <2>1, <2>2 DEF WordInv, LastWordKept
<1>20. CASE Advance
  BY <1>20, NoJob DEF Advance, history
<1>21. CASE UNCHANGED vars
  BY <1>21, NoJob DEF vars, history
<1> QED
  BY <1>1, <1>2, <1>3, <1>4, <1>5, <1>6, <1>7, <1>8, <1>9, <1>10, <1>11, <1>12, <1>13, <1>14, <1>15, <1>16, <1>17, <1>18, <1>19, <1>20, <1>21, Steps

\* As long as no operation rests on a stale copy of the file, what a user, the tick or
\* the sweep last wrote of a loop stands: nobody revives a paused or deleted loop.
THEOREM NobodyRevives == Spec => []LastWordKept
<1>1. Init => TypeOK /\ WordInv
  BY TypeInit, WordInit
<1>2. TypeOK /\ WordInv /\ [Next]_vars => TypeOK' /\ WordInv'
  BY TypeNext, WordNext
<1>3. WordInv => LastWordKept
  BY DEF WordInv
<1> QED
  BY <1>1, <1>2, <1>3, PTL DEF Spec
=============================================================================
