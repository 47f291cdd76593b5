-------------------------- MODULE GraphRun_proofs ---------------------------
(***************************************************************************)
(* Proofs about the wave executor, for every compiled graph.               *)
(***************************************************************************)
EXTENDS GraphRunDag, FiniteSetTheorems, TLAPS

USE DEF All

LEMMA EdgeTypes == Edge0 \subseteq EdgeType
  BY GraphAssumption DEF EdgeType

LEMMA InitType == Init => TypeOK
<1> SUFFICES ASSUME Init PROVE TypeOK
  OBVIOUS
<1> USE DEF Init, TypeOK
<1>1. graph \in [nodes: SUBSET All, edges: SUBSET EdgeType, stem: [Spare -> All]]
  BY EdgeTypes DEF Graph0
<1>2. graph.nodes = Node
  BY DEF Graph0
<1>3. st \in [All -> NodeStatus] /\ attempt \in [All -> Nat] /\ out \in [All -> SUBSET Word]
  BY DEF NodeStatus
<1>4. stage \in [All -> Stage] /\ count \in [All -> Nat] /\ live \in [All -> Int]
  BY DEF Stage
<1>5. res \in [All -> Result \cup {NoRes}]
  OBVIOUS
<1> QED
  BY <1>1, <1>2, <1>3, <1>4, <1>5 DEF RunStatus

LEMMA BoundaryType == TypeOK /\ Boundary => TypeOK'
<1> SUFFICES ASSUME TypeOK, Boundary PROVE TypeOK'
  OBVIOUS
<1> USE DEF TypeOK, runVars, nodeVars, waveVars, ctlVars, moneyVars, NodeStatus, RunStatus
<1>1. CASE AbortRun
  BY <1>1 DEF AbortRun, Return, ClearRunControl
<1>2. CASE CancelRun
  BY <1>2 DEF CancelRun, Return, ClearRunControl, Skipped
<1>3. CASE PauseRun
  BY <1>3 DEF PauseRun, Return
<1>4. CASE ExceedBudget
  BY <1>4 DEF ExceedBudget, Return, ClearRunControl
<1>5. CASE FailRun
  BY <1>5 DEF FailRun, Return, ClearRunControl
<1>6. CASE InterruptRun
  BY <1>6 DEF InterruptRun, Return
<1>7. CASE FinishRun
  BY <1>7 DEF FinishRun, Return, ClearRunControl
<1>8. CASE StartWave
  <2>1. PICK W \in SUBSET ReadyNodes :
          /\ wave' = W
          /\ st' = [n \in All |-> IF n \in W THEN "ready" ELSE st[n]]
          /\ stage' = [n \in All |-> IF n \notin W THEN "none"
                                     ELSE IF KindOf(n) \in {"task", "contest"} /\ ~Inherits(n)
                                          THEN "error" ELSE "recall"]
    BY <1>8 DEF StartWave
  <2>2. stage' \in [All -> Stage]
    BY <2>1 DEF Stage
  <2>3. st' \in [All -> NodeStatus]
    BY <2>1
  <2>4. wave' \subseteq All
    BY <2>1 DEF ReadyNodes
  <2> QED
    BY <1>8, <2>2, <2>3, <2>4 DEF StartWave, Unstopped
<1> QED
  BY <1>1, <1>2, <1>3, <1>4, <1>5, <1>6, <1>7, <1>8 DEF Boundary

LEMMA LaunchType == ASSUME TypeOK, NEW n \in All, Launch(n) PROVE TypeOK'
<1> USE DEF TypeOK, runVars, nodeVars, ctlVars, moneyVars, NodeStatus, RunStatus, Stage,
            LaunchFrame, Step, Launching
<1>1. CASE BeginNode(n)
  BY <1>1 DEF BeginNode
<1>2. CASE EmptyLoop(n)
  BY <1>2 DEF EmptyLoop
<1>3. CASE MissionLaunched(n)
  BY <1>3 DEF MissionLaunched
<1>4. CASE LaunchThrows(n)
  BY <1>4 DEF LaunchThrows
<1>5. CASE LoopContinues(n)
  BY <1>5 DEF LoopContinues, Iterated
<1>6. CASE LoopDone(n)
  BY <1>6 DEF LoopDone, Iterated
<1>7. CASE LoopFails(n)
  BY <1>7 DEF LoopFails, Iterated
<1>8. CASE RankContest(n)
  <2> n \in Node /\ Width[n] \in Nat
    BY <1>8, GraphAssumption DEF RankContest, KindOf
  <2>1. PICK R \in [1..Width[n] -> Result], b \in BOOLEAN :
          LET found  == {i \in 1..Width[n] : R[i].kind # "missing"}
              first  == {i \in found : RanksFirst(n, R, i)}
              won    == \E i \in first : Succeeded(R[i].kind)
          IN  /\ live' = [live EXCEPT ![n] = @ - Cardinality(found)]
              /\ delivered' = IF \E i \in found : Succeeded(R[i].kind)
                              THEN delivered \cup {n} ELSE delivered \ {n}
              /\ Step(n, IF won THEN "done" ELSE "failed", IF first = {} THEN "empty" ELSE "launched")
              /\ branched' = IF ~won THEN branched
                             ELSE IF b THEN branched \cup {n} ELSE branched \ {n}
              /\ res' = IF first = {} THEN res ELSE [res EXCEPT ![n] = R[CHOOSE i \in first : TRUE]]
    BY <1>8 DEF RankContest
  <2> DEFINE found  == {i \in 1..Width[n] : R[i].kind # "missing"}
             first  == {i \in found : RanksFirst(n, R, i)}
             won    == \E i \in first : Succeeded(R[i].kind)
  <2>2. Cardinality(found) \in Nat
    <3>1. IsFiniteSet(1..Width[n])
      <4> 1 \in Int /\ Width[n] \in Int
        OBVIOUS
      <4> HIDE DEF found, first, won
      <4> QED
        BY ONLY 1 \in Int, Width[n] \in Int, FS_Interval
    <3>2. found \in SUBSET (1..Width[n])
      OBVIOUS
    <3>3. IsFiniteSet(found)
      BY <3>1, <3>2, FS_Subset
    <3> QED
      BY <3>3, FS_CardinalityType
  <2>3. live' \in [All -> Int]
    BY <2>1, <2>2
  <2>4. first # {} => R[CHOOSE i \in first : TRUE] \in Result
    OBVIOUS
  <2>5. res' \in [All -> Result \cup {NoRes}]
    BY <2>1, <2>4
  <2>6. st' \in [All -> NodeStatus] /\ stage' \in [All -> Stage]
    BY <2>1
  <2>7. branched' \subseteq All /\ delivered' \subseteq All
    BY <2>1
  <2> QED
    BY <1>8, <2>3, <2>5, <2>6, <2>7 DEF RankContest
<1>9. CASE Interrupt(n)
  BY <1>9 DEF Interrupt
<1>10. CASE PassJoin(n)
  BY <1>10 DEF PassJoin
<1>11. CASE Refuse(n)
  BY <1>11 DEF Refuse
<1>12. CASE Route(n)
  BY <1>12 DEF Route
<1>13. CASE RouteFails(n)
  BY <1>13 DEF RouteFails
<1> QED
  BY <1>1, <1>2, <1>3, <1>4, <1>5, <1>6, <1>7, <1>8, <1>9, <1>10, <1>11, <1>12, <1>13 DEF Launch

\* The patch that inserts a verify node is a well-typed graph.
LEMMA VerifyType ==
  ASSUME TypeOK, NEW n \in graph.nodes, NEW v \in Spare
  PROVE  /\ InsertVerify(n, v) \in [nodes: SUBSET All, edges: SUBSET EdgeType, stem: [Spare -> All]]
         /\ InsertVerify(n, v).nodes = graph.nodes \cup {v}
<1> USE DEF TypeOK
<1>1. n \in All
  OBVIOUS
<1>2. Stem(n) \in All
  BY <1>1 DEF Stem
<1>3. [from |-> n, to |-> v, cond |-> Always] \in EdgeType
  BY <1>1 DEF EdgeType
<1>4. \A e \in Out(n) : [from |-> v, to |-> e.to, cond |-> Always] \in EdgeType
  <2> TAKE e \in Out(n)
  <2> e \in EdgeType
    BY DEF Out
  <2> QED
    BY DEF EdgeType
<1>5. InsertVerify(n, v).edges \subseteq EdgeType
  BY <1>3, <1>4 DEF InsertVerify
<1> QED
  BY <1>2, <1>5 DEF InsertVerify

LEMMA OtherType ==
  ASSUME TypeOK, WaveShape,
         CloseLaunch \/ WaitReturns \/ CloseWave \/ (\E n \in All : Settle(n)) \/ Control
  PROVE  TypeOK'
<1> USE DEF TypeOK, runVars, nodeVars, waveVars, ctlVars, moneyVars
<1>1. CASE CloseLaunch
  BY <1>1 DEF CloseLaunch, NodeStatus, Stage
<1>2. CASE WaitReturns
  BY <1>2 DEF WaitReturns
<1>3. CASE CloseWave
  BY <1>3 DEF CloseWave, Stage
<1>4. ASSUME NEW n \in All, MissionSettles(n) PROVE TypeOK'
  BY <1>4 DEF MissionSettles
<1>5. ASSUME NEW n \in All, GiveUpMission(n) PROVE TypeOK'
  BY <1>5 DEF GiveUpMission, Result, Verdict
<1>6. CASE PauseGraphRun
  BY <1>6 DEF PauseGraphRun
<1>7. CASE CancelGraphRun
  BY <1>7 DEF CancelGraphRun
<1>8. CASE CancelReturnedRun
  BY <1>8 DEF CancelReturnedRun, Skipped, ClearRunControl, NodeStatus, RunStatus
<1>9. CASE Abort
  BY <1>9 DEF Abort
<1>10. CASE Resume
  <2>1. graph' \in [nodes: SUBSET All, edges: SUBSET EdgeType, stem: [Spare -> All]]
    BY <1>10, EdgeTypes DEF Resume, Graph0
  <2>2. graph'.nodes = Node
    BY <1>10 DEF Resume, Graph0
  <2>3. st' \in [All -> NodeStatus]
    BY <1>10 DEF Resume, NodeStatus
  <2>4. /\ known' = known /\ status' \in RunStatus /\ resumes' \in Nat
        /\ pauseReq' = FALSE /\ cancelReq' = FALSE /\ asked' = FALSE /\ pc' = "boundary"
        /\ UNCHANGED <<attempt, out, branched, replans, waveVars, delivered, aborted>>
    BY <1>10 DEF Resume, ClearRunControl, RunStatus
  <2>5. Node \subseteq graph'.nodes /\ graph'.nodes \subseteq known'
    BY <2>2, <2>4
  <2> QED
    BY <2>1, <2>3, <2>4, <2>5
<1> QED
  BY <1>1, <1>2, <1>3, <1>4, <1>5, <1>6, <1>7, <1>8, <1>9, <1>10 DEF Settle, Control

LEMMA ProcessType == ASSUME TypeOK, WaveShape, NEW n \in All, Process(n) PROVE TypeOK'
<1> USE DEF TypeOK, runVars, nodeVars, ctlVars, moneyVars, ResultFrame, NodeStatus, Processing, Failing
<1>1. CASE Succeed(n)
  BY <1>1 DEF Succeed
<1>2. CASE SchemaFails(n)
  BY <1>2 DEF SchemaFails
<1>3. CASE MissionNotFound(n)
  BY <1>3 DEF MissionNotFound
<1>4. CASE FailNode(n)
  BY <1>4 DEF FailNode
<1>5. CASE ReplanAborts(n)
  BY <1>5 DEF ReplanAborts, Return, ClearRunControl, RunStatus, Stage
<1>6. CASE ReplanSkips(n)
  BY <1>6 DEF ReplanSkips
<1>7. CASE ReplanRetries(n)
  <2>0. n \in graph.nodes
    BY <1>7 DEF ReplanRetries, WaveShape
  <2>1. CASE UNCHANGED <<graph, known>>
    BY <1>7, <2>1 DEF ReplanRetries
  <2>2. ASSUME NEW v \in Spare \ known, graph' = InsertVerify(n, v), known' = known \cup {v}
        PROVE  TypeOK'
    BY <1>7, <2>0, <2>2, VerifyType DEF ReplanRetries
  <2> QED
    BY <1>7, <2>1, <2>2 DEF ReplanRetries
<1> QED
  BY <1>1, <1>2, <1>3, <1>4, <1>5, <1>6, <1>7 DEF Process

-----------------------------------------------------------------------------
(* What the steps do to the nodes, the wave and the graph: the rest of the *)
(* proof uses these five facts, not the actions.                           *)

\* A boundary step other than StartWave returns, and may skip what is pending.
LEMMA StopEffect ==
  ASSUME TypeOK, Boundary, ~StartWave
  PROVE  /\ pc = "boundary" /\ pc' = "returned"
         /\ UNCHANGED <<graph, known, wave, stage, todo, replans, attempt>>
         /\ st' = st \/ st' = Skipped(st)
  BY DEF Boundary, AbortRun, CancelRun, PauseRun, ExceedBudget, FailRun, InterruptRun, FinishRun,
         Return, Unstopped, Exhausted, runVars, nodeVars, waveVars

LEMMA StartEffect ==
  ASSUME TypeOK, StartWave
  PROVE  /\ pc = "boundary" /\ pc' = "launch"
         /\ UNCHANGED <<graph, known, todo, replans, attempt, status>>
         /\ wave' \subseteq ReadyNodes
         /\ st' = [n \in All |-> IF n \in wave' THEN "ready" ELSE st[n]]
         /\ \A n \in All : stage'[n] = "none" <=> n \notin wave'
         /\ \A n \in All : stage'[n] # "empty"
<1> USE DEF TypeOK
<1>1. PICK W \in SUBSET ReadyNodes :
        /\ wave' = W
        /\ st' = [n \in All |-> IF n \in W THEN "ready" ELSE st[n]]
        /\ stage' = [n \in All |-> IF n \notin W THEN "none"
                                   ELSE IF KindOf(n) \in {"task", "contest"} /\ ~Inherits(n)
                                        THEN "error" ELSE "recall"]
  BY DEF StartWave
<1> QED
  BY <1>1 DEF StartWave, Unstopped, runVars

LEMMA LaunchEffect ==
  ASSUME TypeOK, WaveStarted, NEW n \in All, Launch(n)
  PROVE  /\ pc = "launch" /\ pc' = "launch" /\ n \in wave
         /\ UNCHANGED <<graph, known, wave, todo, replans>>
         /\ stage' = [stage EXCEPT ![n] = stage'[n]] /\ stage'[n] # "none"
         /\ st'[n] \in {"ready", "running", "blocked", "done", "failed"}
         /\ stage'[n] = "empty" => st'[n] \notin {"ready", "running"}
         /\ \A m \in All \ {n} : st'[m] = st[m] \/ (m \in known /\ st[m] = "pending" /\ st'[m] = "skipped")
<1> USE DEF TypeOK, LaunchFrame, Step, Launching, runVars, nodeVars, Stage
<1>1. pc = "launch" /\ pc' = "launch" /\ n \in wave /\ UNCHANGED <<graph, known, wave, todo, replans>>
  BY DEF Launch, BeginNode, EmptyLoop, MissionLaunched, LaunchThrows, LoopContinues, LoopDone, LoopFails,
         Iterated, RankContest, Interrupt, PassJoin, Refuse, Route, RouteFails
<1>2. st[n] \in {"ready", "running", "blocked", "done", "failed"}
  BY <1>1 DEF WaveStarted, Started
<1>3. CASE BeginNode(n)
  BY <1>1, <1>3 DEF BeginNode
<1>4. CASE EmptyLoop(n) \/ Interrupt(n) \/ PassJoin(n) \/ Refuse(n) \/ RouteFails(n)
  BY <1>1, <1>4 DEF EmptyLoop, Interrupt, PassJoin, Refuse, RouteFails
<1>5. CASE MissionLaunched(n)
  BY <1>1, <1>2, <1>5 DEF MissionLaunched
<1>6. CASE LaunchThrows(n)
  BY <1>1, <1>2, <1>6 DEF LaunchThrows
<1>7. CASE LoopContinues(n) \/ LoopDone(n) \/ LoopFails(n)
  BY <1>1, <1>7 DEF LoopContinues, LoopDone, LoopFails, Iterated
<1>8. CASE RankContest(n)
  BY <1>1, <1>8 DEF RankContest
<1>9. CASE Route(n)
  <2>1. PICK others : st' = [m \in All |-> IF m = n THEN "done"
                                           ELSE IF m \in others \cap known /\ st[m] = "pending" THEN "skipped"
                                           ELSE st[m]]
    BY <1>9 DEF Route
  <2> QED
    BY <1>1, <1>9, <2>1 DEF Route
<1> QED
  BY <1>3, <1>4, <1>5, <1>6, <1>7, <1>8, <1>9 DEF Launch

LEMMA ProcessEffect ==
  ASSUME TypeOK, NEW n \in All, Process(n)
  PROVE  /\ pc = "results" /\ n \in todo
         /\ st' = [st EXCEPT ![n] = st'[n]] /\ st'[n] \notin {"ready", "running"}
         /\ \/ /\ UNCHANGED <<pc, wave, stage, status>> /\ todo' = todo \ {n}
            \/ /\ pc' = "returned" /\ status' = "failed" /\ wave' = {} /\ todo' = {}
               /\ \A m \in All : stage'[m] = "none"
         /\ \/ UNCHANGED <<graph, known>>
            \/ \E v \in Spare \ known :
                 graph' = InsertVerify(n, v) /\ known' = known \cup {v} /\ wave' = wave
<1> USE DEF TypeOK, ResultFrame, Processing, Failing, runVars
<1>1. CASE Succeed(n) \/ SchemaFails(n) \/ MissionNotFound(n) \/ FailNode(n)
  BY <1>1 DEF Succeed, SchemaFails, MissionNotFound, FailNode
<1>2. CASE ReplanAborts(n)
  BY <1>2 DEF ReplanAborts, Return
<1>3. CASE ReplanSkips(n)
  BY <1>3 DEF ReplanSkips
<1>4. CASE ReplanRetries(n)
  BY <1>4 DEF ReplanRetries
<1> QED
  BY <1>1, <1>2, <1>3, <1>4 DEF Process

\* The steps that touch no node.
Idle ==
  WaitReturns \/ (\E n \in All : Settle(n)) \/ PauseGraphRun \/ CancelGraphRun \/ Abort \/ UNCHANGED vars

LEMMA IdleEffect ==
  ASSUME TypeOK, Idle
  PROVE  /\ UNCHANGED <<graph, known, st, wave, stage, status, replans, attempt>>
         /\ \/ UNCHANGED <<pc, todo>>
            \/ /\ pc = "wait" /\ pc' = "results"
               /\ todo' = {n \in wave : stage[n] = "launched"}
  BY DEF Idle, WaitReturns, Settle, MissionSettles, GiveUpMission, PauseGraphRun, CancelGraphRun, Abort,
         vars, nodeVars, runVars, waveVars, ctlVars

\* A step is one of these.
LEMMA NextSplit ==
  [Next]_vars => \/ Boundary /\ ~StartWave
                 \/ StartWave
                 \/ \E n \in All : Launch(n)
                 \/ \E n \in All : Process(n)
                 \/ CloseLaunch \/ CloseWave \/ CancelReturnedRun \/ Resume
                 \/ Idle
  BY DEF Next, Loop, Control, Idle

-----------------------------------------------------------------------------
(* The invariants about the wave.                                          *)

LEMMA NextType == TypeOK /\ WaveShape /\ [Next]_vars => TypeOK'
<1> SUFFICES ASSUME TypeOK, WaveShape, [Next]_vars PROVE TypeOK'
  OBVIOUS
<1>1. CASE Next
  BY <1>1, BoundaryType, LaunchType, ProcessType, OtherType DEF Next, Loop
<1>2. CASE UNCHANGED vars
  BY <1>2 DEF TypeOK, vars, nodeVars, runVars, waveVars, ctlVars, moneyVars
<1> QED
  BY <1>1, <1>2

LEMMA NextWaveShape == TypeOK /\ WaveShape /\ WaveStarted /\ [Next]_vars => WaveShape'
<1> SUFFICES ASSUME TypeOK, WaveShape, WaveStarted, [Next]_vars PROVE WaveShape'
  OBVIOUS
<1> USE DEF WaveShape
<1>1. CASE Boundary /\ ~StartWave
  BY <1>1, StopEffect
<1>2. CASE StartWave
  BY <1>2, StartEffect DEF ReadyNodes, TypeOK
<1>3. ASSUME NEW n \in All, Launch(n) PROVE WaveShape'
  BY <1>3, LaunchEffect DEF TypeOK
<1>4. ASSUME NEW n \in All, Process(n) PROVE WaveShape'
  <2>1. CASE UNCHANGED <<graph, known>>
    BY <1>4, <2>1, ProcessEffect
  <2>2. ASSUME NEW v \in Spare \ known, graph' = InsertVerify(n, v), wave' = wave PROVE WaveShape'
    <3>1. graph'.nodes = graph.nodes \cup {v}
      BY <2>2 DEF InsertVerify
    <3> QED
      BY <1>4, <2>2, <3>1, ProcessEffect
  <2> QED
    BY <1>4, <2>1, <2>2, ProcessEffect
<1>5. CASE CloseLaunch
  BY <1>5 DEF CloseLaunch, runVars
<1>6. CASE CloseWave
  BY <1>6 DEF CloseWave, runVars
<1>7. CASE CancelReturnedRun
  BY <1>7 DEF CancelReturnedRun, runVars, waveVars
<1>8. CASE Resume
  BY <1>8 DEF Resume, waveVars
<1>9. CASE Idle
  BY <1>9, IdleEffect
<1> QED
  BY <1>1, <1>2, <1>3, <1>4, <1>5, <1>6, <1>7, <1>8, <1>9, NextSplit

LEMMA NextWaveStarted == TypeOK /\ WaveShape /\ WaveStarted /\ [Next]_vars => WaveStarted'
<1> SUFFICES ASSUME TypeOK, WaveShape, WaveStarted, [Next]_vars PROVE WaveStarted'
  OBVIOUS
<1> USE DEF WaveStarted, Started
<1>1. CASE Boundary /\ ~StartWave
  BY <1>1, StopEffect DEF WaveShape
<1>2. CASE StartWave
  BY <1>2, StartEffect DEF ReadyNodes, TypeOK
<1>3. ASSUME NEW n \in All, Launch(n) PROVE WaveStarted'
  BY <1>3, LaunchEffect DEF TypeOK
<1>4. ASSUME NEW n \in All, Process(n) PROVE WaveStarted'
  BY <1>4, ProcessEffect DEF TypeOK
<1>5. CASE CloseLaunch
  BY <1>5 DEF CloseLaunch, TypeOK
<1>6. CASE CloseWave
  BY <1>6 DEF CloseWave
<1>7. CASE CancelReturnedRun
  BY <1>7 DEF CancelReturnedRun, waveVars, WaveShape
<1>8. CASE Resume
  BY <1>8 DEF Resume, waveVars, WaveShape
<1>9. CASE Idle
  BY <1>9, IdleEffect
<1> QED
  BY <1>1, <1>2, <1>3, <1>4, <1>5, <1>6, <1>7, <1>8, <1>9, NextSplit

LEMMA NextBusyShape ==
  TypeOK /\ WaveShape /\ WaveStarted /\ BusyShape /\ FreshSpares /\ [Next]_vars => BusyShape'
<1> SUFFICES ASSUME TypeOK, WaveShape, WaveStarted, BusyShape, FreshSpares, [Next]_vars PROVE BusyShape'
  OBVIOUS
<1> USE DEF BusyShape, Busy, WaveShape
<1>0. wave \subseteq All
  BY DEF TypeOK
<1>1. CASE Boundary /\ ~StartWave
  BY <1>1, StopEffect DEF Skipped
<1>2. CASE StartWave
  BY <1>2, StartEffect DEF ReadyNodes, TypeOK
<1>3. ASSUME NEW n \in All, Launch(n) PROVE BusyShape'
  BY <1>0, <1>3, LaunchEffect DEF TypeOK
<1>4. ASSUME NEW n \in All, Process(n) PROVE BusyShape'
  BY <1>0, <1>4, ProcessEffect DEF TypeOK
<1>5. CASE CloseLaunch
  BY <1>0, <1>5 DEF CloseLaunch
<1>6. CASE CloseWave
  BY <1>0, <1>6 DEF CloseWave, nodeVars
<1>7. CASE CancelReturnedRun
  BY <1>7 DEF CancelReturnedRun, waveVars, Skipped, FreshSpares
<1>8. CASE Resume
  BY <1>8 DEF Resume, waveVars
<1>9. CASE Idle
  BY <1>0, <1>9, IdleEffect
<1> QED
  BY <1>1, <1>2, <1>3, <1>4, <1>5, <1>6, <1>7, <1>8, <1>9, NextSplit

LEMMA NextFreshSpares ==
  TypeOK /\ WaveShape /\ WaveStarted /\ FreshSpares /\ [Next]_vars => FreshSpares'
<1> SUFFICES ASSUME TypeOK, WaveShape, WaveStarted, FreshSpares, [Next]_vars PROVE FreshSpares'
  OBVIOUS
<1> USE DEF FreshSpares
<1>0. wave \subseteq known /\ graph.nodes \subseteq known /\ todo \subseteq known
  BY DEF TypeOK, WaveShape
<1>1. CASE Boundary /\ ~StartWave
  BY <1>1, StopEffect DEF Skipped
<1>2. CASE StartWave
  BY <1>0, <1>2, StartEffect DEF ReadyNodes, TypeOK
<1>3. ASSUME NEW n \in All, Launch(n) PROVE FreshSpares'
  BY <1>0, <1>3, LaunchEffect
<1>4. ASSUME NEW n \in All, Process(n) PROVE FreshSpares'
  BY <1>0, <1>4, ProcessEffect DEF TypeOK
<1>5. CASE CloseLaunch
  BY <1>0, <1>5 DEF CloseLaunch, runVars
<1>6. CASE CloseWave
  BY <1>6 DEF CloseWave, nodeVars, runVars
<1>7. CASE CancelReturnedRun
  BY <1>7 DEF CancelReturnedRun, Skipped, runVars
<1>8. CASE Resume
  BY <1>8 DEF Resume
<1>9. CASE Idle
  BY <1>9, IdleEffect
<1> QED
  BY <1>1, <1>2, <1>3, <1>4, <1>5, <1>6, <1>7, <1>8, <1>9, NextSplit

-----------------------------------------------------------------------------
(* Verify nodes hang between their origin and what depends on it.          *)

LEMMA VerifyKeepsStems ==
  ASSUME TypeOK, EdgesInside, StemEdges, StemCovers, NEW n \in graph.nodes, NEW v \in Spare \ known,
         graph' = InsertVerify(n, v)
  PROVE  EdgesInside' /\ StemEdges' /\ StemCovers'
<1> USE DEF TypeOK
<1>0. /\ n # v /\ v \notin graph.nodes /\ v \notin Node /\ n \in All
      /\ graph.stem \in [Spare -> All]
  BY GraphAssumption
<1>1. graph'.nodes = graph.nodes \cup {v}
  BY DEF InsertVerify
<1>2. graph'.stem = [graph.stem EXCEPT ![v] = Stem(n)]
  BY DEF InsertVerify
<1>3. [from |-> n, to |-> v, cond |-> Always] \in graph'.edges
  BY DEF InsertVerify
<1>4. \A e \in graph.edges : e.from = n =>
         [from |-> v, to |-> e.to, cond |-> Always] \in graph'.edges
  BY DEF InsertVerify, Out
<1>5. \A e \in graph.edges : e.from # n => e \in graph'.edges
  BY DEF InsertVerify, Out
<1>6. \A w \in Spare : w # v => graph'.stem[w] = graph.stem[w]
  BY <1>0, <1>2
<1>7. graph'.stem[v] = Stem(n)
  BY <1>0, <1>2
<1>8. \A e \in graph.edges : e.from # v /\ e.to # v
  BY <1>0 DEF EdgesInside
<1>9. n \in Node => Stem(n) = n
  BY DEF Stem
<1>10. n \in Spare => Stem(n) = graph.stem[n]
  BY GraphAssumption DEF Stem
<1>11. EdgesInside'
  BY <1>1 DEF EdgesInside, InsertVerify, Out
<1>12. StemEdges'
  <2>0. Stem(n) \in Node
    BY <1>0, <1>9, <1>10 DEF StemEdges
  <2>1. graph'.stem[v] \in Node /\ \E e \in graph'.edges : e.to = v /\
          (e.from = graph'.stem[v] \/ (e.from \in Spare /\ graph'.stem[e.from] = graph'.stem[v]))
    <3> DEFINE e == [from |-> n, to |-> v, cond |-> Always]
    <3>1. n = Stem(n) \/ (n \in Spare /\ graph'.stem[n] = Stem(n))
      BY <1>0, <1>6, <1>9, <1>10
    <3>2. e \in graph'.edges /\ e.to = v /\ e.from = n
      BY <1>3
    <3> QED
      BY <1>7, <2>0, <3>1, <3>2
  <2>2. ASSUME NEW w \in Spare \cap graph.nodes
        PROVE  graph'.stem[w] \in Node /\ \E e \in graph'.edges : e.to = w /\
                 (e.from = graph'.stem[w] \/ (e.from \in Spare /\ graph'.stem[e.from] = graph'.stem[w]))
    <3>0. w # v /\ graph'.stem[w] = graph.stem[w] /\ graph.stem[w] \in Node
      BY <1>0, <1>6 DEF StemEdges
    <3>1. PICK e \in graph.edges : e.to = w /\
            (e.from = graph.stem[w] \/ (e.from \in Spare /\ graph.stem[e.from] = graph.stem[w]))
      BY DEF StemEdges
    <3>2. CASE e.from # n
      BY <1>5, <1>6, <1>8, <3>0, <3>1, <3>2
    <3>3. CASE e.from = n
      <4> DEFINE f == [from |-> v, to |-> e.to, cond |-> Always]
      <4>1. f \in graph'.edges /\ f.to = w /\ f.from = v
        BY <1>4, <3>1, <3>3
      <4>2. graph.stem[w] = Stem(n)
        BY <1>9, <1>10, <3>0, <3>1, <3>3
      <4> QED
        BY <1>7, <3>0, <4>1, <4>2
    <3> QED
      BY <3>2, <3>3
  <2> QED
    BY <1>1, <2>1, <2>2 DEF StemEdges
<1>13. StemCovers'
  <2> SUFFICES ASSUME NEW d \in Edge0
               PROVE  \E e \in graph'.edges : e.to = d.to /\
                        (e.from = d.from \/ (e.from \in Spare /\ graph'.stem[e.from] = d.from))
    BY DEF StemCovers
  <2>1. PICK e \in graph.edges : e.to = d.to /\
          (e.from = d.from \/ (e.from \in Spare /\ graph.stem[e.from] = d.from))
    BY DEF StemCovers
  <2>2. CASE e.from # n
    BY <1>5, <1>6, <1>8, <2>1, <2>2
  <2>3. CASE e.from = n
    <3> DEFINE f == [from |-> v, to |-> e.to, cond |-> Always]
    <3>1. f \in graph'.edges /\ f.to = d.to /\ f.from = v
      BY <1>4, <2>1, <2>3
    <3>2. d.from \in Node
      BY GraphAssumption
    <3>3. Stem(n) = d.from
      BY <1>9, <1>10, <2>1, <2>3, <3>2
    <3> QED
      BY <1>7, <3>1, <3>3
  <2> QED
    BY <2>2, <2>3
<1> QED
  BY <1>11, <1>12, <1>13

\* What starts a run or resumes one: the compiled graph, without verify nodes.
LEMMA CompiledStems ==
  ASSUME graph.nodes = Node, graph.edges = Edge0
  PROVE  EdgesInside /\ StemEdges /\ StemCovers
  BY GraphAssumption DEF EdgesInside, StemEdges, StemCovers

LEMMA NextStems ==
  TypeOK /\ WaveShape /\ WaveStarted /\ EdgesInside /\ StemEdges /\ StemCovers /\ [Next]_vars
    => EdgesInside' /\ StemEdges' /\ StemCovers'
<1> SUFFICES ASSUME TypeOK, WaveShape, WaveStarted, EdgesInside, StemEdges, StemCovers, [Next]_vars
             PROVE  EdgesInside' /\ StemEdges' /\ StemCovers'
  OBVIOUS
<1>0. CASE UNCHANGED graph
  BY <1>0 DEF EdgesInside, StemEdges, StemCovers
<1>1. ASSUME NEW n \in All, Process(n), ~ UNCHANGED graph
      PROVE  EdgesInside' /\ StemEdges' /\ StemCovers'
  <2>1. n \in graph.nodes
    BY <1>1, ProcessEffect DEF WaveShape
  <2>2. PICK v \in Spare \ known : graph' = InsertVerify(n, v)
    BY <1>1, ProcessEffect
  <2> QED
    BY <2>1, <2>2, VerifyKeepsStems
<1>2. CASE Resume
  <2>1. graph'.nodes = Node /\ graph'.edges = Edge0
    BY <1>2 DEF Resume, Graph0
  <2> QED
    BY <2>1, GraphAssumption DEF EdgesInside, StemEdges, StemCovers
<1>3. CASE CloseLaunch \/ CloseWave \/ CancelReturnedRun
  BY <1>0, <1>3 DEF CloseLaunch, CloseWave, CancelReturnedRun, runVars
<1>4. CASE (Boundary /\ ~StartWave) \/ StartWave \/ Idle \/ \E n \in All : Launch(n)
  BY <1>0, <1>4, StopEffect, StartEffect, IdleEffect, LaunchEffect
<1> QED
  BY <1>0, <1>1, <1>2, <1>3, <1>4, NextSplit

-----------------------------------------------------------------------------
(* What is settled stays settled, only a new wave starts nodes, and so the *)
(* dependencies of what has started are settled.                           *)

LEMMA SettledStays ==
  ASSUME TypeOK, WaveShape, WaveStarted, [Next]_vars, NEW m \in All, Settled(m)
  PROVE  Settled(m)'
<1> USE DEF Settled
<1>1. CASE Boundary /\ ~StartWave
  BY <1>1, StopEffect DEF Skipped
<1>2. CASE StartWave
  BY <1>2, StartEffect DEF ReadyNodes, IsReady
<1>3. ASSUME NEW n \in All, Launch(n) PROVE Settled(m)'
  BY <1>3, LaunchEffect
<1>4. ASSUME NEW n \in All, Process(n) PROVE Settled(m)'
  <2>1. n \in wave /\ m # n
    BY <1>4, ProcessEffect DEF WaveShape
  <2>2. st'[m] = st[m] /\ wave' \subseteq wave
    BY <1>4, <2>1, ProcessEffect DEF TypeOK
  <2> QED
    BY <2>2
<1>5. CASE CloseLaunch
  BY <1>5 DEF CloseLaunch
<1>6. CASE CloseWave
  BY <1>6 DEF CloseWave, nodeVars
<1>7. CASE CancelReturnedRun
  BY <1>7 DEF CancelReturnedRun, Skipped, waveVars
<1>8. CASE Resume
  BY <1>8 DEF Resume, waveVars
<1>9. CASE Idle
  BY <1>9, IdleEffect
<1> QED
  BY <1>1, <1>2, <1>3, <1>4, <1>5, <1>6, <1>7, <1>8, <1>9, NextSplit

LEMMA StartedBefore ==
  ASSUME TypeOK, WaveShape, WaveStarted, [Next]_vars, ~StartWave, NEW m \in All, Started(m)'
  PROVE  Started(m)
<1> USE DEF Started
<1>1. CASE Boundary /\ ~StartWave
  BY <1>1, StopEffect DEF Skipped
<1>2. ASSUME NEW n \in All, Launch(n) PROVE Started(m)
  BY <1>2, LaunchEffect DEF WaveStarted
<1>3. ASSUME NEW n \in All, Process(n) PROVE Started(m)
  <2>1. Started(n)
    BY <1>3, ProcessEffect DEF WaveStarted, WaveShape
  <2>2. m # n => st'[m] = st[m]
    BY <1>3, ProcessEffect DEF TypeOK
  <2> QED
    BY <2>1, <2>2
<1>4. CASE CloseLaunch
  BY <1>4 DEF CloseLaunch, WaveStarted
<1>5. CASE CloseWave
  BY <1>5 DEF CloseWave, nodeVars
<1>6. CASE CancelReturnedRun
  BY <1>6 DEF CancelReturnedRun, Skipped
<1>7. CASE Resume
  BY <1>7 DEF Resume
<1>8. CASE Idle
  BY <1>8, IdleEffect
<1> QED
  BY <1>1, <1>2, <1>3, <1>4, <1>5, <1>6, <1>7, <1>8, NextSplit

LEMMA StartSettledDeps ==
  ASSUME TypeOK, WaveShape, WaveStarted, EdgesInside, StemEdges, StemCovers, SettledDeps, StartWave
  PROVE  SettledDeps'
<1> USE DEF TypeOK
<1>0. /\ wave = {} /\ wave' \subseteq ReadyNodes /\ UNCHANGED graph
      /\ st' = [n \in All |-> IF n \in wave' THEN "ready" ELSE st[n]]
  BY StartEffect DEF WaveShape
<1>1. \A m \in All : Settled(m) => Settled(m)'
  BY SettledStays DEF Next, Loop, Boundary
<1>2. \A m \in All : Started(m)' => Started(m) \/ m \in wave'
  BY <1>0 DEF Started
<1>3. \A m \in All : st[m] = "done" => Settled(m) /\ Started(m)
  BY <1>0 DEF Settled, Started
<1>4. \A m \in wave', e \in graph.edges : e.to = m => Settled(e.from) /\ Started(e.from) /\ e.from \in All
  BY <1>0, <1>3 DEF ReadyNodes, IsReady, In, EdgeType
<1>5. \A e \in graph'.edges : Started(e.to)' => Settled(e.from)'
  <2> SUFFICES ASSUME NEW e \in graph.edges, Started(e.to)' PROVE Settled(e.from)'
    BY <1>0
  <2> e.from \in All /\ e.to \in All
    BY DEF EdgeType
  <2>1. Started(e.to) => Settled(e.from)
    BY DEF SettledDeps
  <2> QED
    BY <1>1, <1>2, <1>4, <2>1
<1>6. \A d \in Edge0 : Started(d.to)' => Settled(d.from)'
  <2> SUFFICES ASSUME NEW d \in Edge0, Started(d.to)' PROVE Settled(d.from)'
    OBVIOUS
  <2> d.from \in All /\ d.to \in All
    BY GraphAssumption
  <2>1. Started(d.to) => Settled(d.from)
    BY DEF SettledDeps
  <2>2. d.to \in wave' => Settled(d.from)
    BY <1>4 DEF StemCovers, SettledDeps
  <2> QED
    BY <1>1, <1>2, <2>1, <2>2
<1>7. \A v \in Spare : Started(v)' => Settled(graph.stem[v])'
  <2> SUFFICES ASSUME NEW v \in Spare, Started(v)' PROVE Settled(graph.stem[v])'
    OBVIOUS
  <2> graph.stem[v] \in All
    OBVIOUS
  <2>1. Started(v) => Settled(graph.stem[v])
    BY DEF SettledDeps
  <2>2. v \in wave' => Settled(graph.stem[v])
    <3>1. v \in wave' => v \in graph.nodes
      BY <1>0 DEF ReadyNodes
    <3> QED
      BY <1>4, <3>1 DEF StemEdges, SettledDeps
  <2> QED
    BY <1>0, <1>1, <1>2, <2>1, <2>2
<1> QED
  BY <1>5, <1>6, <1>7 DEF SettledDeps

LEMMA NextSettledDeps ==
  ASSUME TypeOK, WaveShape, WaveStarted, EdgesInside, StemEdges, StemCovers, FreshSpares, SettledDeps,
         [Next]_vars
  PROVE  SettledDeps'
<1> USE DEF TypeOK
<1>0. CASE StartWave
  BY <1>0, StartSettledDeps
<1> SUFFICES ASSUME ~StartWave PROVE SettledDeps'
  BY <1>0
<1>1. \A m \in All : Settled(m) => Settled(m)'
  BY SettledStays
<1>2. \A m \in All : Started(m)' => Started(m)
  BY StartedBefore
<1>3. \A d \in Edge0 : Started(d.to)' => Settled(d.from)'
  BY <1>1, <1>2, GraphAssumption DEF SettledDeps
<1>4. CASE UNCHANGED graph
  <2>1. \A e \in graph.edges : Started(e.to)' => Settled(e.from)'
    BY <1>1, <1>2 DEF SettledDeps, EdgeType
  <2>2. \A v \in Spare : Started(v)' => Settled(graph.stem[v])'
    BY <1>1, <1>2, <1>4 DEF SettledDeps
  <2> QED
    BY <1>3, <1>4, <2>1, <2>2 DEF SettledDeps
<1>5. CASE Resume
  <2>1. graph'.edges = Edge0 /\ graph'.stem = graph.stem
    BY <1>5 DEF Resume, Graph0
  <2>2. \A v \in Spare : Started(v)' => Settled(graph.stem[v])'
    BY <1>1, <1>2, <2>1 DEF SettledDeps
  <2> QED
    BY <1>3, <2>1, <2>2 DEF SettledDeps
<1>6. ASSUME NEW n \in All, Process(n), ~ UNCHANGED graph PROVE SettledDeps'
  <2>1. n \in graph.nodes /\ n \in wave
    BY <1>6, ProcessEffect DEF WaveShape
  <2>2. PICK v \in Spare \ known : graph' = InsertVerify(n, v)
    BY <1>6, ProcessEffect
  <2>3. ~Started(v)'
    BY <1>2, <2>2 DEF FreshSpares, Started
  <2>4. ~Settled(n)
    BY <2>1 DEF Settled
  <2>5. \A e \in graph'.edges : Started(e.to)' => Settled(e.from)'
    <3> SUFFICES ASSUME NEW e \in graph'.edges, Started(e.to)' PROVE Settled(e.from)'
      OBVIOUS
    <3>1. CASE e \in graph.edges
      BY <1>1, <1>2, <3>1 DEF SettledDeps, EdgeType
    <3>2. CASE e.to = v
      BY <2>3, <3>2
    <3>3. ASSUME NEW f \in graph.edges, f.from = n, e.to = f.to PROVE FALSE
      BY <1>2, <2>4, <3>3 DEF SettledDeps, EdgeType
    <3> QED
      BY <2>2, <3>1, <3>2, <3>3 DEF InsertVerify, Out
  <2>6. \A w \in Spare : Started(w)' => Settled(graph.stem[w])'
    <3> SUFFICES ASSUME NEW w \in Spare, Started(w)' PROVE Settled(graph.stem[w])'
      OBVIOUS
    <3>1. w # v /\ graph'.stem[w] = graph.stem[w] /\ graph.stem[w] \in All
      BY <2>2, <2>3 DEF InsertVerify
    <3> QED
      BY <1>1, <1>2, <3>1 DEF SettledDeps
  <2> QED
    BY <1>3, <2>5, <2>6 DEF SettledDeps
<1>7. CASE CloseLaunch \/ CloseWave \/ CancelReturnedRun
  BY <1>4, <1>7 DEF CloseLaunch, CloseWave, CancelReturnedRun, runVars
<1>8. CASE (Boundary /\ ~StartWave) \/ Idle \/ \E n \in All : Launch(n)
  BY <1>4, <1>8, StopEffect, IdleEffect, LaunchEffect
<1> QED
  BY <1>4, <1>5, <1>6, <1>7, <1>8, NextSplit

-----------------------------------------------------------------------------
(* The invariant.                                                          *)

LEMMA InitIInv == Init => IInv
<1> SUFFICES ASSUME Init PROVE IInv
  OBVIOUS
<1>1. TypeOK
  BY InitType
<1>2. EdgesInside /\ StemEdges /\ StemCovers
  <2>1. graph.nodes = Node /\ graph.edges = Edge0
    BY DEF Init, Graph0
  <2> QED
    BY <2>1, CompiledStems
<1>3. WaveShape /\ BusyShape /\ WaveStarted /\ FreshSpares
  BY DEF Init, WaveShape, BusyShape, Busy, WaveStarted, FreshSpares
<1>4. SettledDeps
  BY <1>1, GraphAssumption DEF Init, SettledDeps, Started, Graph0, TypeOK
<1> QED
  BY <1>1, <1>2, <1>3, <1>4 DEF IInv

LEMMA NextIInv == IInv /\ [Next]_vars => IInv'
  BY NextType, NextWaveShape, NextBusyShape, NextWaveStarted, NextFreshSpares, NextStems, NextSettledDeps
     DEF IInv

\* The invariant holds in every state of every run of every graph.
THEOREM Invariant == Spec => []IInv
  BY InitIInv, NextIInv, PTL DEF Spec

\* The variables of the executor keep their types.
THEOREM TypeCorrect == Spec => []TypeOK
<1>1. IInv => TypeOK
  BY DEF IInv
<1> QED
  BY <1>1, Invariant, PTL

\* No node starts before everything it depends on in the compiled graph is
\* done (getReadyNodes), whatever replans and re-entries make of the edges.
THEOREM DependenciesDone == Spec => []DepsDone
<1>1. IInv => DepsDone
  BY DEF IInv, SettledDeps, DepsDone, Settled
<1> QED
  BY <1>1, Invariant, PTL

\* Nor before everything it depends on in the graph as patched by replans.
THEOREM PatchedDependenciesDone == Spec => []PatchedDepsDone
<1>1. IInv => PatchedDepsDone
  BY DEF IInv, SettledDeps, PatchedDepsDone, Settled
<1> QED
  BY <1>1, Invariant, PTL

\* Between waves no node is left ready or running: the loop's sleep-and-look
\* branch is never entered, and a cancel there meets no running node.
THEOREM QuietBoundary == Spec => []BoundaryQuiet
<1>1. IInv => BoundaryQuiet
  BY DEF IInv, BusyShape, Busy, WaveShape, BoundaryQuiet
<1> QED
  BY <1>1, Invariant, PTL

\* Work that is done and whose wave is over is never taken back.
THEOREM DoneStays == Spec => DoneIsKept
<1>1. IInv /\ [Next]_vars => \A n \in All : (st[n] = "done" /\ n \notin wave) => st'[n] = "done"
  BY SettledStays DEF IInv, Settled
<1> QED
  BY <1>1, Invariant, PTL DEF Spec, DoneIsKept

-----------------------------------------------------------------------------
(* Retries.                                                                *)

LEMMA LaunchRetries == ASSUME IInv, RetriesShape, NEW n \in All, Launch(n) PROVE RetriesShape'
<1> USE LimitAssumption DEF RetriesShape, RetriesBounded, IInv, TypeOK
<1> USE DEF LaunchFrame, Step, Launching, runVars, nodeVars
<1>1. CASE BeginNode(n) \/ EmptyLoop(n)
  BY <1>1 DEF BeginNode, EmptyLoop
<1>2. CASE MissionLaunched(n) \/ LaunchThrows(n) \/ Interrupt(n) \/ PassJoin(n) \/ Refuse(n) \/ RouteFails(n)
  BY <1>2 DEF MissionLaunched, LaunchThrows, Interrupt, PassJoin, Refuse, RouteFails
<1>3. CASE LoopContinues(n) \/ LoopDone(n) \/ LoopFails(n)
  BY <1>3 DEF LoopContinues, LoopDone, LoopFails, Iterated
<1>4. CASE RankContest(n)
  BY <1>4 DEF RankContest
<1>5. CASE Route(n)
  <2>1. PICK others : st' = [m \in All |-> IF m = n THEN "done"
                                           ELSE IF m \in others \cap known /\ st[m] = "pending" THEN "skipped"
                                           ELSE st[m]]
    BY <1>5 DEF Route
  <2> QED
    BY <1>5, <2>1 DEF Route
<1> QED
  BY <1>1, <1>2, <1>3, <1>4, <1>5 DEF Launch

LEMMA ProcessRetries == ASSUME IInv, RetriesShape, NEW n \in All, Process(n) PROVE RetriesShape'
<1> USE LimitAssumption DEF RetriesShape, RetriesBounded, IInv, TypeOK
<1> USE DEF ResultFrame, Processing, Failing, runVars, nodeVars
<1>1. CASE Succeed(n) \/ SchemaFails(n) \/ MissionNotFound(n) \/ FailNode(n)
  BY <1>1 DEF Succeed, SchemaFails, MissionNotFound, FailNode
<1>2. CASE ReplanAborts(n)
  BY <1>2 DEF ReplanAborts
<1>3. CASE ReplanSkips(n)
  BY <1>3 DEF ReplanSkips, Exceeded
<1>4. CASE ReplanRetries(n)
  BY <1>4 DEF ReplanRetries, Exceeded
<1> QED
  BY <1>1, <1>2, <1>3, <1>4 DEF Process

LEMMA NextRetries == IInv /\ RetriesShape /\ [Next]_vars => RetriesShape'
<1> SUFFICES ASSUME IInv, RetriesShape, [Next]_vars PROVE RetriesShape'
  OBVIOUS
<1> USE LimitAssumption DEF RetriesShape, RetriesBounded, IInv, TypeOK
<1>1. CASE Boundary /\ ~StartWave
  BY <1>1, StopEffect DEF Skipped, WaveShape
<1>2. CASE StartWave
  BY <1>2, StartEffect DEF ReadyNodes, IsReady
<1>3. ASSUME NEW n \in All, Launch(n) PROVE RetriesShape'
  BY <1>3, LaunchRetries
<1>4. ASSUME NEW n \in All, Process(n) PROVE RetriesShape'
  BY <1>4, ProcessRetries
<1>5. CASE CloseLaunch
  BY <1>5 DEF CloseLaunch, runVars, WaveShape
<1>6. CASE CloseWave
  BY <1>6 DEF CloseWave, nodeVars, runVars
<1>7. CASE CancelReturnedRun
  BY <1>7 DEF CancelReturnedRun, Skipped, runVars, waveVars
<1>8. CASE Resume
  BY <1>8 DEF Resume, waveVars
<1>9. CASE Idle
  BY <1>9, IdleEffect DEF WaveShape
<1> QED
  BY <1>1, <1>2, <1>3, <1>4, <1>5, <1>6, <1>7, <1>8, <1>9, NextSplit

\* Over all its re-entries a run has at most MaxReplans replans, and launches
\* a node at most once more than it had replans.
THEOREM BoundedRetries == Spec => []RetriesBounded
<1>1. Init => RetriesShape
  BY LimitAssumption DEF Init, RetriesShape, RetriesBounded
<1>2. RetriesShape => RetriesBounded
  BY DEF RetriesShape
<1> QED
  BY <1>1, <1>2, NextRetries, Invariant, PTL DEF Spec

-----------------------------------------------------------------------------
(* The patches of the replan engine leave the graph acyclic.               *)

LEMMA VerifyKeepsAcyclic ==
  ASSUME TypeOK, EdgesInside, Acyclic, NEW n \in graph.nodes, NEW v \in Spare \ known
  PROVE  IsAcyclic(InsertVerify(n, v).edges)
<1> DEFINE new == InsertVerify(n, v).edges
<1> SUFFICES ASSUME NEW S \in SUBSET All, S # {},
                    \A m \in S : \E e \in new : e.from = m /\ e.to \in S
             PROVE  FALSE
  BY DEF IsAcyclic
<1>1. /\ v \notin graph.nodes /\ n # v
      /\ \A e \in graph.edges : e.from # v /\ e.to # v
  BY DEF TypeOK, EdgesInside
<1>2. \A e \in new : \/ e \in graph.edges /\ e.from # n
                     \/ e.from = n /\ e.to = v
                     \/ e.from = v /\ \E f \in graph.edges : f.from = n /\ e.to = f.to
  BY DEF InsertVerify, Out
<1>3. v \in S => \E f \in graph.edges : f.from = n /\ f.to \in S \ {v}
  BY <1>1, <1>2
<1>4. \A m \in S \ {v} : \E e \in graph.edges : e.from = m /\ e.to \in S \ {v}
  BY <1>1, <1>2, <1>3
<1>5. S \ {v} # {}
  BY <1>3
<1> QED
  BY <1>4, <1>5 DEF Acyclic, IsAcyclic

\* No replan makes the graph of a run cyclic (applyPatch).
THEOREM StaysAcyclic == Spec => []Acyclic
<1>1. Init => Acyclic
  BY GraphAssumption DEF Init, Acyclic, Graph0
<1>2. IInv /\ Acyclic /\ [Next]_vars => Acyclic'
  <2> SUFFICES ASSUME IInv, Acyclic, [Next]_vars PROVE Acyclic'
    OBVIOUS
  <2>0. CASE UNCHANGED graph
    BY <2>0 DEF Acyclic
  <2>1. ASSUME NEW n \in All, Process(n), ~ UNCHANGED graph PROVE Acyclic'
    <3>1. n \in graph.nodes
      BY <2>1, ProcessEffect DEF IInv, WaveShape
    <3>2. PICK v \in Spare \ known : graph' = InsertVerify(n, v)
      BY <2>1, ProcessEffect DEF IInv
    <3> QED
      BY <3>1, <3>2, VerifyKeepsAcyclic DEF IInv, Acyclic
  <2>2. CASE Resume
    BY <2>2, GraphAssumption DEF Resume, Graph0, Acyclic
  <2>3. CASE CloseLaunch \/ CloseWave \/ CancelReturnedRun
    BY <2>0, <2>3 DEF CloseLaunch, CloseWave, CancelReturnedRun, runVars
  <2>4. CASE (Boundary /\ ~StartWave) \/ StartWave \/ Idle \/ \E n \in All : Launch(n)
    BY <2>0, <2>4, StopEffect, StartEffect, IdleEffect, LaunchEffect DEF IInv
  <2> QED
    BY <2>0, <2>1, <2>2, <2>3, <2>4, NextSplit
<1> QED
  BY <1>1, <1>2, Invariant, PTL DEF Spec

-----------------------------------------------------------------------------
(* The executor implements DagRun.                                         *)

\* The tasks that are done for DagRun.
DoneTasks == {n \in Node : Settled(n)}

LEMMA InitDag == Init => Dag!DagInit
  BY DEF Init, Dag!DagInit, Settled

\* A step that settles nothing, keeps the wave and keeps the loop in or out.
LEMMA Stutter ==
  ASSUME TypeOK, \A m \in Node : Settled(m)' = Settled(m), wave' = wave,
         (pc' # "returned") = (pc # "returned")
  PROVE  UNCHANGED Dag!dagVars
  BY DEF Dag!dagVars

LEMMA StartBegins == ASSUME IInv, StartWave PROVE Dag!DagNext
<1> USE DEF TypeOK, IInv
<1>1. /\ pc = "boundary" /\ pc' = "launch" /\ wave = {} /\ wave' \subseteq ReadyNodes
      /\ st' = [n \in All |-> IF n \in wave' THEN "ready" ELSE st[n]]
  BY StartEffect DEF WaveShape
<1>2. \A m \in All : Settled(m)' = Settled(m)
  BY <1>1 DEF Settled, ReadyNodes, IsReady
<1>3. DoneTasks' = DoneTasks
  BY <1>2 DEF DoneTasks
<1>4. \A t \in wave' \cap Node : t \notin DoneTasks
                                 /\ \A a \in Node : <<a, t>> \in {<<e.from, e.to>> : e \in Edge0} => a \in DoneTasks
  <2> TAKE t \in wave' \cap Node
  <2>1. st'[t] = "ready" /\ t \notin DoneTasks
    BY <1>1 DEF DoneTasks, Settled, ReadyNodes, IsReady
  <2>2. Started(t)'
    BY <2>1 DEF Started
  <2>3. SettledDeps'
    BY StartSettledDeps
  <2> QED
    BY <1>2, <2>1, <2>2, <2>3 DEF SettledDeps, DoneTasks
<1>5. Dag!Begin(wave' \cap Node)
  BY <1>1, <1>3, <1>4 DEF Dag!Begin, Dag!MayStart, DoneTasks
<1> QED
  BY <1>5 DEF Dag!DagNext

\* The wave is over: what it finished is settled now.
LEMMA WaveEnds ==
  ASSUME TypeOK, wave \subseteq All, pc # "returned", wave' = {},
         \A m \in All \ wave : (st'[m] = "done") = (st[m] = "done")
  PROVE  Dag!DagNext
<1> DEFINE D == {n \in wave \cap Node : st'[n] = "done"}
<1>1. {n \in Node : Settled(n)}' = {n \in Node : Settled(n)} \cup D
  BY DEF Settled
<1>2. Dag!End(D)
  BY <1>1 DEF Dag!End
<1>3. D \in SUBSET (wave \cap Node)
  OBVIOUS
<1> QED
  BY <1>2, <1>3 DEF Dag!DagNext

LEMMA NextDag == IInv /\ [Next]_vars => [Dag!DagNext]_(Dag!dagVars)
<1> SUFFICES ASSUME IInv, [Next]_vars PROVE Dag!DagNext \/ UNCHANGED Dag!dagVars
  OBVIOUS
<1> USE DEF IInv
<1>0. wave \subseteq All
  BY DEF TypeOK
<1>1. CASE Boundary /\ ~StartWave
  <2>1. /\ pc = "boundary" /\ pc' = "returned" /\ wave' = wave /\ wave = {}
        /\ \A m \in Node : Settled(m)' = Settled(m)
    BY <1>1, StopEffect DEF Skipped, Settled, WaveShape
  <2>2. Dag!Close
    BY <2>1 DEF Dag!Close
  <2> QED
    BY <2>2 DEF Dag!DagNext
<1>2. CASE StartWave
  BY <1>2, StartBegins
<1>3. ASSUME NEW n \in All, Launch(n) PROVE UNCHANGED Dag!dagVars
  <2>1. \A m \in Node : Settled(m)' = Settled(m)
    BY <1>3, LaunchEffect DEF Settled
  <2> QED
    BY <1>3, <2>1, LaunchEffect, Stutter
<1>4. ASSUME NEW n \in All, Process(n) PROVE Dag!DagNext \/ UNCHANGED Dag!dagVars
  <2>1. n \in wave /\ pc = "results" /\ \A m \in All \ {n} : st'[m] = st[m]
    BY <1>4, ProcessEffect DEF TypeOK, WaveShape
  <2>2. CASE pc' = pc /\ wave' = wave
    <3>1. \A m \in Node : Settled(m)' = Settled(m)
      BY <2>1, <2>2 DEF Settled
    <3> QED
      BY <2>2, <3>1, Stutter
  <2>3. CASE wave' = {}
    BY <1>0, <2>1, <2>3, WaveEnds
  <2> QED
    BY <1>4, <2>2, <2>3, ProcessEffect
<1>5. CASE CloseLaunch
  <2>1. pc = "launch" /\ \A m \in All \ wave : st'[m] = st[m]
    BY <1>5 DEF CloseLaunch
  <2>2. CASE wave' = {}
    BY <1>0, <2>1, <2>2, WaveEnds
  <2>3. CASE wave' = wave /\ pc' = "wait"
    <3>1. \A m \in Node : Settled(m)' = Settled(m)
      BY <2>1, <2>3 DEF Settled
    <3> QED
      BY <2>1, <2>3, <3>1, Stutter
  <2> QED
    BY <1>5, <2>2, <2>3 DEF CloseLaunch
<1>6. CASE CloseWave
  BY <1>0, <1>6, WaveEnds DEF CloseWave, nodeVars
<1>7. CASE CancelReturnedRun
  <2>1. wave' = wave /\ pc' = pc /\ \A m \in Node : Settled(m)' = Settled(m)
    BY <1>7 DEF CancelReturnedRun, waveVars, Skipped, Settled
  <2> QED
    BY <2>1, Stutter
<1>8. CASE Resume
  <2>1. pc = "returned" /\ pc' = "boundary" /\ wave' = wave /\ \A m \in Node : Settled(m)' = Settled(m)
    BY <1>8 DEF Resume, waveVars, Settled
  <2>2. Dag!Reopen
    BY <2>1 DEF Dag!Reopen
  <2> QED
    BY <2>2 DEF Dag!DagNext
<1>9. CASE Idle
  <2>1. wave' = wave /\ (pc' # "returned") = (pc # "returned") /\ \A m \in Node : Settled(m)' = Settled(m)
    BY <1>9, IdleEffect DEF Settled
  <2> QED
    BY <2>1, Stutter
<1> QED
  BY <1>1, <1>2, <1>3, <1>4, <1>5, <1>6, <1>7, <1>8, <1>9, NextSplit

\* Every run of the executor is a run of the compiled DAG in waves (DagRun).
THEOREM ImplementsDagRun == Spec => RunsAsDag
  BY InitDag, NextDag, Invariant, PTL DEF Spec, RunsAsDag, Dag!DagSpec

=============================================================================
