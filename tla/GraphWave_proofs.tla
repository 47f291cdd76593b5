-------------------------- MODULE GraphWave_proofs ---------------------------
(***************************************************************************)
(* More about the wave executor: what its missions leave behind, which     *)
(* branches they start from, and what its routers, conditions, controls    *)
(* and budget come to.                                                     *)
(***************************************************************************)
EXTENDS GraphRun_proofs, WellFoundedInduction

USE DEF All

-----------------------------------------------------------------------------
(* The closures of a wave, their missions and results: WaveInv.            *)

\* A closure step changes the stage of its own node, whose status fits it.
LEMMA LaunchStage == ASSUME IInv, StageShape, NEW n \in All, Launch(n) PROVE StageShape'
<1> USE DEF IInv, TypeOK, StageShape, LaunchFrame, Step, Launching, runVars, nodeVars, Stage
<1>0. pc' = "launch" /\ st \in [All -> NodeStatus] /\ stage \in [All -> Stage]
  BY LaunchEffect
<1>1. CASE BeginNode(n)
  BY <1>0, <1>1 DEF BeginNode
<1>2. CASE EmptyLoop(n) \/ Interrupt(n) \/ PassJoin(n) \/ Refuse(n) \/ RouteFails(n)
  BY <1>0, <1>2 DEF EmptyLoop, Interrupt, PassJoin, Refuse, RouteFails
<1>3. CASE MissionLaunched(n)
  BY <1>0, <1>3 DEF MissionLaunched
<1>4. CASE LaunchThrows(n)
  BY <1>0, <1>4 DEF LaunchThrows
<1>5. CASE LoopContinues(n) \/ LoopDone(n) \/ LoopFails(n)
  BY <1>0, <1>5 DEF LoopContinues, LoopDone, LoopFails, Iterated
<1>6. CASE RankContest(n)
  BY <1>0, <1>6 DEF RankContest
<1>7. CASE Route(n)
  <2>1. /\ stage' = [stage EXCEPT ![n] = "empty"]
        /\ \A m \in All \ {n} : st'[m] = st[m] \/ st[m] = "pending"
    BY <1>7, LaunchEffect DEF Route
  <2> QED
    BY <1>0, <2>1
<1> QED
  BY <1>1, <1>2, <1>3, <1>4, <1>5, <1>6, <1>7 DEF Launch

LEMMA NextStage == IInv /\ StageShape /\ [Next]_vars => StageShape'
<1> SUFFICES ASSUME IInv, StageShape, [Next]_vars PROVE StageShape'
  OBVIOUS
<1> USE DEF IInv, StageShape
<1>0. \A n \in All : pc \in {"boundary", "returned"} => stage[n] = "none"
  BY DEF WaveShape
<1>1. CASE Boundary /\ ~StartWave
  BY <1>0, <1>1, StopEffect
<1>2. CASE StartWave
  BY <1>2 DEF StartWave, TypeOK
<1>3. ASSUME NEW n \in All, Launch(n) PROVE StageShape'
  BY <1>3, LaunchStage
<1>4. ASSUME NEW n \in All, Process(n) PROVE StageShape'
  BY <1>4, ProcessEffect DEF TypeOK
<1>5. CASE CloseLaunch
  BY <1>5 DEF CloseLaunch, WaveShape
<1>6. CASE CloseWave
  BY <1>6 DEF CloseWave
<1>7. CASE CancelReturnedRun
  BY <1>0, <1>7 DEF CancelReturnedRun, waveVars
<1>8. CASE Resume
  BY <1>0, <1>8 DEF Resume, waveVars
<1>9. CASE Idle
  BY <1>9, IdleEffect
<1> QED
  BY <1>1, <1>2, <1>3, <1>4, <1>5, <1>6, <1>7, <1>8, <1>9, NextSplit

\* The ranking of a contest: what its winner's result says of the contestants.
LEMMA Ranking ==
  ASSUME TypeOK, NEW n \in All, RankContest(n)
  PROVE  /\ n \in Node /\ Kind[n] = "contest" /\ pc = "launch" /\ stage[n] = "waiting" /\ pc' = pc
         /\ UNCHANGED <<graph, wave, todo, aborted, count>>
         /\ live' = [live EXCEPT ![n] = live'[n]]
         /\ \A m \in All \ {n} : m \in delivered' <=> m \in delivered
         /\ \A m \in All \ {n} : m \in branched' <=> m \in branched
         /\ st' = [st EXCEPT ![n] = st'[n]]
         /\ st'[n] = "done" => n \in delivered'
         /\ \/ stage' = [stage EXCEPT ![n] = "empty"] /\ res' = res
            \/ /\ stage' = [stage EXCEPT ![n] = "launched"]
               /\ res' = [res EXCEPT ![n] = res'[n]] /\ res'[n] # NoRes
               /\ res'[n].kind \in {"done", "review"} => n \in delivered'
<1> USE DEF TypeOK
<1>1. n \in Node /\ Kind[n] = "contest"
  BY DEF RankContest, KindOf
<1>2. PICK R \in [1..Width[n] -> Result], b \in BOOLEAN :
        LET found  == {i \in 1..Width[n] : R[i].kind # "missing"}
            first  == {i \in found : RanksFirst(n, R, i)}
            won    == \E i \in first : Succeeded(R[i].kind)
        IN  /\ live' = [live EXCEPT ![n] = @ - Cardinality(found)]
            /\ delivered' = IF \E i \in found : Succeeded(R[i].kind)
                            THEN delivered \cup {n} ELSE delivered \ {n}
            /\ Step(n, IF won THEN "done" ELSE "failed", IF first = {} THEN "empty" ELSE "launched")
            /\ branched' = IF ~won THEN branched
                           ELSE IF b THEN branched \cup {n} ELSE branched \ {n}
            /\ res' = IF first = {} THEN res ELSE [res EXCEPT ![n] = R[CHOOSE i \in first : TRUE]]
  BY DEF RankContest
<1> DEFINE found  == {i \in 1..Width[n] : R[i].kind # "missing"}
           first  == {i \in found : RanksFirst(n, R, i)}
           won    == \E i \in first : Succeeded(R[i].kind)
           top    == CHOOSE i \in first : TRUE
<1>3. first # {} => top \in first
  OBVIOUS
<1>4. \A i \in found : R[i] \in Result /\ R[i] # NoRes
  BY DEF Result, Verdict, NoRes
<1>5. first \subseteq found
  OBVIOUS
<1>6. live' = [live EXCEPT ![n] = live'[n]]
  BY <1>2
<1>7. \A m \in All \ {n} : (m \in delivered' <=> m \in delivered) /\ (m \in branched' <=> m \in branched)
  BY <1>2
<1>8. st' = [st EXCEPT ![n] = st'[n]] /\ (st'[n] = "done" => won)
  BY <1>2 DEF Step
<1>9. won => n \in delivered'
  <2> HIDE DEF first
  <2>1. won => \E i \in found : Succeeded(R[i].kind)
    BY SMTT(30), <1>5
  <2> QED
    BY <1>2, <2>1
<1>10. CASE first = {}
  <2>1. stage' = [stage EXCEPT ![n] = "empty"] /\ res' = res
    BY <1>2, <1>10 DEF Step
  <2> QED
    BY SMTT(30), <1>1, <1>6, <1>7, <1>8, <1>9, <2>1 DEF RankContest, LaunchFrame, Launching, runVars, ctlVars
<1>11. CASE first # {}
  <2>1. stage' = [stage EXCEPT ![n] = "launched"] /\ res' = [res EXCEPT ![n] = R[top]]
    BY <1>2, <1>11 DEF Step
  <2>2. top \in found
    BY <1>3, <1>5, <1>11
  <2>3. res'[n] = R[top] /\ res'[n] # NoRes
    BY <1>4, <2>1, <2>2
  <2>4. R[top].kind \in {"done", "review"} => n \in delivered'
    <3>1. Succeeded(R[top].kind) => \E i \in found : Succeeded(R[i].kind)
      BY <2>2
    <3> QED
      BY <1>2, <3>1 DEF Succeeded
  <2> QED
    BY <1>1, <1>6, <1>7, <1>8, <1>9, <2>1, <2>3, <2>4
       DEF RankContest, LaunchFrame, Launching, runVars, ctlVars
<1> QED
  BY <1>10, <1>11

LEMMA LaunchResult == ASSUME IInv, StageShape, ResultShape, NEW n \in All, Launch(n) PROVE ResultShape'
<1> USE DEF IInv, TypeOK, ResultShape, LaunchFrame, Step, Launching, runVars, nodeVars, moneyVars, Stage
<1>0. pc = "launch" /\ pc' = "launch"
  BY LaunchEffect
<1>1. CASE BeginNode(n)
  BY <1>0, <1>1 DEF BeginNode
<1>2. CASE EmptyLoop(n) \/ Interrupt(n) \/ PassJoin(n) \/ Refuse(n) \/ RouteFails(n) \/ Route(n)
  BY <1>0, <1>2 DEF EmptyLoop, Interrupt, PassJoin, Refuse, RouteFails, Route
<1>3. CASE MissionLaunched(n)
  BY <1>0, <1>3 DEF MissionLaunched
<1>4. CASE LaunchThrows(n)
  BY <1>0, <1>4 DEF LaunchThrows
<1>5. CASE LoopContinues(n) \/ LoopDone(n) \/ LoopFails(n)
  BY <1>0, <1>5 DEF LoopContinues, LoopDone, LoopFails, Iterated
<1>6. CASE RankContest(n)
  BY <1>0, <1>6, Ranking DEF NoRes
<1> QED
  BY <1>1, <1>2, <1>3, <1>4, <1>5, <1>6 DEF Launch

\* The result of a node leaves the results and the contests' record as they are.
LEMMA ProcessKeeps ==
  ASSUME TypeOK, NEW n \in All, Process(n)
  PROVE  /\ UNCHANGED <<live, delivered, aborted, incurred, count>>
         /\ \/ UNCHANGED <<res, stage, pc, wave>>
            \/ \A m \in All : res'[m] = NoRes /\ stage'[m] = "none"
         /\ \A m \in All \ {n} : out'[m] = out[m] /\ (m \in branched' <=> m \in branched)
         /\ st'[n] = "done" => res[n].kind \in {"done", "review"}
<1> USE DEF TypeOK, ResultFrame, Processing, Failing, runVars, ctlVars, moneyVars
<1>1. CASE Succeed(n) \/ SchemaFails(n) \/ MissionNotFound(n) \/ FailNode(n)
  BY <1>1 DEF Succeed, SchemaFails, MissionNotFound, FailNode
<1>2. CASE ReplanAborts(n) \/ ReplanSkips(n) \/ ReplanRetries(n)
  BY <1>2 DEF ReplanAborts, ReplanSkips, ReplanRetries
<1> QED
  BY <1>1, <1>2 DEF Process

LEMMA NextResult == IInv /\ StageShape /\ ResultShape /\ [Next]_vars => ResultShape'
<1> SUFFICES ASSUME IInv, StageShape, ResultShape, [Next]_vars PROVE ResultShape'
  OBVIOUS
<1> USE DEF IInv, ResultShape
<1>0. \A n \in All : pc \in {"boundary", "returned"} => stage[n] = "none"
  BY DEF WaveShape
<1>1. CASE Boundary /\ ~StartWave
  BY <1>0, <1>1, StopEffect
     DEF Boundary, AbortRun, CancelRun, PauseRun, ExceedBudget, FailRun, InterruptRun, FinishRun,
         waveVars, moneyVars, NoRes
<1>2. CASE StartWave
  <2>1. /\ UNCHANGED <<res, delivered>> /\ pc' = "launch"
        /\ \A n \in All : stage'[n] \in {"none", "recall", "error"} /\ stage[n] = "none"
    BY <1>0, <1>2 DEF StartWave, Unstopped, TypeOK, moneyVars
  <2> QED
    BY <2>1
<1>3. ASSUME NEW n \in All, Launch(n) PROVE ResultShape'
  BY <1>3, LaunchResult
<1>4. ASSUME NEW n \in All, Process(n) PROVE ResultShape'
  BY <1>4, ProcessKeeps DEF NoRes
<1>5. CASE CloseLaunch
  BY <1>5 DEF CloseLaunch, WaveShape, moneyVars, TypeOK
<1>6. CASE CloseWave
  BY <1>6 DEF CloseWave, moneyVars, NoRes
<1>7. CASE CancelReturnedRun
  BY <1>0, <1>7 DEF CancelReturnedRun, waveVars, moneyVars
<1>8. CASE Resume
  BY <1>0, <1>8 DEF Resume, waveVars, moneyVars
<1>9. CASE Idle
  <2>1. CASE WaitReturns
    BY <2>1 DEF WaitReturns, moneyVars, WaveShape
  <2>2. ASSUME NEW n \in All, MissionSettles(n) PROVE ResultShape'
    <3>1. KindOf(n) # "contest"
      BY <2>2 DEF MissionSettles
    <3>2. PICK r \in Result : r.kind # "missing" /\ res' = [res EXCEPT ![n] = r]
      BY <2>2 DEF MissionSettles
    <3>3. r # NoRes
      BY DEF Result, Verdict, NoRes
    <3> QED
      BY <2>2, <3>1, <3>2, <3>3 DEF MissionSettles, TypeOK
  <2>3. ASSUME NEW n \in All, GiveUpMission(n) PROVE ResultShape'
    BY <2>3 DEF GiveUpMission, TypeOK, NoRes, moneyVars
  <2>4. CASE PauseGraphRun \/ CancelGraphRun \/ Abort \/ UNCHANGED vars
    BY <2>4 DEF PauseGraphRun, CancelGraphRun, Abort, vars, waveVars, moneyVars
  <2> QED
    BY <1>9, <2>1, <2>2, <2>3, <2>4 DEF Idle, Settle
<1> QED
  BY <1>1, <1>2, <1>3, <1>4, <1>5, <1>6, <1>7, <1>8, <1>9, NextSplit

LEMMA LaunchLive == ASSUME IInv, StageShape, ResultShape, LiveShape, NEW n \in All, Launch(n) PROVE LiveShape'
<1> USE DEF IInv, TypeOK, LiveShape, LaunchFrame, Step, Launching, runVars, nodeVars, moneyVars, ctlVars, Stage
<1>1. CASE BeginNode(n)
  BY <1>1 DEF BeginNode
<1>2. CASE EmptyLoop(n) \/ Interrupt(n) \/ PassJoin(n) \/ Refuse(n) \/ RouteFails(n) \/ Route(n)
  BY <1>2 DEF EmptyLoop, Interrupt, PassJoin, Refuse, RouteFails, Route
<1>3. CASE MissionLaunched(n)
  <2>1. res[n] = NoRes /\ KindOf(n) \in {"task", "contest", "loop"}
    BY <1>3 DEF MissionLaunched, StageShape, ResultShape
  <2> QED
    BY <1>3, <2>1 DEF MissionLaunched
<1>4. CASE LaunchThrows(n)
  BY <1>4 DEF LaunchThrows
<1>5. CASE LoopContinues(n) \/ LoopDone(n) \/ LoopFails(n)
  BY <1>5 DEF LoopContinues, LoopDone, LoopFails, Iterated
<1>6. CASE RankContest(n)
  BY <1>6, Ranking DEF KindOf
<1> QED
  BY <1>1, <1>2, <1>3, <1>4, <1>5, <1>6 DEF Launch

LEMMA NextLive == IInv /\ StageShape /\ ResultShape /\ LiveShape /\ [Next]_vars => LiveShape'
<1> SUFFICES ASSUME IInv, StageShape, ResultShape, LiveShape, [Next]_vars PROVE LiveShape'
  OBVIOUS
<1> USE DEF IInv, LiveShape
<1>0. \A n \in All : pc \in {"boundary", "returned"} => stage[n] = "none"
  BY DEF WaveShape
<1>1. CASE Boundary /\ ~StartWave
  BY <1>0, <1>1
     DEF Boundary, AbortRun, CancelRun, PauseRun, ExceedBudget, FailRun, InterruptRun, FinishRun,
         waveVars, ctlVars
<1>2. CASE StartWave
  <2>1. /\ UNCHANGED <<res, live, aborted>>
        /\ \A n \in All : stage'[n] \in {"none", "recall", "error"} /\ stage[n] = "none"
    BY <1>0, <1>2 DEF StartWave, Unstopped, TypeOK, ctlVars
  <2> QED
    BY <2>1
<1>3. ASSUME NEW n \in All, Launch(n) PROVE LiveShape'
  BY <1>3, LaunchLive
<1>4. ASSUME NEW n \in All, Process(n) PROVE LiveShape'
  <2>1. \A m \in All : ~aborted /\ KindOf(m) # "contest" /\ stage'[m] = "none" => live[m] = 0
    BY <1>4, ProcessEffect, ProcessKeeps DEF StageShape, ResultShape
  <2> QED
    BY <1>4, <2>1, ProcessKeeps
<1>5. CASE CloseLaunch
  BY <1>5 DEF CloseLaunch, ctlVars, TypeOK, WaveShape
<1>6. CASE CloseWave
  BY <1>6 DEF CloseWave, ctlVars, ResultShape, StageShape
<1>7. CASE CancelReturnedRun
  BY <1>7 DEF CancelReturnedRun, waveVars
<1>8. CASE Resume
  BY <1>8 DEF Resume, waveVars
<1>9. CASE Idle
  <2>1. CASE WaitReturns
    BY <2>1 DEF WaitReturns, ctlVars
  <2>2. ASSUME NEW n \in All, MissionSettles(n) PROVE LiveShape'
    <3>1. PICK r \in Result : r.kind # "missing" /\ res' = [res EXCEPT ![n] = r]
      BY <2>2 DEF MissionSettles
    <3>2. r # NoRes
      BY DEF Result, Verdict, NoRes
    <3> QED
      BY <2>2, <3>1, <3>2 DEF MissionSettles, TypeOK, ctlVars
  <2>3. ASSUME NEW n \in All, GiveUpMission(n) PROVE LiveShape'
    BY <2>3 DEF GiveUpMission, ctlVars
  <2>4. CASE PauseGraphRun \/ CancelGraphRun \/ Abort \/ UNCHANGED vars
    BY <2>4 DEF PauseGraphRun, CancelGraphRun, Abort, vars, waveVars, ctlVars
  <2> QED
    BY <1>9, <2>1, <2>2, <2>3, <2>4 DEF Idle, Settle
<1> QED
  BY <1>1, <1>2, <1>3, <1>4, <1>5, <1>6, <1>7, <1>8, <1>9, NextSplit

\* The producers of a ready node, through joins and routers, are settled.
LEMMA ProducersSettled ==
  ASSUME IInv, wave = {}, NEW n \in ReadyNodes
  PROVE  \A m \in Producers(n) : Settled(m)
<1> USE DEF IInv, TypeOK
<1> DEFINE S == {m \in graph.nodes : Settled(m)}
<1>1. Preds(n) \subseteq S
  BY DEF ReadyNodes, IsReady, Preds, In, EdgesInside, Settled
<1>2. \A m \in S \cap PassThrough : Preds(m) \subseteq S
  <2> SUFFICES ASSUME NEW m \in S, NEW e \in graph.edges, e.to = m PROVE e.from \in S
    BY DEF Preds, In
  <2>1. Started(e.to)
    BY DEF Settled, Started
  <2> QED
    BY <2>1 DEF SettledDeps, EdgesInside
<1>3. S \in SUBSET graph.nodes
  OBVIOUS
<1> HIDE DEF S
<1>4. \A m \in Producers(n) : m \in S
  BY <1>1, <1>2, <1>3 DEF Producers
<1> QED
  BY <1>4 DEF S

\* Producers and their branches depend on the graph and on `branched` outside the wave only.
LEMMA InheritsStays ==
  ASSUME TypeOK, UNCHANGED graph, NEW n \in All, Inherits(n),
         \A m \in Producers(n) : m \in branched => m \in branched'
  PROVE  Inherits(n)' /\ Producers(n)' = Producers(n)
<1>1. Producers(n)' = Producers(n)
  BY DEF Producers, Preds, In, PassThrough, KindOf
<1>2. Stem(n)' = Stem(n)
  BY DEF Stem
<1> QED
  BY <1>1, <1>2 DEF Inherits

LEMMA NextInherit == IInv /\ StageShape /\ InheritShape /\ [Next]_vars => InheritShape'
<1> SUFFICES ASSUME IInv, StageShape, InheritShape, [Next]_vars,
                    NEW n \in wave', stage'[n] \in {"recall", "launching"}, KindOf(n) \in {"task", "contest"}
             PROVE  Inherits(n)' /\ Producers(n)' \cap wave' = {}
  BY DEF InheritShape, KindOf
<1> USE DEF IInv
<1>0. IInv' /\ StageShape'
  BY NextIInv, NextStage
<1>1. pc' = "launch" /\ n \in All
  BY <1>0 DEF StageShape, TypeOK
<1>2. CASE StartWave
  <2>1. /\ wave = {} /\ wave' \subseteq ReadyNodes /\ UNCHANGED <<graph, branched>>
        /\ Inherits(n)
    BY <1>1, <1>2, StartEffect DEF StartWave, WaveShape, nodeVars, runVars, TypeOK
  <2>2. \A m \in Producers(n) : Settled(m)
    BY <2>1, ProducersSettled
  <2>3. \A m \in wave' : ~Settled(m)
    BY <2>1 DEF Settled, ReadyNodes, IsReady
  <2>4. Inherits(n)' /\ Producers(n)' = Producers(n)
    BY <1>1, <2>1, InheritsStays
  <2> QED
    BY <2>2, <2>3, <2>4
<1>3. ASSUME NEW k \in All, Launch(k) PROVE Inherits(n)' /\ Producers(n)' \cap wave' = {}
  <2>1. UNCHANGED <<graph, wave>> /\ k \in wave /\ stage' = [stage EXCEPT ![k] = stage'[k]]
    BY <1>3, LaunchEffect
  <2>2. \A m \in All \ {k} : m \in branched => m \in branched'
    BY <1>3, Ranking DEF Launch, BeginNode, EmptyLoop, MissionLaunched, LaunchThrows, LoopContinues, LoopDone,
       LoopFails, Iterated, Interrupt, PassJoin, Refuse, Route, RouteFails, nodeVars
  <2>3. n = k => stage[n] \in {"recall", "launching", "waiting"} /\ (stage[n] = "waiting" => KindOf(n) = "loop")
    BY <1>3 DEF Launch, BeginNode, EmptyLoop, MissionLaunched, LaunchThrows, LoopContinues, LoopDone,
       LoopFails, Iterated, RankContest, Interrupt, PassJoin, Refuse, Route, RouteFails, Launching, Step, Stage, TypeOK
  <2>4. stage[n] \in {"recall", "launching"}
    BY <1>1, <2>1, <2>3 DEF TypeOK
  <2>5. Inherits(n) /\ Producers(n) \cap wave = {}
    BY <2>1, <2>4 DEF InheritShape
  <2>6. \A m \in Producers(n) : m \in All \ {k}
    BY <2>1, <2>5 DEF Producers, TypeOK
  <2> QED
    BY <1>1, <2>1, <2>2, <2>5, <2>6, InheritsStays
<1>4. CASE Idle
  <2>1. UNCHANGED <<graph, wave, stage, branched>>
    BY <1>4, IdleEffect DEF Idle, WaitReturns, Settle, MissionSettles, GiveUpMission, PauseGraphRun,
       CancelGraphRun, Abort, vars, nodeVars
  <2>2. Inherits(n) /\ Producers(n) \cap wave = {}
    BY <2>1 DEF InheritShape
  <2> QED
    BY <1>1, <2>1, <2>2, InheritsStays
<1>5. CASE Boundary /\ ~StartWave
  BY <1>1, <1>5, StopEffect
<1>6. ASSUME NEW k \in All, Process(k) PROVE FALSE
  BY <1>1, <1>6, ProcessEffect
<1>7. CASE CloseLaunch \/ CloseWave \/ CancelReturnedRun \/ Resume
  BY <1>1, <1>7 DEF CloseLaunch, CloseWave, CancelReturnedRun, Resume
<1> QED
  BY <1>2, <1>3, <1>4, <1>5, <1>6, <1>7, NextSplit

LEMMA NextContest == IInv /\ ResultShape /\ ContestDoneDelivered /\ [Next]_vars => ContestDoneDelivered'
<1> SUFFICES ASSUME IInv, ResultShape, ContestDoneDelivered, [Next]_vars,
                    NEW n \in Node, Kind[n] = "contest", st'[n] = "done"
             PROVE  n \in delivered'
  BY DEF ContestDoneDelivered
<1> USE DEF IInv, TypeOK
<1>0. st[n] = "done" => n \in delivered
  BY DEF ContestDoneDelivered
<1>1. CASE Boundary /\ ~StartWave
  BY <1>0, <1>1, StopEffect
     DEF Boundary, AbortRun, CancelRun, PauseRun, ExceedBudget, FailRun, InterruptRun, FinishRun,
         moneyVars, Skipped
<1>2. CASE StartWave
  BY <1>0, <1>2, StartEffect DEF StartWave, moneyVars
<1>3. ASSUME NEW k \in All, Launch(k) PROVE n \in delivered'
  <2> USE DEF LaunchFrame, Step, Launching, moneyVars, nodeVars, KindOf
  <2>1. CASE RankContest(k)
    BY <1>0, <2>1, Ranking
  <2>2. CASE BeginNode(k) \/ MissionLaunched(k) \/ LaunchThrows(k)
    BY <1>0, <2>2 DEF BeginNode, MissionLaunched, LaunchThrows
  <2>3. CASE EmptyLoop(k) \/ Interrupt(k) \/ PassJoin(k) \/ Refuse(k) \/ RouteFails(k)
    BY <1>0, <2>3 DEF EmptyLoop, Interrupt, PassJoin, Refuse, RouteFails
  <2>4. CASE LoopContinues(k) \/ LoopDone(k) \/ LoopFails(k)
    BY <1>0, <2>4 DEF LoopContinues, LoopDone, LoopFails, Iterated
  <2>5. CASE Route(k)
    <3>1. k # n /\ UNCHANGED delivered
      BY <2>5 DEF Route
    <3> QED
      BY <1>0, <1>3, <3>1, LaunchEffect
  <2> QED
    BY <1>3, <2>1, <2>2, <2>3, <2>4, <2>5 DEF Launch
<1>4. ASSUME NEW k \in All, Process(k) PROVE n \in delivered'
  <2>1. CASE k = n
    BY <1>4, <2>1, ProcessKeeps DEF ResultShape, KindOf
  <2>2. CASE k # n
    BY <1>0, <1>4, <2>2, ProcessKeeps, ProcessEffect
  <2> QED
    BY <2>1, <2>2
<1>5. CASE CloseLaunch
  BY <1>0, <1>5 DEF CloseLaunch, moneyVars
<1>6. CASE CloseWave
  BY <1>0, <1>6 DEF CloseWave, moneyVars, nodeVars
<1>7. CASE CancelReturnedRun
  BY <1>0, <1>7 DEF CancelReturnedRun, Skipped, moneyVars
<1>8. CASE Resume
  BY <1>0, <1>8 DEF Resume, moneyVars
<1>9. CASE Idle
  <2>1. UNCHANGED delivered
    BY <1>9 DEF Idle, WaitReturns, Settle, MissionSettles, GiveUpMission, PauseGraphRun,
       CancelGraphRun, Abort, vars, moneyVars
  <2> QED
    BY <1>0, <1>9, <2>1, IdleEffect
<1> QED
  BY <1>1, <1>2, <1>3, <1>4, <1>5, <1>6, <1>7, <1>8, <1>9, NextSplit

LEMMA InitWave == Init => WaveInv
<1> SUFFICES ASSUME Init PROVE WaveInv
  OBVIOUS
<1> USE DEF Init
<1>1. StageShape /\ ResultShape /\ LiveShape
  BY DEF StageShape, ResultShape, LiveShape, NoRes
<1>2. InheritShape /\ ContestDoneDelivered
  BY DEF InheritShape, ContestDoneDelivered
<1> QED
  BY <1>1, <1>2, InitIInv DEF WaveInv

LEMMA NextWave == WaveInv /\ [Next]_vars => WaveInv'
  BY NextIInv, NextStage, NextResult, NextLive, NextInherit, NextContest DEF WaveInv

\* What every reachable state says of the closures of a wave, their missions
\* and their results (the launch closures of runGraph.ts).
THEOREM WaveInvariant == Spec => []WaveInv
  BY InitWave, NextWave, PTL DEF Spec

\* A mission that inherits its branch starts only when every producer above it,
\* through joins and routers, has one (resolveInheritedBranches): the other
\* closures of the wave cannot take a branch away between the check and the launch.
THEOREM NoEmptyStart == Spec => []NoEmptyWorktree
<1>1. WaveInv => NoEmptyWorktree
  BY DEF WaveInv, InheritShape, NoEmptyWorktree
<1> QED
  BY <1>1, WaveInvariant, PTL

\* Between waves no mission of the run is out of the loop's sight, unless it
\* was aborted or is a contestant that a failed launch left behind.
THEOREM NobodyStrays == Spec => []NoStrayMission
<1>1. WaveInv => NoStrayMission
  <2> SUFFICES ASSUME WaveInv, pc \in {"boundary", "returned"}, NEW n \in All, live[n] > 0,
                      ~aborted, KindOf(n) # "contest"
               PROVE  FALSE
    BY DEF NoStrayMission
  <2>1. stage[n] = "none"
    BY DEF WaveInv, IInv, WaveShape
  <2> QED
    BY <2>1 DEF WaveInv, LiveShape
<1> QED
  BY <1>1, WaveInvariant, PTL

\* A contest is done only if one of its contestants succeeded, although its
\* winner's result is processed a second time with the rest of the wave.
THEOREM ContestsDeliver == Spec => []ContestDoneDelivered
<1>1. WaveInv => ContestDoneDelivered
  BY DEF WaveInv
<1> QED
  BY <1>1, WaveInvariant, PTL

-----------------------------------------------------------------------------
(* Conditions and routers.                                                 *)

\* No diagnosis speaks of a test failure, and so no replan inserts a verify
\* node.  The edges of such a patch carry no conditions (replanEngine.ts), with
\* them a conditional successor starts whatever the output says.
NoVerify == \A d \in Diagnosis : d.category # "test_failure"

\* A router stands above the targets of its branches: the compiler takes them
\* from the chains that leave it (resolveRouterBranchTarget in canvasToIr.ts).
RoutersLead ==
  \A r \in Node : Kind[r] = "router" =>
    \A i \in DOMAIN Branches[r] : Branches[r][i].target \in Node =>
      \E e \in Edge0 : e.from = r /\ e.to = Branches[r][i].target

\* Only the step that processes a node's result writes its output.
LEMMA OutputsStay ==
  ASSUME IInv, [Next]_vars, NEW m \in All, m \notin wave
  PROVE  out'[m] = out[m]
<1> USE DEF nodeVars
<1>1. CASE Boundary
  BY <1>1 DEF Boundary, AbortRun, CancelRun, PauseRun, ExceedBudget, FailRun, InterruptRun, FinishRun, StartWave
<1>2. ASSUME NEW n \in All, Launch(n) PROVE out' = out
  BY <1>2 DEF Launch, BeginNode, EmptyLoop, MissionLaunched, LaunchThrows, LoopContinues, LoopDone, LoopFails,
     Iterated, RankContest, Interrupt, PassJoin, Refuse, Route, RouteFails
<1>3. ASSUME NEW n \in All, Process(n) PROVE out'[m] = out[m]
  <2>1. TypeOK /\ n \in wave
    BY <1>3, ProcessEffect DEF IInv, WaveShape
  <2> QED
    BY <1>3, <2>1, ProcessKeeps
<1>4. CASE CloseLaunch \/ CloseWave \/ CancelReturnedRun \/ Resume
  BY <1>4 DEF CloseLaunch, CloseWave, CancelReturnedRun, Resume
<1>5. CASE Idle
  BY <1>5 DEF Idle, WaitReturns, Settle, MissionSettles, GiveUpMission, PauseGraphRun, CancelGraphRun, Abort, vars
<1> QED
  BY <1>1, <1>2, <1>3, <1>4, <1>5, NextSplit DEF Boundary

\* Without verify nodes the graph keeps the edges it was compiled with.
LEMMA EdgesStay ==
  ASSUME NoVerify, IInv, [Next]_vars, graph.edges = Edge0
  PROVE  graph'.edges = Edge0
<1>1. ASSUME NEW n \in All, Process(n) PROVE graph' = graph
  BY <1>1 DEF Process, Succeed, SchemaFails, MissionNotFound, FailNode, ReplanAborts, ReplanSkips, ReplanRetries,
     NoVerify, runVars
<1>2. CASE CloseLaunch \/ CloseWave \/ CancelReturnedRun
  BY <1>2 DEF CloseLaunch, CloseWave, CancelReturnedRun, runVars
<1>3. CASE Resume
  BY <1>3 DEF Resume, Graph0
<1>4. CASE (Boundary /\ ~StartWave) \/ StartWave \/ Idle \/ \E n \in All : Launch(n)
  BY <1>4, StopEffect, StartEffect, IdleEffect, LaunchEffect DEF IInv
<1> QED
  BY <1>1, <1>2, <1>3, <1>4, NextSplit

LEMMA NextConditions ==
  ASSUME NoVerify, IInv, [Next]_vars, graph.edges = Edge0, ConditionsHonoured
  PROVE  ConditionsHonoured'
<1> SUFFICES ASSUME NEW e \in Edge0, Started(e.to)' PROVE CondHolds(e.cond, e.from)'
  BY DEF ConditionsHonoured
<1> USE DEF IInv
<1>0. e.from \in All /\ e.to \in All
  BY GraphAssumption
<1>1. CASE Started(e.to)
  <2>1. Settled(e.from) /\ CondHolds(e.cond, e.from)
    BY <1>1 DEF SettledDeps, ConditionsHonoured
  <2>2. out'[e.from] = out[e.from]
    BY <1>0, <2>1, OutputsStay DEF Settled
  <2> QED
    BY <2>1, <2>2 DEF CondHolds
<1>2. CASE ~Started(e.to)
  <2>1. StartWave
    BY <1>0, <1>2, StartedBefore
  <2>2. e.to \in ReadyNodes
    BY <1>0, <1>2, <2>1, StartEffect DEF Started, TypeOK
  <2>3. CondHolds(e.cond, e.from)
    BY <2>2 DEF ReadyNodes, IsReady, In
  <2>4. out' = out
    BY <2>1 DEF StartWave
  <2> QED
    BY <2>3, <2>4 DEF CondHolds
<1> QED
  BY <1>1, <1>2

\* Unless a replan may insert verify nodes, a node that is entered over a
\* conditional edge starts only if the condition holds of its predecessor's
\* output, and goes on holding of it (getReadyNodes, evaluateCondition).
THEOREM ConditionsKept == ASSUME NoVerify PROVE Spec => []ConditionsHonoured
<1>0. NoVerify
  OBVIOUS
<1> DEFINE Inv == graph.edges = Edge0 /\ ConditionsHonoured
<1>1. Init => Inv
  BY GraphAssumption DEF Init, Graph0, ConditionsHonoured, Started
<1>2. NoVerify /\ IInv /\ Inv /\ [Next]_vars => Inv'
  BY EdgesStay, NextConditions
<1>3. Inv => ConditionsHonoured
  OBVIOUS
<1> HIDE DEF Inv
<1> QED
  BY <1>0, <1>1, <1>2, <1>3, Invariant, PTL DEF Spec

\* A node that was skipped stays so.
LEMMA SkippedStays ==
  ASSUME IInv, [Next]_vars, NEW m \in All, st[m] = "skipped"
  PROVE  st'[m] = "skipped"
<1> USE DEF IInv
<1>0. /\ pc \in {"launch", "wait"} => m \notin wave
      /\ m \notin todo
  BY DEF WaveStarted, Started, WaveShape
<1>1. CASE Boundary /\ ~StartWave
  BY <1>1, StopEffect DEF Skipped
<1>2. CASE StartWave
  BY <1>2, StartEffect DEF ReadyNodes, IsReady
<1>3. ASSUME NEW n \in All, Launch(n) PROVE st'[m] = "skipped"
  BY <1>0, <1>3, LaunchEffect
<1>4. ASSUME NEW n \in All, Process(n) PROVE st'[m] = "skipped"
  BY <1>0, <1>4, ProcessEffect DEF TypeOK
<1>5. CASE CloseLaunch
  BY <1>0, <1>5 DEF CloseLaunch
<1>6. CASE CloseWave
  BY <1>6 DEF CloseWave, nodeVars
<1>7. CASE CancelReturnedRun
  BY <1>7 DEF CancelReturnedRun, Skipped
<1>8. CASE Resume
  BY <1>8 DEF Resume
<1>9. CASE Idle
  BY <1>9, IdleEffect
<1> QED
  BY <1>1, <1>2, <1>3, <1>4, <1>5, <1>6, <1>7, <1>8, <1>9, NextSplit

\* A router that is done has skipped the targets of all branches but one.
RouterShape ==
  \A r \in Node : (Kind[r] = "router" /\ st[r] = "done") =>
    \E t : \A i \in DOMAIN Branches[r] :
      (Branches[r][i].target \in Node /\ Branches[r][i].target # t) => st[Branches[r][i].target] = "skipped"

\* Nothing but its own launch closure makes a router done.
LEMMA OnlyRouteEnds ==
  ASSUME IInv, StageShape, ResultShape, [Next]_vars, NEW r \in Node, Kind[r] = "router",
         st[r] # "done", st'[r] = "done"
  PROVE  Route(r)
<1> USE DEF IInv, TypeOK
<1>0. r \in All /\ KindOf(r) = "router"
  BY DEF KindOf
<1>1. CASE Boundary /\ ~StartWave
  BY <1>1, StopEffect DEF Skipped
<1>2. CASE StartWave
  BY <1>2, StartEffect
<1>3. ASSUME NEW n \in All, Launch(n) PROVE Route(r)
  <2>1. n = r
    BY <1>3, LaunchEffect
  <2> QED
    BY <1>0, <1>3, <2>1
       DEF Launch, BeginNode, EmptyLoop, MissionLaunched, LaunchThrows, LoopContinues, LoopDone, LoopFails,
           Iterated, RankContest, Interrupt, PassJoin, Refuse, RouteFails, Step, Launching, StageShape, nodeVars
<1>4. ASSUME NEW n \in All, Process(n) PROVE FALSE
  <2>1. n = r
    BY <1>4, ProcessEffect
  <2>2. res[r] # NoRes
    BY <1>4, <2>1, ProcessKeeps DEF NoRes
  <2> QED
    BY <1>0, <2>2 DEF ResultShape, StageShape
<1>5. CASE CloseLaunch \/ CloseWave \/ CancelReturnedRun \/ Resume
  BY <1>5 DEF CloseLaunch, CloseWave, CancelReturnedRun, Resume, Skipped, nodeVars
<1>6. CASE Idle
  BY <1>6, IdleEffect
<1> QED
  BY <1>1, <1>2, <1>3, <1>4, <1>5, <1>6, NextSplit

LEMMA NextRouter == ASSUME RoutersLead, WaveInv, RouterShape, [Next]_vars PROVE RouterShape'
<1> SUFFICES ASSUME NEW r \in Node, Kind[r] = "router", st'[r] = "done"
             PROVE  \E t : \A i \in DOMAIN Branches[r] :
                      (Branches[r][i].target \in Node /\ Branches[r][i].target # t)
                        => st'[Branches[r][i].target] = "skipped"
  BY DEF RouterShape
<1> USE DEF WaveInv, IInv
<1>1. CASE st[r] = "done"
  <2>1. PICK t : \A i \in DOMAIN Branches[r] :
          (Branches[r][i].target \in Node /\ Branches[r][i].target # t) => st[Branches[r][i].target] = "skipped"
    BY <1>1 DEF RouterShape
  <2> QED
    BY <2>1, SkippedStays
<1>2. CASE st[r] # "done"
  <2>1. Route(r)
    BY <1>2, OnlyRouteEnds
  <2>2. PICK i \in DOMAIN Branches[r] :
          LET others == {Branches[r][j].target : j \in DOMAIN Branches[r] \ {i}}
          IN  st' = [m \in All |-> IF m = r THEN "done"
                                   ELSE IF m \in others \cap known /\ st[m] = "pending" THEN "skipped"
                                   ELSE st[m]]
    BY <2>1 DEF Route
  <2>3. ASSUME NEW j \in DOMAIN Branches[r], Branches[r][j].target \in Node,
               Branches[r][j].target # Branches[r][i].target
        PROVE  st'[Branches[r][j].target] = "skipped"
    <3> DEFINE x == Branches[r][j].target
    <3>1. r \in wave
      BY <2>1 DEF Route, Launching
    <3>2. ~Started(x)
      BY <2>3, <3>1 DEF RoutersLead, SettledDeps, Settled
    <3>3. Started(r)
      BY <2>1, <3>1 DEF Route, Launching, WaveStarted
    <3>4. st[x] \in {"pending", "skipped"} /\ x \in known
      BY <2>3, <3>2 DEF Started, TypeOK, NodeStatus
    <3>5. x # r /\ j # i
      BY <2>3, <3>2, <3>3
    <3> QED
      BY <2>2, <2>3, <3>4, <3>5
  <2> QED
    BY <2>3
<1> QED
  BY <1>1, <1>2

\* Of the branches of a router at most one target ever starts, in all waves,
\* replans and re-entries together (the router handler of runGraph).
THEOREM OneBranchOnly == ASSUME RoutersLead PROVE Spec => []OneBranchTaken
<1>0. RoutersLead
  OBVIOUS
<1>1. Init => RouterShape
  BY DEF Init, RouterShape
<1>2. RoutersLead /\ WaveInv /\ RouterShape /\ [Next]_vars => RouterShape'
  BY NextRouter
<1>3. RoutersLead /\ WaveInv /\ RouterShape => OneBranchTaken
  <2> SUFFICES ASSUME RoutersLead, WaveInv, RouterShape, NEW r \in Node, Kind[r] = "router",
                      NEW i \in DOMAIN Branches[r], NEW j \in DOMAIN Branches[r],
                      Branches[r][i].target \in Node, Branches[r][j].target \in Node,
                      Branches[r][i].target # Branches[r][j].target,
                      Started(Branches[r][i].target), Started(Branches[r][j].target)
               PROVE  FALSE
    BY DEF OneBranchTaken
  <2>1. st[r] = "done"
    BY DEF RoutersLead, WaveInv, IInv, SettledDeps, Settled
  <2>2. PICK t : \A k \in DOMAIN Branches[r] :
          (Branches[r][k].target \in Node /\ Branches[r][k].target # t) => st[Branches[r][k].target] = "skipped"
    BY <2>1 DEF RouterShape
  <2> QED
    BY <2>2 DEF Started
<1> QED
  BY <1>0, <1>1, <1>2, <1>3, WaveInvariant, PTL DEF Spec

-----------------------------------------------------------------------------
(* A run that says it is done.                                             *)

\* In a DAG no finite set of nodes can be entered only from within itself: of
\* the sets that can, take a smallest; a node of it without a successor in it
\* could be left out.
LEMMA NoneFeedsItself ==
  ASSUME NEW edges, IsAcyclic(edges), NEW P \in SUBSET All, IsFiniteSet(P), P # {},
         \A n \in P : \E e \in edges : e.to = n /\ e.from \in P
  PROVE  FALSE
<1> DEFINE Fed(T) == T # {} /\ \A n \in T : \E e \in edges : e.to = n /\ e.from \in T
           F      == {T \in SUBSET P : Fed(T)}
           R      == StrictSubsetOrdering(P)
<1>1. IsWellFoundedOn(R, SUBSET P)
  BY FS_StrictSubsetOrderingWellFounded, FS_FiniteSubsetsOfFinite
<1>2. F \subseteq SUBSET P /\ P \in F
  OBVIOUS
<1>3. PICK T \in F : \A U \in F : <<U, T>> \notin R
  <2> HIDE DEF F, R
  <2> QED
    BY <1>1, <1>2, WFMin
<1>4. \A z \in T : \E e \in edges : e.from = z /\ e.to \in T
  <2> SUFFICES ASSUME NEW z \in T, \A e \in edges : ~(e.from = z /\ e.to \in T) PROVE FALSE
    OBVIOUS
  <2> DEFINE U == T \ {z}
  <2>1. \A n \in T : \E e \in edges : e.to = n /\ e.from \in U
    BY <1>3
  <2>2. U # {} /\ \A n \in U : \E e \in edges : e.to = n /\ e.from \in U
    BY <2>1
  <2>3. U \in F
    BY <1>3, <2>2
  <2>4. <<U, T>> \in R
    BY <1>3 DEF StrictSubsetOrdering
  <2> QED
    BY <1>3, <2>3, <2>4
<1>5. T \in SUBSET All /\ T # {}
  BY <1>3
<1> QED
  BY <1>4, <1>5 DEF IsAcyclic

\* A plan whose nodes are all critical and whose edges carry no condition, such
\* as the orchestrator compiles.
PlainPlan ==
  /\ Node \subseteq Critical
  /\ \A e \in Edge0 : e.cond = Always
  /\ \A n \in Node : Kind[n] # "router"

\* Only a cancelled run has skipped a node of the plan.
DoneShape ==
  /\ status = "cancelled" => pc = "returned"
  /\ status # "cancelled" => \A n \in Node : st[n] # "skipped"
  /\ status = "done" => pc = "returned" /\ \A n \in Node : st[n] = "done"

LEMMA FinishComplete ==
  ASSUME PlainPlan, IInv, graph.edges = Edge0, DoneShape, FinishRun
  PROVE  \A n \in Node : st[n] = "done"
<1> USE DEF IInv, TypeOK
<1> DEFINE P == {n \in Node : st[n] = "pending"}
<1>1. /\ pc = "boundary" /\ ReadyNodes = {}
      /\ \A n \in Node : st[n] \notin {"ready", "running", "blocked"}
      /\ ~FailedCritical
  BY DEF FinishRun, Exhausted, Unstopped
<1>2. \A n \in Node : st[n] \in {"pending", "done"}
  <2> TAKE n \in Node
  <2>1. st[n] # "failed"
    BY <1>1 DEF FailedCritical, IsCritical, PlainPlan
  <2>2. st[n] # "skipped"
    BY <1>1 DEF DoneShape
  <2> QED
    BY <1>1, <2>1, <2>2 DEF NodeStatus
<1>3. ASSUME NEW n \in P PROVE \E e \in Edge0 : e.to = n /\ e.from \in P
  <2>1. ~IsReady(n)
    BY <1>1 DEF ReadyNodes
  <2>2. PICK e \in Edge0 : e.to = n /\ ~(st[e.from] = "done" /\ CondHolds(e.cond, e.from))
    BY <2>1 DEF IsReady, In
  <2>3. e.from \in Node /\ st[e.from] # "done"
    BY <2>2, GraphAssumption DEF CondHolds, PlainPlan
  <2> QED
    BY <1>2, <2>2, <2>3
<1>4. P \in SUBSET All /\ IsFiniteSet(P) /\ IsAcyclic(Edge0)
  <2>1. P \in SUBSET Node
    OBVIOUS
  <2> QED
    BY <2>1, GraphAssumption, FS_Subset
<1>5. P = {}
  <2> HIDE DEF P
  <2> QED
    BY <1>3, <1>4, NoneFeedsItself
<1> QED
  BY <1>2, <1>5

LEMMA NextDone ==
  ASSUME PlainPlan, IInv, graph.edges = Edge0, DoneShape, [Next]_vars
  PROVE  DoneShape'
<1> USE DEF IInv, DoneShape
<1>1. CASE Boundary /\ ~StartWave
  <2>1. CASE FinishRun
    BY <2>1, FinishComplete DEF FinishRun, Return, nodeVars
  <2>2. CASE AbortRun \/ CancelRun
    BY <2>2 DEF AbortRun, CancelRun, Return
  <2>3. CASE PauseRun \/ ExceedBudget \/ FailRun \/ InterruptRun
    BY <2>3 DEF PauseRun, ExceedBudget, FailRun, InterruptRun, Return, Unstopped, Exhausted, nodeVars
  <2> QED
    BY <1>1, <2>1, <2>2, <2>3 DEF Boundary
<1>2. CASE StartWave
  BY <1>2, StartEffect
<1>3. ASSUME NEW n \in All, Launch(n) PROVE DoneShape'
  <2> USE DEF TypeOK
  <2>1. pc = "launch" /\ pc' = pc
    BY <1>3, LaunchEffect
  <2>2. status' \in {status, "interrupted"}
    BY <1>3 DEF Launch, BeginNode, EmptyLoop, MissionLaunched, LaunchThrows, LoopContinues, LoopDone, LoopFails,
       Iterated, RankContest, Interrupt, PassJoin, Refuse, Route, RouteFails
  <2>3. ~Route(n)
    BY GraphAssumption DEF Route, PlainPlan, KindOf
  <2>4. \A m \in All \ {n} : st'[m] = st[m]
    BY <1>3, <2>3 DEF Launch, BeginNode, EmptyLoop, MissionLaunched, LaunchThrows, LoopContinues, LoopDone, LoopFails,
       Iterated, RankContest, Interrupt, PassJoin, Refuse, RouteFails, Step, nodeVars
  <2>5. st'[n] # "skipped"
    BY <1>3, LaunchEffect
  <2> QED
    BY <2>1, <2>2, <2>4, <2>5
<1>4. ASSUME NEW n \in All, Process(n) PROVE DoneShape'
  <2> USE DEF TypeOK
  <2>1. pc = "results" /\ (status' = status \/ status' = "failed") /\ \A m \in All \ {n} : st'[m] = st[m]
    BY <1>4, ProcessEffect
  <2>2. n \in Node => st'[n] # "skipped"
    BY <1>4 DEF Process, Succeed, SchemaFails, MissionNotFound, FailNode, ReplanAborts, ReplanSkips, ReplanRetries,
       IsCritical, PlainPlan
  <2> QED
    BY <2>1, <2>2
<1>5. CASE CloseLaunch
  BY <1>5 DEF CloseLaunch, TypeOK
<1>6. CASE CloseWave
  BY <1>6 DEF CloseWave, nodeVars
<1>7. CASE CancelReturnedRun
  BY <1>7 DEF CancelReturnedRun
<1>8. CASE Resume
  BY <1>8 DEF Resume, TypeOK
<1>9. CASE Idle
  BY <1>9, IdleEffect
<1> QED
  BY <1>1, <1>2, <1>3, <1>4, <1>5, <1>6, <1>7, <1>8, <1>9, NextSplit

\* A plain plan that is not rewired ends "done" only when all its nodes are
\* done: none is forgotten because nothing is ready any more (runGraph, the
\* branch for an empty ready set).
THEOREM DoneIsComplete == ASSUME PlainPlan, NoVerify PROVE Spec => []DoneMeansComplete
<1>0. PlainPlan /\ NoVerify
  OBVIOUS
<1> DEFINE Inv == graph.edges = Edge0 /\ DoneShape
<1>1. Init => Inv
  BY DEF Init, Graph0, DoneShape
<1>2. PlainPlan /\ NoVerify /\ IInv /\ Inv /\ [Next]_vars => Inv'
  BY EdgesStay, NextDone
<1>3. Inv => DoneMeansComplete
  BY DEF DoneShape, DoneMeansComplete
<1> HIDE DEF Inv
<1> QED
  BY <1>0, <1>1, <1>2, <1>3, Invariant, PTL DEF Spec

-----------------------------------------------------------------------------
(* Pause and cancel.                                                       *)

\* No node interrupts the run.  One that does marks it "interrupted" while the
\* loop goes on, and cancelGraphRun then takes the loop for gone and registers
\* no request (runControl.ts).
NoInterrupts == \A n \in Node : Kind[n] # "interrupt"

\* While the loop is alive, the run says so and what was asked is on record.
RequestShape == pc # "returned" => status = "running" /\ (asked => pauseReq \/ cancelReq)

LEMMA NextRequest == ASSUME NoInterrupts, IInv, RequestShape, [Next]_vars PROVE RequestShape'
<1> USE DEF IInv, RequestShape, ctlVars
<1>1. CASE Boundary /\ ~StartWave
  BY <1>1, StopEffect
<1>2. CASE StartWave
  BY <1>2, StartEffect DEF StartWave
<1>3. ASSUME NEW n \in All, Launch(n) PROVE RequestShape'
  <2>1. ~Interrupt(n)
    BY GraphAssumption DEF Interrupt, NoInterrupts, KindOf
  <2> QED
    BY <1>3, <2>1 DEF Launch, BeginNode, EmptyLoop, MissionLaunched, LaunchThrows, LoopContinues, LoopDone, LoopFails,
       Iterated, RankContest, PassJoin, Refuse, Route, RouteFails, LaunchFrame
<1>4. ASSUME NEW n \in All, Process(n) PROVE RequestShape'
  BY <1>4 DEF Process, Succeed, SchemaFails, MissionNotFound, FailNode, ReplanAborts, ReplanSkips, ReplanRetries,
     ResultFrame, Processing, Failing, Return
<1>5. CASE CloseLaunch \/ CloseWave \/ CancelReturnedRun
  BY <1>5 DEF CloseLaunch, CloseWave, CancelReturnedRun
<1>6. CASE Resume
  BY <1>6 DEF Resume
<1>7. CASE Idle
  BY <1>7 DEF Idle, WaitReturns, Settle, MissionSettles, GiveUpMission, PauseGraphRun, CancelGraphRun, Abort, vars
<1> QED
  BY <1>1, <1>2, <1>3, <1>4, <1>5, <1>6, <1>7, NextSplit

\* Whatever missions, failures and further requests do in between, a loop that
\* was asked to pause or to cancel starts no wave until the run is resumed
\* (runControl.ts, the head of the loop of runGraph).
THEOREM RequestsAreObeyed == ASSUME NoInterrupts PROVE Spec => RequestsObeyed
<1>0. NoInterrupts
  OBVIOUS
<1>1. Init => RequestShape
  BY DEF Init, RequestShape
<1>2. NoInterrupts /\ IInv /\ RequestShape /\ [Next]_vars => RequestShape'
  BY NextRequest
<1>3. IInv /\ RequestShape /\ [Next]_vars => ((pc = "boundary" /\ pc' = "launch") => ~asked)
  <2> SUFFICES ASSUME IInv, RequestShape, [Next]_vars, pc = "boundary", pc' = "launch" PROVE ~asked
    OBVIOUS
  <2>1. StartWave
    BY NextSplit, StopEffect, LaunchEffect, ProcessEffect, IdleEffect
       DEF IInv, CloseLaunch, CloseWave, CancelReturnedRun, Resume
  <2> QED
    BY <2>1 DEF StartWave, Unstopped, RequestShape
<1> QED
  BY <1>0, <1>1, <1>2, <1>3, Invariant, PTL DEF Spec, RequestsObeyed

-----------------------------------------------------------------------------
(* The budget.                                                             *)

\* The missions of the run are those of tasks.  What the iterations of a loop
\* cost goes on no budget, and a contest whose winner is free is charged
\* nothing (runGraph's loop branch, launchContestNode): with those the budget
\* is overdrawn.
OnlyTasksPay == \A n \in Node : Kind[n] \notin {"loop", "contest"}

\* What the wave's missions have cost and the budget has not been charged,
\* unit by unit.
Owes(n) == n \in wave /\ res[n] # NoRes /\ (pc = "results" => n \in todo)
Owed    == {x \in All \X Nat : Owes(x[1]) /\ x[2] \in 1..res[x[1]].cost}

\* The budget falls behind what was spent by what is owed.
BudgetShape ==
  /\ spent \in Nat /\ incurred \in Nat /\ IsFiniteSet(Owed)
  /\ \A n \in All : res[n].kind = "missing" => res[n].cost = 0
  /\ pc # "returned" => status \notin {"failed", "cancelled"}
  /\ status \notin {"failed", "cancelled"} => incurred = spent + Cardinality(Owed)

\* The units one result costs.
LEMMA Units ==
  ASSUME NEW n, NEW c \in Nat
  PROVE  IsFiniteSet({n} \X (1..c)) /\ Cardinality({n} \X (1..c)) = c
<1>1. IsFiniteSet({n}) /\ Cardinality({n}) = 1
  BY FS_Singleton
<1>2. IsFiniteSet(1..c) /\ Cardinality(1..c) = c
  BY FS_Interval
<1>3. IsFiniteSet({n} \X (1..c)) /\ Cardinality({n} \X (1..c)) = Cardinality({n}) * Cardinality(1..c)
  <2> DEFINE S == {n}
             T == 1..c
  <2>1. IsFiniteSet(S) /\ IsFiniteSet(T)
    BY <1>1, <1>2
  <2> HIDE DEF S, T
  <2>2. IsFiniteSet(S \X T) /\ Cardinality(S \X T) = Cardinality(S) * Cardinality(T)
    BY <2>1, FS_Product
  <2> QED
    BY <2>2 DEF S, T
<1>4. 1 * c = c
  OBVIOUS
<1> QED
  BY <1>1, <1>2, <1>3, <1>4

LEMMA VerdictCosts == \A r \in Result : r.cost \in Nat /\ r # NoRes
<1>1. Cost \cup {0} \subseteq Nat
  BY LimitAssumption
<1>2. \A r \in Result : r.cost \in Cost \cup {0} /\ r.kind \in Verdict
  BY DEF Result
<1>3. NoRes.kind \notin Verdict
  BY DEF NoRes, Verdict
<1> QED
  BY <1>1, <1>2, <1>3

LEMMA ResultCosts ==
  ASSUME TypeOK, NEW n \in All
  PROVE  res[n].cost \in Nat
<1>1. res[n] \in Result \/ res[n] = NoRes
  BY DEF TypeOK
<1> QED
  BY <1>1, VerdictCosts DEF NoRes

\* Steps that neither settle nor charge a mission.
LEMMA SameDebt ==
  ASSUME BudgetShape, UNCHANGED <<spent, incurred>>, Owed' = Owed,
         \A n \in All : res'[n].kind = "missing" => res'[n].cost = 0,
         pc' # "returned" => status' \notin {"failed", "cancelled"},
         status' \notin {"failed", "cancelled"} => status \notin {"failed", "cancelled"}
  PROVE  BudgetShape'
BY DEF BudgetShape

\* A mission settles: its cost is owed.
LEMMA SettleOwes ==
  ASSUME IInv, ResultShape, BudgetShape, NEW n \in All, MissionSettles(n)
  PROVE  BudgetShape'
<1> USE DEF IInv, TypeOK
<1>1. PICK r \in Result : r.kind # "missing" /\ res' = [res EXCEPT ![n] = r] /\ incurred' = incurred + r.cost
  BY DEF MissionSettles
<1>2. /\ pc \in {"launch", "wait"} /\ pc' = pc /\ stage[n] = "launched" /\ res[n] = NoRes
      /\ UNCHANGED <<wave, todo, spent, status>> /\ n \in wave
  BY DEF MissionSettles, WaveShape
<1>3. r.cost \in Nat /\ r # NoRes
  BY VerdictCosts
<1> DEFINE new == {n} \X (1..r.cost)
<1>4. Owed' = Owed \cup new
  <2>1. Owes(n)' /\ ~Owes(n) /\ res'[n] = r
    BY <1>1, <1>2, <1>3 DEF Owes
  <2>2. \A m \in All \ {n} : Owes(m)' = Owes(m) /\ res'[m] = res[m]
    BY <1>1, <1>2 DEF Owes
  <2>3. \A x \in All \X Nat : x \in Owed' <=> x \in Owed \/ x \in new
    <3> TAKE x \in All \X Nat
    <3>1. CASE x[1] = n
      BY <2>1, <3>1 DEF Owed
    <3>2. CASE x[1] # n
      BY <2>2, <3>2 DEF Owed
    <3> QED
      BY <3>1, <3>2
  <2>4. new \subseteq All \X Nat /\ Owed \subseteq All \X Nat /\ Owed' \subseteq All \X Nat
    BY <1>3 DEF Owed
  <2> QED
    BY <2>3, <2>4
<1>5. Owed \cap new = {}
  BY <1>2 DEF Owed, Owes
<1>6. IsFiniteSet(Owed) /\ IsFiniteSet(new) /\ Cardinality(new) = r.cost
  BY <1>3, Units DEF BudgetShape
<1> HIDE DEF new
<1>7. IsFiniteSet(Owed') /\ Cardinality(Owed') = Cardinality(Owed) + r.cost
  <2>1. Cardinality(Owed \cap new) = 0
    BY <1>5, FS_EmptySet
  <2>2. Cardinality(Owed) \in Nat
    BY <1>6, FS_CardinalityType
  <2>3. /\ IsFiniteSet(Owed \cup new)
        /\ Cardinality(Owed \cup new) = Cardinality(Owed) + Cardinality(new) - Cardinality(Owed \cap new)
    BY <1>6, FS_Union
  <2> QED
    BY <1>3, <1>4, <1>6, <2>1, <2>2, <2>3
<1>8. \A m \in All : res'[m].kind = "missing" => res'[m].cost = 0
  BY <1>1 DEF BudgetShape
<1>9. Cardinality(Owed) \in Nat
  BY <1>6, FS_CardinalityType
<1> QED
  BY <1>1, <1>2, <1>3, <1>7, <1>8, <1>9 DEF BudgetShape

\* Its result is processed: its cost is charged, and owed no more.
LEMMA ChargePays ==
  ASSUME IInv, BudgetShape, NEW n \in All, Process(n)
  PROVE  BudgetShape'
<1> USE DEF IInv, TypeOK
<1>1. CASE ReplanAborts(n)
  <2>1. /\ spent' = spent + res[n].cost /\ incurred' = incurred /\ wave' = {}
        /\ pc' = "returned" /\ status' = "failed" /\ \A m \in All : res'[m] = NoRes
    BY <1>1 DEF ReplanAborts, Charge, Return
  <2>2. Owed' = {}
    BY <2>1 DEF Owed, Owes
  <2>3. spent' \in Nat
    BY <2>1, ResultCosts DEF BudgetShape
  <2> QED
    BY <2>1, <2>2, <2>3, FS_EmptySet DEF BudgetShape, NoRes
<1>2. CASE ~ReplanAborts(n)
  <2>1. /\ pc = "results" /\ n \in todo /\ todo' = todo \ {n} /\ n \in wave
        /\ UNCHANGED <<pc, wave, res, status, incurred>>
    BY <1>2, ProcessKeeps
       DEF Process, Succeed, SchemaFails, MissionNotFound, FailNode, ReplanSkips, ReplanRetries,
           Failing, Processing, ResultFrame, WaveShape
  <2>2. spent' = spent + res[n].cost
    <3>1. CASE MissionNotFound(n)
      BY <3>1 DEF MissionNotFound, BudgetShape
    <3> QED
      BY <1>2, <3>1
         DEF Process, Succeed, SchemaFails, FailNode, ReplanSkips, ReplanRetries, Charge
  <2>3. res[n] # NoRes
    BY <1>2 DEF Process, Succeed, SchemaFails, MissionNotFound, FailNode, ReplanSkips,
                ReplanRetries, Failing, NoRes
  <2>4. res[n].cost \in Nat
    BY ResultCosts
  <2> DEFINE paid == {n} \X (1..res[n].cost)
  <2>5. paid \subseteq Owed
    BY <2>1, <2>3, <2>4 DEF Owed, Owes
  <2>6. Owed' = Owed \ paid
    <3>1. ~Owes(n)' /\ Owes(n) /\ \A m \in All \ {n} : Owes(m)' = Owes(m)
      BY <2>1, <2>3 DEF Owes
    <3>2. \A x \in All \X Nat : x \in Owed' <=> x \in Owed /\ x \notin paid
      <4> TAKE x \in All \X Nat
      <4>1. CASE x[1] = n
        BY <2>1, <3>1, <4>1 DEF Owed
      <4>2. CASE x[1] # n
        BY <2>1, <3>1, <4>2 DEF Owed
      <4> QED
        BY <4>1, <4>2
    <3>3. Owed \subseteq All \X Nat /\ Owed' \subseteq All \X Nat
      BY DEF Owed
    <3> QED
      BY <3>2, <3>3
  <2>7. IsFiniteSet(Owed) /\ Cardinality(Owed) \in Nat /\ Cardinality(paid) = res[n].cost
    BY <2>4, Units, FS_CardinalityType DEF BudgetShape
  <2> HIDE DEF paid
  <2>8. IsFiniteSet(Owed') /\ Cardinality(Owed') = Cardinality(Owed) - res[n].cost
    <3>1. Owed \cap paid = paid
      BY <2>5
    <3>2. IsFiniteSet(Owed \ paid) /\ Cardinality(Owed \ paid) = Cardinality(Owed) - Cardinality(Owed \cap paid)
      BY <2>7, FS_Difference
    <3> QED
      BY <2>6, <2>7, <3>1, <3>2
  <2>9. status \notin {"failed", "cancelled"}
    BY <2>1 DEF BudgetShape
  <2>10. /\ spent' \in Nat /\ incurred' \in Nat
         /\ incurred' = spent' + Cardinality(Owed')
    <3>1. incurred = spent + Cardinality(Owed) /\ spent \in Nat /\ incurred \in Nat
      BY <2>9 DEF BudgetShape
    <3> QED
      BY <2>1, <2>2, <2>4, <2>7, <2>8, <3>1
  <2> QED
    BY <2>1, <2>8, <2>9, <2>10 DEF BudgetShape
<1> QED
  BY <1>1, <1>2

LEMMA NextBudget == OnlyTasksPay /\ WaveInv /\ BudgetShape /\ [Next]_vars => BudgetShape'
<1> SUFFICES ASSUME OnlyTasksPay, WaveInv, BudgetShape, [Next]_vars PROVE BudgetShape'
  OBVIOUS
<1> USE DEF WaveInv, IInv
<1>0. \A n \in All : pc \in {"boundary", "returned"} => res[n] = NoRes /\ n \notin wave
  BY DEF WaveShape, ResultShape
<1>1. CASE Boundary /\ ~StartWave
  <2>1. pc = "boundary" /\ pc' = "returned" /\ UNCHANGED <<wave, res, spent, incurred>>
    BY <1>1, StopEffect
       DEF Boundary, AbortRun, CancelRun, PauseRun, ExceedBudget, FailRun, InterruptRun, FinishRun,
           waveVars, moneyVars
  <2>2. Owed' = Owed
    BY <1>0, <2>1 DEF Owed, Owes
  <2>3. status \notin {"failed", "cancelled"}
    BY <2>1 DEF BudgetShape
  <2> QED
    BY <1>0, <2>1, <2>2, <2>3, SameDebt DEF NoRes
<1>2. CASE StartWave
  <2>1. UNCHANGED <<res, spent, incurred, status>> /\ pc = "boundary" /\ pc' = "launch"
    BY <1>2 DEF StartWave, Unstopped, moneyVars
  <2>2. Owed' = Owed
    BY <1>0, <2>1 DEF Owed, Owes
  <2>3. status \notin {"failed", "cancelled"}
    BY <2>1 DEF BudgetShape
  <2> QED
    BY <1>0, <2>1, <2>2, <2>3, SameDebt DEF NoRes
<1>3. ASSUME NEW n \in All, Launch(n) PROVE BudgetShape'
  <2>1. KindOf(n) \notin {"loop", "contest"}
    BY DEF OnlyTasksPay, KindOf
  <2>2. /\ UNCHANGED <<res, spent, incurred, wave, todo>> /\ pc = "launch" /\ pc' = "launch"
        /\ status' \in {status, "interrupted"}
    BY <1>3, <2>1
       DEF Launch, BeginNode, EmptyLoop, MissionLaunched, LaunchThrows, LoopContinues, LoopDone, LoopFails,
           Iterated, RankContest, Interrupt, PassJoin, Refuse, Route, RouteFails, Launching, LaunchFrame, moneyVars
  <2>3. Owed' = Owed
    BY <2>2 DEF Owed, Owes
  <2>4. status \notin {"failed", "cancelled"}
    BY <2>2 DEF BudgetShape
  <2>5. \A m \in All : res'[m].kind = "missing" => res'[m].cost = 0
    BY <2>2 DEF BudgetShape
  <2> QED
    BY <2>2, <2>3, <2>4, <2>5, SameDebt
<1>4. ASSUME NEW n \in All, Process(n) PROVE BudgetShape'
  BY <1>4, ChargePays
<1>5. CASE CloseLaunch
  <2>1. /\ UNCHANGED <<res, spent, incurred, status>> /\ pc = "launch" /\ pc' \in {"boundary", "wait"}
        /\ wave' = wave \/ (wave' = {} /\ \A n \in wave : stage[n] # "launched")
    BY <1>5 DEF CloseLaunch, moneyVars
  <2>2. \A n \in All : Owes(n)' = Owes(n) /\ res'[n] = res[n]
    BY <2>1 DEF Owes, ResultShape
  <2>3. Owed' = Owed
    BY <2>2 DEF Owed
  <2>4. status \notin {"failed", "cancelled"}
    BY <2>1 DEF BudgetShape
  <2>5. \A m \in All : res'[m].kind = "missing" => res'[m].cost = 0
    BY <2>1 DEF BudgetShape
  <2> QED
    BY <2>1, <2>3, <2>4, <2>5, SameDebt
<1>6. CASE CloseWave
  <2>1. /\ UNCHANGED <<spent, incurred, status>> /\ pc = "results" /\ pc' = "boundary"
        /\ todo = {} /\ wave' = {} /\ \A n \in All : res'[n] = NoRes
    BY <1>6 DEF CloseWave, moneyVars
  <2>2. Owed' = Owed
    BY <2>1 DEF Owed, Owes
  <2>3. status \notin {"failed", "cancelled"}
    BY <2>1 DEF BudgetShape
  <2> QED
    BY <2>1, <2>2, <2>3, SameDebt DEF NoRes
<1>7. CASE CancelReturnedRun \/ Resume
  <2>1. /\ UNCHANGED <<res, spent, incurred, wave>> /\ pc = "returned"
        /\ pc' # "returned" => status' = "running"
        /\ status' \notin {"failed", "cancelled"} => status \notin {"failed", "cancelled"}
    BY <1>7 DEF CancelReturnedRun, Resume, waveVars, moneyVars
  <2>2. Owed' = Owed
    BY <1>0, <2>1 DEF Owed, Owes
  <2> QED
    BY <1>0, <2>1, <2>2, SameDebt DEF NoRes
<1>8. CASE Idle
  <2>1. ASSUME NEW n \in All, MissionSettles(n) PROVE BudgetShape'
    BY <2>1, SettleOwes
  <2>2. CASE ~ \E n \in All : MissionSettles(n)
    <3>1. UNCHANGED <<spent, incurred, wave, status>>
      BY <1>8, <2>2 DEF Idle, WaitReturns, Settle, GiveUpMission, PauseGraphRun, CancelGraphRun, Abort,
                        vars, waveVars, moneyVars
    <3>2. \A n \in All : res'[n].kind = "missing" => res'[n].cost = 0
      <4>1. ASSUME NEW n \in All, GiveUpMission(n) PROVE \A m \in All : res'[m].kind = "missing" => res'[m].cost = 0
        BY <4>1 DEF GiveUpMission, BudgetShape, TypeOK
      <4> QED
        BY <1>8, <2>2, <4>1 DEF Idle, WaitReturns, Settle, PauseGraphRun, CancelGraphRun, Abort,
                                vars, waveVars, BudgetShape
    <3>3. Owed' = Owed
      <4>1. CASE WaitReturns
        <5>1. \A n \in All : Owes(n)' = Owes(n) /\ res'[n] = res[n]
          BY <4>1 DEF WaitReturns, Owes, ResultShape
        <5> QED
          BY <5>1 DEF Owed
      <4>2. ASSUME NEW n \in All, GiveUpMission(n) PROVE Owed' = Owed
        <5>1. /\ UNCHANGED <<wave, pc, todo>> /\ res[n] = NoRes /\ res'[n].cost = 0
              /\ \A m \in All \ {n} : res'[m] = res[m]
          BY <4>2 DEF GiveUpMission, TypeOK
        <5>2. \A x \in All \X Nat : x \in Owed' <=> x \in Owed
          <6> TAKE x \in All \X Nat
          <6>1. CASE x[1] = n
            BY <5>1, <6>1 DEF Owed, Owes
          <6>2. CASE x[1] # n
            BY <5>1, <6>2 DEF Owed, Owes
          <6> QED
            BY <6>1, <6>2
        <5>3. Owed \subseteq All \X Nat /\ Owed' \subseteq All \X Nat
          BY DEF Owed
        <5> QED
          BY <5>2, <5>3
      <4>3. CASE PauseGraphRun \/ CancelGraphRun \/ Abort \/ UNCHANGED vars
        BY <4>3 DEF PauseGraphRun, CancelGraphRun, Abort, vars, waveVars, Owed, Owes
      <4> QED
        BY <1>8, <2>2, <4>1, <4>2, <4>3 DEF Idle, Settle
    <3>4. pc' # "returned" => status' \notin {"failed", "cancelled"}
      BY <1>8, <3>1, IdleEffect DEF BudgetShape
    <3> QED
      BY <3>1, <3>2, <3>3, <3>4, SameDebt
  <2> QED
    BY <2>1, <2>2
<1> QED
  BY <1>1, <1>2, <1>3, <1>4, <1>5, <1>6, <1>7, <1>8, NextSplit

LEMMA InitBudget == Init => BudgetShape
<1> SUFFICES ASSUME Init PROVE BudgetShape
  OBVIOUS
<1>1. Owed = {}
  BY DEF Init, Owed, Owes
<1> QED
  BY <1>1, FS_EmptySet DEF Init, BudgetShape, NoRes

\* Where the missions of tasks are all the run pays for, no wave starts once
\* they have really cost the limit: the budget, which is charged as results
\* are processed, has caught up by the boundary at which the loop looks at it
\* (runGraph.ts), through pauses, interrupts and re-entries too.
THEOREM BudgetHolds ==
  ASSUME OnlyTasksPay
  PROVE  Spec => WaveWithinBudget
<1>0. OnlyTasksPay
  OBVIOUS
<1>1. Init => BudgetShape
  BY InitBudget
<1>2. OnlyTasksPay /\ WaveInv /\ BudgetShape /\ [Next]_vars => BudgetShape'
  BY NextBudget
<1>3. WaveInv /\ BudgetShape /\ [Next]_vars
        => ((pc = "boundary" /\ pc' = "launch") => (Limit = NoLimit \/ incurred < Limit))
  <2> SUFFICES ASSUME WaveInv, BudgetShape, [Next]_vars, pc = "boundary", pc' = "launch", Limit # NoLimit
               PROVE  incurred < Limit
    OBVIOUS
  <2>1. StartWave
    BY NextSplit, StopEffect, LaunchEffect, ProcessEffect, IdleEffect
       DEF WaveInv, IInv, CloseLaunch, CloseWave, CancelReturnedRun, Resume
  <2>2. Owed = {}
    BY DEF WaveInv, IInv, WaveShape, Owed, Owes
  <2>3. incurred = spent
    BY <2>2, FS_EmptySet DEF BudgetShape
  <2>4. ~(spent >= Limit)
    BY <2>1 DEF StartWave, BudgetGone
  <2>5. Limit \in Nat
    BY LimitAssumption
  <2> QED
    BY <2>3, <2>4, <2>5 DEF BudgetShape
<1> QED
  BY <1>0, <1>1, <1>2, <1>3, WaveInvariant, PTL DEF Spec, WaveWithinBudget

=============================================================================
