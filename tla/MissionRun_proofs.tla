------------------------- MODULE MissionRun_proofs -------------------------
(***************************************************************************)
(* Proofs about one run of a mission, for every engine and every number of *)
(* pause clicks.                                                           *)
(***************************************************************************)
EXTENDS MissionRun, TLAPS

USE DEF vars, clicks, stops, agent, errors, caps, dog, logs, pass, loopSame,
        Early, Armed, Settled

-----------------------------------------------------------------------------
(* Types.                                                                  *)

Flags ==
  /\ paused \in BOOLEAN /\ job \in BOOLEAN /\ hung \in BOOLEAN /\ asking \in BOOLEAN
  /\ failed \in BOOLEAN /\ wall \in BOOLEAN /\ overBudget \in BOOLEAN
  /\ overTime \in BOOLEAN /\ retried \in BOOLEAN /\ final \in BOOLEAN

Fields ==
  /\ rail \in Rails /\ status \in {"queued", "running", "review", "failed", "cancelled"}
  /\ stop \in {"no", "early", "late"}
  /\ tree \in {"none", "there", "gone"}
  /\ proc \in {"none", "starting", "up", "dying"} /\ killed \in {"no", "stop", "pause"}
  /\ reason \in {"none", "step cap", "no credits", "other"}

Places == pc \in Early \cup Armed \cup Settled

Pauses == pauses \in 0..MaxPauses

History ==
  /\ journal \subseteq {"completed", "failed"}
  /\ outcomes \in Seq({"review", "failed", "cancelled"})

\* A watchdog that has not given its verdict has struck at most once.
Strikes == strikes \in 0..2 /\ (~final => strikes \in 0..1)

\* Every step keeps the flags Boolean.
LEMMA FlagsNext == Flags /\ [Next]_vars => Flags'
<1> SUFFICES ASSUME Flags, [Next]_vars PROVE Flags'
  OBVIOUS
<1> USE DEF Flags
<1>1. CASE Gate
  BY Zenon, <1>1 DEF Gate, FailLaunch, Capture, Journal
<1>2. CASE Prepare
  BY Zenon, <1>2 DEF Prepare
<1>3. CASE Create
  BY Zenon, <1>3 DEF Create, FailLaunch, Capture, Journal
<1>4. CASE Launch
  BY Zenon, <1>4 DEF Launch
<1>5. CASE Poll
  BY Zenon, <1>5 DEF Poll, Kill
<1>6. CASE PollBreaks
  BY Zenon, <1>6 DEF PollBreaks, EndPass
<1>7. CASE NativeHeld
  BY Zenon, <1>7 DEF NativeHeld
<1>8. CASE LoopHeld
  BY Zenon, <1>8 DEF LoopHeld
<1>9. CASE LoopStops
  BY Zenon, <1>9 DEF LoopStops, EndPass, Looping
<1>10. CASE Settle
  BY Zenon, <1>10 DEF Settle, Verdict, AfterPass
<1>11. CASE Retry
  BY Zenon, <1>11 DEF Retry
<1>12. CASE CapDiff
  BY Zenon, <1>12 DEF CapDiff, Drop, Review, Capture, Journal
<1>13. CASE Diff
  BY Zenon, <1>13 DEF Diff, Drop, Review, Capture, Journal
<1>14. CASE Discard
  <2>1. UNCHANGED <<clicks, stops, pass, retried, dog>>
    BY SMT, <1>14 DEF Discard, Clean, Capture, Journal
  <2> QED
    BY Zenon, <2>1
<1>15. CASE Mismatch
  BY Zenon, <1>15 DEF Mismatch, EndPass
<1>16. CASE Evaluate
  BY Zenon, <1>16 DEF Evaluate
<1>17. CASE Spawned
  BY Zenon, <1>17 DEF Spawned
<1>18. CASE Rejected
  BY Zenon, <1>18 DEF Rejected, EndPass
<1>19. CASE ProcessEnds
  <2>1. PICK code \in {0, 1} : Exit(code)
    BY <1>19, Zenon DEF ProcessEnds
  <2> QED
    BY Zenon, <2>1 DEF Exit, DoneEvent, EndPass
<1>20. CASE Hang
  BY Zenon, <1>20 DEF Hang, Working
<1>21. CASE LoopStep
  BY Zenon, <1>21 DEF LoopStep, Looping
<1>22. CASE Blip
  BY Zenon, <1>22 DEF Blip, Looping
<1>23. CASE LoopPauses
  BY Zenon, <1>23 DEF LoopPauses, Looping
<1>24. CASE LoopDone
  BY Zenon, <1>24 DEF LoopDone, Looping, EmitMetrics, EndPass, Capture, Journal
<1>25. CASE LoopFails
  BY Zenon, <1>25 DEF LoopFails, Looping, EmitMetrics, LoopOverBudget, EndPass, Capture, Journal
<1>26. CASE LoopRefused
  BY Zenon, <1>26 DEF LoopRefused, Looping, EmitMetrics, EndPass, Capture, Journal
<1>27. CASE StopMission
  BY Zenon, <1>27 DEF StopMission, Kill
<1>28. CASE StopDiscards
  BY Zenon, <1>28 DEF StopDiscards
<1>29. CASE PauseMission
  BY Zenon, <1>29 DEF PauseMission
<1>30. CASE ResumeMission
  BY Zenon, <1>30 DEF ResumeMission
<1>31. CASE Timer
  BY Zenon, <1>31 DEF Timer, Kill
<1>32. CASE Silence
  BY Zenon, <1>32 DEF Silence, Kill
<1>33. CASE UNCHANGED vars
  BY Zenon, <1>33
<1> QED
  BY <1>1, <1>2, <1>3, <1>4, <1>5, <1>6, <1>7, <1>8, <1>9, <1>10, <1>11, <1>12, <1>13, <1>14, <1>15, <1>16, <1>17, <1>18, <1>19, <1>20, <1>21, <1>22, <1>23, <1>24, <1>25, <1>26, <1>27, <1>28, <1>29, <1>30, <1>31, <1>32, <1>33 DEF Next, RunStep

\* Every step keeps the other variables in their sets.
LEMMA FieldsNext == Fields /\ [Next]_vars => Fields'
<1> SUFFICES ASSUME Fields, [Next]_vars PROVE Fields'
  OBVIOUS
<1> USE DEF Fields
<1>1. CASE Gate
  BY <1>1 DEF Gate, FailLaunch
<1>2. CASE Prepare
  BY <1>2 DEF Prepare
<1>3. CASE Create
  BY <1>3 DEF Create, FailLaunch
<1>4. CASE Launch
  BY <1>4 DEF Launch
<1>5. CASE Poll
  BY <1>5 DEF Poll, Kill
<1>6. CASE PollBreaks
  BY <1>6 DEF PollBreaks, EndPass
<1>7. CASE NativeHeld
  BY <1>7 DEF NativeHeld
<1>8. CASE LoopHeld
  BY <1>8 DEF LoopHeld
<1>9. CASE LoopStops
  BY <1>9 DEF LoopStops, EndPass, Looping
<1>10. CASE Settle
  BY <1>10 DEF Settle, Verdict, AfterPass
<1>11. CASE Retry
  BY <1>11 DEF Retry
<1>12. CASE CapDiff
  BY <1>12 DEF CapDiff, Drop, Review
<1>13. CASE Diff
  BY <1>13 DEF Diff, Drop, Review
<1>14. CASE Discard
  BY <1>14 DEF Discard, Clean
<1>15. CASE Mismatch
  BY <1>15 DEF Mismatch, EndPass
<1>16. CASE Evaluate
  BY <1>16 DEF Evaluate
<1>17. CASE Spawned
  BY <1>17 DEF Spawned
<1>18. CASE Rejected
  BY <1>18 DEF Rejected, EndPass
<1>19. CASE ProcessEnds
  <2>1. PICK code \in {0, 1} : Exit(code)
    BY <1>19 DEF ProcessEnds
  <2> QED
    BY <2>1 DEF Exit, DoneEvent, EndPass
<1>20. CASE Hang
  BY <1>20 DEF Hang, Working
<1>21. CASE LoopStep
  BY <1>21 DEF LoopStep, Looping
<1>22. CASE Blip
  BY <1>22 DEF Blip, Looping
<1>23. CASE LoopPauses
  BY <1>23 DEF LoopPauses, Looping
<1>24. CASE LoopDone
  BY <1>24 DEF LoopDone, Looping, EmitMetrics, EndPass
<1>25. CASE LoopFails
  BY <1>25 DEF LoopFails, Looping, EmitMetrics, LoopOverBudget, EndPass
<1>26. CASE LoopRefused
  BY <1>26 DEF LoopRefused, Looping, EmitMetrics, EndPass
<1>27. CASE StopMission
  BY <1>27 DEF StopMission, Kill
<1>28. CASE StopDiscards
  BY <1>28 DEF StopDiscards
<1>29. CASE PauseMission
  BY <1>29 DEF PauseMission
<1>30. CASE ResumeMission
  BY <1>30 DEF ResumeMission
<1>31. CASE Timer
  BY <1>31 DEF Timer, Kill
<1>32. CASE Silence
  BY <1>32 DEF Silence, Kill
<1>33. CASE UNCHANGED vars
  BY <1>33
<1> QED
  BY <1>1, <1>2, <1>3, <1>4, <1>5, <1>6, <1>7, <1>8, <1>9, <1>10, <1>11, <1>12, <1>13, <1>14, <1>15, <1>16, <1>17, <1>18, <1>19, <1>20, <1>21, <1>22, <1>23, <1>24, <1>25, <1>26, <1>27, <1>28, <1>29, <1>30, <1>31, <1>32, <1>33 DEF Next, RunStep

\* Every step leaves the run at one of its awaits.
LEMMA PlacesNext == Places /\ [Next]_vars => Places'
<1> SUFFICES ASSUME Places, [Next]_vars PROVE Places'
  OBVIOUS
<1> USE DEF Places
<1>1. CASE Gate
  BY <1>1 DEF Gate, FailLaunch
<1>2. CASE Prepare
  BY <1>2 DEF Prepare
<1>3. CASE Create
  BY <1>3 DEF Create, FailLaunch
<1>4. CASE Launch
  BY <1>4 DEF Launch
<1>5. CASE Poll
  BY Zenon, <1>5 DEF Poll, Kill
<1>6. CASE PollBreaks
  BY <1>6 DEF PollBreaks, EndPass
<1>7. CASE NativeHeld
  BY <1>7 DEF NativeHeld
<1>8. CASE LoopHeld
  BY <1>8 DEF LoopHeld
<1>9. CASE LoopStops
  BY <1>9 DEF LoopStops, EndPass, Looping
<1>10. CASE Settle
  BY <1>10 DEF Settle, Verdict, AfterPass
<1>11. CASE Retry
  BY <1>11 DEF Retry
<1>12. CASE CapDiff
  BY <1>12 DEF CapDiff, Drop, Review
<1>13. CASE Diff
  BY <1>13 DEF Diff, Drop, Review
<1>14. CASE Discard
  BY <1>14 DEF Discard, Clean
<1>15. CASE Mismatch
  BY <1>15 DEF Mismatch, EndPass
<1>16. CASE Evaluate
  BY <1>16 DEF Evaluate
<1>17. CASE Spawned
  BY Zenon, <1>17 DEF Spawned
<1>18. CASE Rejected
  BY Zenon, <1>18 DEF Rejected, EndPass
<1>19. CASE ProcessEnds
  <2>1. PICK code \in {0, 1} : Exit(code)
    BY <1>19 DEF ProcessEnds
  <2> QED
    BY Zenon, <2>1 DEF Exit, DoneEvent, EndPass
<1>20. CASE Hang
  BY <1>20 DEF Hang, Working
<1>21. CASE LoopStep
  BY <1>21 DEF LoopStep, Looping
<1>22. CASE Blip
  BY <1>22 DEF Blip, Looping
<1>23. CASE LoopPauses
  BY <1>23 DEF LoopPauses, Looping
<1>24. CASE LoopDone
  BY <1>24 DEF LoopDone, Looping, EmitMetrics, EndPass
<1>25. CASE LoopFails
  BY <1>25 DEF LoopFails, Looping, EmitMetrics, LoopOverBudget, EndPass
<1>26. CASE LoopRefused
  BY <1>26 DEF LoopRefused, Looping, EmitMetrics, EndPass
<1>27. CASE StopMission
  BY <1>27 DEF StopMission, Kill
<1>28. CASE StopDiscards
  BY Zenon, <1>28 DEF StopDiscards
<1>29. CASE PauseMission
  BY Zenon, <1>29 DEF PauseMission
<1>30. CASE ResumeMission
  BY Zenon, <1>30 DEF ResumeMission
<1>31. CASE Timer
  BY <1>31 DEF Timer, Kill
<1>32. CASE Silence
  BY <1>32 DEF Silence, Kill
<1>33. CASE UNCHANGED vars
  BY Zenon, <1>33
<1> QED
  BY <1>1, <1>2, <1>3, <1>4, <1>5, <1>6, <1>7, <1>8, <1>9, <1>10, <1>11, <1>12, <1>13, <1>14, <1>15, <1>16, <1>17, <1>18, <1>19, <1>20, <1>21, <1>22, <1>23, <1>24, <1>25, <1>26, <1>27, <1>28, <1>29, <1>30, <1>31, <1>32, <1>33 DEF Next, RunStep

\* Every step keeps the count of the pauses.
LEMMA PausesNext == Pauses /\ [Next]_vars => Pauses'
<1> SUFFICES ASSUME Pauses, [Next]_vars PROVE Pauses'
  OBVIOUS
<1> USE DEF Pauses
<1>1. CASE Gate
  BY <1>1 DEF Gate, FailLaunch
<1>2. CASE Prepare
  BY <1>2 DEF Prepare
<1>3. CASE Create
  BY <1>3 DEF Create, FailLaunch
<1>4. CASE Launch
  BY <1>4 DEF Launch
<1>5. CASE Poll
  BY <1>5 DEF Poll, Kill
<1>6. CASE PollBreaks
  BY <1>6 DEF PollBreaks, EndPass
<1>7. CASE NativeHeld
  BY <1>7 DEF NativeHeld
<1>8. CASE LoopHeld
  BY <1>8 DEF LoopHeld
<1>9. CASE LoopStops
  BY <1>9 DEF LoopStops, EndPass, Looping
<1>10. CASE Settle
  BY <1>10 DEF Settle, Verdict, AfterPass
<1>11. CASE Retry
  BY <1>11 DEF Retry
<1>12. CASE CapDiff
  BY <1>12 DEF CapDiff, Drop, Review
<1>13. CASE Diff
  BY <1>13 DEF Diff, Drop, Review
<1>14. CASE Discard
  BY <1>14 DEF Discard, Clean
<1>15. CASE Mismatch
  BY <1>15 DEF Mismatch, EndPass
<1>16. CASE Evaluate
  BY <1>16 DEF Evaluate
<1>17. CASE Spawned
  BY <1>17 DEF Spawned
<1>18. CASE Rejected
  BY <1>18 DEF Rejected, EndPass
<1>19. CASE ProcessEnds
  <2>1. PICK code \in {0, 1} : Exit(code)
    BY <1>19 DEF ProcessEnds
  <2> QED
    BY <2>1 DEF Exit, DoneEvent, EndPass
<1>20. CASE Hang
  BY <1>20 DEF Hang, Working
<1>21. CASE LoopStep
  BY <1>21 DEF LoopStep, Looping
<1>22. CASE Blip
  BY <1>22 DEF Blip, Looping
<1>23. CASE LoopPauses
  BY <1>23 DEF LoopPauses, Looping
<1>24. CASE LoopDone
  BY <1>24 DEF LoopDone, Looping, EmitMetrics, EndPass
<1>25. CASE LoopFails
  BY <1>25 DEF LoopFails, Looping, EmitMetrics, LoopOverBudget, EndPass
<1>26. CASE LoopRefused
  BY <1>26 DEF LoopRefused, Looping, EmitMetrics, EndPass
<1>27. CASE StopMission
  BY <1>27 DEF StopMission, Kill
<1>28. CASE StopDiscards
  BY <1>28 DEF StopDiscards
<1>29. CASE PauseMission
  BY RailAssumption, <1>29 DEF PauseMission
<1>30. CASE ResumeMission
  BY <1>30 DEF ResumeMission
<1>31. CASE Timer
  BY <1>31 DEF Timer, Kill
<1>32. CASE Silence
  BY <1>32 DEF Silence, Kill
<1>33. CASE UNCHANGED vars
  BY <1>33
<1> QED
  BY <1>1, <1>2, <1>3, <1>4, <1>5, <1>6, <1>7, <1>8, <1>9, <1>10, <1>11, <1>12, <1>13, <1>14, <1>15, <1>16, <1>17, <1>18, <1>19, <1>20, <1>21, <1>22, <1>23, <1>24, <1>25, <1>26, <1>27, <1>28, <1>29, <1>30, <1>31, <1>32, <1>33 DEF Next, RunStep

LEMMA Appended ==
  ASSUME NEW S, NEW q \in Seq(S), NEW v \in S
  PROVE  Append(q, v) \in Seq(S)
OBVIOUS

\* Every step keeps the history in its sets.
LEMMA HistoryNext == History /\ [Next]_vars => History'
<1> SUFFICES ASSUME History, [Next]_vars PROVE History'
  OBVIOUS
<1> USE DEF History
<1>1. CASE Gate
  BY Appended, <1>1 DEF Gate, FailLaunch, Capture, Journal
<1>2. CASE Prepare
  BY <1>2 DEF Prepare
<1>3. CASE Create
  BY Appended, <1>3 DEF Create, FailLaunch, Capture, Journal
<1>4. CASE Launch
  BY <1>4 DEF Launch
<1>5. CASE Poll
  BY <1>5 DEF Poll, Kill
<1>6. CASE PollBreaks
  BY <1>6 DEF PollBreaks, EndPass
<1>7. CASE NativeHeld
  BY <1>7 DEF NativeHeld
<1>8. CASE LoopHeld
  BY <1>8 DEF LoopHeld
<1>9. CASE LoopStops
  BY <1>9 DEF LoopStops, EndPass, Looping
<1>10. CASE Settle
  BY <1>10 DEF Settle, Verdict, AfterPass
<1>11. CASE Retry
  BY <1>11 DEF Retry
<1>12. CASE CapDiff
  BY Appended, <1>12 DEF CapDiff, Drop, Review, Capture, Journal
<1>13. CASE Diff
  BY Appended, <1>13 DEF Diff, Drop, Review, Capture, Journal
<1>14. CASE Discard
  BY Appended, <1>14 DEF Discard, Clean, Capture, Journal
<1>15. CASE Mismatch
  BY <1>15 DEF Mismatch, EndPass
<1>16. CASE Evaluate
  BY <1>16 DEF Evaluate
<1>17. CASE Spawned
  BY <1>17 DEF Spawned
<1>18. CASE Rejected
  BY <1>18 DEF Rejected, EndPass
<1>19. CASE ProcessEnds
  <2>1. PICK code \in {0, 1} : Exit(code)
    BY <1>19 DEF ProcessEnds
  <2> QED
    BY <2>1 DEF Exit, DoneEvent, EndPass
<1>20. CASE Hang
  BY <1>20 DEF Hang, Working
<1>21. CASE LoopStep
  BY <1>21 DEF LoopStep, Looping
<1>22. CASE Blip
  BY <1>22 DEF Blip, Looping
<1>23. CASE LoopPauses
  BY <1>23 DEF LoopPauses, Looping
<1>24. CASE LoopDone
  BY <1>24 DEF LoopDone, Looping, EmitMetrics, EndPass, Capture, Journal
<1>25. CASE LoopFails
  BY <1>25 DEF LoopFails, Looping, EmitMetrics, LoopOverBudget, EndPass, Capture, Journal
<1>26. CASE LoopRefused
  BY <1>26 DEF LoopRefused, Looping, EmitMetrics, EndPass, Capture, Journal
<1>27. CASE StopMission
  BY <1>27 DEF StopMission, Kill
<1>28. CASE StopDiscards
  BY <1>28 DEF StopDiscards
<1>29. CASE PauseMission
  BY <1>29 DEF PauseMission
<1>30. CASE ResumeMission
  BY <1>30 DEF ResumeMission
<1>31. CASE Timer
  BY <1>31 DEF Timer, Kill
<1>32. CASE Silence
  BY <1>32 DEF Silence, Kill
<1>33. CASE UNCHANGED vars
  BY <1>33
<1> QED
  BY <1>1, <1>2, <1>3, <1>4, <1>5, <1>6, <1>7, <1>8, <1>9, <1>10, <1>11, <1>12, <1>13, <1>14, <1>15, <1>16, <1>17, <1>18, <1>19, <1>20, <1>21, <1>22, <1>23, <1>24, <1>25, <1>26, <1>27, <1>28, <1>29, <1>30, <1>31, <1>32, <1>33 DEF Next, RunStep

\* Every step keeps the count of the strikes.
LEMMA StrikesNext == Strikes /\ [Next]_vars => Strikes'
<1> SUFFICES ASSUME Strikes, [Next]_vars PROVE Strikes'
  OBVIOUS
<1> USE DEF Strikes
<1>1. CASE Gate
  BY <1>1 DEF Gate, FailLaunch
<1>2. CASE Prepare
  BY <1>2 DEF Prepare
<1>3. CASE Create
  BY <1>3 DEF Create, FailLaunch
<1>4. CASE Launch
  BY <1>4 DEF Launch
<1>5. CASE Poll
  BY <1>5 DEF Poll, Kill
<1>6. CASE PollBreaks
  BY <1>6 DEF PollBreaks, EndPass
<1>7. CASE NativeHeld
  BY <1>7 DEF NativeHeld
<1>8. CASE LoopHeld
  BY <1>8 DEF LoopHeld
<1>9. CASE LoopStops
  BY <1>9 DEF LoopStops, EndPass, Looping
<1>10. CASE Settle
  BY <1>10 DEF Settle, Verdict, AfterPass
<1>11. CASE Retry
  BY <1>11 DEF Retry
<1>12. CASE CapDiff
  BY <1>12 DEF CapDiff, Drop, Review
<1>13. CASE Diff
  BY <1>13 DEF Diff, Drop, Review
<1>14. CASE Discard
  BY <1>14 DEF Discard, Clean
<1>15. CASE Mismatch
  BY <1>15 DEF Mismatch, EndPass
<1>16. CASE Evaluate
  BY <1>16 DEF Evaluate
<1>17. CASE Spawned
  BY <1>17 DEF Spawned
<1>18. CASE Rejected
  BY <1>18 DEF Rejected, EndPass
<1>19. CASE ProcessEnds
  <2>1. PICK code \in {0, 1} : Exit(code)
    BY <1>19 DEF ProcessEnds
  <2> QED
    BY <2>1 DEF Exit, DoneEvent, EndPass
<1>20. CASE Hang
  BY <1>20 DEF Hang, Working
<1>21. CASE LoopStep
  BY <1>21 DEF LoopStep, Looping
<1>22. CASE Blip
  BY <1>22 DEF Blip, Looping
<1>23. CASE LoopPauses
  BY <1>23 DEF LoopPauses, Looping
<1>24. CASE LoopDone
  BY <1>24 DEF LoopDone, Looping, EmitMetrics, EndPass
<1>25. CASE LoopFails
  BY <1>25 DEF LoopFails, Looping, EmitMetrics, LoopOverBudget, EndPass
<1>26. CASE LoopRefused
  BY <1>26 DEF LoopRefused, Looping, EmitMetrics, EndPass
<1>27. CASE StopMission
  BY <1>27 DEF StopMission, Kill
<1>28. CASE StopDiscards
  BY <1>28 DEF StopDiscards
<1>29. CASE PauseMission
  BY <1>29 DEF PauseMission
<1>30. CASE ResumeMission
  BY <1>30 DEF ResumeMission
<1>31. CASE Timer
  BY <1>31 DEF Timer, Kill
<1>32. CASE Silence
  BY <1>32 DEF Silence, Kill
<1>33. CASE UNCHANGED vars
  BY <1>33
<1> QED
  BY <1>1, <1>2, <1>3, <1>4, <1>5, <1>6, <1>7, <1>8, <1>9, <1>10, <1>11, <1>12, <1>13, <1>14, <1>15, <1>16, <1>17, <1>18, <1>19, <1>20, <1>21, <1>22, <1>23, <1>24, <1>25, <1>26, <1>27, <1>28, <1>29, <1>30, <1>31, <1>32, <1>33 DEF Next, RunStep

\* The state of a run is well-formed at every moment (TypeOK of the Mission run).
THEOREM TypeCorrect == Spec => []TypeOK
<1>1. Init => Flags
  BY Zenon DEF Init, Flags
<1>2. Init => Fields /\ Places
  BY DEF Init, Fields, Places
<1>3. Init => Pauses /\ History /\ Strikes
  BY RailAssumption DEF Init, Pauses, History, Strikes
<1>4. Flags /\ Fields /\ Places /\ Pauses /\ History /\ Strikes => TypeOK
  BY DEF Flags, Fields, Places, Pauses, History, Strikes, TypeOK
<1> QED
  BY <1>1, <1>2, <1>3, <1>4, FlagsNext, FieldsNext, PlacesNext,
     PausesNext, HistoryNext, StrikesNext, PTL DEF Spec

-----------------------------------------------------------------------------
(* The worktree and the outcome.                                           *)

LEMMA FirstOutcome == \A v : Append(<<>>, v) = <<v>>
OBVIOUS

\* Before the first pass there is nothing yet to throw away.
LaunchInv == pc \in Early => tree = "none" /\ proc = "none" /\ ~retried /\ ~job /\ ~failed

\* Nobody has asked for the worktree to go away: it stays up to the end of the run.
TreeInv ==
  /\ stop = "no" /\ (pc \notin Early \cup {"over"} \/ status = "review") => tree = "there"
  /\ stop = "no" => pc # "stopClean"

JobInv == job => stop # "no"

\* The one outcome is recorded with the status, which nothing changes after it.
EndInv ==
  /\ pc \notin {"tail", "over"} => outcomes = <<>> /\ status # "review"
  /\ pc = "tail" => status = "review" /\ outcomes = <<"review">>
  /\ pc = "over" => status \in {"review", "failed", "cancelled"} /\ outcomes = <<status>>

\* An early stop is still ahead of the settlement that will look at it, or past it.
StopInv ==
  stop = "early" =>
    \/ pc \in Early \/ pc = "stopClean"
    \/ pc \in Armed \ {"delay"} /\ ~retried
    \/ pc = "over" /\ status # "review"

RunInv == LaunchInv /\ TreeInv /\ JobInv /\ EndInv /\ StopInv /\ NoWorktreeLeak

\* Every step keeps LaunchInv.
LEMMA LaunchNext == TypeOK /\ RunInv /\ [Next]_vars => LaunchInv'
<1> SUFFICES ASSUME TypeOK /\ RunInv, [Next]_vars PROVE LaunchInv'
  OBVIOUS
<1> USE DEF TypeOK, RunInv, LaunchInv, TreeInv, JobInv, EndInv, StopInv, NoWorktreeLeak
<1>1. CASE Gate
  BY <1>1 DEF Gate, FailLaunch
<1>2. CASE Prepare
  BY <1>2 DEF Prepare
<1>3. CASE Create
  BY <1>3 DEF Create, FailLaunch
<1>4. CASE Launch
  BY <1>4 DEF Launch
<1>5. CASE Poll
  BY <1>5 DEF Poll, Kill
<1>6. CASE PollBreaks
  BY <1>6 DEF PollBreaks, EndPass
<1>7. CASE NativeHeld
  BY <1>7 DEF NativeHeld
<1>8. CASE LoopHeld
  BY <1>8 DEF LoopHeld
<1>9. CASE LoopStops
  BY <1>9 DEF LoopStops, EndPass, Looping
<1>10. CASE Settle
  BY <1>10 DEF Settle, Verdict, AfterPass
<1>11. CASE Retry
  BY <1>11 DEF Retry
<1>12. CASE CapDiff
  BY <1>12 DEF CapDiff, Drop, Review
<1>13. CASE Diff
  BY <1>13 DEF Diff, Drop, Review
<1>14. CASE Discard
  BY <1>14 DEF Discard, Clean
<1>15. CASE Mismatch
  BY <1>15 DEF Mismatch, EndPass
<1>16. CASE Evaluate
  BY <1>16 DEF Evaluate
<1>17. CASE Spawned
  BY <1>17 DEF Spawned
<1>18. CASE Rejected
  BY <1>18 DEF Rejected, EndPass
<1>19. CASE ProcessEnds
  <2>1. PICK code \in {0, 1} : Exit(code)
    BY <1>19 DEF ProcessEnds
  <2> QED
    BY <2>1 DEF Exit, DoneEvent, EndPass
<1>20. CASE Hang
  BY <1>20 DEF Hang, Working
<1>21. CASE LoopStep
  BY <1>21 DEF LoopStep, Looping
<1>22. CASE Blip
  BY <1>22 DEF Blip, Looping
<1>23. CASE LoopPauses
  BY <1>23 DEF LoopPauses, Looping
<1>24. CASE LoopDone
  BY <1>24 DEF LoopDone, Looping, EmitMetrics, EndPass
<1>25. CASE LoopFails
  BY <1>25 DEF LoopFails, Looping, EmitMetrics, LoopOverBudget, EndPass
<1>26. CASE LoopRefused
  BY <1>26 DEF LoopRefused, Looping, EmitMetrics, EndPass
<1>27. CASE StopMission
  BY <1>27 DEF StopMission, Kill
<1>28. CASE StopDiscards
  BY <1>28 DEF StopDiscards
<1>29. CASE PauseMission
  BY <1>29 DEF PauseMission
<1>30. CASE ResumeMission
  BY <1>30 DEF ResumeMission
<1>31. CASE Timer
  BY <1>31 DEF Timer, Kill
<1>32. CASE Silence
  BY <1>32 DEF Silence, Kill
<1>33. CASE UNCHANGED vars
  BY <1>33
<1> QED
  BY <1>1, <1>2, <1>3, <1>4, <1>5, <1>6, <1>7, <1>8, <1>9, <1>10, <1>11, <1>12, <1>13, <1>14, <1>15, <1>16, <1>17, <1>18, <1>19, <1>20, <1>21, <1>22, <1>23, <1>24, <1>25, <1>26, <1>27, <1>28, <1>29, <1>30, <1>31, <1>32, <1>33 DEF Next, RunStep

\* Every step keeps TreeInv.
LEMMA TreeNext == TypeOK /\ RunInv /\ [Next]_vars => TreeInv'
<1> SUFFICES ASSUME TypeOK /\ RunInv, [Next]_vars PROVE TreeInv'
  OBVIOUS
<1> USE DEF TypeOK, RunInv, LaunchInv, TreeInv, JobInv, EndInv, StopInv, NoWorktreeLeak
<1>1. CASE Gate
  BY FirstOutcome, <1>1 DEF Gate, FailLaunch, Capture, Journal
<1>2. CASE Prepare
  BY <1>2 DEF Prepare
<1>3. CASE Create
  BY FirstOutcome, <1>3 DEF Create, FailLaunch, Capture, Journal
<1>4. CASE Launch
  BY <1>4 DEF Launch
<1>5. CASE Poll
  BY <1>5 DEF Poll, Kill
<1>6. CASE PollBreaks
  BY <1>6 DEF PollBreaks, EndPass
<1>7. CASE NativeHeld
  BY <1>7 DEF NativeHeld
<1>8. CASE LoopHeld
  BY <1>8 DEF LoopHeld
<1>9. CASE LoopStops
  BY <1>9 DEF LoopStops, EndPass, Looping
<1>10. CASE Settle
  BY <1>10 DEF Settle, Verdict, AfterPass
<1>11. CASE Retry
  BY <1>11 DEF Retry
<1>12. CASE CapDiff
  BY FirstOutcome, <1>12 DEF CapDiff, Drop, Review, Capture, Journal
<1>13. CASE Diff
  BY FirstOutcome, <1>13 DEF Diff, Drop, Review, Capture, Journal
<1>14. CASE Discard
  BY FirstOutcome, <1>14 DEF Discard, Clean, Capture, Journal
<1>15. CASE Mismatch
  BY <1>15 DEF Mismatch, EndPass
<1>16. CASE Evaluate
  BY <1>16 DEF Evaluate
<1>17. CASE Spawned
  BY <1>17 DEF Spawned
<1>18. CASE Rejected
  BY <1>18 DEF Rejected, EndPass
<1>19. CASE ProcessEnds
  <2>1. PICK code \in {0, 1} : Exit(code)
    BY <1>19 DEF ProcessEnds
  <2> QED
    BY <2>1 DEF Exit, DoneEvent, EndPass
<1>20. CASE Hang
  BY <1>20 DEF Hang, Working
<1>21. CASE LoopStep
  BY <1>21 DEF LoopStep, Looping
<1>22. CASE Blip
  BY <1>22 DEF Blip, Looping
<1>23. CASE LoopPauses
  BY <1>23 DEF LoopPauses, Looping
<1>24. CASE LoopDone
  BY <1>24 DEF LoopDone, Looping, EmitMetrics, EndPass, Capture, Journal
<1>25. CASE LoopFails
  BY <1>25 DEF LoopFails, Looping, EmitMetrics, LoopOverBudget, EndPass, Capture, Journal
<1>26. CASE LoopRefused
  BY <1>26 DEF LoopRefused, Looping, EmitMetrics, EndPass, Capture, Journal
<1>27. CASE StopMission
  BY <1>27 DEF StopMission, Kill
<1>28. CASE StopDiscards
  BY <1>28 DEF StopDiscards
<1>29. CASE PauseMission
  BY <1>29 DEF PauseMission
<1>30. CASE ResumeMission
  BY <1>30 DEF ResumeMission
<1>31. CASE Timer
  BY <1>31 DEF Timer, Kill
<1>32. CASE Silence
  BY <1>32 DEF Silence, Kill
<1>33. CASE UNCHANGED vars
  BY <1>33
<1> QED
  BY <1>1, <1>2, <1>3, <1>4, <1>5, <1>6, <1>7, <1>8, <1>9, <1>10, <1>11, <1>12, <1>13, <1>14, <1>15, <1>16, <1>17, <1>18, <1>19, <1>20, <1>21, <1>22, <1>23, <1>24, <1>25, <1>26, <1>27, <1>28, <1>29, <1>30, <1>31, <1>32, <1>33 DEF Next, RunStep

\* Every step keeps JobInv.
LEMMA JobNext == TypeOK /\ RunInv /\ [Next]_vars => JobInv'
<1> SUFFICES ASSUME TypeOK /\ RunInv, [Next]_vars PROVE JobInv'
  OBVIOUS
<1> USE DEF TypeOK, RunInv, LaunchInv, TreeInv, JobInv, EndInv, StopInv, NoWorktreeLeak
<1>1. CASE Gate
  BY <1>1 DEF Gate, FailLaunch
<1>2. CASE Prepare
  BY <1>2 DEF Prepare
<1>3. CASE Create
  BY <1>3 DEF Create, FailLaunch
<1>4. CASE Launch
  BY <1>4 DEF Launch
<1>5. CASE Poll
  BY <1>5 DEF Poll, Kill
<1>6. CASE PollBreaks
  BY <1>6 DEF PollBreaks, EndPass
<1>7. CASE NativeHeld
  BY <1>7 DEF NativeHeld
<1>8. CASE LoopHeld
  BY <1>8 DEF LoopHeld
<1>9. CASE LoopStops
  BY <1>9 DEF LoopStops, EndPass, Looping
<1>10. CASE Settle
  BY <1>10 DEF Settle, Verdict, AfterPass
<1>11. CASE Retry
  BY <1>11 DEF Retry
<1>12. CASE CapDiff
  BY <1>12 DEF CapDiff, Drop, Review
<1>13. CASE Diff
  BY <1>13 DEF Diff, Drop, Review
<1>14. CASE Discard
  BY <1>14 DEF Discard, Clean
<1>15. CASE Mismatch
  BY <1>15 DEF Mismatch, EndPass
<1>16. CASE Evaluate
  BY <1>16 DEF Evaluate
<1>17. CASE Spawned
  BY <1>17 DEF Spawned
<1>18. CASE Rejected
  BY <1>18 DEF Rejected, EndPass
<1>19. CASE ProcessEnds
  <2>1. PICK code \in {0, 1} : Exit(code)
    BY <1>19 DEF ProcessEnds
  <2> QED
    BY <2>1 DEF Exit, DoneEvent, EndPass
<1>20. CASE Hang
  BY <1>20 DEF Hang, Working
<1>21. CASE LoopStep
  BY <1>21 DEF LoopStep, Looping
<1>22. CASE Blip
  BY <1>22 DEF Blip, Looping
<1>23. CASE LoopPauses
  BY <1>23 DEF LoopPauses, Looping
<1>24. CASE LoopDone
  BY <1>24 DEF LoopDone, Looping, EmitMetrics, EndPass
<1>25. CASE LoopFails
  BY <1>25 DEF LoopFails, Looping, EmitMetrics, LoopOverBudget, EndPass
<1>26. CASE LoopRefused
  BY <1>26 DEF LoopRefused, Looping, EmitMetrics, EndPass
<1>27. CASE StopMission
  BY <1>27 DEF StopMission, Kill
<1>28. CASE StopDiscards
  BY <1>28 DEF StopDiscards
<1>29. CASE PauseMission
  BY <1>29 DEF PauseMission
<1>30. CASE ResumeMission
  BY <1>30 DEF ResumeMission
<1>31. CASE Timer
  BY <1>31 DEF Timer, Kill
<1>32. CASE Silence
  BY <1>32 DEF Silence, Kill
<1>33. CASE UNCHANGED vars
  BY <1>33
<1> QED
  BY <1>1, <1>2, <1>3, <1>4, <1>5, <1>6, <1>7, <1>8, <1>9, <1>10, <1>11, <1>12, <1>13, <1>14, <1>15, <1>16, <1>17, <1>18, <1>19, <1>20, <1>21, <1>22, <1>23, <1>24, <1>25, <1>26, <1>27, <1>28, <1>29, <1>30, <1>31, <1>32, <1>33 DEF Next, RunStep

\* Every step keeps EndInv.
LEMMA EndNext == TypeOK /\ RunInv /\ [Next]_vars => EndInv'
<1> SUFFICES ASSUME TypeOK /\ RunInv, [Next]_vars PROVE EndInv'
  OBVIOUS
<1> USE DEF TypeOK, RunInv, LaunchInv, TreeInv, JobInv, EndInv, StopInv, NoWorktreeLeak
<1>1. CASE Gate
  BY FirstOutcome, <1>1 DEF Gate, FailLaunch, Capture, Journal
<1>2. CASE Prepare
  BY <1>2 DEF Prepare
<1>3. CASE Create
  BY FirstOutcome, <1>3 DEF Create, FailLaunch, Capture, Journal
<1>4. CASE Launch
  BY <1>4 DEF Launch
<1>5. CASE Poll
  BY <1>5 DEF Poll, Kill
<1>6. CASE PollBreaks
  BY <1>6 DEF PollBreaks, EndPass
<1>7. CASE NativeHeld
  BY <1>7 DEF NativeHeld
<1>8. CASE LoopHeld
  BY <1>8 DEF LoopHeld
<1>9. CASE LoopStops
  BY <1>9 DEF LoopStops, EndPass, Looping
<1>10. CASE Settle
  BY <1>10 DEF Settle, Verdict, AfterPass
<1>11. CASE Retry
  BY <1>11 DEF Retry
<1>12. CASE CapDiff
  BY FirstOutcome, <1>12 DEF CapDiff, Drop, Review, Capture, Journal
<1>13. CASE Diff
  BY FirstOutcome, <1>13 DEF Diff, Drop, Review, Capture, Journal
<1>14. CASE Discard
  BY FirstOutcome, <1>14 DEF Discard, Clean, Capture, Journal
<1>15. CASE Mismatch
  BY <1>15 DEF Mismatch, EndPass
<1>16. CASE Evaluate
  BY <1>16 DEF Evaluate
<1>17. CASE Spawned
  BY <1>17 DEF Spawned
<1>18. CASE Rejected
  BY <1>18 DEF Rejected, EndPass
<1>19. CASE ProcessEnds
  <2>1. PICK code \in {0, 1} : Exit(code)
    BY <1>19 DEF ProcessEnds
  <2> QED
    BY <2>1 DEF Exit, DoneEvent, EndPass
<1>20. CASE Hang
  BY <1>20 DEF Hang, Working
<1>21. CASE LoopStep
  BY <1>21 DEF LoopStep, Looping
<1>22. CASE Blip
  BY <1>22 DEF Blip, Looping
<1>23. CASE LoopPauses
  BY <1>23 DEF LoopPauses, Looping
<1>24. CASE LoopDone
  BY <1>24 DEF LoopDone, Looping, EmitMetrics, EndPass, Capture, Journal
<1>25. CASE LoopFails
  BY <1>25 DEF LoopFails, Looping, EmitMetrics, LoopOverBudget, EndPass, Capture, Journal
<1>26. CASE LoopRefused
  BY <1>26 DEF LoopRefused, Looping, EmitMetrics, EndPass, Capture, Journal
<1>27. CASE StopMission
  BY <1>27 DEF StopMission, Kill
<1>28. CASE StopDiscards
  BY <1>28 DEF StopDiscards
<1>29. CASE PauseMission
  BY <1>29 DEF PauseMission
<1>30. CASE ResumeMission
  BY <1>30 DEF ResumeMission
<1>31. CASE Timer
  BY <1>31 DEF Timer, Kill
<1>32. CASE Silence
  BY <1>32 DEF Silence, Kill
<1>33. CASE UNCHANGED vars
  BY <1>33
<1> QED
  BY <1>1, <1>2, <1>3, <1>4, <1>5, <1>6, <1>7, <1>8, <1>9, <1>10, <1>11, <1>12, <1>13, <1>14, <1>15, <1>16, <1>17, <1>18, <1>19, <1>20, <1>21, <1>22, <1>23, <1>24, <1>25, <1>26, <1>27, <1>28, <1>29, <1>30, <1>31, <1>32, <1>33 DEF Next, RunStep

\* Every step keeps StopInv.
LEMMA StopNext == TypeOK /\ RunInv /\ [Next]_vars => StopInv'
<1> SUFFICES ASSUME TypeOK /\ RunInv, [Next]_vars PROVE StopInv'
  OBVIOUS
<1> USE DEF TypeOK, RunInv, LaunchInv, TreeInv, JobInv, EndInv, StopInv, NoWorktreeLeak
<1>1. CASE Gate
  BY <1>1 DEF Gate, FailLaunch
<1>2. CASE Prepare
  BY <1>2 DEF Prepare
<1>3. CASE Create
  BY <1>3 DEF Create, FailLaunch
<1>4. CASE Launch
  BY <1>4 DEF Launch
<1>5. CASE Poll
  BY <1>5 DEF Poll, Kill
<1>6. CASE PollBreaks
  BY <1>6 DEF PollBreaks, EndPass
<1>7. CASE NativeHeld
  BY <1>7 DEF NativeHeld
<1>8. CASE LoopHeld
  BY <1>8 DEF LoopHeld
<1>9. CASE LoopStops
  BY <1>9 DEF LoopStops, EndPass, Looping
<1>10. CASE Settle
  BY <1>10 DEF Settle, Verdict, AfterPass
<1>11. CASE Retry
  BY <1>11 DEF Retry
<1>12. CASE CapDiff
  BY <1>12 DEF CapDiff, Drop, Review
<1>13. CASE Diff
  BY <1>13 DEF Diff, Drop, Review
<1>14. CASE Discard
  BY <1>14 DEF Discard, Clean
<1>15. CASE Mismatch
  BY <1>15 DEF Mismatch, EndPass
<1>16. CASE Evaluate
  BY <1>16 DEF Evaluate
<1>17. CASE Spawned
  BY <1>17 DEF Spawned
<1>18. CASE Rejected
  BY <1>18 DEF Rejected, EndPass
<1>19. CASE ProcessEnds
  <2>1. PICK code \in {0, 1} : Exit(code)
    BY <1>19 DEF ProcessEnds
  <2> QED
    BY <2>1 DEF Exit, DoneEvent, EndPass
<1>20. CASE Hang
  BY <1>20 DEF Hang, Working
<1>21. CASE LoopStep
  BY <1>21 DEF LoopStep, Looping
<1>22. CASE Blip
  BY <1>22 DEF Blip, Looping
<1>23. CASE LoopPauses
  BY <1>23 DEF LoopPauses, Looping
<1>24. CASE LoopDone
  BY <1>24 DEF LoopDone, Looping, EmitMetrics, EndPass
<1>25. CASE LoopFails
  BY <1>25 DEF LoopFails, Looping, EmitMetrics, LoopOverBudget, EndPass
<1>26. CASE LoopRefused
  BY <1>26 DEF LoopRefused, Looping, EmitMetrics, EndPass
<1>27. CASE StopMission
  BY <1>27 DEF StopMission, Kill
<1>28. CASE StopDiscards
  BY <1>28 DEF StopDiscards
<1>29. CASE PauseMission
  BY <1>29 DEF PauseMission
<1>30. CASE ResumeMission
  BY <1>30 DEF ResumeMission
<1>31. CASE Timer
  BY <1>31 DEF Timer, Kill
<1>32. CASE Silence
  BY <1>32 DEF Silence, Kill
<1>33. CASE UNCHANGED vars
  BY <1>33
<1> QED
  BY <1>1, <1>2, <1>3, <1>4, <1>5, <1>6, <1>7, <1>8, <1>9, <1>10, <1>11, <1>12, <1>13, <1>14, <1>15, <1>16, <1>17, <1>18, <1>19, <1>20, <1>21, <1>22, <1>23, <1>24, <1>25, <1>26, <1>27, <1>28, <1>29, <1>30, <1>31, <1>32, <1>33 DEF Next, RunStep

\* Every step keeps NoWorktreeLeak.
LEMMA LeakNext == TypeOK /\ RunInv /\ [Next]_vars => NoWorktreeLeak'
<1> SUFFICES ASSUME TypeOK /\ RunInv, [Next]_vars PROVE NoWorktreeLeak'
  OBVIOUS
<1> USE DEF TypeOK, RunInv, LaunchInv, TreeInv, JobInv, EndInv, StopInv, NoWorktreeLeak
<1>1. CASE Gate
  BY <1>1 DEF Gate, FailLaunch
<1>2. CASE Prepare
  BY <1>2 DEF Prepare
<1>3. CASE Create
  BY <1>3 DEF Create, FailLaunch
<1>4. CASE Launch
  BY <1>4 DEF Launch
<1>5. CASE Poll
  BY <1>5 DEF Poll, Kill
<1>6. CASE PollBreaks
  BY <1>6 DEF PollBreaks, EndPass
<1>7. CASE NativeHeld
  BY <1>7 DEF NativeHeld
<1>8. CASE LoopHeld
  BY <1>8 DEF LoopHeld
<1>9. CASE LoopStops
  BY <1>9 DEF LoopStops, EndPass, Looping
<1>10. CASE Settle
  BY <1>10 DEF Settle, Verdict, AfterPass
<1>11. CASE Retry
  BY <1>11 DEF Retry
<1>12. CASE CapDiff
  BY <1>12 DEF CapDiff, Drop, Review
<1>13. CASE Diff
  BY <1>13 DEF Diff, Drop, Review
<1>14. CASE Discard
  BY <1>14 DEF Discard, Clean
<1>15. CASE Mismatch
  BY <1>15 DEF Mismatch, EndPass
<1>16. CASE Evaluate
  BY <1>16 DEF Evaluate
<1>17. CASE Spawned
  BY <1>17 DEF Spawned
<1>18. CASE Rejected
  BY <1>18 DEF Rejected, EndPass
<1>19. CASE ProcessEnds
  <2>1. PICK code \in {0, 1} : Exit(code)
    BY <1>19 DEF ProcessEnds
  <2> QED
    BY <2>1 DEF Exit, DoneEvent, EndPass
<1>20. CASE Hang
  BY <1>20 DEF Hang, Working
<1>21. CASE LoopStep
  BY <1>21 DEF LoopStep, Looping
<1>22. CASE Blip
  BY <1>22 DEF Blip, Looping
<1>23. CASE LoopPauses
  BY <1>23 DEF LoopPauses, Looping
<1>24. CASE LoopDone
  BY <1>24 DEF LoopDone, Looping, EmitMetrics, EndPass
<1>25. CASE LoopFails
  BY <1>25 DEF LoopFails, Looping, EmitMetrics, LoopOverBudget, EndPass
<1>26. CASE LoopRefused
  BY <1>26 DEF LoopRefused, Looping, EmitMetrics, EndPass
<1>27. CASE StopMission
  BY <1>27 DEF StopMission, Kill
<1>28. CASE StopDiscards
  BY <1>28 DEF StopDiscards
<1>29. CASE PauseMission
  BY <1>29 DEF PauseMission
<1>30. CASE ResumeMission
  BY <1>30 DEF ResumeMission
<1>31. CASE Timer
  BY <1>31 DEF Timer, Kill
<1>32. CASE Silence
  BY <1>32 DEF Silence, Kill
<1>33. CASE UNCHANGED vars
  BY <1>33
<1> QED
  BY <1>1, <1>2, <1>3, <1>4, <1>5, <1>6, <1>7, <1>8, <1>9, <1>10, <1>11, <1>12, <1>13, <1>14, <1>15, <1>16, <1>17, <1>18, <1>19, <1>20, <1>21, <1>22, <1>23, <1>24, <1>25, <1>26, <1>27, <1>28, <1>29, <1>30, <1>31, <1>32, <1>33 DEF Next, RunStep


LEMMA RunInvHolds == Spec => []RunInv
<1>1. Init => RunInv
  BY DEF Init, RunInv, LaunchInv, TreeInv, JobInv, EndInv, StopInv, NoWorktreeLeak
<1>2. TypeOK /\ RunInv /\ [Next]_vars => RunInv'
  BY LaunchNext, TreeNext, JobNext, EndNext, StopNext, LeakNext DEF RunInv
<1> QED
  BY <1>1, <1>2, TypeCorrect, PTL DEF Spec

\* A mission in review has its worktree (ReviewKeepsWorktree).
THEOREM ReviewHasWork == Spec => []ReviewKeepsWorktree
<1>1. RunInv => ReviewKeepsWorktree
  BY DEF RunInv, TreeInv, ReviewKeepsWorktree
<1> QED
  BY <1>1, RunInvHolds, PTL

\* A run that ends without a review has discarded its worktree (NoWorktreeLeak).
THEOREM NothingLeaks == Spec => []NoWorktreeLeak
<1>1. RunInv => NoWorktreeLeak
  BY DEF RunInv
<1> QED
  BY <1>1, RunInvHolds, PTL

\* A stop before the first settlement never ends in review (EarlyStopHonoured).
THEOREM StopsInTime == Spec => []EarlyStopHonoured
<1>1. TypeOK /\ RunInv => EarlyStopHonoured
  BY DEF TypeOK, RunInv, StopInv, EndInv, EarlyStopHonoured
<1> QED
  BY <1>1, RunInvHolds, TypeCorrect, PTL

\* A run records one outcome, the status that it ends with (OutcomeTrue).
THEOREM OneOutcome == Spec => []OutcomeTrue
<1>1. TypeOK /\ RunInv => OutcomeTrue
  <2> SUFFICES ASSUME TypeOK, RunInv PROVE OutcomeTrue
    OBVIOUS
  <2>1. outcomes = <<>> \/ outcomes = <<"review">> \/ outcomes = <<status>>
    BY DEF RunInv, EndInv
  <2>2. Len(<<>>) <= 1 /\ \A v : Len(<<v>>) <= 1
    OBVIOUS
  <2>3. Len(outcomes) <= 1
    BY <2>1, <2>2
  <2> QED
    BY <2>3 DEF RunInv, EndInv, OutcomeTrue
<1> QED
  BY <1>1, RunInvHolds, TypeCorrect, PTL

-----------------------------------------------------------------------------
(* The process.                                                            *)

NoProcess == rail # "native" => proc = "none"

\* No agent of an earlier pass is left where the next one is about to start.
Quiet == pc \in {"brief", "held", "delay"} => proc = "none"

\* A one-shot pass fails only by its end, so a failure means that it has ended.
FailureEnds ==
  /\ rail = "native" /\ pc \in {"pass", "brief", "held"} /\ ~retried => ~failed
  /\ rail = "native" /\ pc = "settle" /\ ~retried /\ failed => proc = "none"

\* Only a pass that was cut off leaves a process behind.
CutOff == pc # "pass" /\ killed = "no" => proc = "none"

ProcInv == NoProcess /\ Quiet /\ FailureEnds /\ CutOff

\* Every step keeps NoProcess.
LEMMA NoProcessNext == TypeOK /\ RunInv /\ ProcInv /\ [Next]_vars => NoProcess'
<1> SUFFICES ASSUME TypeOK /\ RunInv /\ ProcInv, [Next]_vars PROVE NoProcess'
  OBVIOUS
<1> USE DEF TypeOK, RunInv, LaunchInv, ProcInv, NoProcess, Quiet, FailureEnds, CutOff
<1>1. CASE Gate
  BY <1>1 DEF Gate, FailLaunch
<1>2. CASE Prepare
  BY <1>2 DEF Prepare
<1>3. CASE Create
  BY <1>3 DEF Create, FailLaunch
<1>4. CASE Launch
  BY <1>4 DEF Launch
<1>5. CASE Poll
  BY <1>5 DEF Poll, Kill
<1>6. CASE PollBreaks
  BY <1>6 DEF PollBreaks, EndPass
<1>7. CASE NativeHeld
  BY <1>7 DEF NativeHeld
<1>8. CASE LoopHeld
  BY <1>8 DEF LoopHeld
<1>9. CASE LoopStops
  BY <1>9 DEF LoopStops, EndPass, Looping
<1>10. CASE Settle
  BY <1>10 DEF Settle, Verdict, AfterPass
<1>11. CASE Retry
  BY <1>11 DEF Retry
<1>12. CASE CapDiff
  BY <1>12 DEF CapDiff, Drop, Review
<1>13. CASE Diff
  BY <1>13 DEF Diff, Drop, Review
<1>14. CASE Discard
  BY <1>14 DEF Discard, Clean
<1>15. CASE Mismatch
  BY <1>15 DEF Mismatch, EndPass
<1>16. CASE Evaluate
  BY <1>16 DEF Evaluate
<1>17. CASE Spawned
  BY <1>17 DEF Spawned
<1>18. CASE Rejected
  BY <1>18 DEF Rejected, EndPass
<1>19. CASE ProcessEnds
  <2>1. PICK code \in {0, 1} : Exit(code)
    BY <1>19 DEF ProcessEnds
  <2> QED
    BY <2>1 DEF Exit, DoneEvent, EndPass
<1>20. CASE Hang
  BY <1>20 DEF Hang, Working
<1>21. CASE LoopStep
  BY <1>21 DEF LoopStep, Looping
<1>22. CASE Blip
  BY <1>22 DEF Blip, Looping
<1>23. CASE LoopPauses
  BY <1>23 DEF LoopPauses, Looping
<1>24. CASE LoopDone
  BY <1>24 DEF LoopDone, Looping, EmitMetrics, EndPass
<1>25. CASE LoopFails
  BY <1>25 DEF LoopFails, Looping, EmitMetrics, LoopOverBudget, EndPass
<1>26. CASE LoopRefused
  BY <1>26 DEF LoopRefused, Looping, EmitMetrics, EndPass
<1>27. CASE StopMission
  BY <1>27 DEF StopMission, Kill
<1>28. CASE StopDiscards
  BY <1>28 DEF StopDiscards
<1>29. CASE PauseMission
  BY <1>29 DEF PauseMission
<1>30. CASE ResumeMission
  BY <1>30 DEF ResumeMission
<1>31. CASE Timer
  BY <1>31 DEF Timer, Kill
<1>32. CASE Silence
  BY <1>32 DEF Silence, Kill
<1>33. CASE UNCHANGED vars
  BY <1>33
<1> QED
  BY <1>1, <1>2, <1>3, <1>4, <1>5, <1>6, <1>7, <1>8, <1>9, <1>10, <1>11, <1>12, <1>13, <1>14, <1>15, <1>16, <1>17, <1>18, <1>19, <1>20, <1>21, <1>22, <1>23, <1>24, <1>25, <1>26, <1>27, <1>28, <1>29, <1>30, <1>31, <1>32, <1>33 DEF Next, RunStep

\* Every step keeps Quiet.
LEMMA QuietNext == TypeOK /\ RunInv /\ ProcInv /\ [Next]_vars => Quiet'
<1> SUFFICES ASSUME TypeOK /\ RunInv /\ ProcInv, [Next]_vars PROVE Quiet'
  OBVIOUS
<1> USE DEF TypeOK, RunInv, LaunchInv, ProcInv, NoProcess, Quiet, FailureEnds, CutOff
<1>1. CASE Gate
  BY <1>1 DEF Gate, FailLaunch
<1>2. CASE Prepare
  BY <1>2 DEF Prepare
<1>3. CASE Create
  BY <1>3 DEF Create, FailLaunch
<1>4. CASE Launch
  BY <1>4 DEF Launch
<1>5. CASE Poll
  BY <1>5 DEF Poll, Kill
<1>6. CASE PollBreaks
  BY <1>6 DEF PollBreaks, EndPass
<1>7. CASE NativeHeld
  BY <1>7 DEF NativeHeld
<1>8. CASE LoopHeld
  BY <1>8 DEF LoopHeld
<1>9. CASE LoopStops
  BY <1>9 DEF LoopStops, EndPass, Looping
<1>10. CASE Settle
  BY <1>10 DEF Settle, Verdict, AfterPass
<1>11. CASE Retry
  BY <1>11 DEF Retry
<1>12. CASE CapDiff
  BY <1>12 DEF CapDiff, Drop, Review
<1>13. CASE Diff
  BY <1>13 DEF Diff, Drop, Review
<1>14. CASE Discard
  BY <1>14 DEF Discard, Clean
<1>15. CASE Mismatch
  BY <1>15 DEF Mismatch, EndPass
<1>16. CASE Evaluate
  BY <1>16 DEF Evaluate
<1>17. CASE Spawned
  BY <1>17 DEF Spawned
<1>18. CASE Rejected
  BY <1>18 DEF Rejected, EndPass
<1>19. CASE ProcessEnds
  <2>1. PICK code \in {0, 1} : Exit(code)
    BY <1>19 DEF ProcessEnds
  <2> QED
    BY <2>1 DEF Exit, DoneEvent, EndPass
<1>20. CASE Hang
  BY <1>20 DEF Hang, Working
<1>21. CASE LoopStep
  BY <1>21 DEF LoopStep, Looping
<1>22. CASE Blip
  BY <1>22 DEF Blip, Looping
<1>23. CASE LoopPauses
  BY <1>23 DEF LoopPauses, Looping
<1>24. CASE LoopDone
  BY <1>24 DEF LoopDone, Looping, EmitMetrics, EndPass
<1>25. CASE LoopFails
  BY <1>25 DEF LoopFails, Looping, EmitMetrics, LoopOverBudget, EndPass
<1>26. CASE LoopRefused
  BY <1>26 DEF LoopRefused, Looping, EmitMetrics, EndPass
<1>27. CASE StopMission
  BY <1>27 DEF StopMission, Kill
<1>28. CASE StopDiscards
  BY <1>28 DEF StopDiscards
<1>29. CASE PauseMission
  BY <1>29 DEF PauseMission
<1>30. CASE ResumeMission
  BY <1>30 DEF ResumeMission
<1>31. CASE Timer
  BY <1>31 DEF Timer, Kill
<1>32. CASE Silence
  BY <1>32 DEF Silence, Kill
<1>33. CASE UNCHANGED vars
  BY <1>33
<1> QED
  BY <1>1, <1>2, <1>3, <1>4, <1>5, <1>6, <1>7, <1>8, <1>9, <1>10, <1>11, <1>12, <1>13, <1>14, <1>15, <1>16, <1>17, <1>18, <1>19, <1>20, <1>21, <1>22, <1>23, <1>24, <1>25, <1>26, <1>27, <1>28, <1>29, <1>30, <1>31, <1>32, <1>33 DEF Next, RunStep

\* Every step keeps FailureEnds.
LEMMA FailureNext == TypeOK /\ RunInv /\ ProcInv /\ [Next]_vars => FailureEnds'
<1> SUFFICES ASSUME TypeOK /\ RunInv /\ ProcInv, [Next]_vars PROVE FailureEnds'
  OBVIOUS
<1> USE DEF TypeOK, RunInv, LaunchInv, ProcInv, NoProcess, Quiet, FailureEnds, CutOff
<1>1. CASE Gate
  BY <1>1 DEF Gate, FailLaunch
<1>2. CASE Prepare
  BY <1>2 DEF Prepare
<1>3. CASE Create
  <2>1. pc = "create" /\ ~failed
    BY <1>3 DEF Create
  <2>2. failed' = failed /\ pc' # "settle"
    BY <1>3 DEF Create, FailLaunch
  <2> QED
    BY <2>1, <2>2
<1>4. CASE Launch
  BY <1>4 DEF Launch
<1>5. CASE Poll
  BY <1>5 DEF Poll, Kill
<1>6. CASE PollBreaks
  BY <1>6 DEF PollBreaks, EndPass
<1>7. CASE NativeHeld
  BY <1>7 DEF NativeHeld
<1>8. CASE LoopHeld
  BY <1>8 DEF LoopHeld
<1>9. CASE LoopStops
  BY <1>9 DEF LoopStops, EndPass, Looping
<1>10. CASE Settle
  BY <1>10 DEF Settle, Verdict, AfterPass
<1>11. CASE Retry
  BY <1>11 DEF Retry
<1>12. CASE CapDiff
  BY <1>12 DEF CapDiff, Drop, Review
<1>13. CASE Diff
  BY <1>13 DEF Diff, Drop, Review
<1>14. CASE Discard
  BY <1>14 DEF Discard, Clean
<1>15. CASE Mismatch
  BY <1>15 DEF Mismatch, EndPass
<1>16. CASE Evaluate
  BY <1>16 DEF Evaluate
<1>17. CASE Spawned
  BY <1>17 DEF Spawned
<1>18. CASE Rejected
  BY <1>18 DEF Rejected, EndPass
<1>19. CASE ProcessEnds
  <2>1. PICK code \in {0, 1} : Exit(code)
    BY <1>19 DEF ProcessEnds
  <2> QED
    BY <2>1 DEF Exit, DoneEvent, EndPass
<1>20. CASE Hang
  BY <1>20 DEF Hang, Working
<1>21. CASE LoopStep
  BY <1>21 DEF LoopStep, Looping
<1>22. CASE Blip
  BY <1>22 DEF Blip, Looping
<1>23. CASE LoopPauses
  BY <1>23 DEF LoopPauses, Looping
<1>24. CASE LoopDone
  BY <1>24 DEF LoopDone, Looping, EmitMetrics, EndPass
<1>25. CASE LoopFails
  BY <1>25 DEF LoopFails, Looping, EmitMetrics, LoopOverBudget, EndPass
<1>26. CASE LoopRefused
  BY <1>26 DEF LoopRefused, Looping, EmitMetrics, EndPass
<1>27. CASE StopMission
  BY <1>27 DEF StopMission, Kill
<1>28. CASE StopDiscards
  BY <1>28 DEF StopDiscards
<1>29. CASE PauseMission
  BY <1>29 DEF PauseMission
<1>30. CASE ResumeMission
  BY <1>30 DEF ResumeMission
<1>31. CASE Timer
  BY <1>31 DEF Timer, Kill
<1>32. CASE Silence
  BY <1>32 DEF Silence, Kill
<1>33. CASE UNCHANGED vars
  BY <1>33
<1> QED
  BY <1>1, <1>2, <1>3, <1>4, <1>5, <1>6, <1>7, <1>8, <1>9, <1>10, <1>11, <1>12, <1>13, <1>14, <1>15, <1>16, <1>17, <1>18, <1>19, <1>20, <1>21, <1>22, <1>23, <1>24, <1>25, <1>26, <1>27, <1>28, <1>29, <1>30, <1>31, <1>32, <1>33 DEF Next, RunStep

\* Every step keeps CutOff.
LEMMA CutOffNext == TypeOK /\ RunInv /\ ProcInv /\ [Next]_vars => CutOff'
<1> SUFFICES ASSUME TypeOK /\ RunInv /\ ProcInv, [Next]_vars PROVE CutOff'
  OBVIOUS
<1> USE DEF TypeOK, RunInv, LaunchInv, ProcInv, NoProcess, Quiet, FailureEnds, CutOff
<1>1. CASE Gate
  BY <1>1 DEF Gate, FailLaunch
<1>2. CASE Prepare
  BY <1>2 DEF Prepare
<1>3. CASE Create
  BY <1>3 DEF Create, FailLaunch
<1>4. CASE Launch
  BY <1>4 DEF Launch
<1>5. CASE Poll
  BY <1>5 DEF Poll, Kill
<1>6. CASE PollBreaks
  BY <1>6 DEF PollBreaks, EndPass
<1>7. CASE NativeHeld
  BY <1>7 DEF NativeHeld
<1>8. CASE LoopHeld
  BY <1>8 DEF LoopHeld
<1>9. CASE LoopStops
  BY <1>9 DEF LoopStops, EndPass, Looping
<1>10. CASE Settle
  BY <1>10 DEF Settle, Verdict, AfterPass
<1>11. CASE Retry
  BY <1>11 DEF Retry
<1>12. CASE CapDiff
  BY <1>12 DEF CapDiff, Drop, Review
<1>13. CASE Diff
  BY <1>13 DEF Diff, Drop, Review
<1>14. CASE Discard
  BY <1>14 DEF Discard, Clean
<1>15. CASE Mismatch
  BY <1>15 DEF Mismatch, EndPass
<1>16. CASE Evaluate
  BY <1>16 DEF Evaluate
<1>17. CASE Spawned
  BY <1>17 DEF Spawned
<1>18. CASE Rejected
  BY <1>18 DEF Rejected, EndPass
<1>19. CASE ProcessEnds
  <2>1. PICK code \in {0, 1} : Exit(code)
    BY <1>19 DEF ProcessEnds
  <2> QED
    BY <2>1 DEF Exit, DoneEvent, EndPass
<1>20. CASE Hang
  BY <1>20 DEF Hang, Working
<1>21. CASE LoopStep
  BY <1>21 DEF LoopStep, Looping
<1>22. CASE Blip
  BY <1>22 DEF Blip, Looping
<1>23. CASE LoopPauses
  BY <1>23 DEF LoopPauses, Looping
<1>24. CASE LoopDone
  BY <1>24 DEF LoopDone, Looping, EmitMetrics, EndPass
<1>25. CASE LoopFails
  BY <1>25 DEF LoopFails, Looping, EmitMetrics, LoopOverBudget, EndPass
<1>26. CASE LoopRefused
  BY <1>26 DEF LoopRefused, Looping, EmitMetrics, EndPass
<1>27. CASE StopMission
  BY <1>27 DEF StopMission, Kill
<1>28. CASE StopDiscards
  BY <1>28 DEF StopDiscards
<1>29. CASE PauseMission
  BY <1>29 DEF PauseMission
<1>30. CASE ResumeMission
  BY <1>30 DEF ResumeMission
<1>31. CASE Timer
  BY <1>31 DEF Timer, Kill
<1>32. CASE Silence
  BY <1>32 DEF Silence, Kill
<1>33. CASE UNCHANGED vars
  BY <1>33
<1> QED
  BY <1>1, <1>2, <1>3, <1>4, <1>5, <1>6, <1>7, <1>8, <1>9, <1>10, <1>11, <1>12, <1>13, <1>14, <1>15, <1>16, <1>17, <1>18, <1>19, <1>20, <1>21, <1>22, <1>23, <1>24, <1>25, <1>26, <1>27, <1>28, <1>29, <1>30, <1>31, <1>32, <1>33 DEF Next, RunStep


LEMMA ProcInvHolds == Spec => []ProcInv
<1>1. Init => ProcInv
  BY DEF Init, ProcInv, NoProcess, Quiet, FailureEnds, CutOff
<1>2. TypeOK /\ RunInv /\ ProcInv /\ [Next]_vars => ProcInv'
  BY NoProcessNext, QuietNext, FailureNext, CutOffNext DEF ProcInv
<1> QED
  BY <1>1, <1>2, TypeCorrect, RunInvHolds, PTL DEF Spec

\* A pass starts its agent where there is none.
LEMMA OneProcessStep == TypeOK /\ RunInv /\ ProcInv /\ [Next]_vars => (proc' = "starting" => proc \in {"none", "starting"})
<1> SUFFICES ASSUME TypeOK /\ RunInv /\ ProcInv, [Next]_vars PROVE (proc' = "starting" => proc \in {"none", "starting"})
  OBVIOUS
<1> USE DEF TypeOK, RunInv, LaunchInv, ProcInv, NoProcess, Quiet, FailureEnds, CutOff
<1>1. CASE Gate
  BY <1>1 DEF Gate, FailLaunch
<1>2. CASE Prepare
  BY <1>2 DEF Prepare
<1>3. CASE Create
  BY <1>3 DEF Create, FailLaunch
<1>4. CASE Launch
  BY <1>4 DEF Launch
<1>5. CASE Poll
  BY <1>5 DEF Poll, Kill
<1>6. CASE PollBreaks
  BY <1>6 DEF PollBreaks, EndPass
<1>7. CASE NativeHeld
  BY <1>7 DEF NativeHeld
<1>8. CASE LoopHeld
  BY <1>8 DEF LoopHeld
<1>9. CASE LoopStops
  BY <1>9 DEF LoopStops, EndPass, Looping
<1>10. CASE Settle
  BY <1>10 DEF Settle, Verdict, AfterPass
<1>11. CASE Retry
  BY <1>11 DEF Retry
<1>12. CASE CapDiff
  BY <1>12 DEF CapDiff, Drop, Review
<1>13. CASE Diff
  BY <1>13 DEF Diff, Drop, Review
<1>14. CASE Discard
  BY <1>14 DEF Discard, Clean
<1>15. CASE Mismatch
  BY <1>15 DEF Mismatch, EndPass
<1>16. CASE Evaluate
  BY <1>16 DEF Evaluate
<1>17. CASE Spawned
  BY <1>17 DEF Spawned
<1>18. CASE Rejected
  BY <1>18 DEF Rejected, EndPass
<1>19. CASE ProcessEnds
  <2>1. PICK code \in {0, 1} : Exit(code)
    BY <1>19 DEF ProcessEnds
  <2> QED
    BY <2>1 DEF Exit, DoneEvent, EndPass
<1>20. CASE Hang
  BY <1>20 DEF Hang, Working
<1>21. CASE LoopStep
  BY <1>21 DEF LoopStep, Looping
<1>22. CASE Blip
  BY <1>22 DEF Blip, Looping
<1>23. CASE LoopPauses
  BY <1>23 DEF LoopPauses, Looping
<1>24. CASE LoopDone
  BY <1>24 DEF LoopDone, Looping, EmitMetrics, EndPass
<1>25. CASE LoopFails
  BY <1>25 DEF LoopFails, Looping, EmitMetrics, LoopOverBudget, EndPass
<1>26. CASE LoopRefused
  BY <1>26 DEF LoopRefused, Looping, EmitMetrics, EndPass
<1>27. CASE StopMission
  BY <1>27 DEF StopMission, Kill
<1>28. CASE StopDiscards
  BY <1>28 DEF StopDiscards
<1>29. CASE PauseMission
  BY <1>29 DEF PauseMission
<1>30. CASE ResumeMission
  BY <1>30 DEF ResumeMission
<1>31. CASE Timer
  BY <1>31 DEF Timer, Kill
<1>32. CASE Silence
  BY <1>32 DEF Silence, Kill
<1>33. CASE UNCHANGED vars
  BY <1>33
<1> QED
  BY <1>1, <1>2, <1>3, <1>4, <1>5, <1>6, <1>7, <1>8, <1>9, <1>10, <1>11, <1>12, <1>13, <1>14, <1>15, <1>16, <1>17, <1>18, <1>19, <1>20, <1>21, <1>22, <1>23, <1>24, <1>25, <1>26, <1>27, <1>28, <1>29, <1>30, <1>31, <1>32, <1>33 DEF Next, RunStep

\* The run discards only what no agent works in.
LEMMA QuietDiscardStep == TypeOK /\ RunInv /\ ProcInv /\ [Next]_vars => (tree = "there" /\ tree' = "gone" /\ stop = "no" /\ killed = "no" => proc = "none")
<1> SUFFICES ASSUME TypeOK /\ RunInv /\ ProcInv, [Next]_vars PROVE (tree = "there" /\ tree' = "gone" /\ stop = "no" /\ killed = "no" => proc = "none")
  OBVIOUS
<1> USE DEF TypeOK, RunInv, LaunchInv, ProcInv, NoProcess, Quiet, FailureEnds, CutOff, JobInv, TreeInv
<1>1. CASE Gate
  BY <1>1 DEF Gate, FailLaunch
<1>2. CASE Prepare
  BY <1>2 DEF Prepare
<1>3. CASE Create
  BY <1>3 DEF Create, FailLaunch
<1>4. CASE Launch
  BY <1>4 DEF Launch
<1>5. CASE Poll
  BY <1>5 DEF Poll, Kill
<1>6. CASE PollBreaks
  BY <1>6 DEF PollBreaks, EndPass
<1>7. CASE NativeHeld
  BY <1>7 DEF NativeHeld
<1>8. CASE LoopHeld
  BY <1>8 DEF LoopHeld
<1>9. CASE LoopStops
  BY <1>9 DEF LoopStops, EndPass, Looping
<1>10. CASE Settle
  BY <1>10 DEF Settle, Verdict, AfterPass
<1>11. CASE Retry
  BY <1>11 DEF Retry
<1>12. CASE CapDiff
  BY <1>12 DEF CapDiff, Drop, Review
<1>13. CASE Diff
  BY <1>13 DEF Diff, Drop, Review
<1>14. CASE Discard
  BY <1>14 DEF Discard, Clean
<1>15. CASE Mismatch
  BY <1>15 DEF Mismatch, EndPass
<1>16. CASE Evaluate
  BY <1>16 DEF Evaluate
<1>17. CASE Spawned
  BY <1>17 DEF Spawned
<1>18. CASE Rejected
  BY <1>18 DEF Rejected, EndPass
<1>19. CASE ProcessEnds
  <2>1. PICK code \in {0, 1} : Exit(code)
    BY <1>19 DEF ProcessEnds
  <2> QED
    BY <2>1 DEF Exit, DoneEvent, EndPass
<1>20. CASE Hang
  BY <1>20 DEF Hang, Working
<1>21. CASE LoopStep
  BY <1>21 DEF LoopStep, Looping
<1>22. CASE Blip
  BY <1>22 DEF Blip, Looping
<1>23. CASE LoopPauses
  BY <1>23 DEF LoopPauses, Looping
<1>24. CASE LoopDone
  BY <1>24 DEF LoopDone, Looping, EmitMetrics, EndPass
<1>25. CASE LoopFails
  BY <1>25 DEF LoopFails, Looping, EmitMetrics, LoopOverBudget, EndPass
<1>26. CASE LoopRefused
  BY <1>26 DEF LoopRefused, Looping, EmitMetrics, EndPass
<1>27. CASE StopMission
  BY <1>27 DEF StopMission, Kill
<1>28. CASE StopDiscards
  BY <1>28 DEF StopDiscards
<1>29. CASE PauseMission
  BY <1>29 DEF PauseMission
<1>30. CASE ResumeMission
  BY <1>30 DEF ResumeMission
<1>31. CASE Timer
  BY <1>31 DEF Timer, Kill
<1>32. CASE Silence
  BY <1>32 DEF Silence, Kill
<1>33. CASE UNCHANGED vars
  BY <1>33
<1> QED
  BY <1>1, <1>2, <1>3, <1>4, <1>5, <1>6, <1>7, <1>8, <1>9, <1>10, <1>11, <1>12, <1>13, <1>14, <1>15, <1>16, <1>17, <1>18, <1>19, <1>20, <1>21, <1>22, <1>23, <1>24, <1>25, <1>26, <1>27, <1>28, <1>29, <1>30, <1>31, <1>32, <1>33 DEF Next, RunStep

\* No pass starts an agent beside another one of the same mission (OneProcess).
THEOREM NeverTwoAgents == Spec => OneProcess
<1>1. /\ TypeOK /\ RunInv /\ ProcInv /\ [Next]_vars
      => [proc' = "starting" => proc \in {"none", "starting"}]_vars
  BY OneProcessStep
<1> QED
  BY <1>1, TypeCorrect, RunInvHolds, ProcInvHolds, PTL DEF Spec, OneProcess

\* A worktree is discarded when no agent works in it (QuietDiscard).
THEOREM DiscardsInPeace == Spec => QuietDiscard
<1>1. /\ TypeOK /\ RunInv /\ ProcInv /\ [Next]_vars
      => [tree = "there" /\ tree' = "gone" /\ stop = "no" /\ killed = "no" => proc = "none"]_vars
  BY QuietDiscardStep
<1> QED
  BY <1>1, TypeCorrect, RunInvHolds, ProcInvHolds, PTL DEF Spec, QuietDiscard

=============================================================================
