------------------------------- MODULE DagRun -------------------------------
(***************************************************************************)
(* What a run of a compiled graph promises, whatever its node kinds,       *)
(* failures, replans and re-entries: it works in waves; a wave is a set of *)
(* nodes, none of them done, whose dependencies are all done; a node       *)
(* becomes done only by taking part in a wave, and stays done.             *)
(***************************************************************************)
CONSTANTS
  Task,   \* the nodes of the graph
  Needs   \* pairs <<a, b>>: b depends on a

VARIABLES
  done,    \* tasks that are done
  active,  \* tasks in the current wave
  open     \* is a call of the executor working on the run?

dagVars == <<done, active, open>>

DagInit == done = {} /\ active = {} /\ open = TRUE

MayStart(t) == t \notin done /\ \A a \in Task : <<a, t>> \in Needs => a \in done

Begin(W) ==
  /\ open /\ active = {}
  /\ \A t \in W : MayStart(t)
  /\ active' = W /\ UNCHANGED <<done, open>>

\* The wave ends: some of its tasks are done, and the run may end with it.
End(D) ==
  /\ open /\ D \subseteq active
  /\ done' = done \cup D /\ active' = {} /\ open' \in BOOLEAN

\* The run is given up between waves, or taken up again.
Close  == open /\ active = {} /\ open' = FALSE /\ UNCHANGED <<done, active>>
Reopen == ~open /\ open' = TRUE /\ UNCHANGED <<done, active>>

DagNext ==
  \/ \E W \in SUBSET Task : Begin(W)
  \/ \E D \in SUBSET active : End(D)
  \/ Close \/ Reopen

DagSpec == DagInit /\ [][DagNext]_dagVars
=============================================================================
