---------------------------- MODULE MCScheduler ----------------------------
(***************************************************************************)
(* Small fleets for the scheduler.                                         *)
(***************************************************************************)
EXTENDS Scheduler

\* Every mission has an id of its own.
OwnIds(fleet) == [j \in fleet |-> j]

\* Four missions: a goes before the others, c is checked for conflicts, f is a
\* LazyBot with a pool of its own.
Fleet     == {"a", "b", "c", "f"}
FleetId   == OwnIds(Fleet)
FleetPool == [j \in Fleet |-> IF j = "f" THEN "byok" ELSE "cli"]
FleetPrio == [j \in Fleet |-> IF j = "a" THEN 1 ELSE 0]
FleetCap  == [p \in {"cli", "byok"} |-> IF p = "cli" THEN 2 ELSE 1]

\* Three: a and x, of another project, in one pool, the LazyBot c in the other.
Mixed     == {"a", "c", "x"}
MixedId   == OwnIds(Mixed)
MixedPool == [j \in Mixed |-> IF j = "c" THEN "byok" ELSE "cli"]
MixedPrio == [j \in Mixed |-> IF j = "x" THEN 1 ELSE 0]
MixedCap  == [p \in {"cli", "byok"} |-> 1]
=============================================================================
