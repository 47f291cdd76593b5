------------------------------ MODULE MCLoops ------------------------------
(***************************************************************************)
(* One gated loop that is to run twice at most, fired every interval.      *)
(***************************************************************************)
EXTENDS Loops

EveryInterval == [l \in Loop |-> 1]
EveryOther    == [l \in Loop |-> 2]
Twice    == [l \in Loop |-> [kind |-> "maxIterations", bound |-> 2]]
AllEdits == {"enable", "pause", "freeze", "remove", "skip", "archive", "delete", "over", "crash", "slow"}
=============================================================================
