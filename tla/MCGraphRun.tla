----------------------------- MODULE MCGraphRun -----------------------------
(***************************************************************************)
(* Small graphs for the wave executor.                                     *)
(***************************************************************************)
EXTENDS GraphRunDag

Edge(a, b)    == [from |-> a, to |-> b, cond |-> Always]
EdgeIf(a, b, w) == [from |-> a, to |-> b, cond |-> w]
Branch(c, t)  == [cond |-> c, target |-> t]

Diag(c, p) == [category |-> c, preventable |-> p]
AllDiagnoses == {Diag(c, p) : c \in {"test_failure", "budget_exceeded", "other"}, p \in BOOLEAN}

\* A plan: a, then b and c side by side (b can be done without), then d.
DiamondKind  == [n \in {"a", "b", "c", "d"} |-> "task"]
DiamondEdges == {Edge("a", "b"), Edge("a", "c"), Edge("b", "d"), Edge("c", "d")}
DiamondMax   == [n \in {"a", "b", "c", "d"} |-> 1]
DiamondWidth == [n \in {"a", "b", "c", "d"} |-> 0]
NoBranches   == <<>>
MCNoLimit    == NoLimit

\* Two steps after one another and one on the side.
ChainKind  == [n \in {"a", "b", "c"} |-> "task"]
ChainEdges == {Edge("a", "b")}
ChainMax   == [n \in {"a", "b", "c"} |-> 2]
ChainWidth == [n \in {"a", "b", "c"} |-> 0]

\* a feeds a router; its branch "w" goes to x and an interrupt, "u" to y and a
\* form.  k depends on a directly, on a condition.
RouteNodes == {"a", "r", "x", "y", "k", "f", "i"}
RouteKind  == [n \in RouteNodes |->
                 CASE n = "r" -> "router" [] n = "f" -> "form" [] n = "i" -> "interrupt" [] OTHER -> "task"]
RouteEdges == {Edge("a", "r"), Edge("r", "x"), Edge("r", "y"), EdgeIf("a", "k", "w"),
               Edge("y", "f"), Edge("x", "i")}
RouteMax   == [n \in RouteNodes |-> 2]
RouteWidth == [n \in RouteNodes |-> 0]
RouteTo    == [n \in {"r"} |-> <<Branch("w", "x"), Branch("u", "y")>>]
Infrastructure == {Diag("other", p) : p \in BOOLEAN}
TestFailure == {Diag("test_failure", TRUE)}

\* The other kinds in a row: an empty loop, a contest of two, a join, a counted
\* loop, one with a predicate, and a task that continues from it.
KindsNodes == {"e", "c", "j", "l", "p", "t"}
KindsKind  == [n \in KindsNodes |->
                 CASE n = "c" -> "contest" [] n = "j" -> "join" [] n = "t" -> "task" [] OTHER -> "loop"]
KindsEdges == {Edge("e", "c"), Edge("c", "j"), Edge("j", "l"), Edge("l", "p"), Edge("p", "t")}
KindsMax   == [n \in KindsNodes |-> 1]
KindsWidth == [n \in KindsNodes |-> IF n \in {"c", "l", "p"} THEN 2 ELSE 0]
=============================================================================
