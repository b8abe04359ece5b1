------------------------------- MODULE Census -------------------------------
(***************************************************************************)
(* What counting the nodes of a tree promises to whoever repeats it: in    *)
(* every round each node is counted once, the result is given when all are *)
(* counted and is their number, and a round begins after that.             *)
(***************************************************************************)
EXTENDS Naturals, FiniteSets

CONSTANTS Node, MaxRound, NoCount

VARIABLES
    round,       \* the number of the round
    counted,     \* the nodes counted in it
    result       \* its result, or NoCount

vars == <<round, counted, result>>

Init == round = 1 /\ counted = {} /\ result = NoCount

Count(n) ==
    /\ n \notin counted
    /\ counted' = counted \cup {n}
    /\ UNCHANGED <<round, result>>

Report ==
    /\ counted = Node /\ result = NoCount
    /\ result' = Cardinality(Node)
    /\ UNCHANGED <<round, counted>>

Again ==
    /\ result # NoCount /\ round < MaxRound
    /\ round' = round + 1
    /\ counted' = {}
    /\ result' = NoCount

Next == Report \/ Again \/ \E n \in Node : Count(n)

Spec == Init /\ [][Next]_vars
=============================================================================
