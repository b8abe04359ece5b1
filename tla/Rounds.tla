------------------------------- MODULE Rounds -------------------------------
(***************************************************************************)
(* The simulation of the Template protocol: SimulationProtocol.Run repeats *)
(* the protocol of CountProtocol on one tree.  Every round makes protocol  *)
(* instances of its own on the nodes, starts the root's in a goroutine,    *)
(* waits for the count, and gives up when it is not the size of the tree.  *)
(* Nothing bounds the waiting, and nothing looks at the other nodes before *)
(* the next round.                                                         *)
(***************************************************************************)
EXTENDS CountProtocol

CONSTANT MaxRound    \* Rounds of the configuration

ASSUME RoundAssumption == MaxRound \in Nat \ {0}

VARIABLES
    round,       \* the round
    run          \* what Run does: it waits, or has returned

roundVars == <<vars, round, run>>

size == Cardinality(Node)

RoundsTypeOK ==
    /\ TypeOK
    /\ round \in 1 .. MaxRound
    /\ run \in {"waits", "ended", "failed"}

\* CreateProtocol may fail.
RoundsInit == Init /\ round = 1 /\ run \in {"waits", "failed"}

InRound(A) == run = "waits" /\ A /\ UNCHANGED <<round, run>>

\* Mutant: the answers of the last round are kept.
NewInstancesKept ==
    /\ at' = [n \in Node |-> "announce"]
    /\ announced' = {}
    /\ childCount' = NoCount
    /\ UNCHANGED <<reply, down>>

\* The instances of the next round are new; a node that is down stays so.
NewInstances ==
    /\ at' = [n \in Node |-> "announce"]
    /\ announced' = {}
    /\ reply' = [n \in Node |-> NoCount]
    /\ childCount' = NoCount
    /\ UNCHANGED down

RoundEnds == run = "waits" /\ childCount # NoCount

\* The next round begins, or its protocol cannot be created.
NextRound ==
    /\ RoundEnds /\ childCount = size /\ round < MaxRound
    /\ round' = round + 1
    /\ NewInstances
    /\ run' \in {"waits", "failed"}

\* The last round is over, or the count is wrong.
Return ==
    /\ RoundEnds /\ (childCount # size \/ round = MaxRound)
    /\ run' = IF childCount = size THEN "ended" ELSE "failed"
    /\ UNCHANGED <<vars, round>>

RoundsNext == InRound(Next) \/ NextRound \/ Return

RoundsSpec == RoundsInit /\ [][RoundsNext]_roundVars

\* As in CountProtocol; Run keeps running too.
RoundsFairSpec ==
    /\ RoundsSpec
    /\ WF_roundVars(InRound(Start)) /\ WF_roundVars(InRound(Receive))
    /\ \A n \in Node : WF_roundVars(InRound(Dispatch(n)))
    /\ WF_roundVars(NextRound \/ Return)

-----------------------------------------------------------------------------
(* Properties.                                                             *)

\* The nodes that are counted: they have answered, or, the root, have the
\* answers.
Counted == {n \in Node : at[n] = "done" \/ (n = Root /\ at[n] = "counted")}

Repeated == INSTANCE Census WITH counted <- Counted, result <- childCount

\* A round counts every node once, gives their number, and begins when all
\* nodes have answered in the last, although Run looks at nothing but the count
\* (simulation/protocol.go, lines 82-97).  A node that has answered may still
\* have to end its Dispatch, with Done.
CensusSpec == Repeated!Spec

\* When no node goes down, the simulation comes to its end (nobody would
\* notice otherwise: line 91 waits without a bound).
SimulationEnds == [](down = {}) => <>(run # "waits")
=============================================================================
