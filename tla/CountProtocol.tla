--------------------------- MODULE CountProtocol ---------------------------
(***************************************************************************)
(* One run of the Template protocol of the cothority: the root of a tree   *)
(* of nodes sends an announcement, which every node passes on to its       *)
(* children; the leaves answer with 1, the nodes between with the sum of   *)
(* what their children answered and 1, and the root gives its sum to       *)
(* whoever started the run.  Every node runs Dispatch, once.               *)
(*                                                                         *)
(* Messages are delivered by onet, which is not in this repository: it     *)
(* hands the answers of a node's children over together, once all are      *)
(* there.  A node can go down at any time; nobody is told.                 *)
(***************************************************************************)
EXTENDS Integers, FiniteSets, FiniteSetsExt

CONSTANTS
    Node, Root,
    Parent,      \* the tree
    NoCount

\* Every node is below the root: none of the others can be left with only
\* each other for parents.
ASSUME TreeAssumption ==
    /\ IsFiniteSet(Node) /\ Root \in Node
    /\ Parent \in [Node \ {Root} -> Node]
    /\ \A S \in SUBSET (Node \ {Root}) : (\A n \in S : Parent[n] \in S) => S = {}
    /\ NoCount \notin Nat

Children(n) == {m \in Node \ {Root} : Parent[m] = n}
IsLeaf(n) == Children(n) = {}

VARIABLES
    at,          \* where each node is in Dispatch
    announced,   \* the nodes to which an announcement is under way
    reply,       \* what each node has sent to its parent
    childCount,  \* what the starter of the run has received
    down

vars == <<at, announced, reply, childCount, down>>

TypeOK ==
    /\ at \in [Node -> {"announce", "replies", "counted", "done"}]
    /\ announced \subseteq Node
    /\ reply \in [Node -> 1 .. Cardinality(Node) \cup {NoCount}]
    /\ childCount \in 1 .. Cardinality(Node) \cup {NoCount}
    /\ down \subseteq Node

Init ==
    /\ at = [n \in Node |-> "announce"]
    /\ announced = {}
    /\ reply = [n \in Node |-> NoCount]
    /\ childCount = NoCount
    /\ down = {}

Goes(n, where) == at' = [at EXCEPT ![n] = where]

-----------------------------------------------------------------------------
\* The root sends the announcement to itself.
Start ==
    /\ at[Root] = "announce" /\ Root \notin announced /\ Root \notin down
    /\ announced' = announced \cup {Root}
    /\ UNCHANGED <<at, reply, childCount, down>>

\* A leaf has no children to wait for.  A root that is a leaf has no parent,
\* and its answer goes nowhere.
DispatchLeaf(n) ==
    /\ n \in announced \ down /\ at[n] = "announce" /\ IsLeaf(n)
    /\ Goes(n, "done")
    /\ reply' = IF n = Root THEN reply ELSE [reply EXCEPT ![n] = 1]
    /\ announced' = announced \ {n}
    /\ UNCHANGED <<childCount, down>>

\* Mutant: one child gets the announcement.
DispatchInnerOnce(n) ==
    /\ n \in announced \ down /\ at[n] = "announce" /\ ~IsLeaf(n)
    /\ Goes(n, "replies")
    /\ \E m \in Children(n) : announced' = (announced \ {n}) \cup {m}
    /\ UNCHANGED <<reply, childCount, down>>

\* SendToChildren gives up at the first child that it cannot reach: the
\* children before that one get the announcement, in the order of onet's tree.
Reached(n) ==
    IF Children(n) \cap down = {} THEN {Children(n)} ELSE SUBSET (Children(n) \ down)

\* The error of SendToChildren is ignored.
DispatchInner(n) ==
    /\ n \in announced \ down /\ at[n] = "announce" /\ ~IsLeaf(n)
    /\ Goes(n, "replies")
    /\ \E reached \in Reached(n) : announced' = (announced \ {n}) \cup reached
    /\ UNCHANGED <<reply, childCount, down>>

Replied(n) == \A m \in Children(n) : reply[m] # NoCount

\* Mutant: the node does not count itself.
SumOfChildren(n) == MapThenSumSet(LAMBDA m : reply[m], Children(n))

\* Mutant: the node counts itself once for each child.
SumPerChild(n) == MapThenSumSet(LAMBDA m : reply[m] + 1, Children(n))

Sum(n) == 1 + MapThenSumSet(LAMBDA m : reply[m], Children(n))

\* Mutant: the answers that are there are enough.
SumSoFar(n) ==
    1 + MapThenSumSet(LAMBDA m : reply[m], {m \in Children(n) : reply[m] # NoCount})

DispatchRepliesFirst(n) ==
    /\ n \notin down /\ at[n] = "replies"
    /\ \E m \in Children(n) : reply[m] # NoCount
    /\ \/ n # Root /\ Goes(n, "done") /\ reply' = [reply EXCEPT ![n] = SumSoFar(n)]
       \/ n = Root /\ Goes(n, "counted") /\ UNCHANGED reply
    /\ UNCHANGED <<announced, childCount, down>>

\* All answers are there: a node between answers its parent, the root has
\* counted.  "done" is: has answered; Done, which only onet hears, may follow.
DispatchReplies(n) ==
    /\ n \notin down /\ at[n] = "replies" /\ Replied(n)
    /\ \/ n # Root /\ Goes(n, "done") /\ reply' = [reply EXCEPT ![n] = Sum(n)]
       \/ n = Root /\ Goes(n, "counted") /\ UNCHANGED reply
    /\ UNCHANGED <<announced, childCount, down>>

\* The starter takes the count from the channel; only then does the root's
\* Dispatch end.
Receive ==
    /\ Root \notin down /\ at[Root] = "counted"
    /\ childCount' = Sum(Root)
    /\ Goes(Root, "done")
    /\ UNCHANGED <<announced, reply, down>>

\* A node goes down; what was on its way to it is lost.
GoDown(n) ==
    /\ n \notin down
    /\ down' = down \cup {n}
    /\ announced' = announced \ {n}
    /\ UNCHANGED <<at, reply, childCount>>

Dispatch(n) == DispatchLeaf(n) \/ DispatchInner(n) \/ DispatchReplies(n)

Next == Start \/ Receive \/ \E n \in Node : Dispatch(n) \/ GoDown(n)

Spec == Init /\ [][Next]_vars

\* The starter, and the goroutine of every node that is up, keep running.
Fairness == WF_vars(Start) /\ WF_vars(Receive) /\ \A n \in Node : WF_vars(Dispatch(n))

FairSpec == Spec /\ Fairness

-----------------------------------------------------------------------------
(* Properties.                                                             *)

Closed(S) == \A n \in S : Children(n) \subseteq S

\* A node and all below it: the least set with it that has the children of its
\* nodes.
Subtree ==
    [n \in Node |->
        {m \in Node : \A S \in SUBSET Node : n \in S /\ Closed(S) => m \in S}]

\* Whichever nodes went down, and in whatever order the answers came, an
\* answer is never of a part of a subtree: it counts the whole one.
RepliesCountSubtrees ==
    \A n \in Node : reply[n] # NoCount => reply[n] = Cardinality(Subtree[n])

\* The starter gets its count when no node goes down.
CountArrives == [](down = {}) => <>(childCount # NoCount)
=============================================================================
