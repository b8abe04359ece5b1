--------------------------- MODULE Rounds_proofs ---------------------------
(***************************************************************************)
(* The rounds of the Template protocol, for every tree and any number of   *)
(* rounds: an answer counts a whole subtree, and the simulation implements *)
(* the census.                                                             *)
(*                                                                         *)
(* The sum that a node sends is a fold over its children, defined by       *)
(* recursion.  The number of nodes below those children satisfies the      *)
(* same recursion, and so is what the fold gives; that needs subtrees of   *)
(* two children to be disjoint, which follows from every node being below  *)
(* the root.                                                               *)
(***************************************************************************)
EXTENDS Rounds, FiniteSetTheorems, WellFoundedInduction, TLAPS

-----------------------------------------------------------------------------
(* Sums.                                                                   *)

\* What defines the fold of MapThenSumSet, for one function over one set.
IsFold(fold, g, S) ==
    fold = [s \in SUBSET S |->
              IF s = {} THEN 0
              ELSE g[CHOOSE x \in s : TRUE] + fold[s \ {CHOOSE x \in s : TRUE}]]

FoldOf(g, S) == (CHOOSE fold : IsFold(fold, g, S))[S]

LEMMA SumUnfolds ==
    ASSUME NEW n \in Node
    PROVE  Sum(n) = 1 + FoldOf(reply, Children(n))
BY DEF Sum, MapThenSumSet, MapThenFoldSet, FoldOf, IsFold

\* Two functions that satisfy the same recursion are the same.
LEMMA FoldUnique ==
    ASSUME NEW S, IsFiniteSet(S), NEW g,
           NEW fold1, IsFold(fold1, g, S), NEW fold2, IsFold(fold2, g, S)
    PROVE  fold1[S] = fold2[S]
<1> DEFINE Differ == {s \in SUBSET S : fold1[s] # fold2[s]}
<1> SUFFICES ASSUME Differ # {} PROVE FALSE
  OBVIOUS
<1>1. Differ \subseteq FiniteSubsetsOf(S)
  BY FS_Subset DEF FiniteSubsetsOf
<1>2. IsWellFoundedOn(StrictSubsetOrdering(S), FiniteSubsetsOf(S))
  BY FS_StrictSubsetOrderingWellFounded
<1>3. PICK s \in Differ : \A t \in Differ : ~(<<t, s>> \in StrictSubsetOrdering(S))
  <2> HIDE DEF Differ
  <2> QED
    BY <1>1, <1>2, WFMin
<1> DEFINE x == CHOOSE y \in s : TRUE
           rest == s \ {x}
<1>4. s # {} /\ fold1[s] = g[x] + fold1[rest] /\ fold2[s] = g[x] + fold2[rest]
  <2>1. s \in SUBSET S /\ fold1[s] # fold2[s]
    OBVIOUS
  <2>2. fold1[s] = IF s = {} THEN 0 ELSE g[x] + fold1[rest]
    BY <2>1 DEF IsFold
  <2>3. fold2[s] = IF s = {} THEN 0 ELSE g[x] + fold2[rest]
    BY <2>1 DEF IsFold
  <2> QED
    BY <2>1, <2>2, <2>3
<1>5. x \in s
  BY <1>4
<1>6. fold1[rest] # fold2[rest]
  BY <1>4
<1>7. <<rest, s>> \in StrictSubsetOrdering(S)
  BY <1>5 DEF StrictSubsetOrdering
<1>8. rest \in Differ
  BY <1>6
<1> QED
  BY <1>3, <1>7, <1>8

LEMMA SizeOfBoth ==
    ASSUME NEW A, IsFiniteSet(A), NEW B, IsFiniteSet(B), A \cap B = {}
    PROVE  Cardinality(A \cup B) = Cardinality(A) + Cardinality(B)
<1>1. Cardinality(A \cup B) = Cardinality(A) + Cardinality(B) - Cardinality(A \cap B)
  BY FS_Union
<1>2. Cardinality(A) \in Nat /\ Cardinality(B) \in Nat /\ Cardinality(A \cap B) = 0
  BY FS_CardinalityType, FS_EmptySet
<1> QED
  BY <1>1, <1>2

\* The sum of the sizes of disjoint finite sets is the size of their union.
LEMMA SumOfSizes ==
    ASSUME NEW S, IsFiniteSet(S), NEW F, NEW g,
           \A m \in S : IsFiniteSet(F[m]) /\ g[m] = Cardinality(F[m]),
           \A m1, m2 \in S : m1 # m2 => F[m1] \cap F[m2] = {}
    PROVE  FoldOf(g, S) = Cardinality(UNION {F[m] : m \in S})
<1> DEFINE All(s) == UNION {F[m] : m \in s}
           sizes == [s \in SUBSET S |-> Cardinality(All(s))]
<1>1. ASSUME NEW s \in SUBSET S
      PROVE  IsFiniteSet(All(s))
  <2>1. IsFiniteSet(s)
    BY FS_Subset
  <2>2. IsFiniteSet({F[m] : m \in s})
    <3>1. [m \in s |-> F[m]] \in Surjection(s, {F[m] : m \in s})
      BY DEF Surjection
    <3> QED
      BY <2>1, <3>1, FS_Surjection
  <2>3. \A T \in {F[m] : m \in s} : IsFiniteSet(T)
    OBVIOUS
  <2> QED
    BY <2>2, <2>3, FS_UNION
<1>2. ASSUME NEW s \in SUBSET S, NEW x \in s
      PROVE  Cardinality(All(s)) = g[x] + Cardinality(All(s \ {x}))
  <2>1. All(s) = F[x] \cup All(s \ {x})
    OBVIOUS
  <2>2. F[x] \cap All(s \ {x}) = {}
    OBVIOUS
  <2>3. IsFiniteSet(F[x]) /\ IsFiniteSet(All(s \ {x})) /\ g[x] = Cardinality(F[x])
    BY <1>1
  <2>4. Cardinality(F[x]) \in Nat /\ Cardinality(All(s \ {x})) \in Nat /\ Cardinality({}) = 0
    BY <2>3, FS_CardinalityType, FS_EmptySet
  <2> HIDE DEF All
  <2> QED
    BY <2>1, <2>2, <2>3, <2>4, SizeOfBoth, ZenonT(60)
<1>3. IsFold(sizes, g, S)
  <2> DEFINE x(s) == CHOOSE y \in s : TRUE
  <2>1. ASSUME NEW s \in SUBSET S
        PROVE  sizes[s] = IF s = {} THEN 0 ELSE g[x(s)] + sizes[s \ {x(s)}]
    <3>1. CASE s = {}
      <4>1. All(s) = {}
        BY <3>1
      <4> QED
        BY <3>1, <4>1, FS_EmptySet
    <3>2. CASE s # {}
      <4>1. x(s) \in s
        BY <3>2
      <4>2. Cardinality(All(s)) = g[x(s)] + Cardinality(All(s \ {x(s)}))
        BY <1>2, <4>1
      <4> QED
        BY <3>2, <4>2
    <3> QED
      BY <3>1, <3>2
  <2>2. sizes = [s \in SUBSET S |-> sizes[s]]
    OBVIOUS
  <2> HIDE DEF sizes
  <2> QED
    BY <2>1, <2>2 DEF IsFold
<1>4. IsFold(CHOOSE fold : IsFold(fold, g, S), g, S)
  <2> HIDE DEF sizes
  <2> QED
    BY <1>3
<1>5. (CHOOSE fold : IsFold(fold, g, S))[S] = sizes[S]
  <2> HIDE DEF sizes
  <2> QED
    BY <1>3, <1>4, FoldUnique
<1>6. sizes[S] = Cardinality(All(S))
  OBVIOUS
<1> HIDE DEF sizes
<1> QED
  BY <1>5, <1>6 DEF FoldOf

-----------------------------------------------------------------------------
(* The tree.                                                               *)

\* From any node but the root the way up leads to the root.
LEMMA UpToTheRoot ==
    ASSUME NEW S \in SUBSET Node, S # {}, \A n \in S : n # Root => Parent[n] \in S
    PROVE  Root \in S
<1> SUFFICES ASSUME Root \notin S PROVE FALSE
  OBVIOUS
<1>1. S \in SUBSET (Node \ {Root}) /\ \A n \in S : Parent[n] \in S
  OBVIOUS
<1> QED
  BY <1>1, TreeAssumption

LEMMA ChildrenAre ==
    /\ \A n : Children(n) \subseteq Node \ {Root}
    /\ \A n : IsFiniteSet(Children(n))
    /\ \A n, m : m \in Children(n) <=> m \in Node \ {Root} /\ Parent[m] = n
<1>1. \A n, m : m \in Children(n) <=> m \in Node \ {Root} /\ Parent[m] = n
  BY DEF Children
<1>2. \A n : Children(n) \in SUBSET Node
  BY <1>1
<1> QED
  BY <1>1, <1>2, TreeAssumption, FS_Subset

\* What a set with a node and the children of its nodes has.
LEMMA SubtreeLeast ==
    ASSUME NEW n \in Node
    PROVE  /\ Subtree[n] \subseteq Node /\ n \in Subtree[n] /\ Closed(Subtree[n])
           /\ \A S \in SUBSET Node : n \in S /\ Closed(S) => Subtree[n] \subseteq S
<1>1. Subtree[n] = {m \in Node : \A S \in SUBSET Node : n \in S /\ Closed(S) => m \in S}
  BY DEF Subtree
<1>2. Closed(Subtree[n])
  <2> SUFFICES ASSUME NEW p \in Subtree[n], NEW m \in Children(p)
               PROVE  m \in Subtree[n]
    BY DEF Closed
  <2>1. m \in Node
    BY ChildrenAre
  <2>2. ASSUME NEW S \in SUBSET Node, n \in S, Closed(S) PROVE m \in S
    BY <1>1, <2>2 DEF Closed
  <2> QED
    BY <1>1, <2>1, <2>2
<1> QED
  BY <1>1, <1>2

\* Whoever is below a node, and not that node, has its parent there.
LEMMA SubtreeUp ==
    ASSUME NEW n \in Node, NEW m \in Subtree[n], m # n
    PROVE  m # Root /\ Parent[m] \in Subtree[n]
<1> DEFINE S == {p \in Subtree[n] : p = n \/ (p # Root /\ Parent[p] \in Subtree[n])}
<1>1. S \in SUBSET Node /\ n \in S
  BY SubtreeLeast
<1>2. Closed(S)
  BY SubtreeLeast, ChildrenAre DEF Closed
<1> HIDE DEF S
<1>3. Subtree[n] \subseteq S
  BY <1>1, <1>2, SubtreeLeast
<1> QED
  BY <1>3 DEF S

\* A node is not below its children.
LEMMA NotBelowItsChild ==
    ASSUME NEW n \in Node, NEW m \in Children(n)
    PROVE  n \notin Subtree[m]
<1> SUFFICES ASSUME n \in Subtree[m] PROVE FALSE
  OBVIOUS
<1>1. m \in Node \ {Root} /\ Parent[m] = n
  BY ChildrenAre
<1>2. Subtree[m] \in SUBSET Node /\ m \in Subtree[m]
  BY <1>1, SubtreeLeast
<1>3. \A p \in Subtree[m] : p # Root /\ Parent[p] \in Subtree[m]
  BY <1>1, SubtreeUp
<1> QED
  BY <1>2, <1>3, UpToTheRoot

\* Nobody is below two children of a node.
LEMMA SiblingsApart ==
    ASSUME NEW n \in Node, NEW m1 \in Children(n), NEW m2 \in Children(n), m1 # m2
    PROVE  Subtree[m1] \cap Subtree[m2] = {}
<1> DEFINE S == Subtree[m1] \cap Subtree[m2]
<1> SUFFICES ASSUME S # {} PROVE FALSE
  OBVIOUS
<1>1. /\ m1 \in Node \ {Root} /\ Parent[m1] = n
      /\ m2 \in Node \ {Root} /\ Parent[m2] = n
  BY ChildrenAre
<1>2. n \notin Subtree[m1] /\ n \notin Subtree[m2]
  BY NotBelowItsChild
<1>3. m1 \notin Subtree[m2] /\ m2 \notin Subtree[m1]
  BY <1>1, <1>2, SubtreeUp
<1>4. \A p \in S : p # Root /\ Parent[p] \in S
  BY <1>1, <1>3, SubtreeUp
<1>5. S \in SUBSET Node
  BY <1>1, SubtreeLeast
<1> QED
  BY <1>4, <1>5, UpToTheRoot

LEMMA SubtreeIs ==
    ASSUME NEW n \in Node
    PROVE  Subtree[n] = {n} \cup UNION {Subtree[m] : m \in Children(n)}
<1> DEFINE S == {n} \cup UNION {Subtree[m] : m \in Children(n)}
<1>1. \A m \in Children(n) : /\ m \in Node /\ m \in Subtree[m]
                             /\ Subtree[m] \subseteq Node /\ Closed(Subtree[m])
  BY ChildrenAre, SubtreeLeast
<1>2. S \in SUBSET Node /\ n \in S
  BY <1>1
<1>3. Closed(S)
  BY <1>1 DEF Closed
<1>4. Subtree[n] \subseteq S
  <2> HIDE DEF S
  <2> QED
    BY <1>2, <1>3, SubtreeLeast
<1>5. ASSUME NEW m \in Children(n) PROVE Subtree[m] \subseteq Subtree[n]
  <2>1. /\ n \in Subtree[n] /\ Closed(Subtree[n]) /\ Subtree[n] \in SUBSET Node
    BY SubtreeLeast
  <2>2. m \in Subtree[n]
    BY <2>1 DEF Closed
  <2> QED
    BY <1>1, <2>1, <2>2, SubtreeLeast
<1>6. n \in Subtree[n]
  BY SubtreeLeast
<1> QED
  BY <1>4, <1>5, <1>6

LEMMA SubtreeSize ==
    ASSUME NEW n \in Node
    PROVE  /\ IsFiniteSet(Subtree[n])
           /\ Cardinality(Subtree[n]) \in 1 .. Cardinality(Node)
<1>1. Subtree[n] \in SUBSET Node /\ n \in Subtree[n]
  BY SubtreeLeast
<1>2. IsFiniteSet(Subtree[n]) /\ Cardinality(Subtree[n]) <= Cardinality(Node)
  BY <1>1, TreeAssumption, FS_Subset
<1>3. Cardinality(Subtree[n]) \in Nat /\ Cardinality(Node) \in Nat
  BY <1>2, TreeAssumption, FS_CardinalityType
<1>4. Cardinality(Subtree[n]) # 0
  BY <1>1, <1>2, FS_EmptySet
<1> QED
  BY <1>2, <1>3, <1>4

\* The answer of a node whose children have answered for their subtrees.
LEMMA SumCountsSubtree ==
    ASSUME RepliesCountSubtrees, NEW n \in Node, Replied(n)
    PROVE  Sum(n) = Cardinality(Subtree[n])
<1> DEFINE below == UNION {Subtree[m] : m \in Children(n)}
<1>1. \A m \in Children(n) : /\ m \in Node /\ IsFiniteSet(Subtree[m])
                             /\ reply[m] = Cardinality(Subtree[m])
  BY ChildrenAre, SubtreeSize DEF RepliesCountSubtrees, Replied
<1>2. FoldOf(reply, Children(n)) = Cardinality(below)
  <2>1. IsFiniteSet(Children(n))
    BY ChildrenAre
  <2>2. \A m1, m2 \in Children(n) : m1 # m2 => Subtree[m1] \cap Subtree[m2] = {}
    BY SiblingsApart
  <2> QED
    BY <1>1, <2>1, <2>2, SumOfSizes
<1>3. Subtree[n] = below \cup {n}
  BY SubtreeIs
<1>4. n \notin below
  BY NotBelowItsChild
<1>5. IsFiniteSet(below)
  <2>1. below \in SUBSET Subtree[n]
    BY <1>3
  <2> QED
    BY <2>1, SubtreeSize, FS_Subset
<1>6. Cardinality(below \cup {n}) = Cardinality(below) + 1
  <2> HIDE DEF below
  <2> QED
    BY <1>4, <1>5, FS_AddElement
<1>7. Cardinality(below) \in Nat
  BY <1>5, FS_CardinalityType
<1> HIDE DEF below
<1> QED
  BY <1>2, <1>3, <1>6, <1>7, SumUnfolds

LEMMA RootHasAll == Subtree[Root] = Node
<1> DEFINE S == Node \ Subtree[Root]
<1> SUFFICES ASSUME S # {} PROVE FALSE
  BY SubtreeLeast, TreeAssumption
<1>1. Root \in Node /\ Root \in Subtree[Root] /\ Closed(Subtree[Root])
  BY SubtreeLeast, TreeAssumption
<1>2. \A m \in S : m # Root => Parent[m] \in S
  BY <1>1, TreeAssumption DEF Closed, Children
<1> QED
  BY <1>1, <1>2, UpToTheRoot

-----------------------------------------------------------------------------
(* The invariant: within a round, a node answers only when it is done, and *)
(* is counted only when all its children have answered.                    *)

AnsweredAreDone == \A n \in Node : reply[n] # NoCount => at[n] = "done"

CountedHaveAnswers == \A n \in Counted : Replied(n)

ResultIsSize == childCount # NoCount => at[Root] = "done" /\ childCount = size

Inv ==
    /\ TypeOK /\ AnsweredAreDone /\ CountedHaveAnswers
    /\ RepliesCountSubtrees /\ ResultIsSize

\* When the root has its answers, everyone has answered.
LEMMA RootCountsLast ==
    ASSUME AnsweredAreDone, CountedHaveAnswers, Root \in Counted
    PROVE  Counted = Node
<1> DEFINE S == Node \ Counted
<1> SUFFICES ASSUME S # {} PROVE FALSE
  BY DEF Counted
<1>1. ASSUME NEW m \in S, m # Root, Parent[m] \notin S PROVE FALSE
  <2>1. Parent[m] \in Counted /\ m \in Children(Parent[m])
    BY <1>1, TreeAssumption DEF Children
  <2>2. reply[m] # NoCount
    BY <2>1 DEF CountedHaveAnswers, Replied
  <2>3. at[m] = "done"
    BY <1>1, <2>2 DEF AnsweredAreDone
  <2> QED
    BY <1>1, <2>3 DEF Counted
<1> QED
  BY <1>1, UpToTheRoot

LEMMA Sizes == size \in Nat /\ NoCount \notin 1 .. size
BY TreeAssumption, FS_CardinalityType DEF size

\* New instances, of the first round or of the next.
LEMMA Fresh ==
    ASSUME at = [n \in Node |-> "announce"], announced = {},
           reply = [n \in Node |-> NoCount], childCount = NoCount, down \subseteq Node
    PROVE  Inv /\ Counted = {}
<1>1. TypeOK
  BY DEF TypeOK
<1>2. Counted = {}
  BY DEF Counted
<1> QED
  BY <1>1, <1>2 DEF Inv, AnsweredAreDone, CountedHaveAnswers, RepliesCountSubtrees, ResultIsSize

\* A step at which node n is counted, and other nodes stay as they are.
LEMMA CountedStep ==
    ASSUME Inv, NEW n \in Node \ Counted, Replied(n), UNCHANGED childCount,
           announced' \subseteq Node, down' \subseteq Node,
           \/ at' = [at EXCEPT ![n] = "done"]
           \/ n = Root /\ at' = [at EXCEPT ![n] = "counted"],
           \/ UNCHANGED reply
           \/ /\ at' = [at EXCEPT ![n] = "done"]
              /\ reply' = [reply EXCEPT ![n] = Cardinality(Subtree[n])]
    PROVE  Inv' /\ Counted' = Counted \cup {n}
<1> USE DEF Inv
<1>1. /\ at' \in [Node -> {"announce", "replies", "counted", "done"}]
      /\ at'[n] = "done" \/ (n = Root /\ at'[n] = "counted")
      /\ \A m \in Node : m # n => at'[m] = at[m]
  <2>1. CASE at' = [at EXCEPT ![n] = "done"]
    BY <2>1 DEF TypeOK
  <2>2. CASE n = Root /\ at' = [at EXCEPT ![n] = "counted"]
    BY <2>2 DEF TypeOK
  <2> QED
    BY <2>1, <2>2
<1>2. Cardinality(Subtree[n]) \in 1 .. Cardinality(Node)
  BY SubtreeSize
<1>3. /\ reply' \in [Node -> 1 .. Cardinality(Node) \cup {NoCount}]
      /\ \A m \in Node : m # n => reply'[m] = reply[m]
      /\ \/ reply'[n] = reply[n]
         \/ reply'[n] = Cardinality(Subtree[n]) /\ at'[n] = "done"
  BY <1>1, <1>2 DEF TypeOK
<1>4. reply[n] = NoCount
  BY DEF AnsweredAreDone, Counted
<1>5. Counted' = Counted \cup {n}
  BY <1>1 DEF Counted
<1>6. TypeOK'
  BY <1>1, <1>3 DEF TypeOK
<1>7. AnsweredAreDone' /\ RepliesCountSubtrees'
  BY <1>1, <1>3, <1>4 DEF AnsweredAreDone, RepliesCountSubtrees
<1>8. \A m \in Node : reply[m] # NoCount => reply'[m] # NoCount
  BY <1>3, <1>4
<1>9. CountedHaveAnswers'
  BY <1>5, <1>8, ChildrenAre DEF CountedHaveAnswers, Replied
<1>10. ResultIsSize'
  BY <1>1, TreeAssumption DEF ResultIsSize, Counted, size
<1> QED
  BY <1>5, <1>6, <1>7, <1>9, <1>10

LEMMA LeafStep ==
    ASSUME Inv, NEW n \in Node, DispatchLeaf(n)
    PROVE  Inv' /\ n \notin Counted /\ Counted' = Counted \cup {n} /\ UNCHANGED childCount
<1>1. /\ at[n] = "announce" /\ Children(n) = {}
      /\ at' = [at EXCEPT ![n] = "done"] /\ announced' = announced \ {n}
      /\ UNCHANGED childCount /\ UNCHANGED down
      /\ \/ UNCHANGED reply
         \/ reply' = [reply EXCEPT ![n] = 1]
  BY DEF DispatchLeaf, IsLeaf, Goes
<1>2. n \in Node \ Counted /\ Replied(n)
  BY <1>1 DEF Counted, Replied
<1>3. Subtree[n] = {n}
  BY <1>1, SubtreeIs
<1>4. Cardinality(Subtree[n]) = 1
  BY <1>3, FS_Singleton
<1>5. announced' \subseteq Node /\ down' \subseteq Node
  BY <1>1 DEF Inv, TypeOK
<1> QED
  BY <1>1, <1>2, <1>4, <1>5, CountedStep

LEMMA RepliesStep ==
    ASSUME Inv, NEW n \in Node, DispatchReplies(n)
    PROVE  Inv' /\ n \notin Counted /\ Counted' = Counted \cup {n} /\ UNCHANGED childCount
<1>1. /\ at[n] = "replies" /\ Replied(n)
      /\ UNCHANGED announced /\ UNCHANGED childCount /\ UNCHANGED down
      /\ \/ at' = [at EXCEPT ![n] = "done"] /\ reply' = [reply EXCEPT ![n] = Sum(n)]
         \/ n = Root /\ at' = [at EXCEPT ![n] = "counted"] /\ UNCHANGED reply
  BY DEF DispatchReplies, Goes
<1>2. n \in Node \ Counted
  BY <1>1 DEF Counted
<1>3. Sum(n) = Cardinality(Subtree[n])
  BY <1>1, SumCountsSubtree DEF Inv
<1>4. announced' \subseteq Node /\ down' \subseteq Node
  BY <1>1 DEF Inv, TypeOK
<1> QED
  BY <1>1, <1>2, <1>3, <1>4, CountedStep

\* The root gives its count when all nodes are counted.
LEMMA ReceiveStep ==
    ASSUME Inv, Receive
    PROVE  /\ Inv' /\ Counted = Node /\ Counted' = Counted
           /\ childCount = NoCount /\ childCount' = size
<1> USE DEF Inv
<1>1. /\ at[Root] = "counted" /\ childCount' = Sum(Root)
      /\ at' = [at EXCEPT ![Root] = "done"]
      /\ UNCHANGED announced /\ UNCHANGED reply /\ UNCHANGED down
  BY DEF Receive, Goes
<1>2. Root \in Node /\ Root \in Counted
  BY <1>1, TreeAssumption DEF Counted
<1>3. Counted = Node
  BY <1>2, RootCountsLast
<1>4. childCount' = size
  <2>1. Replied(Root)
    BY <1>2 DEF CountedHaveAnswers
  <2> QED
    BY <1>1, <1>2, <2>1, SumCountsSubtree, RootHasAll DEF size
<1>5. /\ at' \in [Node -> {"announce", "replies", "counted", "done"}]
      /\ at'[Root] = "done" /\ \A m \in Node : m # Root => at'[m] = at[m]
  BY <1>1, <1>2 DEF TypeOK
<1>6. Counted' = Counted
  BY <1>2, <1>5 DEF Counted
<1>7. TypeOK'
  <2>1. Cardinality(Node) \in 1 .. Cardinality(Node)
    BY <1>2, SubtreeSize, RootHasAll
  <2> QED
    BY <1>1, <1>4, <1>5, <2>1 DEF TypeOK, size
<1>8. AnsweredAreDone' /\ RepliesCountSubtrees'
  BY <1>1, <1>5 DEF AnsweredAreDone, RepliesCountSubtrees
<1>9. CountedHaveAnswers'
  BY <1>1, <1>6 DEF CountedHaveAnswers, Replied
<1>10. ResultIsSize'
  BY <1>4, <1>5 DEF ResultIsSize, size
<1>11. childCount = NoCount
  BY <1>1 DEF ResultIsSize
<1> QED
  BY <1>3, <1>4, <1>6, <1>7, <1>8, <1>9, <1>10, <1>11

\* The other steps count nobody.
LEMMA OtherStep ==
    ASSUME Inv,
           Start \/ (\E n \in Node : DispatchInner(n) \/ GoDown(n)) \/ UNCHANGED vars
    PROVE  Inv' /\ Counted' = Counted /\ UNCHANGED childCount
<1> USE DEF Inv
<1>1. UNCHANGED reply /\ UNCHANGED childCount
  BY DEF Start, DispatchInner, GoDown, vars
<1>2. announced' \subseteq Node /\ down' \subseteq Node
  <2>1. CASE Start
    BY <2>1, TreeAssumption DEF Start, TypeOK
  <2>2. CASE \E n \in Node : DispatchInner(n) \/ GoDown(n)
    BY <2>2, ChildrenAre DEF DispatchInner, Reached, GoDown, TypeOK
  <2>3. CASE UNCHANGED vars
    BY <2>3 DEF vars, TypeOK
  <2> QED
    BY <2>1, <2>2, <2>3
<1>3. \/ UNCHANGED at
      \/ \E n \in Node : at[n] = "announce" /\ at' = [at EXCEPT ![n] = "replies"]
  BY DEF Start, DispatchInner, GoDown, Goes, vars
<1>4. /\ at' \in [Node -> {"announce", "replies", "counted", "done"}]
      /\ \A m \in Node : /\ at'[m] = "done" <=> at[m] = "done"
                         /\ at'[m] = "counted" <=> at[m] = "counted"
  BY <1>3 DEF TypeOK
<1>5. Counted' = Counted
  BY <1>4 DEF Counted
<1>6. TypeOK'
  BY <1>1, <1>2, <1>4 DEF TypeOK
<1>7. AnsweredAreDone' /\ RepliesCountSubtrees'
  BY <1>1, <1>4 DEF AnsweredAreDone, RepliesCountSubtrees
<1>8. CountedHaveAnswers'
  BY <1>1, <1>5 DEF CountedHaveAnswers, Replied
<1>9. ResultIsSize'
  BY <1>1, <1>4, TreeAssumption DEF ResultIsSize
<1> QED
  BY <1>1, <1>5, <1>6, <1>7, <1>8, <1>9

-----------------------------------------------------------------------------
(* The rounds.                                                             *)

RoundsInv == Inv /\ round \in 1 .. MaxRound /\ run \in {"waits", "ended", "failed"}

\* A step of a round counts one node, gives the count, or nothing.
LEMMA RoundStep ==
    ASSUME Inv, Next \/ UNCHANGED vars
    PROVE  /\ Inv'
           /\ \/ Counted' = Counted /\ UNCHANGED childCount
              \/ /\ UNCHANGED childCount
                 /\ \E n \in Node : n \notin Counted /\ Counted' = Counted \cup {n}
              \/ /\ Counted = Node /\ Counted' = Counted
                 /\ childCount = NoCount /\ childCount' = size
<1>1. CASE \E n \in Node : DispatchLeaf(n)
  BY <1>1, LeafStep
<1>2. CASE \E n \in Node : DispatchReplies(n)
  BY <1>2, RepliesStep
<1>3. CASE Receive
  BY <1>3, ReceiveStep
<1>4. CASE Start \/ (\E n \in Node : DispatchInner(n) \/ GoDown(n)) \/ UNCHANGED vars
  BY <1>4, OtherStep
<1> QED
  BY <1>1, <1>2, <1>3, <1>4 DEF Next, Dispatch

LEMMA RoundsInitially == RoundsInit => RoundsInv /\ Counted = {}
<1> SUFFICES ASSUME RoundsInit PROVE RoundsInv /\ Counted = {}
  OBVIOUS
<1>1. Inv /\ Counted = {}
  BY Fresh DEF RoundsInit, Init
<1>2. round \in 1 .. MaxRound /\ run \in {"waits", "ended", "failed"}
  BY RoundAssumption DEF RoundsInit
<1> QED
  BY <1>1, <1>2 DEF RoundsInv

\* The census counts with a FiniteSets of its own.
LEMMA CensusCardinality == Repeated!Cardinality(Node) = Cardinality(Node)
BY DEF Cardinality, Repeated!Cardinality

\* Every step of the simulation is one of the census, or none.
LEMMA RoundsStep ==
    ASSUME RoundsInv, [RoundsNext]_roundVars
    PROVE  RoundsInv' /\ [Repeated!Next]_(Repeated!vars)
<1> USE DEF RoundsInv
<1>1. CASE InRound(Next) \/ UNCHANGED roundVars
  <2>1. (Next \/ UNCHANGED vars) /\ UNCHANGED round /\ UNCHANGED run
    BY <1>1 DEF InRound, roundVars
  <2>2. CASE Counted' = Counted /\ UNCHANGED childCount
    BY <2>1, <2>2, RoundStep DEF Repeated!vars
  <2>3. CASE \E n \in Node : n \notin Counted /\ Counted' = Counted \cup {n} /\ UNCHANGED childCount
    BY <2>1, <2>3, RoundStep DEF Repeated!Next, Repeated!Count
  <2>4. CASE Counted = Node /\ Counted' = Counted /\ childCount = NoCount /\ childCount' = size
    <3>1. Repeated!Report
      BY <2>1, <2>4, CensusCardinality DEF Repeated!Report, size
    <3> QED
      BY <2>1, <3>1, RoundStep DEF Repeated!Next
  <2> QED
    BY <2>1, <2>2, <2>3, <2>4, RoundStep
<1>2. CASE NextRound
  <2>1. /\ childCount # NoCount /\ round < MaxRound /\ round' = round + 1
        /\ run' \in {"waits", "failed"}
        /\ at' = [n \in Node |-> "announce"] /\ announced' = {}
        /\ reply' = [n \in Node |-> NoCount] /\ childCount' = NoCount
        /\ UNCHANGED down
    BY <1>2 DEF NextRound, NewInstances, RoundEnds
  <2>2. Inv' /\ Counted' = {}
    <3>1. down' \subseteq Node
      BY <2>1 DEF Inv, TypeOK
    <3>2. TypeOK'
      <4>1. at' \in [Node -> {"announce", "replies", "counted", "done"}]
        BY <2>1
      <4>2. reply' \in [Node -> 1 .. Cardinality(Node) \cup {NoCount}]
        BY <2>1
      <4> QED
        BY <2>1, <3>1, <4>1, <4>2 DEF TypeOK
    <3>3. Counted' = {}
      BY <2>1 DEF Counted
    <3> QED
      BY <2>1, <3>2, <3>3 DEF Inv, AnsweredAreDone, CountedHaveAnswers, RepliesCountSubtrees,
                              ResultIsSize
  <2>3. round' \in 1 .. MaxRound
    BY <2>1, RoundAssumption
  <2>4. Repeated!Again
    BY <2>1, <2>2 DEF Repeated!Again
  <2> QED
    BY <2>1, <2>2, <2>3, <2>4 DEF Repeated!Next
<1>3. CASE Return
  <2>1. /\ UNCHANGED vars /\ UNCHANGED round /\ run' \in {"ended", "failed"}
    BY <1>3 DEF Return
  <2>2. Inv' /\ Counted' = Counted /\ UNCHANGED childCount
    BY <2>1, OtherStep
  <2> QED
    BY <2>1, <2>2 DEF Repeated!vars
<1> QED
  BY <1>1, <1>2, <1>3 DEF RoundsNext

LEMMA RoundsInvHolds == RoundsSpec => []RoundsInv
<1>1. RoundsInit => RoundsInv
  BY RoundsInitially
<1>2. RoundsInv /\ [RoundsNext]_roundVars => RoundsInv'
  BY RoundsStep
<1> QED
  BY <1>1, <1>2, PTL DEF RoundsSpec

-----------------------------------------------------------------------------
(* Theorems.                                                               *)

\* The instances of every round keep their types; no answer is more than the
\* nodes of the tree.
THEOREM RoundsTypeCorrect == RoundsSpec => []RoundsTypeOK
<1>1. RoundsInv => RoundsTypeOK
  BY DEF RoundsInv, Inv, RoundsTypeOK
<1> QED
  BY <1>1, RoundsInvHolds, PTL

\* Whichever nodes go down, and in whatever order the answers come, an answer
\* counts the whole subtree of the node it is from (protocol.go, Dispatch).
THEOREM AnswersAreWhole == RoundsSpec => []RepliesCountSubtrees
<1>1. RoundsInv => RepliesCountSubtrees
  BY DEF RoundsInv, Inv
<1> QED
  BY <1>1, RoundsInvHolds, PTL

\* The simulation implements the census: every round counts every node once,
\* gives their number, and begins when all have answered in the last
\* (simulation/protocol.go, lines 82-97).
THEOREM SimulationIsCensus == RoundsSpec => CensusSpec
<1>1. RoundsInit => Repeated!Init
  BY RoundsInitially DEF Repeated!Init, RoundsInit, Init
<1>2. RoundsInv /\ [RoundsNext]_roundVars => [Repeated!Next]_(Repeated!vars)
  BY RoundsStep
<1> QED
  BY <1>1, <1>2, RoundsInvHolds, PTL DEF RoundsSpec, CensusSpec, Repeated!Spec
=============================================================================
