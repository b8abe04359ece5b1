------------------------- MODULE MC_CountProtocol -------------------------
(***************************************************************************)
(* The binary trees of the tests, where a node's children follow in the    *)
(* order of the roster.                                                    *)
(***************************************************************************)
EXTENDS CountProtocol

MCTree == [n \in Node \ {Root} |-> n \div 2]
=============================================================================
