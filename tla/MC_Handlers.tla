---------------------------- MODULE MC_Handlers ----------------------------
(***************************************************************************)
(* Two chains; a signer owns the darc of one of them, and another one the  *)
(* darcs of both.                                                          *)
(***************************************************************************)
EXTENDS Handlers, TLC

CONSTANTS x1, x2, s1, s2

MCOwner == x1 :> {s1, s2} @@ x2 :> {s2}

MCFlows == Permutations(Flow)
=============================================================================
