------------------------------ MODULE MC_Popup ------------------------------
(***************************************************************************)
(* One page with one section to pick, and one day.                         *)
(***************************************************************************)
EXTENDS Popup, TLC

CONSTANTS page1, full, picked, nothing, para, whole

MCSection == {whole, para, NoMatch}
MCContent == {NoContent, "page", "para", "forged"}
MCText == whole :> "page" @@ para :> "para" @@ NoMatch :> NoContent
MCMarkup == MCText
MCDoc == {full :> whole @@ picked :> para @@ nothing :> NoMatch}

\* Something forged under one of the ids.
MCForged == {[id |-> CHOOSE t \in SpawnTx : TRUE, content |-> "forged"]}

\* The pages are in UTF-8.
MCDecoded == [c \in Content |-> c]

MCFlows == Permutations(Flow)
=============================================================================
