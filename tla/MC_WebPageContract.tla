------------------------ MODULE MC_WebPageContract ------------------------
(***************************************************************************)
(* A cothority of two correct nodes and a faulty one, where two nodes make *)
(* a quorum, and one page that serves two documents.  Their selected       *)
(* sections have the same text and different markup, so that the nodes can *)
(* disagree on one rendering and agree on the other.                       *)
(***************************************************************************)
EXTENDS WebPageContract, FiniteSetsExt, TLC

CONSTANTS n1, n2, f, page, selector, para1, para2

MCSection == {para1, para2, NoMatch}
MCContent == {NoContent, "text", "markup1", "markup2"}
MCText == para1 :> "text" @@ para2 :> "text" @@ NoMatch :> NoContent
MCMarkup == para1 :> "markup1" @@ para2 :> "markup2" @@ NoMatch :> NoContent
MCDoc == {[s \in {selector} |-> para1], [s \in {selector} |-> para2]}
MCStaticDoc == {[s \in {selector} |-> para1]}
MCQuorum == kSubset(2, {n1, n2, f})

asked(textOnly) == [url |-> page, selector |-> selector, textOnly |-> textOnly]

\* A faulty leader proposes what a correct one would, content that no page
\* serves, or an answer to another request.
MCArbitrary == {Attestation(asked(TRUE), "text", 1),
                Attestation(asked(FALSE), "text", Max(Day)),
                Removed}
=============================================================================
