---------------------------- MODULE WebPageData ----------------------------
(***************************************************************************)
(* The data of a webPage contract: what a client asks the cothority to     *)
(* attest, what a node extracts from a document, and what is written to    *)
(* the ledger.                                                             *)
(*                                                                         *)
(* A document is what a node gets when it fetches a page.  For a CSS       *)
(* selector it has one first matching section (NoMatch when nothing        *)
(* matches, or when the selector cannot be compiled: goquery matches       *)
(* nothing then).  A section has a text and a markup, which are compared   *)
(* and never looked into.                                                  *)
(***************************************************************************)
EXTENDS Naturals

CONSTANTS
    Page,        \* URLs
    Selector,    \* CSS selectors
    Section,     \* first matches of selectors in documents
    Content,     \* character strings that can be attested
    NoContent,   \* the empty string
    Text,        \* [Section -> Content], goquery's Selection.Text()
    Markup,      \* [Section -> Content], goquery's Selection.Html()
    NoMatch,     \* the empty selection
    Doc,         \* the documents that pages can serve
    Day          \* the dates a node's clock can show, counted in days

ASSUME DataAssumption ==
    /\ NoContent \in Content
    /\ NoMatch \in Section
    /\ Text \in [Section -> Content]
    /\ Markup \in [Section -> Content]
    /\ Text[NoMatch] = NoContent /\ Markup[NoMatch] = NoContent
    /\ Doc \subseteq [Selector -> Section]
    /\ Day \subseteq Nat

\* The fields of ContractWebPageData that a client fills in.
Args == [url : Page, selector : Selector, textOnly : BOOLEAN]

\* blake2b of content followed by date.  A formatted date is ten characters
\* long, so that the concatenation determines both, and equal hashes mean
\* equal pairs.
Hash(content, date) == <<content, date>>

Hashes == Content \X Day

\* The content Spawn takes from a document.
Extract(doc, args) ==
    LET selection == doc[args.selector]
    IN  IF args.textOnly THEN Text[selection] ELSE Markup[selection]

\* What an instance of the contract holds.
Instance == [args : Args, content : Content, date : Day, hash : Hashes]

\* The instance Spawn makes of content on a day.
Attestation(args, content, date) ==
    [args |-> args, content |-> content, date |-> date,
     hash |-> Hash(content, date)]
=============================================================================
