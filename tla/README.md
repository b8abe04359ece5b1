# ALINE in TLA+

ALINE attests that online content existed. A user who looks at a web page asks
a cothority (a set of conodes that keep a ledger, ByzCoin) to attest the page
or a section of it. Every node fetches the page itself; if the nodes agree, the
content, its hash and the date are written to the ledger. Anybody who is given
the content and the id of the attestation can have it checked against the
ledger.

This directory models that system from its source, checks the models with TLC,
and proves with TLAPS what can be proved for all sizes.

## 1. Inventory

| Component | State | Operations | Interacts through |
|---|---|---|---|
| webPage contract (`cothority_webpage_contract/byzcoin`) | the ledger; per run of the contract, the extracted content | Spawn, Delete (there is no Invoke) | ByzCoin calls it on every node; it calls the web and the node's clock |
| ALINE popup (`ALINE/src`, `ALINE/scripts`) | screen, checkbox, saved option, `Handler`'s static fields, ids shown | certify page or section, verify, download, open, close | requests to the cothority; scripts and Selector Gadget on the page; `chrome.storage` |
| Template protocol (`protocol`) | one run: who has been announced to, who has answered | Start, Dispatch | messages along a tree of nodes; a channel to the service |
| Template service (`service`, `api.go`) | `storage.Count` in memory and on disk | Clock, Count, load, save | starts the protocol; clients over websockets |
| legacy handlers (`CothorityUtilities.ts`, `Handler.ts`) | `Handler`'s roster, darc, skipchain, signer; the loader | initRoster, getDarc, loadSigner, addRule, printWebPageContract | requests to the cothority; the popup calls the first three with values of its own |
| html client (`html/index.html`, `html/src/index.js`) | the text area; per button a lock and a socket per address, with its listeners | Clock, Count, Status; createSocket | websockets to conodes, which answer, fail or are closed |
| Java API (`external/java`) | per object, an instance and the values parsed from it | three constructors, three updates, two writes, getKeyValues | transactions to and proofs from the ledger |
| conode supervisor (`conode/run_nodes.sh`) | the file `running`, `public.toml`, the processes | start, restart loops, Ctrl-C | signals, files, ports |
| simulations (`simulation`) | the round | rounds of the protocol; calls of Clock | the protocol, the service |
| app | none | two commands | the service |

Hard behaviours, by component:

- *contract*: the document is fetched first and dated later, on every node at
  its own time; the page changes and goes down between; midnight passes the
  nodes one by one; a faulty leader proposes what it likes; transactions are
  signed with counters that are read earlier, by users who share a signer, and
  can be delivered again.
- *popup and legacy handlers*: flows run beside each other, and between two
  awaits everything they share can change; errors are shown, swallowed or
  turned into success; the popup closes under its flows.
- *protocol and simulations*: nodes that go down, answers in any order, trees of
  any shape; a round begins when the root has its count, and nobody looks at
  the other nodes.
- *service*: requests that interleave between increment and save; crashes.
- *html client*: requests share a socket, whose listeners are all called; error
  listeners outlive their request; a connection ends without an error.
- *Java API*: proofs that are old or of something else; what others write
  between a block and the proof that is read; an instance that is replaced
  before it is checked.
- *supervisor*: restart loops against a flag that the next run of the script
  sets again; Ctrl-C at any moment; `set -e` in the loops.

What makes them correct is listed with the runs below; the hazards, each at its
line, are in `PROJECT.json`.

## 2. Modules

```
WebPageData            documents, selectors, content, hashes, instances
  AttestationRegistry    abstract: what the cothority promises
    WebPageContract        nodes, blocks, Spawn and Delete  (implements the registry)
      WebPageContract_proofs
    Popup                  the extension, over the registry
      Popup_proofs
Handlers               the Handler's functions, with any values
  Handlers_proofs
Census                 abstract: rounds in which every node is counted once
CountProtocol          one run of the Template protocol
  Rounds                 the simulation: the protocol round after round
                         (implements the census)
    Rounds_proofs          of both
ClockService           the counter of the Template service
  ClockService_proofs
HtmlClient             a button of the html page and its sockets
  HtmlClient_proofs
KeyValueInstance       the Java objects, over a ledger
  KeyValueInstance_proofs
RunNodes               run_nodes.sh, run after run
  RunNodes_proofs
MC_*                   values for TLC
```

`AttestationRegistry` is the seam. `WebPageContract` is proved to implement it;
`Popup` is built on it, so that what is checked of the popup holds over the
nodes and the blocks, without exploring them again.

### WebPageContract

`web` is what each page serves now (a document, nothing, or a connection that
hangs), `clock` the day at each correct node, `tx` what clients sent, `block`
the block being made, `fetched` and `verdict` how far each node is in running
the contract. `served` is a history variable: every page, document and day that
ever went together.

| Code (`byzcoin/webpage.go`) | Action |
|---|---|
| Spawn up to the fetch, its errors (31-75) | `SpawnFails` |
| fetch and extraction (52-92) | `SpawnFetch` |
| date, hash, state change (94-114) | `SpawnCreates` |
| Delete (116-127) | `Delete` |
| `WebPageInstance.spawn` (counter, signature, send) | `Submit` |

Spawn is two steps because the fetch takes time and the clock is read after it.
ByzCoin (`StartBlock`, `Propose`, `Commit`, `Abandon`, `Authorised`, `Agree`)
is not in the repository; it is modelled as the contract, its test and
`byzcoin/README.md` rely on it: the leader runs the contract, every node runs
it again and compares, a counter is used once. A faulty node has no state: as a
leader it proposes any outcome of `Arbitrary`, and it agrees to everything. A
block holds one transaction.

Content is compared and never looked into. `Hash` is injective on the pair of
content and date, because a date has ten characters. A selector that matches
nothing, or does not compile, selects `NoMatch`, whose content is empty, as
goquery does. Two errors of Spawn are left out: that of `Html()` (lines 88-91),
which renders a document that goquery has just parsed into memory, and that of
encoding a record of five plain fields (lines 104-107). Neither occurs on these
values; either would refuse the Spawn as `SpawnFails` does.

### Popup

A flow is a chain of handlers between a click and its last answer. `flow` says
what each flow awaits (`tabs`, `roster`, `darc`, `rpc`, `counter`, `chain`,
`proof`) and does; everything else is shared: the `screen` (spinner, loader,
status, download buttons, form, id), the checkbox `box`, its stored value, the
pasted text, the Handler's fields (`loaded`). One action per answer, with the code from that
answer to the next await:

| Code | Action |
|---|---|
| `Handler.LoadRoster`, `getDarc` until its request | `RosterAnswer` |
| `Handler.SetDarc`, `loadSigner`, reading the checkbox or the text | `DarcAnswer` |
| RPC made; counter read; transaction sent; block seen | `RpcAnswer`, `CounterAnswer`, `ChainAnswer` |
| `Handler.SpawnWebPage`'s result, back to `AlineFeatures` | `CertifyProof`, `ShowCreated` |
| `getInstanceAndCompare` | `VerifyProof`, `Matches` |
| `RetrieveContentOfAttestation` | `DownloadProof` |
| any rejected request | `RequestFails` (and the branches of the two answers above) |
| window.onload; Chrome closes the popup | `Open`, `Close` |
| section: option saved; the gadget is on the page, or its script cannot run | `ClickSection`, `GadgetAnswer` |
| section picked, found, certified; option restored | `PickSection`, `SelectorFound`, `NoGadget`, `RestoreAnswer` |

Microtasks that follow an answer without another wait are part of its action:
a status that is set and overwritten within them (the error shown in
`SpawnWebPage`'s `finally`, replaced by success) is never seen. `Decoded` is
what the extension reads from the bytes of a content; it is the identity on
UTF-8 only. The registry applies a transaction that carries the next counter;
other clients attest and delete at will.

Four exceptions are caught by nobody: `tabs[0].url` when no tab is active, read at
once for a download and the infos (`AlineFeatures.ts:117`, `132`) and after the
Handler is ready for a certification (`:44`); a text without `Instance ID: `
(`:102`); and an empty id, which the library may refuse to look for
(`AlineUtilities.ts:178`) or may take for one that does not exist: both are in
the model, because the library is external. Such a flow ends and leaves the
spinner, if there is one; `screen.raised` remembers that.

`touched`, `files`, `ticked` and `crossed` are history: what the user set, what
was downloaded, and what was answered with a tick or a cross. Which of tick and
cross the screen shows in the end is not modelled.

### Handlers

`Popup` shows the Handler as the extension uses it, with one roster and one
skipchain. `Handlers` is its interface: any rosters, chains, signers and rules,
functions that run beside each other, and darcs that evolve on the ledger.

| Code | Action |
|---|---|
| `initRoster`, `LoadRoster` | `LoadRoster`, `RosterAnswer`, `LoadMalformed` |
| `getDarc`, `SetDarc` | `SetDarc`, `DarcAnswer` |
| `loadSigner`, `SetSigner` | `SetSigner` |
| `addRule`, `AddRule`, by answer | `AddRule`, `RuleRpcAnswer`, `InstanceAnswer`, `EvolveAnswer` |
| `printWebPageContract`, `PrintWebPage` | `PrintWebPage`, `PrintRpcAnswer`, `ProofAnswer` |
| any rejected request | `RequestFails` and the branches of the answers |

The ledger is external: `Apply` evolves the latest version of a darc and
refuses an evolution of another one. `asked` and `stuck` are history.

### CountProtocol, Rounds and ClockService

`CountProtocol` has one action per stretch of `Dispatch` between two channel
operations. onet hands the answers of all children over together; that is
external. `SendToChildren` stops at the first child that it cannot reach, in
onet's order, so that with a child down any of the others may be left out
(`Reached`). A node that goes down loses what is under way to it and does nothing
more. `Rounds` extends it with `SimulationProtocol.Run`: `NextRound` makes new
instances on all nodes once the count is there and right, `Return` ends the
simulation. `Census` is what that promises: every node counted once per round,
the result their number, a round begun when all have answered in the last.
`Counted` maps the nodes' positions to it: a node is counted when it has
answered, and the root when it has its answers. A node that has answered may
still be about to call `Done`, which only onet hears.

`ClockService` has one action per stretch of `Clock` between two points where
another goroutine can run; a save writes what is in memory then. A crash ends
all requests; `newService` loads the counter again. `written` is history.

What the counter counts is said in two ways. `api.go` (48-57) returns "the
number of calls" to Clock; `struct.go` (37, 41) and `service.go` (73) speak of
how many times the protocol was run or instantiated. They differ by the requests
that are refused before there is a protocol (`NoProtocol`), which the code
counts. `CountsRuns` takes neither side: the counter is never above the calls,
and until a crash never below the calls that were not refused.

### HtmlClient

The page has three buttons that are alike and share nothing but the text area;
the module is one of them. A socket is its `readyState`, what waits until it
opens (`unsent`), what the server has to answer (`pending`), and its listeners
(`listening` for messages, `alarmed` for errors).

| Code | Action |
|---|---|
| the text area | `Edit` |
| a click (`index.html` 44-66), `createSocket` (`index.js` 84-115) | `ClickAddress`, `ClickNoAddress` |
| the listeners of "open", "message", "error" | `Opens`, `Answer`, `Fails` |
| an answer whose decoding raises an exception (`index.html` 56, 81, 105) | `AnswerUndecoded` |
| a server that waits for a count that does not come (`service.go` 67) | `Hangs` |
| the browser and the conode (external) | `Closing`, `ClosesQuietly`, and when the above happen |

A server that hangs (`hung`) keeps the connection open and answers nothing more
on it; the connection can still fail or be closed, and the next click connects
anew. `got` and `by` say which answer was shown for a request and who gave it;
`misled` and `silent` are history and name the two ways in which the code gives
no guarantee (see section 3).

### KeyValueInstance

An object is what it holds (`instance`), the values parsed from it
(`keyValues`) and the method that runs (`call`). Both carry the version they
are of. `update(Proof)` is `Takes`, which `Parses` or `Refuses`; the
constructors and the other updates lead to it (`GivenProof`, `AskFor`,
`Update`, `Spawn`, `UpdateKeyValueAndWait`, then `InBlock`, `ProofAnswer`,
`Fails`). `UpdateKeyValue` does not wait. `SetValue` is the caller who changes
an element of the list that `getKeyValues` copied: the elements are not copied.
`Refuses` is an instance of another contract, or one whose data do not parse
(`Garbled`): the instance is replaced by then, the values are not.
The ledger is external and applies transactions in the order of the counter.

### RunNodes

`script` is where each run of `run_nodes.sh` is, `loop` where each of its
background loops is (between the test of the file, the start of the conode, its
end and the sleep). `CtrlC` and `Stop` are the two lines of the trap;
`Interrupt` is Ctrl-C before the trap is set. A conode that finds its port taken
ends at once. `Failed` is where a loop goes when its conode fails: to `sleep`,
or, with `-q` and for all conodes but the first, to its end, because of `set -e`.

## 3. Runs

| Run | Shows | Bounds | States |
|---|---|---|---|
| `contract_ledger` | what is on the ledger was served, no later than its date, for the request; counters, replays, deletion; agreement in the end; the registry is implemented | 2 correct nodes and 1 faulty, quorums of 2 with a correct node in each; 2 days; 1 Spawn, 1 Delete; documents with the same text and other markup | 125,000 |
| `contract_deterministic` | *violation*: two nodes, two dates | a page that never changes | stops |
| `popup_section` | the section's option is kept; flows end | 2 flows; sections, the checkbox, verifications and the infos; closing; nothing is pasted | 170,000 |
| `popup_flows` | the Handler is ready; nothing is shown to run when nothing runs; ids shown are real, downloads verify, ticks are proofs, no text gets both answers | 2 flows, 2 ids; forged texts; another client that attests and deletes | 1,244,000 |
| `popup_created` | *violation*: success without an attestation | 1 flow | stops |
| `handlers` | what is loaded belongs together; the loader stops; rules go where they were asked for and stay | 2 functions at a time, 2 chains, 2 signers, darcs of 3 versions | 1,098,000 |
| `count_rounds` | whole subtrees are counted; rounds are a census; the simulation ends | binary tree of 6, any node goes down, 2 rounds | 4,000 |
| `count_alone` | *violation*: a tree of one | 1 node | stops |
| `clock_crashes` | saved is kept; the counter lies between the runs and the calls | 4 requests (symmetric), 2 crashes | 7,400 |
| `html_sockets` | answers are taken by their own request; the button is unlocked unless the answer is lost | 2 addresses, 4 requests; servers that hang | 73,000 |
| `keyvalue_objects` | an object reads what it writes to; a write that was waited for is read | 2 objects, 3 transactions, 1 foreign instance, data of a second version that do not parse | 794,000 |
| `run_nodes` | only loops caught in a start outlive Ctrl-C; loops end; conodes come back | 2 conodes, 2 runs, 2 crashes | 119,000 |

*Why these are enough.*

- *contract*: disagreement, of two documents or two dates, needs two nodes, and a
  quorum that a faulty node can tip needs one correct node that differs. Dates
  only compare, so that one midnight shows what many would. The theorems lift
  the bounds.
- *popup*: its hazards are of two flows that share the screen; a third adds
  nothing that two do not. `popup_section` and `popup_flows` differ in what the
  user does, because all of it at once is out of reach: the first has what the
  option depends on, popups that close among it, and no text to verify; the
  second has what the Handler, the screen and the ledger depend on, in one popup.
  That the second's properties hold in popups that close and open again is part
  of the theorems.
- *handlers*: a load between two answers of a rule needs two functions; two
  evolutions of one darc need two as well; three versions let an outdated one be
  refused.
- *rounds*: six nodes give a binary tree of three levels, with a node that has
  two children and one that has one; a second round begins on what the first left.
- *html client*: a stale listener needs a request that was answered, one at another
  socket, and an error between; a fourth request makes use of a socket again.
- *Java*: two objects, of which one writes while the other reads; three
  transactions are a spawn and a write of each.
- *supervisor*: two runs, so that loops of the first meet the file of the second,
  and two crashes, so that a conode can come back twice.

Deadlock is not checked where the system really stops: a simulation or a run of
the protocol that is over, requests that have all been answered
(`clock_crashes`), transactions that are used up (`keyvalue_objects`), and
scripts whose last run is over (`run_nodes`).

*Violations* are disagreements between the code and what it, its tests or its
documentation say; `findings` quotes the lines.

The models have further behaviours that surprise, and that no run states, or
that a property names as its exception (one more is not in the models: two
submissions beside each other can end with the tick of one and the cross of the
other on the screen, `AlineUtilities.ts:136`, although each text is judged as
itself, `OneVerdict`):

- the exceptions that nobody catches leave the spinner on (section 2);
  `IdleLooksIdle` exempts a spinner that one of them left and that nothing has
  shown or hidden since, and nothing else;
- the stored option is read while the section's flow goes on
  (`AlineUtilities.ts:70`), and a storage slower than three answers loses it
  (`OptionKept`); the listener that would restore the checkbox of any popup is
  registered too late and never runs (`popup.ts:24`);
- opening the popup before a section is picked certifies whatever the gadget
  shows (`findCSSSelector.js:4`), which selects nothing;
- content that is not UTF-8 is decoded to something else
  (`AlineUtilities.ts:189`), and its download is answered with a cross; the
  runs take `Decoded` for the identity;
- a malformed roster file leaves the loader on (`Handler.ts:82`; `LoaderStops`);
  `AddRule` grants the rule to the signer who is loaded at the second answer,
  not to the one who asked;
- a request to Clock for which no protocol is created is counted all the same
  (`service.go:53`), as `api.go` has it and `struct.go:37` does not
  (`CountsRuns`);
- an error listener outlives the answer to its request (`index.js:97`) and can
  unlock the button while a later request waits at another socket; the next
  click then shares a socket, and an answer goes to two requests (`misled`);
- a connection that is closed without an error, a file without an address, an
  answer that does not decode, and a server that hangs lock a button for good
  (`silent`; `Unlocks`);
- an object whose update was refused keeps the values of one instance and
  writes to another (`KeyValueInstance.java:116`; when the contract is another,
  `update()` alone never mends it);
- a caller who changes a value of `getKeyValues` changes the object, and what the
  next caller is given is no longer "stored in this instance"
  (`KeyValueInstance.java:195`), until the next update; `ReadsWhatItHolds` is of
  values that nobody changed;
- a connection to a page that hangs is never given up (`webpage.go:67`): no
  transaction is settled while it lasts (`Calm`);
- with `-q`, a conode other than the first that fails is not started again
  (`run_nodes.sh:78` under `set -e`; `ComesBack`).

## 4. Fairness

- `WebPageContract`: correct nodes keep running (weak fairness of the contract
  and of proposing); a transaction in the network is again and again taken up
  by a correct leader (strong fairness, because a block of another one comes
  between); a block on which a quorum of correct nodes agrees is committed, and
  one on which they cannot agree is given up. Nothing is assumed of faulty nodes or of
  the world: `Calm` is a premise of the property, not fairness. It is needed,
  because the fetch has no timeout and the date is the node's.
- `Popup`: an answer or a failure of each flow's request comes in the end;
  `sendTransactionAndWait` and `fromByzcoin` wait for ten blocks or tries and
  no longer. Nothing is assumed of the cothority: a transaction may never be
  applied. Users are not fair either.
- `CountProtocol`, `Rounds`: the goroutines of nodes that are up keep running, and
  so does the simulation. `SimulationEnds` has the premise that no node goes down.
- `HtmlClient`: a connection is opened or refused, and a close that began ends:
  the browser sees to both. A server that has a request answers it, or hangs:
  `service.go:67` waits for a count that need not come, while the connection
  stays open, so that no answer is assumed. Users are not fair.
- `RunNodes`: scripts and loops keep running; whether and when the user types
  Ctrl-C is open, and so are crashes. The premises of `LoopsEnd` and `ComesBack`
  say in which of those worlds something is claimed.
- `Handlers`, `KeyValueInstance`, `ClockService`: none, for want of a promise
  that something ends.

## 5. Proofs

`WebPageContract_proofs` proves, for any sets of nodes, pages, selectors,
transactions and days, from the assumptions named in the modules (every quorum
has a correct node; markers are not values): `TypeCorrect`, `LedgerIsGenuine`,
`NoneIsPostdated`, `RequestIsAnswered`, `NoReplay`, `LedgerIsExplained`,
`AttestationsAreImmutable` and `ImplementsRegistry`.

The argument has three layers, each inductive relative to the one before.

1. `RunInv`: types; requests have the shape of their kind; a node has a verdict
   only for the block under way. Needed because a commit copies a verdict whose
   transaction is only known through the block.
2. `GenuineInv`: what a page serves today is in `served`; what a correct node
   extracted is of a view in `served` no later than its clock; so is what it
   concluded. Since a quorum has a correct node and agreement is equality, the
   outcome that is committed is one that a correct node concluded. The ledger
   alone is not inductive: it says nothing of what is about to be written.
3. `LedgerInv`: the i-th transaction applied carries counter i, so that none is
   applied again; what was withdrawn had been applied; hence the ledger is
   explained by the log.

The refinement is the identity on `served`, `ledger` and `log`: `Serve` and
`NewDay` publish, `Commit` attests or withdraws, and all else stutters.

`ClockService_proofs` proves `CountTypeCorrect`, `NothingWrittenIsLost` and
`RunsAreCounted` for any finite set of requests and any number of crashes. The
invariant adds that a conode that is down has an empty memory and that the
counter in memory covers what is saved *and* what is counted and not yet saved;
without the second part a save could lower the counter on disk.

`Popup_proofs` proves every safety property of the popup that a run checks
(`PopupTypeCorrect`, `FlowsFindHandlerReady`, `NothingSpinsForNothing`,
`SavedOptionUsed`, `DownloadsAreOwn`, `TicksProveExistence`,
`VerdictsAreFinal`, `FilesVerify`), for any number of flows, texts, pages and
attestations. No property is inductive alone, because what breaks it is under
way in a flow:

- `Stages`: what a flow awaits fits what it does.
- `ReadyInv`: a flow that awaits the darc has the roster; a download runs, or is
  offered, only when roster and darc are there. The Handler's fields are never
  cleared, so that what one flow loaded stays for the others.
- `ScreenInv`: whoever could hide the spinner or the loader is still running, or
  has left the spinner with an exception.
- `OptionInv`: while a section is being certified, the checkbox shows what was
  saved, or the storage has not answered, or the user touched it.
- `SentInv`: one flow per id; a flow's id is unsent before its transaction, sent
  after, and applied when it awaits the proof; what the ledger has for it is
  what was sent. `ShownIdAttested` follows when the proof arrives.
- `LedgerInv`, `VerdictInv`, `FileInv`: an id is applied once, so that an
  attestation that is gone never comes back as another; what was said of a text
  stays true for as long as the attestation is there.

`FilesVerify` has a hypothesis, that `Decoded` is the identity on contents: the
extension decodes bytes as UTF-8, and for other pages the property is false (see
section 3). It is what the run assumes as well.

`Handlers_proofs` proves `HandlersTypeCorrect`, `LoadsInOrder`,
`LoaderIsStopped`, `RulesAreWhereAsked` and `NoRuleIsLost` for any handlers
beside each other. The properties speak of the Handler and of the darcs; what
breaks them is carried by a function between two answers. The invariant
therefore says what is still true of it then: what a function needed stays
loaded while it waits (`Launched`); the rules it carries were asked for, of the
darc they are of (`Reasoned`); an evolution that can still be applied has all
the rules of its darc (`Current`): a darc only changes with its version, and an
outdated evolution is refused.

`Rounds_proofs` proves `RoundsTypeCorrect`, `AnswersAreWhole` and
`SimulationIsCensus` for every tree and any number of rounds, nodes going down
whenever they do. It has three parts.

1. The sum. A node's answer is a fold over its children, which the community
   module defines by recursion over sets. `FoldUnique` says that at most one
   function satisfies that recursion (a smallest set on which two differ cannot
   exist); the sizes of unions of disjoint sets satisfy it (`SumOfSizes`). This
   takes the place of an induction over data.
2. The tree. That all nodes are below the root is assumed as `TreeAssumption`
   has it, without reachability: no nodes other than the root have only each
   other for parents. From it, a node is not below its child, siblings have no
   descendant in common, and everyone is below the root. Hence a node whose
   children have answered for their subtrees sends the size of its own
   (`SumCountsSubtree`).
3. The rounds. A node answers only when it is done and is counted only when its
   children have answered, so that the root counts last (`RootCountsLast`);
   with the size of the tree as its sum, its report is the census's. What
   happens between, and the end of the simulation, stutters.

`KeyValueInstance_proofs` proves `KeyValueTypeCorrect`, `ReadsAreHeld` and
`WritesAreRead` for any number of objects and transactions. Versions are numbers
of writes; they are compared as the sets of positions in the log at which an
instance was written, and these only grow, because what is in the log was sent
once and for all (`Numbered`, `LogStays`, `VersionsStay`). `WaitsInv` carries
what a method knows across its two answers: the transaction it waits for is
of the instance it will ask for, and is in the log when it asks. `HeldInv` is
needed because an object under construction is lost when its proof is refused,
and one that exists is not.

`RunNodes_proofs` proves `RunNodesTypeCorrect`, `StoppedButForLateOnes` and, in
addition to what the run checks, `RosterIsOfThisRun`, for any number of conodes,
runs and crashes. One run at a time is under way and it is the newest
(`Ordered`), so that the file is gone from its Ctrl-C on (`FileGone`), and no
loop, of whichever run, can begin to start a conode again (`OnlyLateStart`).
`Listed` relates the length of `public.toml` to the conode that is next.

`HtmlClient_proofs` proves `HtmlTypeCorrect` and `AnswersAreOwn` for any servers
and any number of requests. That an answer goes to its own request or a later
one follows from the order of requests at a socket, and from listeners being of
requests that are still there (`Waiting`); that it is its own needs the lock
(`Apart`): as long as no stale listener has unlocked the button, only the last
request is anywhere in the sockets.

*Assumptions.* The theorems rest on the named assumptions of the modules and on
nothing else: quorums have a correct node; the nodes form a tree; sets that are
counted are finite; bounds are natural numbers; a marker for "nothing" (`Idle`,
`NotSent`, `NoInstance`, `NoCount`) is not one of the values it stands apart
from (`AbsentAssumption`, `IdleAssumption`, `NotSentAssumption`). TLC evaluates
each of them in the runs.

Every safety invariant, action property and refinement that a passing run checks
is a theorem. Only checked by TLC: liveness (`EventuallySettled`, `FlowsEnd`,
`SimulationEnds`, `Unlocks`, `LoopsEnd`, `ComesBack`), which is out of the
prover's reach; and the violations, which are single behaviours.

## 6. What is not modelled

ByzCoin, onet, Chrome, the browser, Selector Gadget, bash and the libraries are
environment. Left out as data: formatting, logs, the wording of the screen, the
coding of messages (an argument, a file or a proof either decodes or does not).
Left out as operations: downloading the text that the screen shows,
`Service.NewProtocol` (it returns nothing), what only prints (`PrintInfo`,
`displayStatus`). Several transactions in one block, and blocks that several
leaders make at once, are ByzCoin's. `SimulationService.Run` calls Clock in
turn, which `ClockService` has with any interleaving. The command-line app makes
one call and prints; the Java test controllers start containers; generated
protobuf code, `libtest.sh` and the report have no behaviour of their own.

jQuery and the bundled scripts are third-party or built from the sources that
are modelled. They are also 88 % of the repository's JavaScript and TypeScript:
`scripts/jquery-3.4.1.js` has 10,598 of 12,436 lines. Of the project's own code
in these languages the map covers what changes state; the share of all
lines stays small however much of it is modelled.

## 7. Plan

Done: the registry, the contract, the popup, the Handler, the protocol with its
rounds and census, the service, the html client, the Java objects and the
supervisor, each with the proofs of its safety properties.

Left, all of it proof:

1. What liveness rests on and is itself safety: in `HtmlClient`, that a locked
   button has a request somewhere in its sockets unless it is `silent`; in
   `Rounds`, that as long as no node is down some node can go on; in `RunNodes`,
   that a port is free or served by a loop.
2. `Popup` over the contract: that what the popup shows is genuine when
   `WebPageContract` takes the place of the registry, as a theorem about both.
