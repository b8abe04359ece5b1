------------------------------- MODULE Popup -------------------------------
(***************************************************************************)
(* The popup of the ALINE extension, over the registry of attestations.    *)
(*                                                                         *)
(* The popup runs JavaScript: a handler runs until it awaits an answer,    *)
(* and until the answer comes, other handlers run.  A flow is one such     *)
(* chain of handlers, begun by a click: it certifies a page or a section,  *)
(* verifies what the user pasted, or downloads what was certified.  No     *)
(* button is ever disabled, so that flows run beside each other; they      *)
(* share the screen and the Handler, whose fields are set and never unset. *)
(* When the popup closes (it does as soon as the user clicks elsewhere),   *)
(* its flows are gone, and so is what it showed; what was sent to the      *)
(* cothority is not.                                                       *)
(*                                                                         *)
(* The cothority is the registry, with the counter of the one signer that  *)
(* all users share; any request to it may fail.                            *)
(***************************************************************************)
EXTENDS AttestationRegistry

CONSTANTS
    Flow,            \* as many flows as run at a time
    UserDoes,        \* what the user of the instance does
    FullPage,        \* the selector "html"
    NothingPicked,   \* what Selector Gadget says before a section is picked
    Malformed,       \* a text without "Instance ID: "
    Pastes,          \* texts that the user may type
    Decoded,         \* [Content -> Content]: what the extension decodes from the
                     \* bytes of a content, which need not be UTF-8 ones
    NoId, NotSent, Idle

ASSUME DecodedAssumption == Decoded \in [Content -> Content]

ASSUME PopupAssumption ==
    /\ {FullPage, NothingPicked} \subseteq Selector
    /\ Pastes \subseteq [id : SpawnTx, content : Content]
    /\ NoId \notin SpawnTx

ASSUME ClicksAssumption == UserDoes \subseteq
    {"full", "section", "toggle", "submit", "download", "infos", "close"}

Paste == [id : SpawnTx, content : Content]
Job == [does : {"certify"}, id : SpawnTx, selector : Selector, textOnly : BOOLEAN]
         \cup [does : {"verify"}, paste : Paste \cup {Malformed}]
         \cup [does : {"download", "infos"}, id : SpawnTx \cup {NoId}]
Awaits == {"tabs", "roster", "darc", "rpc", "counter", "chain", "proof"}

\* These stand for the absence of a value, and are none.
ASSUME AbsentAssumption ==
    /\ Malformed \notin Paste
    /\ Idle \notin [at : Awaits, job : Job]
    /\ NotSent \notin [args : Args, counter : Nat]

VARIABLES
    open,        \* the popup is on the screen
    loaded,      \* the fields of Handler that are set
    screen,      \* what the popup shows
    box,         \* the checkbox txtOnly
    touched,     \* the user has set it since the popup opened
    stored,      \* textOnlyOrNot in chrome.storage
    restoring,   \* a read of textOnlyOrNot is under way
    finding,     \* findCSSSelector.js is running on the page
    starting,    \* startSelectorGadget.js is running on the page
    gadget,      \* Selector Gadget on the page: "off", or what it says
    textarea,    \* what the user pasted
    flow,        \* what each flow awaits and does
    tx,          \* the transactions sent to the cothority
    files,       \* the contents downloaded so far
    ticked,      \* what has been answered with a tick, and with a cross
    crossed

option == <<box, touched, stored, restoring>>
page == <<finding, starting, gadget>>
answers == <<files, ticked, crossed>>
vars == <<open, loaded, screen, option, page, textarea, flow, tx, answers,
          served, ledger, log>>

\* "raised" is history: since the spinner was last shown or hidden, a flow has
\* ended with an exception that nobody catches, and left the spinner.
Blank == [spinner |-> FALSE, raised |-> FALSE, loader |-> FALSE, status |-> "none",
          downloads |-> FALSE, form |-> FALSE, id |-> NoId]

NextCounter == Len(log) + 1

\* An id that nobody certifies under yet.
Fresh(id) ==
    /\ tx[id] = NotSent /\ id \notin Applied
    /\ \A f \in Flow : flow[f] # Idle /\ flow[f].job.does = "certify"
                         => flow[f].job.id # id

TypeOK ==
    /\ open \in BOOLEAN
    /\ loaded \subseteq {"roster", "darc", "signer"}
    /\ screen \in [spinner : BOOLEAN, raised : BOOLEAN, loader : BOOLEAN,
                   status : {"none", "creating", "created", "verifying", "problem",
                             "noId", "downloading", "downloaded"},
                   downloads : BOOLEAN, form : BOOLEAN, id : SpawnTx \cup {NoId}]
    /\ box \in BOOLEAN /\ touched \in BOOLEAN /\ stored \in BOOLEAN
    /\ restoring \in BOOLEAN /\ finding \in BOOLEAN /\ starting \in BOOLEAN
    /\ gadget \in {"off"} \cup Selector
    /\ textarea \in Paste \cup {Malformed}
    /\ flow \in [Flow -> [at : Awaits, job : Job] \cup {Idle}]
    /\ tx \in [SpawnTx -> [args : Args, counter : Nat] \cup {NotSent}]
    /\ files \subseteq Paste /\ ticked \subseteq Paste /\ crossed \subseteq Paste

Init ==
    /\ served = Page \X Doc \X Day
    /\ RegistryInit
    /\ open = FALSE
    /\ loaded = {}
    /\ screen = Blank
    /\ box = FALSE /\ touched = FALSE /\ stored = FALSE /\ restoring = FALSE
    /\ finding = FALSE /\ starting = FALSE /\ gadget = "off"
    /\ textarea = Malformed
    /\ flow = [f \in Flow |-> Idle]
    /\ tx = [t \in SpawnTx |-> NotSent]
    /\ files = {} /\ ticked = {} /\ crossed = {}

Shown(s) == [s EXCEPT !.spinner = TRUE, !.raised = FALSE]
Hidden(s) == [s EXCEPT !.spinner = FALSE, !.raised = FALSE]

\* An exception that nobody catches: what is on the screen stays.
Raised(s) == [s EXCEPT !.raised = s.spinner]

\* displayErrorForUser
Problem(s) == [Hidden(s) EXCEPT !.status = "problem"]

Loading(s, on) == [s EXCEPT !.loader = on]

Goes(f, at, job) == flow' = [flow EXCEPT ![f] = [at |-> at, job |-> job]]
Ends(f) == flow' = [flow EXCEPT ![f] = Idle]

At(f, at) == flow[f] # Idle /\ flow[f].at = at
Does(f, job) == flow[f].job.does = job

-----------------------------------------------------------------------------
(* The popup opens and closes; the option; Selector Gadget.                *)

\* window.onload: nothing is restored, because DOMContentLoaded is already
\* over; the page is asked whether Selector Gadget runs.
Open ==
    /\ ~open
    /\ open' = TRUE
    /\ finding' = TRUE
    /\ UNCHANGED <<loaded, screen, option, starting, gadget, textarea, flow, tx, answers, rvars>>

\* A gadget that is being put on the page gets there or not, and nobody hears
\* of it.
Close ==
    /\ "close" \in UserDoes /\ open
    /\ open' = FALSE
    /\ loaded' = {} /\ screen' = Blank /\ textarea' = Malformed
    /\ box' = FALSE /\ touched' = FALSE /\ restoring' = FALSE
    /\ finding' = FALSE /\ starting' = FALSE
    /\ gadget' \in {gadget} \cup {g \in {NothingPicked} : starting}
    /\ flow' = [f \in Flow |-> Idle]
    /\ UNCHANGED <<stored, tx, answers, rvars>>

Toggle ==
    /\ "toggle" \in UserDoes /\ open
    /\ box' = ~box /\ touched' = TRUE
    /\ UNCHANGED <<open, loaded, screen, stored, restoring, page, textarea, flow, tx,
                   answers, rvars>>

\* startSelectorGadget: the option is saved, and the script sent to the page
\* that puts the gadget there (bound: one at a time).
ClickSection ==
    /\ "section" \in UserDoes /\ open /\ ~starting
    /\ stored' = box
    /\ starting' = TRUE
    /\ UNCHANGED <<open, loaded, screen, box, touched, restoring, finding, gadget, textarea,
                   flow, tx, answers, rvars>>

\* executeScript answers: the gadget is there, or the script cannot run.  The
\* scripts that were sent to the page run in order.
GadgetAnswer ==
    /\ starting /\ starting' = FALSE
    /\ ~finding
    /\ \/ gadget' = NothingPicked /\ UNCHANGED screen
       \/ screen' = Problem(screen) /\ UNCHANGED gadget
    /\ UNCHANGED <<open, loaded, option, finding, textarea, flow, tx, answers, rvars>>

\* The user clicks on a section of the page, away from the popup.
PickSection ==
    /\ ~open /\ gadget # "off"
    /\ \E s \in Selector \ {FullPage, NothingPicked} : gadget' = s
    /\ UNCHANGED <<open, loaded, screen, option, finding, starting, textarea, flow, tx,
                   answers, rvars>>

\* A click that starts to certify what a selector selects.
StartCertifying(f, selector) ==
    /\ flow[f] = Idle
    /\ \E id \in SpawnTx :
          /\ Fresh(id)
          /\ Goes(f, "tabs", [does |-> "certify", id |-> id, selector |-> selector,
                              textOnly |-> FALSE])
    /\ screen' = [Shown(screen) EXCEPT !.status = "creating"]

\* findCSSSelector.js finds no gadget, or cannot run on the page.
NoGadget ==
    /\ finding /\ finding' = FALSE
    /\ \/ gadget = "off" /\ UNCHANGED screen
       \/ screen' = Problem(screen)
    /\ UNCHANGED <<open, loaded, option, starting, gadget, textarea, flow, tx, answers, rvars>>

\* Mutant: the gadget is closed before its selector is read.
SelectorFoundClosed(f) ==
    /\ finding /\ finding' = FALSE
    /\ gadget # "off" /\ gadget' = "off"
    /\ restoring' = TRUE
    /\ StartCertifying(f, gadget')
    /\ UNCHANGED <<open, loaded, box, touched, stored, starting, textarea, tx, answers, rvars>>

\* Mutant: the option is not restored.
SelectorFoundOnly(f) ==
    /\ finding /\ finding' = FALSE
    /\ gadget # "off" /\ gadget' = "off"
    /\ StartCertifying(f, gadget)
    /\ UNCHANGED <<open, loaded, box, touched, stored, restoring, starting, textarea, tx,
                   answers, rvars>>

\* findCSSSelector.js answers with the selector that the gadget shows, which
\* is certified at once (getSelectorAndCloseSelectorGadget).
SelectorFound(f) ==
    /\ finding /\ finding' = FALSE
    /\ gadget # "off" /\ gadget' = "off"
    /\ restoring' = TRUE
    /\ StartCertifying(f, gadget)
    /\ UNCHANGED <<open, loaded, box, touched, stored, starting, textarea, tx, answers, rvars>>

\* restore_options
RestoreAnswer ==
    /\ restoring /\ restoring' = FALSE
    /\ box' = stored
    /\ UNCHANGED <<open, loaded, screen, touched, stored, page, textarea, flow, tx,
                   answers, rvars>>

-----------------------------------------------------------------------------
(* Clicks.                                                                 *)

ClickFullPage(f) ==
    /\ "full" \in UserDoes /\ open
    /\ StartCertifying(f, FullPage)
    /\ UNCHANGED <<open, loaded, option, page, textarea, tx, answers, rvars>>

\* uploadTriggerTextForms: the form for what was downloaded appears.
ClickUpload ==
    /\ "submit" \in UserDoes /\ open
    /\ screen' = [screen EXCEPT !.form = TRUE]
    /\ UNCHANGED <<open, loaded, option, page, textarea, flow, tx, answers, rvars>>

\* uploadSubmitTextForms: the earlier answer is hidden (the tick or the cross are
\* not in the screen, but in ticked and crossed for good), the roster asked for.
ClickSubmit(f) ==
    /\ "submit" \in UserDoes /\ open /\ screen.form /\ flow[f] = Idle
    /\ screen' = [Shown(screen) EXCEPT !.status = "verifying", !.loader = TRUE]
    /\ Goes(f, "roster", [does |-> "verify", paste |-> Malformed])
    /\ UNCHANGED <<open, loaded, option, page, textarea, tx, answers, rvars>>

ClickDownload(f) ==
    /\ "download" \in UserDoes /\ open /\ flow[f] = Idle
    /\ screen.downloads
    /\ screen' = [Shown(screen) EXCEPT !.status = "downloading"]
    /\ Goes(f, "tabs", [does |-> "download", id |-> NoId])
    /\ UNCHANGED <<open, loaded, option, page, textarea, tx, answers, rvars>>

\* downloadInfosOfAttestation; nothing shows that it runs.
ClickInfos(f) ==
    /\ "infos" \in UserDoes /\ open /\ flow[f] = Idle
    /\ screen.downloads
    /\ Goes(f, "tabs", [does |-> "infos", id |-> NoId])
    /\ UNCHANGED <<open, loaded, screen, option, page, textarea, tx, answers, rvars>>

\* The user pastes a downloaded file, or types something.
PasteText ==
    /\ "submit" \in UserDoes /\ open /\ screen.form
    /\ textarea' \in files \cup Pastes
    /\ UNCHANGED <<open, loaded, screen, option, page, flow, tx, answers, rvars>>

-----------------------------------------------------------------------------
(* Answers.  A flow goes on to what it awaits next, or ends.               *)

Others == UNCHANGED <<open, option, page, textarea, rvars>>

\* chrome.tabs.query: the id to download is read now, unless there is no active
\* tab and tabs[0].url raises a TypeError.
TabsAnswer(f) ==
    /\ At(f, "tabs") /\ ~Does(f, "infos")
    /\ \/ Does(f, "certify") /\ Goes(f, "roster", flow[f].job)
          /\ screen' = Loading(screen, TRUE)
       \/ Does(f, "download") /\ Goes(f, "rpc", [flow[f].job EXCEPT !.id = screen.id])
          /\ screen' = Loading(screen, TRUE)
       \/ Does(f, "download") /\ Ends(f)
          /\ screen' = Raised(screen)
    /\ UNCHANGED <<loaded, tx, answers>> /\ Others

\* The information is shown on the page already: its file is made at once, or
\* the TypeError ends the flow; nothing showed that it ran.
TabsAnswerInfos(f) ==
    /\ At(f, "tabs") /\ Does(f, "infos")
    /\ Ends(f)
    /\ UNCHANGED <<loaded, screen, tx, answers>> /\ Others

\* Mutant: getDarc does not check that there is a roster.
RosterAnswerUnchecked(f) ==
    /\ At(f, "roster")
    /\ \E ok \in BOOLEAN :
          /\ loaded' = IF ok THEN loaded \cup {"roster"} ELSE loaded
          /\ screen' = Loading(IF ok THEN screen ELSE Problem(screen), TRUE)
    /\ Goes(f, "darc", flow[f].job)
    /\ UNCHANGED <<tx, answers>> /\ Others

\* LoadRoster, then getDarc as far as SetDarc's request: an error is shown and
\* swallowed, and only a roster that was never loaded stops the flow.
RosterAnswer(f) ==
    /\ At(f, "roster")
    /\ \E ok \in BOOLEAN :
          LET shown == IF ok THEN screen ELSE Problem(screen) IN
          /\ loaded' = IF ok THEN loaded \cup {"roster"} ELSE loaded
          /\ \/ /\ "roster" \in loaded'
                /\ screen' = Loading(shown, TRUE)
                /\ Goes(f, "darc", flow[f].job)
             \/ /\ "roster" \notin loaded'
                /\ screen' = Loading(Problem(shown), FALSE)
                /\ Ends(f)
    /\ UNCHANGED <<tx, answers>> /\ Others

\* What is read from the page once the Handler is ready: the checkbox for
\* SpawnWebPage, the pasted text for getInstanceAndCompare.
Continued(f) ==
    IF Does(f, "certify") THEN [flow[f].job EXCEPT !.textOnly = box]
                          ELSE [flow[f].job EXCEPT !.paste = textarea]

\* Two TypeErrors that nobody catches: tabs[0].url without an active tab, which
\* is read this late, and a text without "Instance ID: ".
Raises(f) == Does(f, "certify") \/ (Does(f, "verify") /\ textarea = Malformed)

\* SetDarc, then loadSigner, and the request that the flow is about.
DarcAnswer(f) ==
    /\ At(f, "darc")
    /\ \E ok \in BOOLEAN :
          LET shown == IF ok THEN screen ELSE Problem(screen)
              ready == ok \/ "darc" \in loaded
          IN \/ /\ ready /\ ~(Does(f, "verify") /\ textarea = Malformed)
                /\ loaded' = loaded \cup {"darc", "signer"}
                /\ screen' = Loading(shown, TRUE)
                /\ Goes(f, "rpc", Continued(f))
             \/ /\ ready /\ Raises(f)
                /\ loaded' = loaded \cup {"darc", "signer"}
                /\ screen' = Raised(Loading(shown, FALSE))
                /\ Ends(f)
             \/ /\ ~ready
                /\ screen' = Loading(Problem(shown), FALSE)
                /\ Ends(f)
                /\ UNCHANGED loaded
    /\ UNCHANGED <<tx, answers>> /\ Others

\* Mutant: success leaves the spinner.
ShowCreatedSpinning(s) ==
    [s EXCEPT !.status = "created", !.loader = FALSE, !.downloads = TRUE]

\* However SpawnWebPage ends, spawnWebPage resolves, and its caller shows
\* success.
ShowCreated(s) ==
    [Hidden(s) EXCEPT !.status = "created", !.loader = FALSE, !.downloads = TRUE]

\* Mutant: the loader of a failed verification or download is forgotten.
RequestFailsLoading(f) ==
    /\ \E at \in {"rpc", "counter", "chain", "proof"} : At(f, at)
    /\ screen' = IF Does(f, "certify") THEN ShowCreated(screen) ELSE Problem(screen)
    /\ Ends(f)
    /\ UNCHANGED <<loaded, tx, answers>> /\ Others

\* Mutant: a block with the transaction is waited for without a bound.
RequestFailsUnbounded(f) ==
    /\ \E at \in {"rpc", "counter", "proof"} : At(f, at)
    /\ screen' = IF Does(f, "certify") THEN ShowCreated(screen)
                                       ELSE Loading(Problem(screen), FALSE)
    /\ Ends(f)
    /\ UNCHANGED <<loaded, tx, answers>> /\ Others

\* Any request of a flow fails.
RequestFails(f) ==
    /\ \E at \in {"rpc", "counter", "chain", "proof"} : At(f, at)
    /\ screen' = IF Does(f, "certify") THEN ShowCreated(screen)
                                       ELSE Loading(Problem(screen), FALSE)
    /\ Ends(f)
    /\ UNCHANGED <<loaded, tx, answers>> /\ Others

RpcAnswer(f) ==
    /\ At(f, "rpc")
    /\ Goes(f, IF Does(f, "certify") THEN "counter" ELSE "proof", flow[f].job)
    /\ UNCHANGED <<loaded, screen, tx, answers>> /\ Others

Send(job) ==
    \E url \in Page :
        tx' = [tx EXCEPT ![job.id] =
                 [args |-> [url |-> url, selector |-> job.selector,
                            textOnly |-> job.textOnly],
                  counter |-> NextCounter]]

\* Mutant: the id, which is derived from the transaction, is shown at once.
CounterAnswerShown(f) ==
    /\ At(f, "counter")
    /\ Send(flow[f].job)
    /\ screen' = [screen EXCEPT !.id = flow[f].job.id]
    /\ Goes(f, "chain", flow[f].job)
    /\ UNCHANGED <<loaded, answers>> /\ Others

\* WebPageInstance.spawn: the signer's next counter is read, and the
\* transaction signed with it and sent.
CounterAnswer(f) ==
    /\ At(f, "counter")
    /\ Send(flow[f].job)
    /\ Goes(f, "chain", flow[f].job)
    /\ UNCHANGED <<loaded, screen, answers>> /\ Others

\* sendTransactionAndWait: the transaction is in a block.
ChainAnswer(f) ==
    /\ At(f, "chain") /\ flow[f].job.id \in Applied
    /\ Goes(f, "proof", flow[f].job)
    /\ UNCHANGED <<loaded, screen, tx, answers>> /\ Others

\* The new instance is read back: its id is kept for the downloads.
CertifyProof(f) ==
    /\ At(f, "proof") /\ Does(f, "certify")
    /\ ledger[flow[f].job.id] # NoInstance
    /\ screen' = ShowCreated([screen EXCEPT !.id = flow[f].job.id])
    /\ Ends(f)
    /\ UNCHANGED <<loaded, tx, answers>> /\ Others

Exists(id) == id \in SpawnTx /\ ledger[id] # NoInstance

\* Mutant: the hash is taken without the date.
MatchesUndated(paste) == Hash(paste.content, 0) = ledger[paste.id].hash

\* Mutant: the content on the ledger is hashed, and not the pasted one.
MatchesItself(paste) ==
    Hash(ledger[paste.id].content, ledger[paste.id].date) = ledger[paste.id].hash

\* Mutant: the content is read from the page when the proof arrives.
MatchesShown(paste) ==
    /\ textarea # Malformed
    /\ Hash(textarea.content, ledger[paste.id].date) = ledger[paste.id].hash

\* getInstanceAndCompare: the hash of the pasted content and of the creation
\* date on the ledger is compared with the hash on the ledger.
Matches(paste) ==
    Hash(paste.content, ledger[paste.id].date) = ledger[paste.id].hash

\* Without an attestation under the id, there is nothing, or an instance of
\* another contract.
VerifyProof(f) ==
    /\ At(f, "proof") /\ Does(f, "verify")
    /\ LET paste == flow[f].job.paste
           quiet == Loading(Hidden(screen), FALSE)
       IN \/ /\ ~Exists(paste.id)
             /\ screen' \in {[quiet EXCEPT !.status = "noId"], Problem(quiet)}
             /\ UNCHANGED answers
          \/ /\ Exists(paste.id) /\ Matches(paste)
             /\ screen' = [quiet EXCEPT !.status = "none"]
             /\ ticked' = ticked \cup {paste} /\ UNCHANGED <<files, crossed>>
          \/ /\ Exists(paste.id) /\ ~Matches(paste)
             /\ screen' = [quiet EXCEPT !.status = "none"]
             /\ crossed' = crossed \cup {paste} /\ UNCHANGED <<files, ticked>>
    /\ Ends(f)
    /\ UNCHANGED <<loaded, tx>> /\ Others

\* RetrieveContentOfAttestation: the file has the id, and the content as the
\* extension decodes it.  Nothing was certified if the id is empty: the library
\* takes it for one that does not exist, or raises an exception, after which
\* only the loader stops.
DownloadProof(f) ==
    /\ At(f, "proof") /\ Does(f, "download")
    /\ LET id == flow[f].job.id IN
         \/ /\ Exists(id)
            /\ files' = files \cup {[id |-> id, content |-> Decoded[ledger[id].content]]}
            /\ screen' = [Loading(Hidden(screen), FALSE) EXCEPT !.status = "downloaded"]
         \/ /\ ~Exists(id)
            /\ screen' = Loading(Problem(screen), FALSE)
            /\ UNCHANGED files
         \/ /\ id = NoId
            /\ screen' = Raised(Loading(screen, FALSE))
            /\ UNCHANGED files
    /\ Ends(f)
    /\ UNCHANGED <<loaded, tx, ticked, crossed>> /\ Others

-----------------------------------------------------------------------------
(* The cothority: it applies what was sent, and what others send.          *)

Apply(t) ==
    /\ tx[t] # NotSent /\ tx[t].counter = NextCounter
    /\ Attest(t) /\ ledger'[t].args = tx[t].args
    /\ UNCHANGED <<open, loaded, screen, option, page, textarea, flow, tx, answers>>

OtherClient ==
    /\ \/ \E t \in SpawnTx : Fresh(t) /\ Attest(t)
       \/ \E t \in DeleteTx : Withdraw(t)
    /\ UNCHANGED <<open, loaded, screen, option, page, textarea, flow, tx, answers>>

Answer(f) ==
    \/ TabsAnswer(f) \/ TabsAnswerInfos(f) \/ RosterAnswer(f) \/ DarcAnswer(f) \/ RpcAnswer(f)
    \/ CounterAnswer(f) \/ ChainAnswer(f)
    \/ CertifyProof(f) \/ VerifyProof(f) \/ DownloadProof(f)
    \/ RequestFails(f)

Click(f) == ClickFullPage(f) \/ ClickSubmit(f) \/ ClickDownload(f) \/ ClickInfos(f)

Next ==
    \/ Open \/ Close \/ Toggle \/ ClickSection \/ GadgetAnswer \/ PickSection
    \/ ClickUpload \/ PasteText \/ NoGadget \/ RestoreAnswer
    \/ \E f \in Flow : Click(f) \/ SelectorFound(f) \/ Answer(f)
    \/ \E t \in SpawnTx : Apply(t)
    \/ OtherClient

Spec == Init /\ [][Next]_vars

\* Requests are answered or fail in the end: sockets time out.
FairSpec == Spec /\ \A f \in Flow : WF_vars(Answer(f))

-----------------------------------------------------------------------------
(* Properties.                                                             *)

Past(f, at) == \E a \in at : At(f, a)

\* Whatever failed before, and whichever flow began first, a flow that talks
\* to the ledger finds the roster, the skipchain and the darc in the Handler:
\* SpawnWebPage and the functions of AlineUtilities use them unchecked.
HandlerReady ==
    \A f \in Flow : Past(f, {"rpc", "counter", "chain", "proof"})
                      => {"roster", "darc"} \subseteq loaded

\* The id that the downloads use is of an attestation that was made for this
\* popup, of what it asked for (SpawnWebPage, lines 182-186).
ShownIdAttested ==
    screen.id # NoId => /\ tx[screen.id] # NotSent
                        /\ screen.id \in Applied
                        /\ Exists(screen.id) =>
                              ledger[screen.id].args = tx[screen.id].args

Quiet == \A f \in Flow : flow[f] = Idle

\* When nothing runs, nothing is shown to run: the loader, which is not
\* counted, is stopped on every path of the Handler, and the spinner, which is
\* hidden in as many places, outlives its flows only when one of them ended with
\* an exception that nobody catches (AlineFeatures.ts, lines 44, 102 and 117,
\* and AlineUtilities.ts, line 178) and none has shown or hidden it since.
IdleLooksIdle ==
    Quiet => ~screen.loader /\ (screen.spinner => screen.raised)

\* A section is certified with the option that was saved when the user began
\* to pick it, although the popup was closed since and its checkbox is read
\* three answers after the option was asked for; only a user who sets the
\* checkbox again, and a storage slower than these answers, change that
\* (AlineUtilities.ts, lines 69-73, and AlineFeatures.ts, lines 29-48).
OptionKept ==
    [][\A f \in Flow :
          At(f, "darc") /\ At(f, "rpc")' /\ Does(f, "certify")
          /\ flow[f].job.selector # FullPage
            => flow'[f].job.textOnly = stored \/ restoring \/ touched]_vars

\* What was downloaded and is pasted again is never answered with a cross,
\* whoever certified it, and whenever it is pasted (AlineFeatures.ts,
\* lines 99-108, and getInstanceAndCompare).
DownloadsVerify == files \cap crossed = {}

\* A tick is proof of existence: the ticked content was served by a page.
TickMeansServed ==
    \A p \in ticked : \E view \in served, args \in Args :
        p.content = Extract(view[2], args)

\* What is pasted is judged by what it is: the same id and content never get
\* a tick once and a cross another time, whatever is pasted, certified and
\* deleted while the proof is awaited (getInstanceAndCompare reads the text
\* before its first await, and an attestation never changes).
OneVerdict == ticked \cap crossed = {}

\* Success is shown when there is an attestation to show.
CreatedMeansAttested == screen.status = "created" => screen.id # NoId

\* A flow comes to its end, and with it what it shows.
FlowsEnd == \A f \in Flow : flow[f] # Idle ~> flow[f] = Idle
=============================================================================
