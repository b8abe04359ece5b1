---------------------------- MODULE Popup_proofs ----------------------------
(***************************************************************************)
(* The popup, for any number of flows, pages, selectors and attestations.  *)
(*                                                                         *)
(* What the flows share is the screen, the Handler and the cothority, and  *)
(* each of the properties relates one of these to what was true when a     *)
(* flow passed an earlier await.  The invariant therefore says, for each   *)
(* await, what a flow that is there can still count on, whatever the       *)
(* others, the user and other clients did since.                           *)
(***************************************************************************)
EXTENDS Popup, SequenceTheorems, TLAPS

Running(f) == flow[f] # Idle
Certifies(f) == Running(f) /\ Does(f, "certify")

CertifyJob == [does : {"certify"}, id : SpawnTx, selector : Selector, textOnly : BOOLEAN]
VerifyJob == [does : {"verify"}, paste : Paste \cup {Malformed}]
DownloadJob == [does : {"download"}, id : SpawnTx \cup {NoId}]
InfosJob == [does : {"infos"}, id : SpawnTx \cup {NoId}]

\* What a flow awaits fits what it does.
Fits(e) ==
    \/ e.job \in CertifyJob
    \/ /\ e.job \in VerifyJob
       /\ e.at \in {"roster", "darc", "rpc", "proof"}
       /\ e.at \in {"rpc", "proof"} => e.job.paste \in Paste
    \/ e.job \in DownloadJob /\ e.at \in {"tabs", "rpc", "proof"}
    \/ e.job \in InfosJob /\ e.at = "tabs"

Stages == \A f \in Flow : Running(f) => Fits(flow[f])

RegistryOK ==
    /\ served \subseteq Page \X Doc \X Day
    /\ ledger \in [SpawnTx -> Instance \cup {NoInstance}]
    /\ log \in Seq(Tx)

TypeInv == TypeOK /\ RegistryOK /\ Stages

\* The Handler's fields: the buttons for downloads appear when a flow that
\* loaded them is over.
Ready == {"roster", "darc"} \subseteq loaded

ReadyInv ==
    /\ \A f \in Flow : At(f, "darc") => "roster" \in loaded
    /\ \A f \in Flow : Running(f) /\ Does(f, "download") => Ready
    /\ screen.downloads => Ready
    /\ HandlerReady

\* What hides the spinner and the loader is still to come, or was an exception.
ScreenInv ==
    /\ screen.loader => \E f \in Flow : Running(f) /\ flow[f].at # "tabs"
    /\ screen.spinner => \/ screen.raised
                         \/ \E f \in Flow : Running(f) /\ ~Does(f, "infos")

\* While a section is certified, the checkbox shows what was saved, or will.
OptionInv ==
    \A f \in Flow : Certifies(f) /\ flow[f].job.selector # FullPage
                      => box = stored \/ restoring \/ touched

\* An id is used by one flow, which has sent its transaction or not yet; the
\* ledger has what was sent.
Unsent(f) == flow[f].at \in {"tabs", "roster", "darc", "rpc", "counter"}

SentInv ==
    /\ \A f, g \in Flow : Certifies(f) /\ Certifies(g) /\ flow[f].job.id = flow[g].job.id
                            => f = g
    /\ \A f \in Flow : Certifies(f) =>
          LET id == flow[f].job.id IN
            /\ Unsent(f) => tx[id] = NotSent /\ id \notin Applied
            /\ ~Unsent(f) => tx[id] # NotSent
            /\ flow[f].at = "proof" => id \in Applied
    /\ \A t \in SpawnTx : tx[t] # NotSent /\ ledger[t] # NoInstance
                            => ledger[t].args = tx[t].args
    /\ ShownIdAttested

\* Attestations are of transactions applied, and genuine.
LedgerInv ==
    \A t \in SpawnTx : ledger[t] # NoInstance => t \in Applied /\ Genuine(ledger[t])

\* What was said of a text is true of the attestation, as long as it is there.
VerdictInv ==
    /\ \A p \in ticked : p.id \in SpawnTx /\ p.id \in Applied
                           /\ (ledger[p.id] # NoInstance => Matches(p))
    /\ \A p \in crossed : p.id \in SpawnTx /\ p.id \in Applied
                            /\ (ledger[p.id] # NoInstance => ~Matches(p))
    /\ TickMeansServed /\ OneVerdict

\* A file has the content of its attestation.
FileInv ==
    /\ \A p \in files : p.id \in SpawnTx /\ p.id \in Applied
                          /\ (ledger[p.id] # NoInstance =>
                                p.content = Decoded[ledger[p.id].content])
    /\ (\A c \in Content : Decoded[c] = c) => DownloadsVerify

-----------------------------------------------------------------------------
(* Lemmas about the data.                                                  *)

\* What is applied is what was applied before, and the new transaction.
LEMMA AppliedGrows ==
    ASSUME log \in Seq(Tx), NEW t \in Tx, log' = Append(log, t)
    PROVE  log' \in Seq(Tx) /\ Applied' = Applied \cup {t}
<1>1. /\ log' \in Seq(Tx) /\ Len(log) \in Nat /\ Len(log') = Len(log) + 1
      /\ \A i \in 1 .. Len(log) : log'[i] = log[i]
      /\ log'[Len(log) + 1] = t
  OBVIOUS
<1>2. 1 .. Len(log') = 1 .. Len(log) \cup {Len(log) + 1}
  BY <1>1
<1> QED
  BY <1>1, <1>2 DEF Applied

LEMMA JobKinds ==
    ASSUME NEW job
    PROVE  job \in Job <=> \/ job \in CertifyJob \/ job \in VerifyJob
                           \/ job \in DownloadJob \/ job \in InfosJob
BY DEF Job, CertifyJob, VerifyJob, DownloadJob, InfosJob

\* What a flow does tells the kind of its job.
LEMMA KindOfJob ==
    ASSUME TypeInv, NEW f \in Flow, Running(f)
    PROVE  /\ Does(f, "certify") <=> flow[f].job \in CertifyJob
           /\ Does(f, "verify") <=> flow[f].job \in VerifyJob
           /\ Does(f, "download") <=> flow[f].job \in DownloadJob
           /\ Does(f, "infos") <=> flow[f].job \in InfosJob
           /\ flow[f].at \in Awaits /\ flow[f].job \in Job
BY DEF TypeInv, TypeOK, Running, Does, Stages, Fits, CertifyJob, VerifyJob, DownloadJob, InfosJob

Screen == [spinner : BOOLEAN, raised : BOOLEAN, loader : BOOLEAN,
           status : {"none", "creating", "created", "verifying", "problem",
                     "noId", "downloading", "downloaded"},
           downloads : BOOLEAN, form : BOOLEAN, id : SpawnTx \cup {NoId}]

\* The screen after an error, while something loads, and after a success.
LEMMA Screens ==
    ASSUME NEW s \in Screen, NEW on \in BOOLEAN
    PROVE  /\ /\ Problem(s) \in Screen /\ ~Problem(s).spinner
              /\ Problem(s).loader = s.loader
              /\ Problem(s).downloads = s.downloads /\ Problem(s).id = s.id
           /\ /\ Loading(s, on) \in Screen /\ Loading(s, on).loader = on
              /\ Loading(s, on).spinner = s.spinner
              /\ Loading(s, on).raised = s.raised
              /\ Loading(s, on).downloads = s.downloads /\ Loading(s, on).id = s.id
           /\ /\ ShowCreated(s) \in Screen /\ ~ShowCreated(s).spinner
              /\ ~ShowCreated(s).loader /\ ShowCreated(s).id = s.id
BY DEF Screen, Hidden, Problem, Loading, ShowCreated

\* The spinner appears, is hidden, or is left by an exception.
LEMMA Spinners ==
    ASSUME NEW s \in Screen
    PROVE  /\ /\ Shown(s) \in Screen /\ Shown(s).loader = s.loader
              /\ Shown(s).downloads = s.downloads /\ Shown(s).id = s.id
           /\ /\ Hidden(s) \in Screen /\ ~Hidden(s).spinner /\ Hidden(s).loader = s.loader
              /\ Hidden(s).downloads = s.downloads /\ Hidden(s).id = s.id
           /\ /\ Raised(s) \in Screen /\ Raised(s).raised = s.spinner
              /\ Raised(s).spinner = s.spinner /\ Raised(s).loader = s.loader
              /\ Raised(s).downloads = s.downloads /\ Raised(s).id = s.id
BY DEF Screen, Shown, Hidden, Raised

\* A flow goes on, or ends; the others stay where they are.
LEMMA FlowGoes ==
    ASSUME TypeOK, NEW f \in Flow, NEW at \in Awaits, NEW job \in Job, Goes(f, at, job)
    PROVE  /\ flow' \in [Flow -> [at : Awaits, job : Job] \cup {Idle}]
           /\ Running(f)' /\ flow'[f].at = at /\ flow'[f].job = job
           /\ \A g \in Flow \ {f} : flow'[g] = flow[g]
<1>1. [at |-> at, job |-> job] # Idle
  BY AbsentAssumption
<1> QED
  BY <1>1 DEF TypeOK, Goes, Running

LEMMA GoesTo ==
    ASSUME TypeOK, NEW f \in Flow, NEW at, NEW job, Goes(f, at, job)
    PROVE  flow'[f].at = at /\ flow'[f].job = job
BY DEF TypeOK, Goes

LEMMA FlowEnds ==
    ASSUME TypeOK, NEW f \in Flow, Ends(f)
    PROVE  /\ flow' \in [Flow -> [at : Awaits, job : Job] \cup {Idle}]
           /\ flow'[f] = Idle /\ ~Running(f)'
           /\ \A g \in Flow \ {f} : flow'[g] = flow[g]
BY DEF TypeOK, Ends, Running

-----------------------------------------------------------------------------
(* What the steps do.                                                      *)

\* What the user does that no flow begins or ends with.
UserActs ==
    \/ Open \/ Toggle \/ ClickSection \/ GadgetAnswer \/ PickSection \/ NoGadget \/ RestoreAnswer
    \/ ClickUpload \/ PasteText \/ UNCHANGED vars

Starts(f) == SelectorFound(f) \/ Click(f)

Cothority == (\E t \in SpawnTx : Apply(t)) \/ OtherClient

LEMMA NextCases ==
    [Next]_vars => \/ UserActs \/ Close \/ Cothority
                   \/ \E f \in Flow : Starts(f) \/ Answer(f)
BY DEF Next, UserActs, Starts, Cothority

LEMMA UserActsKeep ==
    ASSUME TypeOK, UserActs
    PROVE  /\ UNCHANGED <<loaded, flow, tx, answers, rvars>>
           /\ screen' \in {screen, Problem(screen), [screen EXCEPT !.form = TRUE]}
BY DEF UserActs, Open, Toggle, ClickSection, GadgetAnswer, PickSection, NoGadget,
       RestoreAnswer, ClickUpload, PasteText, vars, option, page, answers, rvars

StartsCertify(f) ==
    \E id \in SpawnTx, selector \in Selector :
        /\ Fresh(id)
        /\ Goes(f, "tabs", [does |-> "certify", id |-> id, selector |-> selector,
                            textOnly |-> FALSE])
        /\ screen' = [Shown(screen) EXCEPT !.status = "creating"]
        /\ UNCHANGED <<box, touched, stored>>
        /\ \/ selector = FullPage /\ UNCHANGED restoring
           \/ restoring'

StartsVerify(f) ==
    /\ Goes(f, "roster", [does |-> "verify", paste |-> Malformed])
    /\ screen' = [Shown(screen) EXCEPT !.status = "verifying", !.loader = TRUE]
    /\ UNCHANGED option

StartsDownload(f) ==
    /\ screen.downloads
    /\ Goes(f, "tabs", [does |-> "download", id |-> NoId])
    /\ screen' = [Shown(screen) EXCEPT !.status = "downloading"]
    /\ UNCHANGED option

StartsInfos(f) ==
    /\ screen.downloads
    /\ Goes(f, "tabs", [does |-> "infos", id |-> NoId])
    /\ UNCHANGED <<screen, option>>

LEMMA StartsKinds ==
    ASSUME TypeOK, NEW f \in Flow, Starts(f)
    PROVE  /\ flow[f] = Idle
           /\ UNCHANGED <<open, loaded, textarea, tx, answers, rvars>>
           /\ \/ StartsCertify(f) \/ StartsVerify(f) \/ StartsDownload(f) \/ StartsInfos(f)
<1>1. CASE SelectorFound(f)
  <2>1. gadget \in Selector
    BY <1>1 DEF SelectorFound, TypeOK
  <2> QED
    BY <1>1, <2>1 DEF SelectorFound, StartCertifying, StartsCertify
<1>2. CASE ClickFullPage(f)
  <2>1. FullPage \in Selector
    BY PopupAssumption
  <2> QED
    BY <1>2, <2>1 DEF ClickFullPage, StartCertifying, StartsCertify, option
<1>3. CASE ClickSubmit(f)
  BY <1>3 DEF ClickSubmit, StartsVerify
<1>4. CASE ClickDownload(f)
  BY <1>4 DEF ClickDownload, StartsDownload
<1>5. CASE ClickInfos(f)
  BY <1>5 DEF ClickInfos, StartsInfos
<1> QED
  BY <1>1, <1>2, <1>3, <1>4, <1>5 DEF Starts, Click

\* What the cothority does changes the ledger at one transaction, which was
\* not applied before.
LEMMA CothorityKinds ==
    ASSUME TypeInv, Cothority
    PROVE  /\ UNCHANGED <<open, loaded, screen, option, page, textarea, flow, tx, answers,
                          served>>
           /\ RegistryOK'
           /\ Applied \subseteq Applied'
           /\ \/ \E t \in SpawnTx :
                    /\ t \notin Applied /\ t \in Applied'
                    /\ \/ Fresh(t)
                       \/ tx[t] # NotSent /\ ledger'[t].args = tx[t].args
                    /\ ledger'[t] \in Instance /\ Genuine(ledger'[t])
                    /\ \A u \in SpawnTx \ {t} :
                          ledger'[u] = ledger[u] /\ (u \in Applied' => u \in Applied)
              \/ \E d \in DeleteTx, t \in SpawnTx :
                    /\ ledger'[t] = NoInstance
                    /\ \A u \in SpawnTx \ {t} : ledger'[u] = ledger[u]
                    /\ \A u \in SpawnTx : u \in Applied' => u \in Applied
<1> USE DEF RegistryOK, TypeInv
<1>1. ASSUME NEW t \in SpawnTx, Attest(t)
      PROVE  /\ RegistryOK' /\ Applied \subseteq Applied' /\ UNCHANGED served
             /\ t \notin Applied /\ t \in Applied'
             /\ ledger'[t] \in Instance /\ Genuine(ledger'[t])
             /\ \A u \in SpawnTx \ {t} :
                   ledger'[u] = ledger[u] /\ (u \in Applied' => u \in Applied)
  <2>1. t \in Tx /\ log' = Append(log, t) /\ t \notin Applied /\ UNCHANGED served
    BY <1>1 DEF Attest, Tx
  <2>2. log' \in Seq(Tx) /\ Applied' = Applied \cup {t}
    BY <2>1, AppliedGrows
  <2>3. PICK instance \in Instance :
          Genuine(instance) /\ ledger' = [ledger EXCEPT ![t] = instance]
    BY <1>1 DEF Attest
  <2>4. ledger'[t] = instance /\ \A u \in SpawnTx \ {t} : ledger'[u] = ledger[u]
    BY <2>3
  <2>5. ledger' \in [SpawnTx -> Instance \cup {NoInstance}]
    BY <2>3
  <2> QED
    BY <2>1, <2>2, <2>3, <2>4, <2>5
<1>2. ASSUME NEW d \in DeleteTx, Withdraw(d)
      PROVE  /\ RegistryOK' /\ Applied \subseteq Applied' /\ UNCHANGED served
             /\ \E t \in SpawnTx :
                   /\ ledger'[t] = NoInstance
                   /\ \A u \in SpawnTx \ {t} : ledger'[u] = ledger[u]
             /\ \A u \in SpawnTx : u \in Applied' => u \in Applied
  <2>1. d \in Tx /\ log' = Append(log, d) /\ UNCHANGED served
    BY <1>2 DEF Withdraw, Tx
  <2>2. log' \in Seq(Tx) /\ Applied' = Applied \cup {d}
    BY <2>1, AppliedGrows
  <2>3. \A u \in SpawnTx : u # d
    BY TxAssumption
  <2>4. PICK t \in SpawnTx : ledger' = [ledger EXCEPT ![t] = NoInstance]
    BY <1>2 DEF Withdraw
  <2>5. ledger' \in [SpawnTx -> Instance \cup {NoInstance}]
    BY <2>4
  <2> QED
    BY <2>1, <2>2, <2>3, <2>4, <2>5
<1>3. CASE \E t \in SpawnTx : Apply(t)
  <2> PICK t \in SpawnTx : Apply(t)
    BY <1>3
  <2> QED
    BY <1>1 DEF Apply
<1>4. CASE OtherClient
  <2>1. UNCHANGED <<open, loaded, screen, option, page, textarea, flow, tx, answers>>
    BY <1>4 DEF OtherClient
  <2>2. CASE \E t \in SpawnTx : Fresh(t) /\ Attest(t)
    <3>0. PICK t \in SpawnTx : Fresh(t) /\ Attest(t)
      BY <2>2
    <3>1. /\ RegistryOK' /\ Applied \subseteq Applied' /\ UNCHANGED served
          /\ t \notin Applied /\ t \in Applied'
          /\ ledger'[t] \in Instance /\ Genuine(ledger'[t])
          /\ \A u \in SpawnTx \ {t} :
                ledger'[u] = ledger[u] /\ (u \in Applied' => u \in Applied)
      <4>1. Attest(t)
        BY <3>0
      <4> HIDE DEF RegistryOK, TypeInv
      <4> QED
        BY <1>1, <4>1
    <3>2. Fresh(t)
      BY <3>0
    <3>3. \E u \in SpawnTx :
             /\ u \notin Applied /\ u \in Applied'
             /\ Fresh(u)
             /\ ledger'[u] \in Instance /\ Genuine(ledger'[u])
             /\ \A v \in SpawnTx \ {u} :
                   ledger'[v] = ledger[v] /\ (v \in Applied' => v \in Applied)
      BY <3>1, <3>2
    <3> QED
      BY <2>1, <3>1, <3>3
  <2>3. CASE \E d \in DeleteTx : Withdraw(d)
    BY <1>2, <2>1, <2>3
  <2> QED
    BY <1>4, <2>2, <2>3 DEF OtherClient
<1> QED
  BY <1>3, <1>4 DEF Cothority

-----------------------------------------------------------------------------
(* Types and stages.                                                       *)

LEMMA InitTypeInv == Init => TypeInv
<1> SUFFICES ASSUME Init PROVE TypeInv
  OBVIOUS
<1>1. RegistryOK
  BY DEF Init, RegistryInit, RegistryOK
<1>2. screen \in Screen
  BY DEF Init, Blank, Screen
<1>3. TypeOK
  BY <1>2 DEF Init, TypeOK, Screen
<1>4. Stages
  BY DEF Init, Stages, Running
<1> QED
  BY <1>1, <1>3, <1>4 DEF TypeInv

\* What the user does changes what the screen shows, and what was typed.
LEMMA UserTypeInv == TypeInv /\ (UserActs \/ Close) => TypeInv'
<1> SUFFICES ASSUME TypeInv, UserActs \/ Close PROVE TypeInv'
  OBVIOUS
<1>1. TypeOK /\ screen \in Screen
  BY DEF TypeInv, TypeOK, Screen
<1>2. CASE UserActs
  <2>1. /\ UNCHANGED <<loaded, flow, tx, answers, rvars>>
        /\ screen' \in {screen, Problem(screen), [screen EXCEPT !.form = TRUE]}
    BY <1>1, <1>2, UserActsKeep
  <2>2. screen' \in Screen
    <3>1. Problem(screen) \in Screen
      BY <1>1, Screens
    <3>2. [screen EXCEPT !.form = TRUE] \in Screen
      BY <1>1 DEF Screen
    <3> QED
      BY <1>1, <2>1, <3>1, <3>2
  <2>3. gadget' \in {"off"} \cup Selector /\ textarea' \in Paste \cup {Malformed}
    BY <1>1, <1>2, PopupAssumption
      DEF UserActs, Open, Toggle, ClickSection, GadgetAnswer, PickSection, NoGadget,
          RestoreAnswer, ClickUpload, PasteText, vars, option, page, TypeOK, Paste
  <2>4. /\ open' \in BOOLEAN /\ box' \in BOOLEAN /\ touched' \in BOOLEAN
        /\ stored' \in BOOLEAN /\ restoring' \in BOOLEAN /\ finding' \in BOOLEAN
        /\ starting' \in BOOLEAN
    BY <1>1, <1>2
      DEF UserActs, Open, Toggle, ClickSection, GadgetAnswer, PickSection, NoGadget,
          RestoreAnswer, ClickUpload, PasteText, vars, option, page, TypeOK
  <2>5. TypeOK'
    BY <1>1, <2>1, <2>2, <2>3, <2>4 DEF TypeOK, Screen, answers
  <2>6. RegistryOK' /\ Stages'
    BY <2>1 DEF TypeInv, RegistryOK, Stages, Running, rvars
  <2> QED
    BY <2>5, <2>6 DEF TypeInv
<1>3. CASE Close
  <2>1. screen' \in Screen
    BY <1>3 DEF Close, Blank, Screen
  <2>2. TypeOK'
    <3>1. gadget' \in {"off"} \cup Selector
      BY <1>1, <1>3, PopupAssumption DEF Close, TypeOK
    <3> QED
      BY <1>1, <1>3, <2>1, <3>1 DEF Close, TypeOK, Screen, answers
  <2>3. RegistryOK' /\ Stages'
    BY <1>3 DEF TypeInv, Close, RegistryOK, Stages, Running, rvars
  <2> QED
    BY <2>2, <2>3 DEF TypeInv
<1> QED
  BY <1>2, <1>3

\* A flow that begins.
LEMMA StartTypeInv == ASSUME TypeInv, NEW f \in Flow, Starts(f) PROVE TypeInv'
<1>1. TypeOK /\ screen \in Screen
  BY DEF TypeInv, TypeOK, Screen
<1>2. UNCHANGED <<open, loaded, textarea, tx, answers, rvars>>
  BY <1>1, StartsKinds
<1>3. /\ restoring' \in BOOLEAN /\ finding' \in BOOLEAN /\ starting' \in BOOLEAN
      /\ gadget' \in {"off"} \cup Selector
      /\ UNCHANGED <<box, touched, stored>>
  BY <1>1 DEF Starts, SelectorFound, Click, ClickFullPage, ClickSubmit, ClickDownload,
              ClickInfos, option, page, TypeOK
<1>4. screen' \in Screen
  BY <1>1, StartsKinds, ZenonT(60)
     DEF StartsCertify, StartsVerify, StartsDownload, StartsInfos, Shown, Screen
<1>5. PICK at \in {"tabs", "roster"}, job \in Job :
        /\ Goes(f, at, job)
        /\ \/ job \in CertifyJob \cup DownloadJob \cup InfosJob /\ at = "tabs"
           \/ job \in VerifyJob /\ at = "roster"
  <2>1. CASE StartsCertify(f)
    <3>1. PICK id \in SpawnTx, selector \in Selector :
            Goes(f, "tabs", [does |-> "certify", id |-> id, selector |-> selector,
                             textOnly |-> FALSE])
      BY <2>1 DEF StartsCertify
    <3>2. [does |-> "certify", id |-> id, selector |-> selector, textOnly |-> FALSE]
            \in CertifyJob
      BY DEF CertifyJob
    <3> QED
      BY <3>1, <3>2, JobKinds
  <2>2. CASE StartsVerify(f)
    <3>1. [does |-> "verify", paste |-> Malformed] \in VerifyJob
      BY DEF VerifyJob
    <3> QED
      BY <2>2, <3>1, JobKinds DEF StartsVerify
  <2>3. CASE StartsDownload(f)
    <3>1. [does |-> "download", id |-> NoId] \in DownloadJob
      BY DEF DownloadJob
    <3> QED
      BY <2>3, <3>1, JobKinds DEF StartsDownload
  <2>4. CASE StartsInfos(f)
    <3>1. [does |-> "infos", id |-> NoId] \in InfosJob
      BY DEF InfosJob
    <3> QED
      BY <2>4, <3>1, JobKinds DEF StartsInfos
  <2> QED
    BY <1>1, <2>1, <2>2, <2>3, <2>4, StartsKinds
<1>6. /\ flow' \in [Flow -> [at : Awaits, job : Job] \cup {Idle}]
      /\ flow'[f].at = at /\ flow'[f].job = job
      /\ \A g \in Flow \ {f} : flow'[g] = flow[g]
  BY <1>1, <1>5, FlowGoes DEF Awaits
<1>7. TypeOK'
  BY <1>1, <1>2, <1>3, <1>4, <1>6 DEF TypeOK, Screen, answers
<1>8. RegistryOK'
  BY <1>2 DEF TypeInv, RegistryOK, rvars
<1>9. Stages'
  BY <1>5, <1>6 DEF TypeInv, Stages, Running, Fits
<1> QED
  BY <1>7, <1>8, <1>9 DEF TypeInv

\* A flow that goes on, and one that ends, keep the types if the rest of what
\* the answer changes does.
LEMMA GoesOn ==
    ASSUME TypeInv, NEW f \in Flow, NEW at \in Awaits, NEW job \in Job,
           Goes(f, at, job), Fits([at |-> at, job |-> job]),
           screen' \in Screen, loaded' \subseteq {"roster", "darc", "signer"},
           tx' \in [SpawnTx -> [args : Args, counter : Nat] \cup {NotSent}],
           UNCHANGED answers, Others
    PROVE  TypeInv'
<1>1. TypeOK
  BY DEF TypeInv
<1>2. /\ flow' \in [Flow -> [at : Awaits, job : Job] \cup {Idle}]
      /\ flow'[f] = [at |-> at, job |-> job]
      /\ \A g \in Flow \ {f} : flow'[g] = flow[g]
  BY <1>1, FlowGoes DEF TypeOK, Goes
<1>3. TypeOK'
  BY <1>1, <1>2 DEF TypeOK, Screen, Others, option, page, answers
<1>4. RegistryOK'
  BY DEF TypeInv, RegistryOK, Others, rvars
<1>5. Stages'
  BY <1>2 DEF TypeInv, Stages, Running
<1> QED
  BY <1>3, <1>4, <1>5 DEF TypeInv

LEMMA EndsHere ==
    ASSUME TypeInv, NEW f \in Flow, Ends(f), screen' \in Screen,
           loaded' \subseteq {"roster", "darc", "signer"}, UNCHANGED tx,
           files' \subseteq Paste, ticked' \subseteq Paste, crossed' \subseteq Paste, Others
    PROVE  TypeInv'
<1>1. TypeOK
  BY DEF TypeInv
<1>2. /\ flow' \in [Flow -> [at : Awaits, job : Job] \cup {Idle}]
      /\ flow'[f] = Idle
      /\ \A g \in Flow \ {f} : flow'[g] = flow[g]
  BY <1>1, FlowEnds
<1>3. TypeOK'
  BY <1>1, <1>2 DEF TypeOK, Screen, Others, option, page
<1>4. RegistryOK'
  BY DEF TypeInv, RegistryOK, Others, rvars
<1>5. Stages'
  BY <1>2 DEF TypeInv, Stages, Running
<1> QED
  BY <1>3, <1>4, <1>5 DEF TypeInv

\* What the texts that are judged or downloaded are of.
LEMMA AtProof ==
    ASSUME TypeInv, NEW f \in Flow, At(f, "proof")
    PROVE  /\ Does(f, "verify") => flow[f].job.paste \in Paste
           /\ Does(f, "download") => flow[f].job.id \in SpawnTx \cup {NoId}
BY KindOfJob DEF TypeInv, Stages, Fits, At, Running, CertifyJob, VerifyJob, DownloadJob, InfosJob

LEMMA ContinuedJob ==
    ASSUME TypeInv, NEW f \in Flow, At(f, "darc"), ~(Does(f, "verify") /\ textarea = Malformed)
    PROVE  /\ Continued(f) \in Job
           /\ \/ Continued(f) \in CertifyJob
              \/ Continued(f) \in VerifyJob /\ Continued(f).paste \in Paste
<1>1. Running(f) /\ TypeOK
  BY DEF At, Running, TypeInv
<1>2. flow[f].job \in CertifyJob \/ flow[f].job \in VerifyJob
  BY <1>1 DEF TypeInv, Stages, Fits, At
<1>3. CASE flow[f].job \in CertifyJob
  <2>1. Does(f, "certify")
    BY <1>1, <1>3, KindOfJob
  <2>2. Continued(f) = [flow[f].job EXCEPT !.textOnly = box]
    BY <2>1 DEF Continued
  <2>3. Continued(f) \in CertifyJob
    BY <1>1, <1>3, <2>2 DEF CertifyJob, TypeOK
  <2> QED
    BY <2>3, JobKinds
<1>4. CASE flow[f].job \in VerifyJob
  <2>1. Does(f, "verify") /\ ~Does(f, "certify")
    BY <1>1, <1>4, KindOfJob DEF Does
  <2>2. Continued(f) = [flow[f].job EXCEPT !.paste = textarea]
    BY <2>1 DEF Continued
  <2>3. textarea \in Paste
    BY <1>1, <2>1 DEF TypeOK
  <2>4. Continued(f) \in VerifyJob /\ Continued(f).paste \in Paste
    BY <1>4, <2>2, <2>3 DEF VerifyJob
  <2> QED
    BY <2>4, JobKinds
<1> QED
  BY <1>2, <1>3, <1>4

\* The transaction that is sent has the next counter.
LEMMA SentType ==
    ASSUME TypeInv, NEW job \in CertifyJob, Send(job)
    PROVE  /\ tx' \in [SpawnTx -> [args : Args, counter : Nat] \cup {NotSent}]
           /\ job.id \in SpawnTx /\ tx'[job.id] # NotSent
           /\ \A t \in SpawnTx \ {job.id} : tx'[t] = tx[t]
<1>1. /\ tx \in [SpawnTx -> [args : Args, counter : Nat] \cup {NotSent}]
      /\ log \in Seq(Tx)
  BY DEF TypeInv, TypeOK, RegistryOK
<1>2. PICK url \in Page :
        tx' = [tx EXCEPT ![job.id] =
                 [args |-> [url |-> url, selector |-> job.selector,
                            textOnly |-> job.textOnly],
                  counter |-> NextCounter]]
  BY DEF Send
<1>3. job.id \in SpawnTx /\ job.selector \in Selector /\ job.textOnly \in BOOLEAN
  BY DEF CertifyJob
<1>4. NextCounter \in Nat
  BY <1>1 DEF NextCounter
<1>5. [args |-> [url |-> url, selector |-> job.selector, textOnly |-> job.textOnly],
       counter |-> NextCounter] \in [args : Args, counter : Nat]
  BY <1>3, <1>4 DEF Args
<1> QED
  BY <1>1, <1>2, <1>3, <1>5, AbsentAssumption

\* Every answer keeps the types.
LEMMA AnswerTypeInv == ASSUME TypeInv, NEW f \in Flow, Answer(f) PROVE TypeInv'
<1>1. TypeOK /\ screen \in Screen /\ loaded \subseteq {"roster", "darc", "signer"}
      /\ tx \in [SpawnTx -> [args : Args, counter : Nat] \cup {NotSent}]
      /\ files \subseteq Paste /\ ticked \subseteq Paste /\ crossed \subseteq Paste
  BY DEF TypeInv, TypeOK, Screen
<1>2. ASSUME Running(f)
      PROVE  /\ flow[f].at \in Awaits /\ flow[f].job \in Job /\ Fits(flow[f])
             /\ Does(f, "certify") <=> flow[f].job \in CertifyJob
             /\ Does(f, "verify") <=> flow[f].job \in VerifyJob
             /\ Does(f, "download") <=> flow[f].job \in DownloadJob
             /\ Does(f, "infos") <=> flow[f].job \in InfosJob
  BY <1>2, KindOfJob DEF TypeInv, Stages
<1>3. CASE TabsAnswer(f)
  <2>1. /\ Running(f) /\ flow[f].at = "tabs" /\ ~Does(f, "infos")
        /\ screen' \in {Loading(screen, TRUE), Raised(screen)}
        /\ UNCHANGED <<loaded, tx, answers>> /\ Others
    BY <1>3 DEF TabsAnswer, At, Running
  <2>2. screen' \in Screen
    <3>1. Loading(screen, TRUE) \in Screen
      BY <1>1, Screens
    <3>2. Raised(screen) \in Screen
      BY <1>1, Spinners
    <3> QED
      BY <2>1, <3>1, <3>2
  <2>3. CASE Does(f, "download") /\ ~Ends(f)
    <3> DEFINE job == [flow[f].job EXCEPT !.id = screen.id]
    <3>1. job \in DownloadJob
      BY <1>1, <1>2, <2>1, <2>3 DEF DownloadJob, Screen
    <3>2. job \in Job /\ Goes(f, "rpc", job)
      BY <1>3, <2>3, <3>1, JobKinds DEF TabsAnswer, Does
    <3>3. Fits([at |-> "rpc", job |-> job])
      BY <3>1 DEF Fits
    <3> QED
      BY <1>1, <2>1, <2>2, <3>2, <3>3, GoesOn DEF Awaits
  <2>4. CASE ~Does(f, "download")
    <3>1. Goes(f, "roster", flow[f].job)
      BY <1>3, <2>4 DEF TabsAnswer
    <3>2. flow[f].job \in CertifyJob
      BY <1>2, <2>1, <2>4 DEF Fits
    <3>3. Fits([at |-> "roster", job |-> flow[f].job]) /\ flow[f].job \in Job
      BY <1>2, <2>1, <3>2 DEF Fits
    <3> QED
      BY <1>1, <2>1, <2>2, <3>1, <3>3, GoesOn DEF Awaits
  <2>5. CASE Ends(f)
    BY <1>1, <2>1, <2>2, <2>5, EndsHere DEF answers
  <2> QED
    BY <2>3, <2>4, <2>5
<1>4. CASE TabsAnswerInfos(f)
  BY <1>1, <1>4, EndsHere DEF TabsAnswerInfos, answers
<1>5. CASE RosterAnswer(f)
  <2>1. Running(f) /\ flow[f].at = "roster" /\ UNCHANGED <<tx, answers>> /\ Others
    BY <1>5 DEF RosterAnswer, At, Running
  <2>2. PICK ok \in BOOLEAN :
          LET shown == IF ok THEN screen ELSE Problem(screen) IN
          /\ loaded' = IF ok THEN loaded \cup {"roster"} ELSE loaded
          /\ \/ /\ screen' = Loading(shown, TRUE)
                /\ Goes(f, "darc", flow[f].job)
             \/ /\ screen' = Loading(Problem(shown), FALSE)
                /\ Ends(f)
    BY <1>5 DEF RosterAnswer
  <2>3. screen' \in Screen /\ loaded' \subseteq {"roster", "darc", "signer"}
    <3> DEFINE shown == IF ok THEN screen ELSE Problem(screen)
    <3>1. shown \in Screen
      BY <1>1, Screens
    <3>2. Problem(shown) \in Screen /\ Loading(shown, TRUE) \in Screen
      BY <3>1, Screens
    <3>3. Loading(Problem(shown), FALSE) \in Screen
      BY <3>2, Screens
    <3> QED
      BY <1>1, <2>2, <3>2, <3>3
  <2>4. CASE Goes(f, "darc", flow[f].job)
    <3>1. Fits([at |-> "darc", job |-> flow[f].job])
      BY <1>2, <2>1 DEF Fits
    <3> QED
      BY <1>1, <1>2, <2>1, <2>3, <2>4, <3>1, GoesOn DEF Awaits
  <2>5. CASE Ends(f)
    BY <1>1, <2>1, <2>3, <2>5, EndsHere DEF answers
  <2> QED
    BY <2>2, <2>4, <2>5
<1>6. CASE DarcAnswer(f)
  <2>1. At(f, "darc") /\ Running(f) /\ UNCHANGED <<tx, answers>> /\ Others
    BY <1>6 DEF DarcAnswer, At, Running
  <2>2. PICK ok \in BOOLEAN :
          LET shown == IF ok THEN screen ELSE Problem(screen) IN
          /\ loaded' \in {loaded, loaded \cup {"darc", "signer"}}
          /\ screen' \in {Loading(shown, TRUE), Raised(Loading(shown, FALSE)),
                          Loading(Problem(shown), FALSE)}
          /\ \/ /\ ~(Does(f, "verify") /\ textarea = Malformed)
                /\ Goes(f, "rpc", Continued(f))
             \/ Ends(f)
    BY <1>6 DEF DarcAnswer
  <2>3. screen' \in Screen /\ loaded' \subseteq {"roster", "darc", "signer"}
    <3> DEFINE shown == IF ok THEN screen ELSE Problem(screen)
    <3>1. shown \in Screen
      BY <1>1, Screens
    <3>2. Problem(shown) \in Screen /\ Loading(shown, TRUE) \in Screen
          /\ Loading(shown, FALSE) \in Screen
      BY <3>1, Screens
    <3>3. Loading(Problem(shown), FALSE) \in Screen /\ Raised(Loading(shown, FALSE)) \in Screen
      BY <3>2, Screens, Spinners
    <3> QED
      BY <1>1, <2>2, <3>2, <3>3
  <2>4. CASE ~(Does(f, "verify") /\ textarea = Malformed) /\ Goes(f, "rpc", Continued(f))
    <3>1. /\ Continued(f) \in Job
          /\ \/ Continued(f) \in CertifyJob
             \/ Continued(f) \in VerifyJob /\ Continued(f).paste \in Paste
      BY <2>1, <2>4, ContinuedJob
    <3>2. Fits([at |-> "rpc", job |-> Continued(f)])
      BY <3>1 DEF Fits
    <3> QED
      BY <1>1, <2>1, <2>3, <2>4, <3>1, <3>2, GoesOn DEF Awaits
  <2>5. CASE Ends(f)
    BY <1>1, <2>1, <2>3, <2>5, EndsHere DEF answers
  <2> QED
    BY <2>2, <2>4, <2>5
<1>7. CASE RpcAnswer(f)
  <2>1. /\ Running(f) /\ flow[f].at = "rpc" /\ UNCHANGED <<loaded, screen, tx, answers>>
        /\ Others
    BY <1>7 DEF RpcAnswer, At, Running
  <2>2. PICK at \in {"counter", "proof"} :
          at = (IF Does(f, "certify") THEN "counter" ELSE "proof") /\ Goes(f, at, flow[f].job)
    BY <1>7 DEF RpcAnswer
  <2>3. Fits([at |-> at, job |-> flow[f].job])
    BY <1>2, <2>1, <2>2 DEF Fits
  <2> QED
    BY <1>1, <1>2, <2>1, <2>2, <2>3, GoesOn DEF Awaits
<1>8. CASE CounterAnswer(f)
  <2>1. /\ Running(f) /\ flow[f].at = "counter" /\ UNCHANGED <<loaded, screen, answers>>
        /\ Goes(f, "chain", flow[f].job) /\ Send(flow[f].job) /\ Others
    BY <1>8 DEF CounterAnswer, At, Running
  <2>2. flow[f].job \in CertifyJob
    BY <1>2, <2>1 DEF Fits
  <2>3. tx' \in [SpawnTx -> [args : Args, counter : Nat] \cup {NotSent}]
    BY <1>1, <2>1, <2>2, SentType
  <2>4. Fits([at |-> "chain", job |-> flow[f].job])
    BY <2>2 DEF Fits
  <2> QED
    BY <1>1, <1>2, <2>1, <2>3, <2>4, GoesOn DEF Awaits
<1>9. CASE ChainAnswer(f)
  <2>1. /\ Running(f) /\ flow[f].at = "chain" /\ UNCHANGED <<loaded, screen, tx, answers>>
        /\ Goes(f, "proof", flow[f].job) /\ Others
    BY <1>9 DEF ChainAnswer, At, Running
  <2>2. Fits([at |-> "proof", job |-> flow[f].job])
    BY <1>2, <2>1 DEF Fits
  <2> QED
    BY <1>1, <1>2, <2>1, <2>2, GoesOn DEF Awaits
<1>10. CASE CertifyProof(f)
  <2>1. /\ Running(f) /\ Does(f, "certify") /\ Ends(f)
        /\ screen' = ShowCreated([screen EXCEPT !.id = flow[f].job.id])
        /\ UNCHANGED <<loaded, tx, answers>> /\ Others
    BY <1>10 DEF CertifyProof, At, Running
  <2>2. [screen EXCEPT !.id = flow[f].job.id] \in Screen
    BY <1>1, <1>2, <2>1 DEF Screen, CertifyJob
  <2>3. screen' \in Screen
    BY <2>1, <2>2, Screens
  <2> QED
    BY <1>1, <2>1, <2>3, EndsHere DEF answers
<1>11. CASE VerifyProof(f)
  <2> DEFINE quiet == Loading(Hidden(screen), FALSE)
  <2>1. /\ At(f, "proof") /\ Does(f, "verify") /\ Ends(f) /\ UNCHANGED <<loaded, tx>> /\ Others
        /\ files' = files
        /\ ticked' \in {ticked, ticked \cup {flow[f].job.paste}}
        /\ crossed' \in {crossed, crossed \cup {flow[f].job.paste}}
        /\ screen' \in {Problem(quiet), [quiet EXCEPT !.status = "noId"],
                        [quiet EXCEPT !.status = "none"]}
    BY <1>11 DEF VerifyProof, answers
  <2>2. quiet \in Screen
    BY <1>1, Screens, Spinners
  <2>3. screen' \in Screen
    <3>1. Problem(quiet) \in Screen
      BY <2>2, Screens
    <3>2. /\ [quiet EXCEPT !.status = "noId"] \in Screen
          /\ [quiet EXCEPT !.status = "none"] \in Screen
      BY <2>2 DEF Screen
    <3> QED
      BY <2>1, <3>1, <3>2
  <2>4. flow[f].job.paste \in Paste
    BY <2>1, AtProof
  <2> QED
    BY <1>1, <2>1, <2>3, <2>4, EndsHere
<1>12. CASE DownloadProof(f)
  <2> DEFINE id == flow[f].job.id
             file == [id |-> id, content |-> Decoded[ledger[id].content]]
  <2>1. /\ At(f, "proof") /\ Does(f, "download") /\ Ends(f) /\ Others
        /\ UNCHANGED <<loaded, tx, ticked, crossed>>
        /\ \/ Exists(id) /\ files' = files \cup {file}
           \/ files' = files
        /\ screen' \in {[Loading(Hidden(screen), FALSE) EXCEPT !.status = "downloaded"],
                        Loading(Problem(screen), FALSE), Raised(Loading(screen, FALSE))}
    BY <1>12 DEF DownloadProof
  <2>2. screen' \in Screen
    <3>1. Problem(screen) \in Screen
      BY <1>1, Screens
    <3>2. Loading(Problem(screen), FALSE) \in Screen /\ Loading(screen, FALSE) \in Screen
          /\ Hidden(screen) \in Screen
      BY <1>1, <3>1, Screens, Spinners
    <3>3. Raised(Loading(screen, FALSE)) \in Screen /\ Loading(Hidden(screen), FALSE) \in Screen
      BY <3>2, Screens, Spinners
    <3>4. [Loading(Hidden(screen), FALSE) EXCEPT !.status = "downloaded"] \in Screen
      BY <3>3 DEF Screen
    <3> QED
      BY <2>1, <3>2, <3>3, <3>4
  <2>3. Exists(id) => file \in Paste
    BY DecodedAssumption DEF Exists, Paste, Instance, TypeInv, RegistryOK
  <2> QED
    BY <1>1, <2>1, <2>2, <2>3, EndsHere
<1>13. CASE RequestFails(f)
  <2>1. /\ Ends(f) /\ UNCHANGED <<loaded, tx, answers>> /\ Others
        /\ screen' \in {ShowCreated(screen), Loading(Problem(screen), FALSE)}
    BY <1>13 DEF RequestFails
  <2>2. screen' \in Screen
    <3>1. Problem(screen) \in Screen /\ ShowCreated(screen) \in Screen
      BY <1>1, Screens
    <3>2. Loading(Problem(screen), FALSE) \in Screen
      BY <3>1, Screens
    <3> QED
      BY <2>1, <3>1, <3>2
  <2> QED
    BY <1>1, <2>1, <2>2, EndsHere DEF answers
<1> QED
  BY <1>3, <1>4, <1>5, <1>6, <1>7, <1>8, <1>9, <1>10, <1>11, <1>12, <1>13 DEF Answer

LEMMA CothorityTypeInv == TypeInv /\ Cothority => TypeInv'
<1> SUFFICES ASSUME TypeInv, Cothority PROVE TypeInv'
  OBVIOUS
<1>1. /\ UNCHANGED <<open, loaded, screen, option, page, textarea, flow, tx, answers>>
      /\ RegistryOK'
  BY CothorityKinds
<1> QED
  BY <1>1 DEF TypeInv, TypeOK, Stages, Running, option, page, answers

LEMMA NextTypeInv == TypeInv /\ [Next]_vars => TypeInv'
BY NextCases, UserTypeInv, StartTypeInv, AnswerTypeInv, CothorityTypeInv

-----------------------------------------------------------------------------
(* What an answer does to its flow, and to the screen.                     *)

Moves(f, from, to) == flow[f].at = from /\ flow'[f].at = to

\* A flow goes through its awaits in order, and what it certifies, and under
\* which id, was settled when it began.
LEMMA AnswerMoves ==
    ASSUME TypeInv, NEW f \in Flow, Answer(f)
    PROVE  /\ Running(f) /\ \A g \in Flow \ {f} : flow'[g] = flow[g]
           /\ loaded \subseteq loaded' /\ UNCHANGED <<option, rvars>>
           /\ Running(f)' =>
                /\ flow'[f].job.does = flow[f].job.does
                /\ Does(f, "certify") => /\ flow'[f].job.id = flow[f].job.id
                                         /\ flow'[f].job.selector = flow[f].job.selector
                /\ \/ Moves(f, "tabs", "roster") /\ UNCHANGED tx
                   \/ Moves(f, "tabs", "rpc") /\ Does(f, "download") /\ UNCHANGED tx
                   \/ Moves(f, "roster", "darc") /\ "roster" \in loaded' /\ UNCHANGED tx
                   \/ /\ Moves(f, "darc", "rpc") /\ "darc" \in loaded' /\ UNCHANGED tx
                      /\ Does(f, "certify") => flow'[f].job.textOnly = box
                   \/ Moves(f, "rpc", "counter") /\ Does(f, "certify") /\ UNCHANGED tx
                   \/ Moves(f, "rpc", "proof") /\ ~Does(f, "certify") /\ UNCHANGED tx
                   \/ Moves(f, "counter", "chain") /\ Send(flow[f].job)
                   \/ /\ Moves(f, "chain", "proof") /\ flow[f].job.id \in Applied
                      /\ UNCHANGED tx
           /\ ~Running(f)' => UNCHANGED tx
<1>1. TypeOK
  BY DEF TypeInv
<1>2. /\ flow[f] # Idle /\ Running(f)
      /\ \A g \in Flow \ {f} : flow'[g] = flow[g]
      /\ Ends(f) => ~Running(f)'
  <2>1. flow[f] # Idle
    BY DEF Answer, TabsAnswer, TabsAnswerInfos, RosterAnswer, DarcAnswer, RpcAnswer,
           CounterAnswer, ChainAnswer, CertifyProof, VerifyProof, DownloadProof,
           RequestFails, At
  <2>2. Ends(f) \/ \E at, job : Goes(f, at, job)
    BY DEF Answer, TabsAnswer, TabsAnswerInfos, RosterAnswer, DarcAnswer, RpcAnswer,
           CounterAnswer, ChainAnswer, CertifyProof, VerifyProof, DownloadProof,
           RequestFails
  <2> QED
    BY <1>1, <2>1, <2>2 DEF Goes, Ends, Running, TypeOK
<1>3. UNCHANGED <<option, rvars>>
  BY DEF Answer, TabsAnswer, TabsAnswerInfos, RosterAnswer, DarcAnswer, RpcAnswer,
         CounterAnswer, ChainAnswer, CertifyProof, VerifyProof, DownloadProof,
         RequestFails, Others
<1>4. /\ Does(f, "certify") <=> flow[f].job \in CertifyJob
      /\ Does(f, "verify") <=> flow[f].job \in VerifyJob
      /\ Does(f, "download") <=> flow[f].job \in DownloadJob
  BY <1>2, KindOfJob
<1>5. CASE TabsAnswer(f)
  <2>1. flow[f].at = "tabs" /\ UNCHANGED <<loaded, tx>>
    BY <1>5 DEF TabsAnswer, At
  <2>2. CASE Does(f, "download") /\ ~Ends(f)
    <3>1. Goes(f, "rpc", [flow[f].job EXCEPT !.id = screen.id])
      BY <1>5, <2>2 DEF TabsAnswer, Does
    <3>2. flow'[f].at = "rpc" /\ flow'[f].job.does = flow[f].job.does
      BY <1>1, <1>4, <2>2, <3>1, GoesTo DEF DownloadJob
    <3>3. ~Does(f, "certify")
      BY <2>2 DEF Does
    <3> QED
      BY <1>2, <1>3, <2>1, <2>2, <3>2, <3>3 DEF Moves
  <2>3. CASE ~Does(f, "download")
    <3>1. flow'[f].at = "roster" /\ flow'[f].job = flow[f].job
      BY <1>1, <1>5, <2>3, GoesTo DEF TabsAnswer
    <3> QED
      BY <1>2, <1>3, <2>1, <3>1 DEF Moves
  <2>4. CASE Ends(f)
    BY <1>2, <1>3, <2>1, <2>4
  <2> QED
    BY <2>2, <2>3, <2>4
<1>6. CASE RosterAnswer(f)
  <2>1. \/ Goes(f, "darc", flow[f].job) /\ "roster" \in loaded'
        \/ Ends(f)
    BY <1>6 DEF RosterAnswer
  <2>2. loaded \subseteq loaded' /\ flow[f].at = "roster" /\ UNCHANGED tx
    BY <1>6 DEF RosterAnswer, At
  <2>3. CASE Goes(f, "darc", flow[f].job) /\ "roster" \in loaded'
    <3>1. flow'[f].at = "darc" /\ flow'[f].job = flow[f].job
      BY <1>1, <2>3, GoesTo
    <3> QED
      BY <1>2, <1>3, <2>2, <2>3, <3>1 DEF Moves
  <2> QED
    BY <1>2, <1>3, <2>1, <2>2, <2>3
<1>7. CASE DarcAnswer(f)
  <2>1. \/ /\ Goes(f, "rpc", Continued(f)) /\ "darc" \in loaded'
           /\ ~(Does(f, "verify") /\ textarea = Malformed)
        \/ Ends(f)
    BY <1>7 DEF DarcAnswer
  <2>2. loaded \subseteq loaded' /\ At(f, "darc") /\ flow[f].at = "darc" /\ UNCHANGED tx
    BY <1>7 DEF DarcAnswer, At
  <2>3. CASE Ends(f)
    BY <1>2, <1>3, <2>2, <2>3
  <2>4. CASE Goes(f, "rpc", Continued(f)) /\ "darc" \in loaded'
             /\ ~(Does(f, "verify") /\ textarea = Malformed)
    <3>0. flow'[f].at = "rpc" /\ flow'[f].job = Continued(f)
      BY <1>1, <2>4, GoesTo
    <3>1. CASE Does(f, "certify")
      <4>1. Continued(f) = [flow[f].job EXCEPT !.textOnly = box]
        BY <3>1 DEF Continued
      <4>2. /\ Continued(f).does = flow[f].job.does /\ Continued(f).id = flow[f].job.id
            /\ Continued(f).selector = flow[f].job.selector /\ Continued(f).textOnly = box
        BY <1>4, <3>1, <4>1 DEF CertifyJob
      <4> QED
        BY <1>2, <1>3, <2>2, <2>4, <3>0, <4>2 DEF Moves
    <3>2. CASE ~Does(f, "certify")
      <4>1. flow[f].job \in VerifyJob
        BY <1>2, <1>4, <2>2, <3>2 DEF TypeInv, Stages, Fits
      <4>2. Continued(f) = [flow[f].job EXCEPT !.paste = textarea]
        BY <3>2 DEF Continued
      <4>3. Continued(f).does = flow[f].job.does
        BY <4>1, <4>2 DEF VerifyJob
      <4> QED
        BY <1>2, <1>3, <2>2, <2>4, <3>0, <3>2, <4>3 DEF Moves
    <3> QED
      BY <3>1, <3>2
  <2> QED
    BY <2>1, <2>3, <2>4
<1>8. CASE RpcAnswer(f)
  <2>1. flow[f].at = "rpc" /\ UNCHANGED <<loaded, tx>>
    BY <1>8 DEF RpcAnswer, At
  <2>2. /\ flow'[f].at = IF Does(f, "certify") THEN "counter" ELSE "proof"
        /\ flow'[f].job = flow[f].job
    BY <1>1, <1>8, GoesTo DEF RpcAnswer
  <2> QED
    BY <1>2, <1>3, <2>1, <2>2 DEF Moves
<1>9. CASE CounterAnswer(f)
  <2>1. flow[f].at = "counter" /\ UNCHANGED loaded /\ Send(flow[f].job)
    BY <1>9 DEF CounterAnswer, At
  <2>2. flow'[f].at = "chain" /\ flow'[f].job = flow[f].job /\ flow'[f] # Idle
    BY <1>1, <1>9, FlowGoes, KindOfJob, <1>2 DEF CounterAnswer, Running, Awaits
  <2> QED
    BY <1>2, <1>3, <2>1, <2>2 DEF Moves, Running
<1>10. CASE ChainAnswer(f)
  <2>1. flow[f].at = "chain" /\ UNCHANGED <<loaded, tx>> /\ flow[f].job.id \in Applied
    BY <1>10 DEF ChainAnswer, At
  <2>2. flow'[f].at = "proof" /\ flow'[f].job = flow[f].job
    BY <1>1, <1>10, GoesTo DEF ChainAnswer
  <2> QED
    BY <1>2, <1>3, <2>1, <2>2 DEF Moves
<1>11. CASE TabsAnswerInfos(f) \/ CertifyProof(f) \/ VerifyProof(f) \/ DownloadProof(f)
            \/ RequestFails(f)
  <2>1. Ends(f) /\ UNCHANGED <<loaded, tx>>
    BY <1>11 DEF TabsAnswerInfos, CertifyProof, VerifyProof, DownloadProof, RequestFails
  <2> QED
    BY <1>2, <1>3, <2>1
<1> QED
  BY <1>5, <1>6, <1>7, <1>8, <1>9, <1>10, <1>11 DEF Answer

\* A flow that goes on leaves the spinner or hides it; one that ends stops the
\* loader, unless it never started it, and leaves the spinner only after an
\* exception.
LEMMA AnswerScreen ==
    ASSUME TypeInv, NEW f \in Flow, Answer(f)
    PROVE  /\ Running(f)' => /\ ~Does(f, "infos")
                             /\ screen'.spinner => screen.spinner /\ screen'.raised = screen.raised
                             /\ screen'.downloads = screen.downloads /\ screen'.id = screen.id
           /\ ~Running(f)' =>
                \/ UNCHANGED screen /\ Does(f, "infos") /\ flow[f].at = "tabs"
                \/ /\ screen'.loader => screen.loader /\ flow[f].at = "tabs"
                   /\ screen'.spinner => screen'.raised
                   /\ \/ screen'.downloads = screen.downloads
                      \/ Past(f, {"rpc", "counter", "chain", "proof"})
                   /\ \/ screen'.id = screen.id
                      \/ /\ At(f, "proof") /\ Does(f, "certify")
                         /\ Exists(flow[f].job.id) /\ screen'.id = flow[f].job.id
<1>1. TypeOK /\ screen \in Screen
  BY DEF TypeInv, TypeOK, Screen
<1>2. /\ Running(f)
      /\ Does(f, "certify") <=> flow[f].job \in CertifyJob
      /\ Does(f, "infos") <=> flow[f].job \in InfosJob
      /\ Fits(flow[f])
  BY AnswerMoves, KindOfJob DEF TypeInv, Stages
<1>3. Does(f, "infos") => flow[f].at = "tabs"
  BY <1>2 DEF Fits, Does, CertifyJob, VerifyJob, DownloadJob
<1>4. Ends(f) => ~Running(f)'
  BY <1>1, FlowEnds
<1>5. flow[f].job \in Job
  BY <1>2, KindOfJob
<1>6. CASE TabsAnswer(f)
  <2>1. ~Does(f, "infos") /\ flow[f].at = "tabs"
    BY <1>6 DEF TabsAnswer, At
  <2>2. CASE Does(f, "certify") /\ Goes(f, "roster", flow[f].job)
             /\ screen' = Loading(screen, TRUE)
    <3>1. Running(f)'
      BY <1>1, <1>5, <2>2, FlowGoes DEF Awaits
    <3> QED
      BY <1>1, <2>1, <2>2, <3>1, Screens
  <2>3. CASE Does(f, "download") /\ Goes(f, "rpc", [flow[f].job EXCEPT !.id = screen.id])
             /\ screen' = Loading(screen, TRUE)
    <3>1. flow[f].job \in DownloadJob
      BY <1>2, <2>3, KindOfJob
    <3>2. [flow[f].job EXCEPT !.id = screen.id] \in DownloadJob
      BY <1>1, <3>1 DEF DownloadJob, Screen
    <3>3. Running(f)'
      BY <1>1, <2>3, <3>2, JobKinds, FlowGoes DEF Awaits
    <3> QED
      BY <1>1, <2>1, <2>3, <3>3, Screens
  <2>4. CASE Ends(f) /\ screen' = Raised(screen)
    BY <1>1, <1>4, <2>1, <2>4, Spinners
  <2> QED
    BY <1>6, <2>2, <2>3, <2>4 DEF TabsAnswer
<1>7. CASE TabsAnswerInfos(f)
  <2>1. Ends(f) /\ UNCHANGED screen /\ Does(f, "infos") /\ flow[f].at = "tabs"
    BY <1>7 DEF TabsAnswerInfos, At
  <2> QED
    BY <1>4, <2>1
<1>8. CASE RosterAnswer(f) \/ DarcAnswer(f)
  <2>1. ~Does(f, "infos")
    BY <1>3, <1>8 DEF RosterAnswer, DarcAnswer, At
  <2>2. PICK shown \in {screen, Problem(screen)} :
          \/ Goes(f, "darc", flow[f].job) /\ screen' = Loading(shown, TRUE)
          \/ /\ At(f, "darc") /\ ~(Does(f, "verify") /\ textarea = Malformed)
             /\ Goes(f, "rpc", Continued(f)) /\ screen' = Loading(shown, TRUE)
          \/ Ends(f) /\ screen' = Loading(Problem(shown), FALSE)
          \/ Ends(f) /\ screen' = Raised(Loading(shown, FALSE))
    BY <1>8 DEF RosterAnswer, DarcAnswer
  <2>3. /\ shown \in Screen /\ shown.id = screen.id /\ shown.downloads = screen.downloads
        /\ shown.spinner => screen.spinner /\ shown.raised = screen.raised
    <3>1. /\ Problem(screen) \in Screen /\ ~Problem(screen).spinner
          /\ Problem(screen).id = screen.id
          /\ Problem(screen).downloads = screen.downloads
      BY <1>1, Screens
    <3> QED
      BY <1>1, <2>2, <3>1
  <2>4. Problem(shown) \in Screen /\ ~Problem(shown).spinner /\ Problem(shown).id = screen.id
        /\ Problem(shown).downloads = screen.downloads
    BY <2>3, Screens
  <2>5. CASE Goes(f, "darc", flow[f].job) /\ screen' = Loading(shown, TRUE)
    <3>1. Running(f)'
      BY <1>1, <1>5, <2>5, FlowGoes DEF Awaits
    <3> QED
      BY <2>1, <2>3, <2>5, <3>1, Screens
  <2>6. CASE /\ At(f, "darc") /\ ~(Does(f, "verify") /\ textarea = Malformed)
             /\ Goes(f, "rpc", Continued(f)) /\ screen' = Loading(shown, TRUE)
    <3>1. Continued(f) \in Job
      BY <2>6, ContinuedJob
    <3>2. Running(f)'
      BY <1>1, <2>6, <3>1, FlowGoes DEF Awaits
    <3> QED
      BY <2>1, <2>3, <2>6, <3>2, Screens
  <2>7. CASE Ends(f) /\ screen' = Loading(Problem(shown), FALSE)
    BY <1>4, <2>4, <2>7, Screens
  <2>8. CASE Ends(f) /\ screen' = Raised(Loading(shown, FALSE))
    <3>1. /\ Loading(shown, FALSE) \in Screen /\ ~Loading(shown, FALSE).loader
          /\ Loading(shown, FALSE).id = screen.id
          /\ Loading(shown, FALSE).downloads = screen.downloads
      BY <2>3, Screens
    <3> QED
      BY <1>4, <2>8, <3>1, Spinners
  <2> QED
    BY <2>2, <2>5, <2>6, <2>7, <2>8
<1>9. CASE RpcAnswer(f) \/ CounterAnswer(f) \/ ChainAnswer(f)
  <2>1. ~Does(f, "infos") /\ UNCHANGED screen
    BY <1>3, <1>9 DEF RpcAnswer, CounterAnswer, ChainAnswer, At
  <2>2. \E at \in Awaits : Goes(f, at, flow[f].job)
    BY <1>9 DEF RpcAnswer, CounterAnswer, ChainAnswer, Awaits
  <2>3. Running(f)'
    BY <1>1, <1>5, <2>2, FlowGoes
  <2> QED
    BY <2>1, <2>3
<1>10. CASE CertifyProof(f)
  <2> DEFINE id == flow[f].job.id
             s == [screen EXCEPT !.id = id]
  <2>1. /\ At(f, "proof") /\ Does(f, "certify") /\ Ends(f) /\ screen' = ShowCreated(s)
        /\ ledger[id] # NoInstance
    BY <1>10 DEF CertifyProof
  <2>2. id \in SpawnTx
    BY <1>2, <2>1 DEF CertifyJob
  <2>3. s \in Screen /\ s.id = id
    BY <1>1, <2>2 DEF Screen
  <2>4. ~screen'.loader /\ ~screen'.spinner /\ screen'.id = id
    BY <2>1, <2>3, Screens
  <2>5. Past(f, {"rpc", "counter", "chain", "proof"})
    BY <2>1 DEF Past
  <2> QED
    BY <1>4, <2>1, <2>2, <2>4, <2>5 DEF Exists
<1>11. CASE VerifyProof(f)
  <2> DEFINE quiet == Loading(Hidden(screen), FALSE)
  <2>1. /\ Ends(f)
        /\ screen' \in {Problem(quiet), [quiet EXCEPT !.status = "noId"],
                        [quiet EXCEPT !.status = "none"]}
    BY <1>11 DEF VerifyProof
  <2>2. /\ quiet \in Screen /\ ~quiet.spinner /\ ~quiet.loader /\ quiet.id = screen.id
        /\ quiet.downloads = screen.downloads
    <3>1. /\ Hidden(screen) \in Screen /\ ~Hidden(screen).spinner
          /\ Hidden(screen).id = screen.id /\ Hidden(screen).downloads = screen.downloads
      BY <1>1, Spinners
    <3> QED
      BY <3>1, Screens
  <2> HIDE DEF quiet
  <2>3. CASE screen' = Problem(quiet)
    BY <1>4, <2>1, <2>2, <2>3, Screens
  <2>4. CASE screen' \in {[quiet EXCEPT !.status = "noId"], [quiet EXCEPT !.status = "none"]}
    BY <1>4, <2>1, <2>2, <2>4 DEF Screen
  <2> QED
    BY <2>1, <2>3, <2>4
<1>12. CASE DownloadProof(f)
  <2>1. /\ Ends(f)
        /\ screen' \in {[Loading(Hidden(screen), FALSE) EXCEPT !.status = "downloaded"],
                        Loading(Problem(screen), FALSE), Raised(Loading(screen, FALSE))}
    BY <1>12 DEF DownloadProof
  <2>2. CASE screen' = Loading(Problem(screen), FALSE)
    <3>1. Problem(screen) \in Screen /\ ~Problem(screen).spinner
          /\ Problem(screen).id = screen.id /\ Problem(screen).downloads = screen.downloads
      BY <1>1, Screens
    <3> QED
      BY <1>4, <2>1, <2>2, <3>1, Screens
  <2>3. CASE screen' = [Loading(Hidden(screen), FALSE) EXCEPT !.status = "downloaded"]
    <3> DEFINE s == Loading(Hidden(screen), FALSE)
    <3>1. /\ Hidden(screen) \in Screen /\ ~Hidden(screen).spinner
          /\ Hidden(screen).id = screen.id /\ Hidden(screen).downloads = screen.downloads
      BY <1>1, Spinners
    <3>2. s \in Screen /\ ~s.spinner /\ ~s.loader /\ s.id = screen.id
          /\ s.downloads = screen.downloads
      BY <3>1, Screens
    <3>3. screen' = [s EXCEPT !.status = "downloaded"]
      BY <2>3
    <3> HIDE DEF s
    <3> QED
      BY <1>4, <2>1, <3>2, <3>3 DEF Screen
  <2>4. CASE screen' = Raised(Loading(screen, FALSE))
    <3>1. /\ Loading(screen, FALSE) \in Screen /\ ~Loading(screen, FALSE).loader
          /\ Loading(screen, FALSE).id = screen.id
          /\ Loading(screen, FALSE).downloads = screen.downloads
      BY <1>1, Screens
    <3> QED
      BY <1>4, <2>1, <2>4, <3>1, Spinners
  <2> QED
    BY <2>1, <2>2, <2>3, <2>4
<1>13. CASE RequestFails(f)
  <2>1. /\ Ends(f) /\ Past(f, {"rpc", "counter", "chain", "proof"})
        /\ screen' \in {ShowCreated(screen), Loading(Problem(screen), FALSE)}
    BY <1>13 DEF RequestFails, Past
  <2>2. /\ Problem(screen) \in Screen /\ ~Problem(screen).spinner
        /\ Problem(screen).id = screen.id
    BY <1>1, Screens
  <2>3. ~screen'.loader /\ ~screen'.spinner /\ screen'.id = screen.id
    <3>1. CASE screen' = ShowCreated(screen)
      BY <1>1, <3>1, Screens
    <3>2. CASE screen' = Loading(Problem(screen), FALSE)
      BY <2>2, <3>2, Screens
    <3> QED
      BY <2>1, <3>1, <3>2
  <2> QED
    BY <1>4, <2>1, <2>3
<1> QED
  BY <1>6, <1>7, <1>8, <1>9, <1>10, <1>11, <1>12, <1>13 DEF Answer

LEMMA UserScreen ==
    ASSUME TypeInv, UserActs
    PROVE  /\ screen'.loader = screen.loader /\ screen'.downloads = screen.downloads
           /\ screen'.id = screen.id
           /\ screen'.spinner => screen.spinner /\ screen'.raised = screen.raised
<1>1. TypeOK /\ screen \in Screen
  BY DEF TypeInv, TypeOK, Screen
<1>2. screen' \in {screen, Problem(screen), [screen EXCEPT !.form = TRUE]}
  BY <1>1, UserActsKeep
<1>3. CASE screen' = Problem(screen)
  BY <1>1, <1>3, Screens
<1>4. CASE screen' = [screen EXCEPT !.form = TRUE]
  BY <1>1, <1>4 DEF Screen
<1> QED
  BY <1>2, <1>3, <1>4

\* A flow that begins is at its first await, and is none that ran.
LEMMA Begins ==
    ASSUME TypeInv, NEW f \in Flow, Starts(f)
    PROVE  /\ flow[f] = Idle /\ \A g \in Flow \ {f} : flow'[g] = flow[g]
           /\ Running(f)' /\ UNCHANGED <<loaded, tx, answers, rvars>>
           /\ screen'.downloads = screen.downloads /\ screen'.id = screen.id
           /\ \/ /\ flow'[f].at = "tabs" /\ flow'[f].job.does = "certify"
                 /\ flow'[f].job.id \in SpawnTx /\ Fresh(flow'[f].job.id)
                 /\ screen'.loader = screen.loader
                 /\ UNCHANGED <<box, touched, stored>>
                 /\ \/ flow'[f].job.selector = FullPage /\ UNCHANGED restoring
                    \/ restoring'
              \/ /\ flow'[f].at = "roster" /\ flow'[f].job.does = "verify"
                 /\ UNCHANGED option
              \/ /\ flow'[f].at = "tabs" /\ flow'[f].job.does = "download"
                 /\ screen.downloads /\ screen'.loader = screen.loader
                 /\ UNCHANGED option
              \/ /\ flow'[f].at = "tabs" /\ flow'[f].job.does = "infos"
                 /\ screen.downloads /\ UNCHANGED screen /\ UNCHANGED option
<1>1. TypeOK /\ screen \in Screen
  BY DEF TypeInv, TypeOK, Screen
<1>2. /\ flow[f] = Idle /\ UNCHANGED <<loaded, tx, answers, rvars>>
      /\ StartsCertify(f) \/ StartsVerify(f) \/ StartsDownload(f) \/ StartsInfos(f)
  BY <1>1, StartsKinds
<1>3. CASE StartsCertify(f)
  <2>1. PICK id \in SpawnTx, selector \in Selector :
          /\ Fresh(id)
          /\ Goes(f, "tabs", [does |-> "certify", id |-> id, selector |-> selector,
                              textOnly |-> FALSE])
          /\ screen' = [Shown(screen) EXCEPT !.status = "creating"]
          /\ UNCHANGED <<box, touched, stored>>
          /\ \/ selector = FullPage /\ UNCHANGED restoring
             \/ restoring'
    BY <1>3 DEF StartsCertify
  <2> DEFINE job == [does |-> "certify", id |-> id, selector |-> selector, textOnly |-> FALSE]
  <2>2. job \in Job
    BY DEF Job
  <2>3. /\ Running(f)' /\ flow'[f].at = "tabs" /\ flow'[f].job = job
        /\ \A g \in Flow \ {f} : flow'[g] = flow[g]
    BY <1>1, <2>1, <2>2, FlowGoes DEF Awaits
  <2>4. /\ screen'.downloads = screen.downloads /\ screen'.id = screen.id
        /\ screen'.loader = screen.loader
    BY <1>1, <2>1 DEF Screen, Shown
  <2> QED
    BY <1>2, <2>1, <2>3, <2>4
<1>4. CASE StartsVerify(f)
  <2> DEFINE job == [does |-> "verify", paste |-> Malformed]
  <2>2. job \in Job
    BY DEF Job
  <2>3. /\ Running(f)' /\ flow'[f].at = "roster" /\ flow'[f].job = job
        /\ \A g \in Flow \ {f} : flow'[g] = flow[g]
    BY <1>1, <1>4, <2>2, FlowGoes DEF Awaits, StartsVerify
  <2>4. /\ screen'.downloads = screen.downloads /\ screen'.id = screen.id
        /\ UNCHANGED option
    BY <1>1, <1>4 DEF Screen, Shown, StartsVerify
  <2> QED
    BY <1>2, <2>3, <2>4
<1>5. CASE StartsDownload(f)
  <2> DEFINE job == [does |-> "download", id |-> NoId]
  <2>2. job \in Job
    BY DEF Job
  <2>3. /\ Running(f)' /\ flow'[f].at = "tabs" /\ flow'[f].job = job
        /\ \A g \in Flow \ {f} : flow'[g] = flow[g]
    BY <1>1, <1>5, <2>2, FlowGoes DEF Awaits, StartsDownload
  <2>4. /\ screen'.downloads = screen.downloads /\ screen'.id = screen.id
        /\ screen'.loader = screen.loader /\ screen.downloads /\ UNCHANGED option
    BY <1>1, <1>5 DEF Screen, Shown, StartsDownload
  <2> QED
    BY <1>2, <2>3, <2>4
<1>6. CASE StartsInfos(f)
  <2> DEFINE job == [does |-> "infos", id |-> NoId]
  <2>2. job \in Job
    BY DEF Job
  <2>3. /\ Running(f)' /\ flow'[f].at = "tabs" /\ flow'[f].job = job
        /\ \A g \in Flow \ {f} : flow'[g] = flow[g]
    BY <1>1, <1>6, <2>2, FlowGoes DEF Awaits, StartsInfos
  <2>4. /\ screen.downloads /\ UNCHANGED screen /\ UNCHANGED option
        /\ screen'.downloads = screen.downloads /\ screen'.id = screen.id
    BY <1>6 DEF StartsInfos
  <2>5. flow'[f].at = "tabs" /\ flow'[f].job.does = "infos"
    BY <2>3
  <2> HIDE DEF job
  <2> QED
    BY <1>2, <2>3, <2>4, <2>5, Zenon
<1> QED
  BY <1>2, <1>3, <1>4, <1>5, <1>6

-----------------------------------------------------------------------------
(* The Handler.                                                            *)

LEMMA ReadyKept == TypeInv /\ ReadyInv /\ [Next]_vars => ReadyInv'
<1> SUFFICES ASSUME TypeInv, ReadyInv, [Next]_vars PROVE ReadyInv'
  OBVIOUS
<1>1. CASE UserActs
  <2>1. UNCHANGED <<loaded, flow>> /\ screen'.downloads = screen.downloads
    BY <1>1, UserActsKeep, UserScreen DEF TypeInv
  <2> QED
    BY <2>1 DEF ReadyInv, Ready, HandlerReady, Past, At, Does, Running
<1>2. CASE Close
  BY <1>2 DEF Close, Blank, ReadyInv, HandlerReady, Past, At, Running
<1>3. CASE Cothority
  <2>1. UNCHANGED <<loaded, flow, screen>>
    BY <1>3, CothorityKinds
  <2> QED
    BY <2>1 DEF ReadyInv, Ready, HandlerReady, Past, At, Does, Running
<1>4. ASSUME NEW f \in Flow, Starts(f) PROVE ReadyInv'
  <2>1. /\ \A g \in Flow \ {f} : flow'[g] = flow[g]
        /\ UNCHANGED loaded /\ screen'.downloads = screen.downloads
        /\ flow'[f].at \in {"tabs", "roster"}
        /\ flow'[f].job.does = "download" => screen.downloads
    BY <1>4, Begins
  <2> QED
    BY <2>1 DEF ReadyInv, Ready, HandlerReady, Past, At, Does, Running
<1>5. ASSUME NEW f \in Flow, Answer(f) PROVE ReadyInv'
  <2>1. /\ Running(f) /\ \A g \in Flow \ {f} : flow'[g] = flow[g]
        /\ loaded \subseteq loaded'
    BY <1>5, AnswerMoves
  <2>2. Ready => Ready'
    BY <2>1 DEF Ready
  <2>3. ASSUME Running(f)'
        PROVE  /\ Does(f, "download")' => Does(f, "download")
               /\ flow'[f].at = "darc" => "roster" \in loaded'
               /\ flow'[f].at \in {"rpc", "counter", "chain", "proof"} => Ready'
    <3>1. Moves(f, "darc", "rpc") /\ "darc" \in loaded' => Ready'
      BY <2>1 DEF Moves, ReadyInv, At, Running, Ready
    <3>2. Does(f, "download") => Ready
      BY <2>1 DEF ReadyInv
    <3>3. flow[f].at \in {"rpc", "counter", "chain", "proof"} => Ready
      BY <2>1 DEF ReadyInv, HandlerReady, Past, At, Running, Ready
    <3> QED
      BY <1>5, <2>2, <2>3, <3>1, <3>2, <3>3, AnswerMoves DEF Moves, Does
  <2>4. screen'.downloads => Ready'
    <3>1. screen'.downloads => \/ screen.downloads
                               \/ Past(f, {"rpc", "counter", "chain", "proof"})
      BY <1>5, AnswerScreen
    <3> QED
      BY <2>2, <3>1 DEF ReadyInv, HandlerReady, Ready
  <2> QED
    BY <2>1, <2>2, <2>3, <2>4 DEF ReadyInv, Ready, HandlerReady, Past, At, Does, Running
<1> QED
  BY <1>1, <1>2, <1>3, <1>4, <1>5, NextCases

-----------------------------------------------------------------------------
(* The screen.                                                             *)

LEMMA ScreenKept == TypeInv /\ ScreenInv /\ [Next]_vars => ScreenInv'
<1> SUFFICES ASSUME TypeInv, ScreenInv, [Next]_vars PROVE ScreenInv'
  OBVIOUS
<1>1. CASE UserActs
  <2>1. /\ UNCHANGED flow /\ screen'.loader = screen.loader
        /\ screen'.spinner => screen.spinner /\ screen'.raised = screen.raised
    BY <1>1, UserActsKeep, UserScreen DEF TypeInv
  <2> QED
    BY <2>1 DEF ScreenInv, Does, Running
<1>2. CASE Close
  BY <1>2 DEF Close, Blank, ScreenInv
<1>3. CASE Cothority
  <2>1. UNCHANGED <<flow, screen>>
    BY <1>3, CothorityKinds
  <2> QED
    BY <2>1 DEF ScreenInv, Does, Running
<1>4. ASSUME NEW f \in Flow, Starts(f) PROVE ScreenInv'
  <2>1. /\ ~Running(f) /\ Running(f)' /\ \A g \in Flow \ {f} : flow'[g] = flow[g]
    BY <1>4, Begins DEF Running
  <2>2. /\ screen'.loader => screen.loader \/ flow'[f].at # "tabs"
        /\ UNCHANGED screen \/ ~Does(f, "infos")'
    BY <1>4, Begins DEF Does
  <2> QED
    BY <2>1, <2>2 DEF ScreenInv, Does, Running
<1>5. ASSUME NEW f \in Flow, Answer(f) PROVE ScreenInv'
  <2>1. /\ Running(f) /\ \A g \in Flow \ {f} : flow'[g] = flow[g]
        /\ Running(f)' => flow'[f].job.does = flow[f].job.does /\ flow'[f].at # "tabs"
    BY <1>5, AnswerMoves DEF Moves
  <2>2. CASE Running(f)'
    <3>1. /\ ~Does(f, "infos")
          /\ screen'.spinner => screen.spinner /\ screen'.raised = screen.raised
      BY <1>5, <2>2, AnswerScreen
    <3> QED
      BY <2>1, <2>2, <3>1 DEF ScreenInv, Does, Running
  <2>3. CASE ~Running(f)'
    <3>1. \/ UNCHANGED screen /\ Does(f, "infos") /\ flow[f].at = "tabs"
          \/ /\ screen'.loader => screen.loader /\ flow[f].at = "tabs"
             /\ screen'.spinner => screen'.raised
      BY <1>5, <2>3, AnswerScreen
    <3> QED
      BY <2>1, <2>3, <3>1 DEF ScreenInv, Does, Running
  <2> QED
    BY <2>2, <2>3
<1> QED
  BY <1>1, <1>2, <1>3, <1>4, <1>5, NextCases

-----------------------------------------------------------------------------
(* The option.                                                             *)

LEMMA OptionInvKept == TypeInv /\ OptionInv /\ [Next]_vars => OptionInv'
<1> SUFFICES ASSUME TypeInv, OptionInv, [Next]_vars PROVE OptionInv'
  OBVIOUS
<1>1. CASE UserActs
  <2>1. UNCHANGED flow
    BY <1>1, UserActsKeep DEF TypeInv
  <2>2. (box = stored \/ restoring \/ touched) => (box = stored \/ restoring \/ touched)'
    BY <1>1 DEF UserActs, Open, Toggle, ClickSection, GadgetAnswer, PickSection, NoGadget,
                RestoreAnswer, ClickUpload, PasteText, vars, option
  <2> QED
    BY <2>1, <2>2 DEF OptionInv, Certifies, Running, Does
<1>2. CASE Close
  BY <1>2 DEF Close, OptionInv, Certifies, Running
<1>3. CASE Cothority
  <2>1. UNCHANGED <<flow, option>>
    BY <1>3, CothorityKinds
  <2> QED
    BY <2>1 DEF OptionInv, Certifies, Does, Running, option
<1>4. ASSUME NEW f \in Flow, Starts(f) PROVE OptionInv'
  <2>1. /\ \A g \in Flow \ {f} : flow'[g] = flow[g]
        /\ UNCHANGED <<box, touched, stored>>
        /\ UNCHANGED restoring \/ restoring'
        /\ flow'[f].job.does = "certify" => flow'[f].job.selector = FullPage \/ restoring'
    BY <1>4, Begins DEF option
  <2> QED
    BY <2>1 DEF OptionInv, Certifies, Does, Running
<1>5. ASSUME NEW f \in Flow, Answer(f) PROVE OptionInv'
  <2>1. /\ Running(f) /\ \A g \in Flow \ {f} : flow'[g] = flow[g]
        /\ UNCHANGED option
        /\ Running(f)' => /\ flow'[f].job.does = flow[f].job.does
                          /\ Does(f, "certify") => flow'[f].job.selector = flow[f].job.selector
    BY <1>5, AnswerMoves
  <2> QED
    BY <2>1 DEF OptionInv, Certifies, Does, Running, option
<1> QED
  BY <1>1, <1>2, <1>3, <1>4, <1>5, NextCases

\* Only an answer moves a flow on.
LEMMA OnlyAnswersMove ==
    ASSUME TypeInv, [Next]_vars, NEW f \in Flow, Running(f), Running(f)',
           flow'[f] # flow[f]
    PROVE  Answer(f)
<1>1. CASE UserActs
  BY <1>1, UserActsKeep DEF TypeInv
<1>2. CASE Close
  BY <1>2 DEF Close, Running
<1>3. CASE Cothority
  BY <1>3, CothorityKinds
<1>4. ASSUME NEW g \in Flow, Starts(g) PROVE FALSE
  BY <1>4, Begins DEF Running
<1>5. ASSUME NEW g \in Flow, Answer(g) PROVE g = f
  BY <1>5, AnswerMoves
<1> QED
  BY <1>1, <1>2, <1>3, <1>4, <1>5, NextCases

LEMMA OptionStep ==
    ASSUME TypeInv, OptionInv, [Next]_vars, NEW f \in Flow, At(f, "darc"), At(f, "rpc")',
           Does(f, "certify"), flow[f].job.selector # FullPage
    PROVE  flow'[f].job.textOnly = stored \/ restoring \/ touched
<1>1. /\ Running(f) /\ Running(f)' /\ flow'[f] # flow[f]
      /\ flow[f].at = "darc" /\ flow'[f].at = "rpc"
  BY DEF At, Running
<1>2. Answer(f)
  BY <1>1, OnlyAnswersMove
<1>3. flow'[f].job.textOnly = box
  BY <1>1, <1>2, AnswerMoves DEF Moves
<1> QED
  BY <1>1, <1>3 DEF OptionInv, Certifies

-----------------------------------------------------------------------------
(* The ledger, and what was sent to it.                                    *)

\* What a step of the cothority means for one id: it enters the ledger, keeps
\* what it has, or is deleted.
LEMMA CothorityStep ==
    ASSUME TypeInv, Cothority, NEW t \in SpawnTx
    PROVE  /\ t \in Applied => t \in Applied'
           /\ t \in Applied' /\ t \notin Applied =>
                 \/ Fresh(t)
                 \/ tx[t] # NotSent /\ ledger'[t].args = tx[t].args
           /\ ledger'[t] # NoInstance =>
                 \/ ledger'[t] = ledger[t]
                 \/ t \in Applied' /\ t \notin Applied /\ Genuine(ledger'[t])
<1>1. Applied \subseteq Applied'
  BY CothorityKinds
<1>2. CASE \E u \in SpawnTx :
              /\ u \notin Applied /\ u \in Applied'
              /\ \/ Fresh(u)
                 \/ tx[u] # NotSent /\ ledger'[u].args = tx[u].args
              /\ ledger'[u] \in Instance /\ Genuine(ledger'[u])
              /\ \A v \in SpawnTx \ {u} :
                    ledger'[v] = ledger[v] /\ (v \in Applied' => v \in Applied)
  <2> PICK u \in SpawnTx :
              /\ u \notin Applied /\ u \in Applied'
              /\ \/ Fresh(u)
                 \/ tx[u] # NotSent /\ ledger'[u].args = tx[u].args
              /\ ledger'[u] \in Instance /\ Genuine(ledger'[u])
              /\ \A v \in SpawnTx \ {u} :
                    ledger'[v] = ledger[v] /\ (v \in Applied' => v \in Applied)
    BY <1>2
  <2>1. CASE t = u
    BY <2>1
  <2>2. CASE t # u
    BY <1>1, <2>2
  <2> QED
    BY <2>1, <2>2
<1>3. CASE \E d \in DeleteTx, u \in SpawnTx :
              /\ ledger'[u] = NoInstance
              /\ \A v \in SpawnTx \ {u} : ledger'[v] = ledger[v]
              /\ \A v \in SpawnTx : v \in Applied' => v \in Applied
  BY <1>1, <1>3
<1> QED
  BY <1>2, <1>3, CothorityKinds

\* Unless the cothority acts, the ledger stays as it is.
LEMMA OnlyCothorityApplies ==
    ASSUME TypeInv, [Next]_vars
    PROVE  Cothority \/ UNCHANGED rvars
<1>1. UserActs => UNCHANGED rvars
  BY UserActsKeep DEF TypeInv
<1>2. Close => UNCHANGED rvars
  BY DEF Close
<1>3. ASSUME NEW f \in Flow, Starts(f) PROVE UNCHANGED rvars
  BY <1>3, Begins
<1>4. ASSUME NEW f \in Flow, Answer(f) PROVE UNCHANGED rvars
  BY <1>4, AnswerMoves
<1> QED
  BY <1>1, <1>2, <1>3, <1>4, NextCases

\* What is on the ledger under an id that was applied stays, or is deleted.
LEMMA AppliedStays ==
    ASSUME TypeInv, [Next]_vars, NEW t \in SpawnTx, t \in Applied
    PROVE  /\ t \in Applied'
           /\ ledger'[t] # NoInstance => ledger'[t] = ledger[t]
<1>1. CASE Cothority
  BY <1>1, CothorityKinds
<1>2. CASE UNCHANGED rvars
  BY <1>2 DEF rvars, Applied
<1> QED
  BY <1>1, <1>2, OnlyCothorityApplies

LEMMA LedgerKept == TypeInv /\ LedgerInv /\ [Next]_vars => LedgerInv'
<1> SUFFICES ASSUME TypeInv, LedgerInv, [Next]_vars, NEW t \in SpawnTx,
                    ledger'[t] # NoInstance
             PROVE  t \in Applied' /\ Genuine(ledger[t])'
  BY DEF LedgerInv
<1>1. CASE Cothority
  <2>1. UNCHANGED served
    BY <1>1, CothorityKinds
  <2>2. t \in Applied' /\ Genuine(ledger'[t])
    BY <1>1, CothorityStep DEF LedgerInv
  <2> QED
    BY <2>1, <2>2 DEF Genuine
<1>2. CASE UNCHANGED rvars
  <2>1. UNCHANGED served /\ UNCHANGED ledger /\ UNCHANGED log
    BY <1>2 DEF rvars
  <2>2. t \in Applied /\ Genuine(ledger[t])
    BY <2>1 DEF LedgerInv
  <2> QED
    BY <2>1, <2>2 DEF Genuine, Applied
<1> QED
  BY <1>1, <1>2, OnlyCothorityApplies

LEMMA SentKept == TypeInv /\ LedgerInv /\ SentInv /\ [Next]_vars => SentInv'
<1> SUFFICES ASSUME TypeInv, LedgerInv, SentInv, [Next]_vars PROVE SentInv'
  OBVIOUS
<1>1. CASE UserActs
  <2>1. UNCHANGED flow /\ UNCHANGED tx /\ UNCHANGED rvars /\ screen'.id = screen.id
    BY <1>1, UserActsKeep, UserScreen DEF TypeInv
  <2> QED
    BY <2>1 DEF SentInv, ShownIdAttested, Certifies, Running, Does, Unsent, Applied, Exists,
                rvars
<1>2. CASE Close
  <2>1. /\ \A f \in Flow : ~Running(f)'
        /\ UNCHANGED tx /\ UNCHANGED rvars /\ screen'.id = NoId
    BY <1>2 DEF Close, Running, Blank
  <2> QED
    BY <2>1 DEF SentInv, ShownIdAttested, Certifies, rvars
<1>3. CASE Cothority
  <2>1. /\ UNCHANGED screen /\ UNCHANGED flow /\ UNCHANGED tx
        /\ Applied \subseteq Applied'
    BY <1>3, CothorityKinds
  <2>2. \A f \in Flow : /\ Certifies(f)' <=> Certifies(f)
                        /\ Unsent(f)' <=> Unsent(f)
    BY <2>1 DEF Certifies, Running, Does, Unsent
  <2>3. \A t \in SpawnTx :
           /\ t \in Applied' /\ t \notin Applied =>
                 \/ Fresh(t)
                 \/ tx[t] # NotSent /\ ledger'[t].args = tx[t].args
           /\ ledger'[t] # NoInstance =>
                 \/ ledger'[t] = ledger[t]
                 \/ t \in Applied' /\ t \notin Applied
    BY <1>3, CothorityStep
  <2>4. \A f \in Flow : Certifies(f) => flow[f].job.id \in SpawnTx
    BY KindOfJob DEF Certifies, CertifyJob
  <2>5. ASSUME NEW f \in Flow, Certifies(f), Unsent(f)
        PROVE  flow[f].job.id \notin Applied'
    <3>1. tx[flow[f].job.id] = NotSent /\ flow[f].job.id \notin Applied
      BY <2>5 DEF SentInv
    <3>2. ~Fresh(flow[f].job.id)
      BY <2>5 DEF Fresh, Certifies, Running, Does
    <3> QED
      BY <2>3, <2>4, <2>5, <3>1, <3>2
  <2>6. \A t \in SpawnTx : tx[t] # NotSent /\ ledger'[t] # NoInstance
                             => ledger'[t].args = tx[t].args
    BY <2>3 DEF SentInv, Fresh
  <2>7. ShownIdAttested'
    <3>1. screen.id \in SpawnTx \cup {NoId}
      BY DEF TypeInv, TypeOK
    <3> QED
      BY <2>1, <2>6, <3>1 DEF SentInv, ShownIdAttested, Exists
  <2> QED
    BY <2>1, <2>2, <2>5, <2>6, <2>7 DEF SentInv
<1>4. ASSUME NEW f \in Flow, Starts(f) PROVE SentInv'
  <2>1. /\ ~Running(f) /\ Running(f)' /\ \A g \in Flow \ {f} : flow'[g] = flow[g]
        /\ UNCHANGED tx /\ UNCHANGED rvars /\ screen'.id = screen.id
        /\ flow'[f].job.does = "certify" => /\ flow'[f].at = "tabs"
                                            /\ Fresh(flow'[f].job.id)
    BY <1>4, Begins DEF Running
  <2>2. UNCHANGED Applied
    BY <2>1 DEF Applied, rvars
  <2>3. ShownIdAttested'
    BY <2>1, <2>2 DEF SentInv, ShownIdAttested, Exists, rvars
  <2>4. \A g \in Flow \ {f} : /\ Certifies(g)' <=> Certifies(g)
                              /\ Unsent(g)' <=> Unsent(g)
                              /\ flow'[g].job.id = flow[g].job.id
                              /\ flow'[g].at = flow[g].at
    BY <2>1 DEF Certifies, Running, Does, Unsent
  <2>5. Certifies(f)' => Unsent(f)' /\ Fresh(flow'[f].job.id) /\ flow'[f].at # "proof"
    BY <2>1 DEF Certifies, Does, Unsent
  <2>6. \A id : Fresh(id) => /\ tx[id] = NotSent /\ id \notin Applied
                             /\ \A g \in Flow : Certifies(g) => flow[g].job.id # id
    BY DEF Fresh, Certifies, Running, Does
  <2>7. \A g, h \in Flow : Certifies(g)' /\ Certifies(h)' /\ flow'[g].job.id = flow'[h].job.id
                              => g = h
    BY <2>4, <2>5, <2>6 DEF SentInv
  <2>8. \A g \in Flow : Certifies(g)' =>
           /\ Unsent(g)' => tx[flow'[g].job.id] = NotSent /\ flow'[g].job.id \notin Applied
           /\ ~Unsent(g)' => tx[flow'[g].job.id] # NotSent
           /\ flow'[g].at = "proof" => flow'[g].job.id \in Applied
    BY <2>4, <2>5, <2>6 DEF SentInv
  <2>9. \A t \in SpawnTx : tx[t] # NotSent /\ ledger[t] # NoInstance
                             => ledger[t].args = tx[t].args
    BY DEF SentInv
  <2>10. UNCHANGED ledger
    BY <2>1 DEF rvars
  <2> QED
    BY <2>1, <2>2, <2>3, <2>7, <2>8, <2>9, <2>10 DEF SentInv
<1>5. ASSUME NEW f \in Flow, Answer(f) PROVE SentInv'
  <2> DEFINE id == flow[f].job.id
  <2>1. /\ Running(f) /\ \A g \in Flow \ {f} : flow'[g] = flow[g]
        /\ UNCHANGED ledger /\ UNCHANGED log
        /\ ~Running(f)' => UNCHANGED tx
    BY <1>5, AnswerMoves DEF rvars
  <2>2. UNCHANGED Applied
    BY <2>1 DEF Applied
  <2>3. \A g \in Flow \ {f} : /\ Certifies(g)' <=> Certifies(g)
                              /\ Unsent(g)' <=> Unsent(g)
                              /\ flow'[g].job.id = flow[g].job.id
                              /\ flow'[g].at = flow[g].at
    BY <2>1 DEF Certifies, Running, Does, Unsent
  <2>4. Certifies(f)' => Certifies(f) /\ flow'[f].job.id = id
    BY <1>5, <2>1, AnswerMoves DEF Certifies, Does
  <2>5. \A g, h \in Flow : Certifies(g)' /\ Certifies(h)' /\ flow'[g].job.id = flow'[h].job.id
                              => g = h
    BY <2>3, <2>4 DEF SentInv
  <2>6. \A g \in Flow : Certifies(g) => flow[g].job.id \in SpawnTx
    BY KindOfJob DEF Certifies, CertifyJob
  <2>7. \/ UNCHANGED tx
        \/ /\ Certifies(f) /\ Moves(f, "counter", "chain") /\ tx[id] = NotSent
           /\ id \notin Applied /\ tx'[id] # NotSent
           /\ \A t \in SpawnTx \ {id} : tx'[t] = tx[t]
    <3>1. \/ UNCHANGED tx
          \/ Moves(f, "counter", "chain") /\ Send(flow[f].job)
      <4>1. CASE Running(f)'
        BY <1>5, <4>1, AnswerMoves
      <4>2. CASE ~Running(f)'
        BY <2>1, <4>2
      <4> QED
        BY <4>1, <4>2
    <3>2. CASE Moves(f, "counter", "chain") /\ Send(flow[f].job)
      <4>1. flow[f].at = "counter"
        BY <3>2 DEF Moves
      <4>2. flow[f].job \in CertifyJob
        BY <2>1, <4>1 DEF TypeInv, Stages, Fits
      <4>3. Certifies(f)
        BY <2>1, <4>2, KindOfJob DEF Certifies
      <4>4. tx[id] = NotSent /\ id \notin Applied
        BY <4>1, <4>3 DEF SentInv, Unsent
      <4> QED
        BY <3>2, <4>2, <4>3, <4>4, SentType
    <3> QED
      BY <3>1, <3>2
  <2>8. ASSUME NEW g \in Flow, Certifies(g)'
        PROVE  /\ Unsent(g)' => tx'[flow'[g].job.id] = NotSent /\ flow'[g].job.id \notin Applied
               /\ ~Unsent(g)' => tx'[flow'[g].job.id] # NotSent
               /\ flow'[g].at = "proof" => flow'[g].job.id \in Applied
    <3>1. CASE g # f
      <4>1. /\ Certifies(g) /\ (Unsent(g)' <=> Unsent(g)) /\ flow'[g].job.id = flow[g].job.id
            /\ flow'[g].at = flow[g].at /\ flow[g].job.id \in SpawnTx
        BY <2>3, <2>6, <2>8, <3>1
      <4>2. tx'[flow[g].job.id] = tx[flow[g].job.id]
        BY <2>7, <3>1, <4>1 DEF SentInv
      <4> QED
        BY <4>1, <4>2 DEF SentInv
    <3>2. CASE g = f
      <4>1. Certifies(f) /\ flow'[f].job.id = id /\ Running(f)' /\ Does(f, "certify")
        BY <2>4, <2>8, <3>2 DEF Certifies
      <4>2. \/ /\ flow[f].at \in {"tabs", "roster", "darc", "rpc"} /\ UNCHANGED tx
               /\ flow'[f].at \in {"roster", "darc", "rpc", "counter"}
            \/ Moves(f, "counter", "chain") /\ ~UNCHANGED tx
            \/ Moves(f, "chain", "proof") /\ id \in Applied /\ UNCHANGED tx
        <5>1. Moves(f, "counter", "chain") /\ Send(flow[f].job) => ~UNCHANGED tx
          <6>1. ASSUME Moves(f, "counter", "chain"), Send(flow[f].job) PROVE ~UNCHANGED tx
            <7>1. tx[id] = NotSent
              BY <4>1, <6>1 DEF SentInv, Unsent, Moves
            <7>2. flow[f].job \in CertifyJob
              BY <2>1, <4>1, KindOfJob
            <7>3. tx'[id] # NotSent
              BY <6>1, <7>2, SentType
            <7> QED
              BY <7>1, <7>3
          <6> QED
            BY <6>1
        <5> QED
          BY <1>5, <4>1, <5>1, AnswerMoves DEF Moves
      <4>3. CASE /\ flow[f].at \in {"tabs", "roster", "darc", "rpc"} /\ UNCHANGED tx
                 /\ flow'[f].at \in {"roster", "darc", "rpc", "counter"}
        <5>1. Unsent(f) /\ Unsent(f)'
          BY <4>3 DEF Unsent
        <5>2. tx[id] = NotSent /\ id \notin Applied
          BY <4>1, <5>1 DEF SentInv
        <5> QED
          BY <3>2, <4>1, <4>3, <5>1, <5>2
      <4>4. CASE Moves(f, "counter", "chain") /\ ~UNCHANGED tx
        <5>1. ~Unsent(f)' /\ flow'[f].at # "proof"
          BY <4>4 DEF Unsent, Moves
        <5>2. tx'[id] # NotSent
          BY <2>7, <4>4
        <5> QED
          BY <3>2, <4>1, <5>1, <5>2
      <4>5. CASE Moves(f, "chain", "proof") /\ id \in Applied /\ UNCHANGED tx
        <5>1. ~Unsent(f) /\ ~Unsent(f)'
          BY <4>5 DEF Unsent, Moves
        <5>2. tx[id] # NotSent
          BY <4>1, <5>1 DEF SentInv
        <5> QED
          BY <3>2, <4>1, <4>5, <5>1, <5>2
      <4> QED
        BY <4>2, <4>3, <4>4, <4>5
    <3> QED
      BY <3>1, <3>2
  <2>9. \A t \in SpawnTx : tx'[t] # NotSent /\ ledger[t] # NoInstance
                             => ledger[t].args = tx'[t].args
    <3> SUFFICES ASSUME NEW t \in SpawnTx, tx'[t] # NotSent, ledger[t] # NoInstance
                 PROVE  ledger[t].args = tx'[t].args
      OBVIOUS
    <3>1. t \in Applied
      BY DEF LedgerInv
    <3>2. tx'[t] = tx[t]
      BY <2>7, <3>1
    <3> QED
      BY <3>2 DEF SentInv
  <2>10. screen'.id # NoId => tx'[screen'.id] # NotSent /\ screen'.id \in Applied
    <3>1. screen.id \in SpawnTx \cup {NoId}
      BY DEF TypeInv, TypeOK
    <3>2. CASE screen'.id = screen.id
      <4>1. screen.id # NoId => tx[screen.id] # NotSent /\ screen.id \in Applied
        BY DEF SentInv, ShownIdAttested
      <4> QED
        BY <2>7, <3>1, <3>2, <4>1
    <3>3. CASE /\ ~Running(f)' /\ At(f, "proof") /\ Does(f, "certify") /\ screen'.id = id
      <4>1. Certifies(f) /\ ~Unsent(f) /\ flow[f].at = "proof"
        BY <2>1, <3>3 DEF Certifies, Unsent, At
      <4>2. tx[id] # NotSent /\ id \in Applied
        BY <4>1 DEF SentInv
      <4> QED
        BY <2>1, <3>3, <4>2
    <3> QED
      BY <1>5, <3>2, <3>3, AnswerScreen
  <2>11. ShownIdAttested'
    <3>1. screen'.id \in SpawnTx \cup {NoId}
      BY <1>5, AnswerTypeInv DEF TypeInv, TypeOK
    <3> QED
      BY <2>1, <2>2, <2>9, <2>10, <3>1 DEF ShownIdAttested, Exists
  <2> QED
    BY <2>1, <2>2, <2>5, <2>8, <2>9, <2>11 DEF SentInv
<1> QED
  BY <1>1, <1>2, <1>3, <1>4, <1>5, NextCases

-----------------------------------------------------------------------------
(* What was said of a text, and what was downloaded.                       *)

\* The attestations that are there are genuine, so that a text matches one
\* exactly if it is its content.
LEMMA MatchingTexts ==
    ASSUME LedgerInv, NEW p, p.id \in SpawnTx, ledger[p.id] # NoInstance
    PROVE  /\ p.id \in Applied
           /\ Matches(p) <=> p.content = ledger[p.id].content
           /\ \E view \in served :
                  ledger[p.id].content = Extract(view[2], ledger[p.id].args)
BY DEF LedgerInv, Genuine, Matches, Hash

\* Only an answer says something of a text, and of one that is on the ledger.
LEMMA Verdicts ==
    ASSUME TypeInv, [Next]_vars
    PROVE  \/ UNCHANGED answers
           \/ \E p \in Paste :
                /\ Exists(p.id) /\ UNCHANGED rvars
                /\ \/ ticked' = ticked \cup {p} /\ UNCHANGED <<files, crossed>> /\ Matches(p)
                   \/ crossed' = crossed \cup {p} /\ UNCHANGED <<files, ticked>> /\ ~Matches(p)
                   \/ /\ files' = files \cup {p} /\ UNCHANGED <<ticked, crossed>>
                      /\ p.content = Decoded[ledger[p.id].content]
<1>1. UserActs => UNCHANGED answers
  BY UserActsKeep DEF TypeInv
<1>2. Close => UNCHANGED answers
  BY DEF Close
<1>3. Cothority => UNCHANGED answers
  BY CothorityKinds
<1>4. ASSUME NEW f \in Flow, Starts(f) PROVE UNCHANGED answers
  BY <1>4, Begins
<1>5. ASSUME NEW f \in Flow, VerifyProof(f)
      PROVE  \/ UNCHANGED answers
             \/ \E p \in Paste :
                  /\ Exists(p.id) /\ UNCHANGED rvars
                  /\ \/ ticked' = ticked \cup {p} /\ UNCHANGED <<files, crossed>> /\ Matches(p)
                     \/ crossed' = crossed \cup {p} /\ UNCHANGED <<files, ticked>> /\ ~Matches(p)
  <2> DEFINE p == flow[f].job.paste
  <2>1. p \in Paste
    BY <1>5, AtProof DEF VerifyProof
  <2>2. UNCHANGED rvars
    BY <1>5 DEF VerifyProof, Others
  <2>3. \/ UNCHANGED answers
        \/ Exists(p.id) /\ Matches(p) /\ ticked' = ticked \cup {p} /\ UNCHANGED <<files, crossed>>
        \/ Exists(p.id) /\ ~Matches(p) /\ crossed' = crossed \cup {p} /\ UNCHANGED <<files, ticked>>
    BY <1>5 DEF VerifyProof
  <2> HIDE DEF p
  <2> QED
    BY <2>1, <2>2, <2>3
<1>6. ASSUME NEW f \in Flow, DownloadProof(f)
      PROVE  \/ UNCHANGED answers
             \/ \E p \in Paste :
                  /\ Exists(p.id) /\ UNCHANGED rvars
                  /\ files' = files \cup {p} /\ UNCHANGED <<ticked, crossed>>
                  /\ p.content = Decoded[ledger[p.id].content]
  <2> DEFINE id == flow[f].job.id
             p == [id |-> id, content |-> Decoded[ledger[id].content]]
  <2>1. UNCHANGED rvars
    BY <1>6 DEF DownloadProof, Others
  <2>2. \/ UNCHANGED answers
        \/ Exists(id) /\ files' = files \cup {p} /\ UNCHANGED <<ticked, crossed>>
    BY <1>6 DEF DownloadProof, answers
  <2>3. Exists(id) => p \in Paste
    BY DecodedAssumption DEF Exists, Paste, Instance, TypeInv, RegistryOK
  <2>4. p.id = id /\ p.content = Decoded[ledger[p.id].content]
    OBVIOUS
  <2> HIDE DEF p
  <2> QED
    BY <2>1, <2>2, <2>3, <2>4
<1>7. ASSUME NEW f \in Flow, Answer(f), ~VerifyProof(f), ~DownloadProof(f)
      PROVE  UNCHANGED answers
  BY <1>7 DEF Answer, TabsAnswer, TabsAnswerInfos, RosterAnswer, DarcAnswer, RpcAnswer,
              CounterAnswer, ChainAnswer, CertifyProof, RequestFails
<1> QED
  BY <1>1, <1>2, <1>3, <1>4, <1>5, <1>6, <1>7, NextCases

LEMMA VerdictKept ==
    TypeInv /\ LedgerInv /\ VerdictInv /\ [Next]_vars => VerdictInv'
<1> SUFFICES ASSUME TypeInv, LedgerInv, VerdictInv, [Next]_vars PROVE VerdictInv'
  OBVIOUS
\* What was said stays true.
<1>1. \A p : p.id \in SpawnTx /\ p.id \in Applied =>
                /\ p.id \in Applied'
                /\ ledger'[p.id] # NoInstance =>
                      ledger[p.id] # NoInstance /\ (Matches(p)' <=> Matches(p))
  BY AppliedStays DEF Matches
<1>2. served \subseteq served'
  <2>1. Cothority => UNCHANGED served
    BY CothorityKinds
  <2> QED
    BY <2>1, OnlyCothorityApplies DEF rvars
<1>3. CASE UNCHANGED answers
  <2>1. UNCHANGED ticked /\ UNCHANGED crossed
    BY <1>3 DEF answers
  <2> QED
    BY <1>1, <1>2, <2>1 DEF VerdictInv, TickMeansServed, OneVerdict
<1>4. ASSUME NEW p \in Paste, Exists(p.id), UNCHANGED rvars,
             \/ ticked' = ticked \cup {p} /\ UNCHANGED <<files, crossed>> /\ Matches(p)
             \/ crossed' = crossed \cup {p} /\ UNCHANGED <<files, ticked>> /\ ~Matches(p)
             \/ files' = files \cup {p} /\ UNCHANGED <<ticked, crossed>>
      PROVE  VerdictInv'
  <2>1. p.id \in SpawnTx /\ p.id \in Applied /\ ledger[p.id] # NoInstance
    BY <1>4, MatchingTexts DEF Exists
  <2>2. /\ \A q \in ticked' : q.id \in SpawnTx /\ q.id \in Applied
                           /\ (ledger[q.id] # NoInstance => Matches(q))
        /\ \A q \in crossed' : q.id \in SpawnTx /\ q.id \in Applied
                            /\ (ledger[q.id] # NoInstance => ~Matches(q))
    BY <1>4, <2>1 DEF VerdictInv
  <2>3. TickMeansServed'
    <3>1. CASE p \in ticked' \ ticked
      <4>1. Matches(p)
        BY <2>1, <2>2, <3>1
      <4>2. PICK view \in served : p.content = Extract(view[2], ledger[p.id].args)
        BY <2>1, <4>1, MatchingTexts
      <4>3. ledger[p.id].args \in Args
        BY <2>1 DEF TypeInv, RegistryOK, Instance
      <4>4. ticked' \subseteq ticked \cup {p}
        BY <1>4
      <4> QED
        BY <1>2, <4>2, <4>3, <4>4 DEF VerdictInv, TickMeansServed
    <3>2. CASE p \notin ticked' \ ticked
      <4>1. ticked' \subseteq ticked
        BY <1>4, <3>2
      <4> QED
        BY <1>2, <4>1 DEF VerdictInv, TickMeansServed
    <3> QED
      BY <3>1, <3>2
  <2>4. OneVerdict'
    BY <1>4, <2>1, <2>2 DEF VerdictInv, OneVerdict
  <2>5. \A q : Matches(q)' <=> Matches(q)
    BY <1>4 DEF Matches, rvars
  <2>6. UNCHANGED Applied /\ UNCHANGED ledger
    BY <1>4 DEF Applied, rvars
  <2> QED
    BY <2>2, <2>3, <2>4, <2>5, <2>6 DEF VerdictInv
<1> QED
  BY <1>3, <1>4, Verdicts

LEMMA FileKept ==
    TypeInv /\ LedgerInv /\ VerdictInv /\ FileInv /\ [Next]_vars => FileInv'
<1> SUFFICES ASSUME TypeInv, LedgerInv, VerdictInv, FileInv, [Next]_vars PROVE FileInv'
  OBVIOUS
<1>1. \A p : p.id \in SpawnTx /\ p.id \in Applied =>
                /\ p.id \in Applied'
                /\ ledger'[p.id] # NoInstance => ledger'[p.id] = ledger[p.id]
  BY AppliedStays
<1>2. CASE UNCHANGED answers
  <2>1. UNCHANGED files /\ UNCHANGED crossed
    BY <1>2 DEF answers
  <2> QED
    BY <1>1, <2>1 DEF FileInv, DownloadsVerify
<1>3. ASSUME NEW p \in Paste, Exists(p.id), UNCHANGED rvars,
             \/ ticked' = ticked \cup {p} /\ UNCHANGED <<files, crossed>>
             \/ crossed' = crossed \cup {p} /\ UNCHANGED <<files, ticked>> /\ ~Matches(p)
             \/ /\ files' = files \cup {p} /\ UNCHANGED <<ticked, crossed>>
                /\ p.content = Decoded[ledger[p.id].content]
      PROVE  FileInv'
  <2>1. p.id \in SpawnTx /\ p.id \in Applied /\ ledger[p.id] # NoInstance
        /\ ledger[p.id].content \in Content
    BY <1>3, MatchingTexts DEF Exists, TypeInv, RegistryOK, Instance
  <2>2. UNCHANGED Applied /\ UNCHANGED ledger
    BY <1>3 DEF Applied, rvars
  <2>3. \A q \in files' : q.id \in SpawnTx /\ q.id \in Applied
                          /\ (ledger[q.id] # NoInstance =>
                                q.content = Decoded[ledger[q.id].content])
    BY <1>3, <2>1 DEF FileInv
  <2>4. ASSUME \A c \in Content : Decoded[c] = c PROVE DownloadsVerify'
    <3>1. files \cap crossed = {}
      BY <2>4 DEF FileInv, DownloadsVerify
    <3>2. p \in files \/ p.content = Decoded[ledger[p.id].content] => Matches(p)
      BY <2>1, <2>4, MatchingTexts DEF FileInv
    <3>3. p \in crossed => ~Matches(p)
      BY <2>1 DEF VerdictInv
    <3> QED
      BY <1>3, <3>1, <3>2, <3>3 DEF DownloadsVerify
  <2> QED
    BY <2>2, <2>3, <2>4 DEF FileInv
<1> QED
  BY <1>2, <1>3, Verdicts

-----------------------------------------------------------------------------
(* The theorems.                                                           *)

Inv == TypeInv /\ ReadyInv /\ ScreenInv /\ OptionInv /\ SentInv /\ LedgerInv
         /\ VerdictInv /\ FileInv

LEMMA Initially == Init => Inv
<1> SUFFICES ASSUME Init PROVE Inv
  OBVIOUS
<1>1. TypeInv
  BY InitTypeInv
<1>2. \A f \in Flow : flow[f] = Idle
  BY DEF Init
<1>3. /\ screen.id = NoId /\ ~screen.loader /\ ~screen.spinner /\ ~screen.downloads
      /\ files = {} /\ ticked = {} /\ crossed = {}
      /\ \A t \in SpawnTx : ledger[t] = NoInstance /\ tx[t] = NotSent
  BY DEF Init, Blank, RegistryInit
<1>4. ReadyInv
  BY <1>2, <1>3 DEF ReadyInv, HandlerReady, Past, At, Running
<1>5. ScreenInv
  BY <1>3 DEF ScreenInv
<1>6. OptionInv
  BY <1>2 DEF OptionInv, Certifies, Running
<1>7. SentInv
  BY <1>2, <1>3 DEF SentInv, ShownIdAttested, Certifies, Running
<1>8. LedgerInv
  BY <1>3 DEF LedgerInv
<1>9. VerdictInv /\ FileInv
  BY <1>3 DEF VerdictInv, FileInv, TickMeansServed, OneVerdict, DownloadsVerify
<1> QED
  BY <1>1, <1>4, <1>5, <1>6, <1>7, <1>8, <1>9 DEF Inv

LEMMA Invariance == Spec => []Inv
<1>1. Inv /\ [Next]_vars => Inv'
  BY NextTypeInv, ReadyKept, ScreenKept, OptionInvKept, SentKept, LedgerKept, VerdictKept,
     FileKept DEF Inv
<1> QED
  BY Initially, <1>1, PTL DEF Spec

\* The popup, its flows and the cothority have values of their types, for any
\* number of flows that run beside each other.
THEOREM PopupTypeCorrect == Spec => []TypeOK
<1>1. Inv => TypeOK
  BY DEF Inv, TypeInv
<1> QED
  BY Invariance, <1>1, PTL

\* However many flows load the Handler's fields beside each other, and whatever
\* fails, a flow that talks to the ledger finds the roster and the darc
\* (Handler.ts; AlineUtilities.ts, lines 20-73).
THEOREM FlowsFindHandlerReady == Spec => []HandlerReady
<1>1. Inv => HandlerReady
  BY DEF Inv, ReadyInv
<1> QED
  BY Invariance, <1>1, PTL

\* When no flow runs, the loader is stopped, and the spinner is hidden unless an
\* exception that nobody catches left it (AlineFeatures.ts, lines 44, 102 and
\* 117, and AlineUtilities.ts, line 178).
THEOREM NothingSpinsForNothing == Spec => []IdleLooksIdle
<1>1. Inv => IdleLooksIdle
  BY DEF Inv, ScreenInv, IdleLooksIdle, Quiet, Certifies, Running
<1> QED
  BY Invariance, <1>1, PTL

\* A section is certified with the option that was saved with its selection,
\* unless the user or a slow storage interferes (AlineUtilities.ts, lines
\* 69-73).
THEOREM SavedOptionUsed == Spec => OptionKept
<1>1. Inv /\ [Next]_vars =>
        [\A f \in Flow :
          At(f, "darc") /\ At(f, "rpc")' /\ Does(f, "certify")
          /\ flow[f].job.selector # FullPage
            => flow'[f].job.textOnly = stored \/ restoring \/ touched]_vars
  BY OptionStep DEF Inv
<1> QED
  BY Invariance, <1>1, PTL DEF Spec, OptionKept

\* The id offered for download is of an attestation of what this popup sent
\* (AlineFeatures.ts, lines 29-48; WebPageInstance.ts).
THEOREM DownloadsAreOwn == Spec => []ShownIdAttested
<1>1. Inv => ShownIdAttested
  BY DEF Inv, SentInv
<1> QED
  BY Invariance, <1>1, PTL

\* A tick is given only to what a page served (getInstanceAndCompare).
THEOREM TicksProveExistence == Spec => []TickMeansServed
<1>1. Inv => TickMeansServed
  BY DEF Inv, VerdictInv
<1> QED
  BY Invariance, <1>1, PTL

\* The same text never gets a tick once and a cross another time.
THEOREM VerdictsAreFinal == Spec => []OneVerdict
<1>1. Inv => OneVerdict
  BY DEF Inv, VerdictInv
<1> QED
  BY Invariance, <1>1, PTL

\* If what the extension decodes is what was encoded, which holds for pages in
\* UTF-8, a downloaded file is never answered with a cross.
THEOREM FilesVerify ==
    (\A c \in Content : Decoded[c] = c) => (Spec => []DownloadsVerify)
<1> SUFFICES ASSUME \A c \in Content : Decoded[c] = c
             PROVE  Spec => []DownloadsVerify
  OBVIOUS
<1>1. Inv => DownloadsVerify
  BY DEF Inv, FileInv
<1> QED
  BY Invariance, <1>1, PTL
=============================================================================
