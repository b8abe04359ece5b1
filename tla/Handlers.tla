------------------------------ MODULE Handlers ------------------------------
(***************************************************************************)
(* The functions of CothorityUtilities that a view calls, over the Handler *)
(* that they share: a roster is loaded from a file, the darc of a          *)
(* skipchain, a signer; then rules are added to the darc, and instances of *)
(* the webPage contract printed.  The popup of module Popup calls the      *)
(* first three with values of its own; this is the interface with any      *)
(* values, in any order, by handlers that run beside each other.           *)
(*                                                                         *)
(* Every function takes what it asks with from the Handler when it is      *)
(* called, and puts what it learned there when the answer comes.           *)
(* displayStatus and PrintInfo only print.                                 *)
(*                                                                         *)
(* The ledger is not in this repository: the darc of a skipchain is        *)
(* replaced by an evolution of its latest version that one of its owners   *)
(* signed.  Any request may fail, among other reasons because the roster   *)
(* that is loaded does not serve the skipchain.                            *)
(***************************************************************************)
EXTENDS Naturals, FiniteSets

CONSTANTS
    Roster,      \* the contents of roster files
    Chain, Signer, Rule,
    Owner,       \* [Chain -> SUBSET Signer]
    Flow,        \* as many functions as run at a time
    MaxVersion,  \* bound on the versions of a darc
    None, Idle

ASSUME HandlersAssumption ==
    /\ Owner \in [Chain -> SUBSET Signer]
    /\ None \notin Roster \cup Chain \cup Signer
    /\ MaxVersion \in Nat

VARIABLES
    roster, darc, scid, signer,    \* Handler; a darc is called by its chain
    loader,      \* the page shows that something is loading
    flow,        \* what each function awaits
    darcs,       \* the ledger: the version and the rules of each darc
    evolutions,  \* the evolutions sent and not applied
    asked,       \* history: the rules asked for, with the chain that was
                 \* loaded then
    stuck        \* history: a file was malformed since a function ended

handler == <<roster, darc, scid, signer>>
ledger == <<darcs, evolutions>>
vars == <<handler, loader, flow, ledger, asked, stuck>>

\* Identities in the expressions of a darc's rules.
Grant == Rule \X Signer
Evolution == [chain : Chain, from : 0 .. MaxVersion - 1, rules : SUBSET Grant]

Job == [does : {"roster"}, roster : Roster]
         \cup [does : {"darc"}, chain : Chain]
         \cup [does : {"rule"}, chain : Chain, rule : Rule]
         \cup [does : {"instance"}, rule : Rule, darc : Evolution]
         \cup [does : {"evolve"}, darc : Evolution]
         \cup [does : {"print", "proof"}]

\* Idle stands for no job.
ASSUME IdleAssumption == Idle \notin Job

TypeOK ==
    /\ roster \in Roster \cup {None} /\ darc \in Chain \cup {None}
    /\ scid \in Chain \cup {None} /\ signer \in Signer \cup {None}
    /\ loader \in BOOLEAN /\ stuck \in BOOLEAN
    /\ flow \in [Flow -> Job \cup {Idle}]
    /\ darcs \in [Chain -> [version : 0 .. MaxVersion, rules : SUBSET Grant]]
    /\ evolutions \subseteq Evolution
    /\ asked \subseteq Chain \X Rule

Init ==
    /\ roster = None /\ darc = None /\ scid = None /\ signer = None
    /\ loader = FALSE
    /\ flow = [f \in Flow |-> Idle]
    /\ darcs = [x \in Chain |-> [version |-> 0, rules |-> {}]]
    /\ evolutions = {}
    /\ asked = {} /\ stuck = FALSE

Begins(f, job) ==
    /\ flow[f] = Idle
    /\ flow' = [flow EXCEPT ![f] = job]
    /\ loader' = TRUE /\ UNCHANGED stuck

GoesOn(f, job) == flow' = [flow EXCEPT ![f] = job] /\ UNCHANGED <<loader, stuck>>

Ends(f) == flow' = [flow EXCEPT ![f] = Idle] /\ loader' = FALSE /\ stuck' = FALSE

Does(f, job) == flow[f] # Idle /\ flow[f].does = job

-----------------------------------------------------------------------------
(* Loading.                                                                *)

\* initRoster and LoadRoster.  The exception of a malformed file leaves the
\* loader, which was started first.
LoadMalformed ==
    /\ loader' = TRUE /\ stuck' = TRUE
    /\ UNCHANGED <<handler, flow, ledger, asked>>

LoadRoster(f) ==
    /\ \E r \in Roster : Begins(f, [does |-> "roster", roster |-> r])
    /\ UNCHANGED <<handler, ledger, asked>>

RosterAnswer(f) ==
    /\ Does(f, "roster")
    /\ roster' \in {roster, flow[f].roster}
    /\ Ends(f)
    /\ UNCHANGED <<darc, scid, signer, ledger, asked>>

\* getDarc and SetDarc.
SetDarc(f) ==
    /\ roster # None
    /\ \E x \in Chain :
          Begins(f, [does |-> "darc", chain |-> x])
    /\ UNCHANGED <<handler, ledger, asked>>

DarcAnswer(f) ==
    /\ Does(f, "darc")
    /\ \/ darc' = flow[f].chain /\ scid' = flow[f].chain
       \/ UNCHANGED <<darc, scid>>
    /\ Ends(f)
    /\ UNCHANGED <<roster, signer, ledger, asked>>

\* Mutant: a signer can be loaded before the darc.
SetSignerFirst ==
    /\ roster # None
    /\ signer' \in Signer
    /\ UNCHANGED <<roster, darc, scid, loader, flow, ledger, asked, stuck>>

\* loadSigner and SetSigner; what is no private key changes nothing.
SetSigner ==
    /\ roster # None /\ darc # None
    /\ signer' \in Signer
    /\ UNCHANGED <<roster, darc, scid, loader, flow, ledger, asked, stuck>>

\* Mutant: nobody has to have signed in.
ReadyUnsigned == roster # None /\ darc # None

Ready == roster # None /\ darc # None /\ signer # None

-----------------------------------------------------------------------------
(* Adding a rule, and printing.                                            *)

\* addRule and AddRule.
AddRule(f) ==
    /\ Ready
    /\ \E rule \in Rule :
          /\ Begins(f, [does |-> "rule", chain |-> scid, rule |-> rule])
          /\ asked' = asked \cup {<<scid, rule>>}
    /\ UNCHANGED <<handler, ledger>>

\* Mutant: the chain that is loaded now.
DarcNow(job) == [chain |-> scid, from |-> darcs[scid].version, rules |-> darcs[scid].rules]

\* The latest darc of the chain that the RPC was made for.
DarcOf(job) ==
    [chain |-> job.chain, from |-> darcs[job.chain].version, rules |-> darcs[job.chain].rules]

RuleRpcAnswer(f) ==
    /\ Does(f, "rule") /\ darcs[flow[f].chain].version < MaxVersion
    /\ GoesOn(f, [does |-> "instance", rule |-> flow[f].rule, darc |-> DarcOf(flow[f])])
    /\ UNCHANGED <<handler, ledger, asked>>

\* Mutant: the identity takes the place of those that the rules have.
WithIdentityOnly(rules, rule) == {<<rule, signer>>}

\* addIdentity, with the signer that is loaded now.
WithIdentity(rules, rule) == rules \cup {<<rule, signer>>}

\* The darc instance is there: the darc is evolved, and sent.  The ledger
\* hears of it if the signer, as it is now, owns the darc.
InstanceAnswer(f) ==
    /\ Does(f, "instance")
    /\ LET old == flow[f].darc
           new == [old EXCEPT !.rules = WithIdentity(old.rules, flow[f].rule)]
       IN  /\ evolutions' = IF signer \in Owner[new.chain] THEN evolutions \cup {new}
                                                           ELSE evolutions
           /\ GoesOn(f, [does |-> "evolve", darc |-> new])
    /\ UNCHANGED <<handler, darcs, asked>>

\* The evolution is in a block, or never will be.
EvolveAnswer(f) ==
    /\ Does(f, "evolve") /\ flow[f].darc \notin evolutions
    /\ Ends(f)
    /\ UNCHANGED <<handler, ledger, asked>>

\* printWebPageContract and PrintWebPage.
PrintWebPage(f) ==
    /\ Ready
    /\ Begins(f, [does |-> "print"])
    /\ UNCHANGED <<handler, ledger, asked>>

PrintRpcAnswer(f) ==
    /\ Does(f, "print")
    /\ GoesOn(f, [does |-> "proof"])
    /\ UNCHANGED <<handler, ledger, asked>>

ProofAnswer(f) ==
    /\ Does(f, "proof")
    /\ Ends(f)
    /\ UNCHANGED <<handler, ledger, asked>>

\* Mutant: the loader is not stopped when there is no darc instance.
RequestFailsLoading(f) ==
    /\ \E job \in {"rule", "instance", "evolve", "print", "proof"} : Does(f, job)
    /\ IF Does(f, "instance") THEN GoesOn(f, Idle) ELSE Ends(f)
    /\ UNCHANGED <<handler, ledger, asked>>

\* Any of these requests fails; what was sent may still be applied.
RequestFails(f) ==
    /\ \E job \in {"rule", "instance", "evolve", "print", "proof"} : Does(f, job)
    /\ Ends(f)
    /\ UNCHANGED <<handler, ledger, asked>>

\* The ledger evolves the latest version of a darc, and refuses the others.
Apply(e) ==
    /\ darcs' = IF darcs[e.chain].version = e.from
                   THEN [darcs EXCEPT ![e.chain] = [version |-> e.from + 1, rules |-> e.rules]]
                   ELSE darcs
    /\ evolutions' = evolutions \ {e}
    /\ UNCHANGED <<handler, loader, flow, asked, stuck>>

Answer(f) ==
    \/ RosterAnswer(f) \/ DarcAnswer(f)
    \/ RuleRpcAnswer(f) \/ InstanceAnswer(f) \/ EvolveAnswer(f)
    \/ PrintRpcAnswer(f) \/ ProofAnswer(f) \/ RequestFails(f)

Call(f) == LoadRoster(f) \/ SetDarc(f) \/ AddRule(f) \/ PrintWebPage(f)

Next ==
    \/ LoadMalformed \/ SetSigner
    \/ \E f \in Flow : Call(f) \/ Answer(f)
    \/ \E e \in evolutions : Apply(e)

Spec == Init /\ [][Next]_vars

-----------------------------------------------------------------------------
(* Properties.                                                             *)

\* Whatever loads run beside each other and fail, what is loaded was loaded on
\* what it needs (the checks of CothorityUtilities.ts, lines 59, 76, 92 and
\* 134), and the darc is that of the skipchain on which instances are spawned
\* with it (SetDarc, lines 105-110).
LoadedInOrder ==
    /\ signer # None => darc # None
    /\ darc # None => roster # None
    /\ darc = scid

\* When nothing runs, nothing is shown to run, on every path of the nested
\* handlers of AddRule and PrintWebPage, unless a file was malformed.
LoaderStops == (\A f \in Flow : flow[f] = Idle) /\ ~stuck => ~loader

\* A rule ends up in the darc of the chain that was loaded when the user asked
\* for it, although another one may be loaded when the answers come.
RulesWhereAsked ==
    \A x \in Chain : \A g \in darcs[x].rules : <<x, g[1]>> \in asked

\* No rule is lost, although AddRule evolves the darc that it read two
\* answers ago (AddRule, lines 138-146).
RulesKept == [][\A x \in Chain : darcs[x].rules \subseteq darcs'[x].rules]_vars
=============================================================================
