-------------------------- MODULE Handlers_proofs --------------------------
(***************************************************************************)
(* The legacy handlers, for any number of functions beside each other and  *)
(* any skipchains, signers and rules.                                      *)
(*                                                                         *)
(* What a flow carries from one answer to the next was learned when less   *)
(* was known: Launched, Reasoned and Current say what is still true of it  *)
(* when it is used.                                                        *)
(***************************************************************************)
EXTENDS Handlers, TLAPS

\* What a function needed when it was called stays loaded while it waits.
Launched ==
    \A f \in Flow :
        /\ Does(f, "darc") => roster # None
        /\ Does(f, "rule") \/ Does(f, "instance") => signer # None

\* The rules of an evolution were asked for, of the darc that it is of.
Explained(d) == \A g \in d.rules : <<d.chain, g[1]>> \in asked

Reasoned ==
    /\ \A f \in Flow :
          /\ Does(f, "rule") => <<flow[f].chain, flow[f].rule>> \in asked
          /\ Does(f, "instance") => /\ <<flow[f].darc.chain, flow[f].rule>> \in asked
                                    /\ Explained(flow[f].darc)
    /\ \A e \in evolutions : Explained(e)
    /\ RulesWhereAsked

\* An evolution that can still be applied has all the rules of its darc.
UpToDate(d) ==
    /\ d.from <= darcs[d.chain].version
    /\ d.from = darcs[d.chain].version => darcs[d.chain].rules \subseteq d.rules

Current ==
    /\ \A f \in Flow : Does(f, "instance") => UpToDate(flow[f].darc)
    /\ \A e \in evolutions : UpToDate(e)

Inv == TypeOK /\ LoadedInOrder /\ Launched /\ Reasoned /\ Current /\ LoaderStops

\* What a job is known by has the fields of that kind.
LEMMA JobShapes ==
    ASSUME TypeOK, NEW f \in Flow
    PROVE  /\ Does(f, "roster") => flow[f].roster \in Roster
           /\ Does(f, "darc") => flow[f].chain \in Chain
           /\ Does(f, "rule") => flow[f].chain \in Chain /\ flow[f].rule \in Rule
           /\ Does(f, "instance") => flow[f].darc \in Evolution /\ flow[f].rule \in Rule
           /\ Does(f, "evolve") => flow[f].darc \in Evolution
<1>1. flow[f] \in Job \cup {Idle}
  BY DEF TypeOK
<1>2. CASE flow[f] = Idle
  BY <1>2 DEF Does
<1>3. CASE flow[f] \in Job
  BY <1>3 DEF Job, Does
<1> QED
  BY <1>1, <1>2, <1>3

LEMMA Initially == Init => Inv
<1> SUFFICES ASSUME Init PROVE Inv
  OBVIOUS
<1>1. TypeOK
  <2>1. darcs \in [Chain -> [version : 0 .. MaxVersion, rules : SUBSET Grant]]
    BY HandlersAssumption DEF HandlersAssumption, Init
  <2> QED
    BY <2>1 DEF Init, TypeOK
<1>2. LoadedInOrder
  BY DEF Init, LoadedInOrder
<1>3. \A f \in Flow : flow[f] = Idle
  BY DEF Init
<1>4. Launched
  BY <1>3 DEF Launched, Does
<1>5. Reasoned
  BY <1>3 DEF Init, Reasoned, RulesWhereAsked, Does
<1>6. Current
  BY <1>3 DEF Init, Current, Does
<1>7. LoaderStops
  BY DEF Init, LoaderStops
<1> QED
  BY <1>1, <1>2, <1>4, <1>5, <1>6, <1>7 DEF Inv

\* The jobs that a function goes on with are jobs.
LEMMA Jobs ==
    /\ \A r \in Roster : [does |-> "roster", roster |-> r] \in Job
    /\ \A x \in Chain : [does |-> "darc", chain |-> x] \in Job
    /\ \A x \in Chain, rule \in Rule : [does |-> "rule", chain |-> x, rule |-> rule] \in Job
    /\ \A d \in Evolution, rule \in Rule :
          [does |-> "instance", rule |-> rule, darc |-> d] \in Job
    /\ \A d \in Evolution : [does |-> "evolve", darc |-> d] \in Job
    /\ [does |-> "print"] \in Job /\ [does |-> "proof"] \in Job
BY DEF Job

LEMMA TypeKept == TypeOK /\ LoadedInOrder /\ Launched /\ [Next]_vars => TypeOK'
<1> SUFFICES ASSUME TypeOK, LoadedInOrder, Launched, [Next]_vars PROVE TypeOK'
  OBVIOUS
<1> USE HandlersAssumption DEF HandlersAssumption, handler, ledger
<1>1. CASE LoadMalformed
  BY <1>1 DEF LoadMalformed, TypeOK
<1>2. CASE SetSigner
  BY <1>2 DEF SetSigner, TypeOK
<1>3. ASSUME NEW f \in Flow, Call(f) PROVE TypeOK'
  <2>1. CASE LoadRoster(f)
    BY <2>1, Jobs DEF LoadRoster, Begins, TypeOK
  <2>2. CASE SetDarc(f)
    BY <2>2, Jobs DEF SetDarc, Begins, TypeOK
  <2>3. CASE AddRule(f)
    <3>1. scid \in Chain
      BY <2>3 DEF AddRule, Ready, LoadedInOrder, TypeOK
    <3> QED
      BY <2>3, <3>1, Jobs DEF AddRule, Begins, TypeOK
  <2>4. CASE PrintWebPage(f)
    BY <2>4, Jobs DEF PrintWebPage, Begins, TypeOK
  <2> QED
    BY <1>3, <2>1, <2>2, <2>3, <2>4 DEF Call
<1>4. ASSUME NEW f \in Flow, Answer(f) PROVE TypeOK'
  <2>1. CASE RosterAnswer(f)
    BY <2>1, JobShapes DEF RosterAnswer, Ends, TypeOK
  <2>2. CASE DarcAnswer(f)
    BY <2>2, JobShapes, ZenonT(60) DEF DarcAnswer, Ends, TypeOK
  <2>3. CASE RuleRpcAnswer(f)
    <3>1. flow[f].chain \in Chain /\ flow[f].rule \in Rule
      BY <2>3, JobShapes DEF RuleRpcAnswer
    <3>2. DarcOf(flow[f]) \in Evolution
      BY <2>3, <3>1 DEF RuleRpcAnswer, DarcOf, Evolution, TypeOK
    <3> QED
      BY <2>3, <3>1, <3>2, Jobs DEF RuleRpcAnswer, GoesOn, TypeOK
  <2>4. CASE InstanceAnswer(f)
    <3> DEFINE new == [flow[f].darc EXCEPT !.rules = WithIdentity(flow[f].darc.rules, flow[f].rule)]
    <3>1. flow[f].darc \in Evolution /\ flow[f].rule \in Rule /\ signer \in Signer
      BY <2>4, JobShapes DEF InstanceAnswer, Launched, TypeOK
    <3>2. new \in Evolution
      BY <3>1 DEF WithIdentity, Evolution, Grant
    <3>3. evolutions' \subseteq Evolution /\ flow' = [flow EXCEPT ![f] = [does |-> "evolve", darc |-> new]]
      BY <2>4, <3>2 DEF InstanceAnswer, GoesOn, TypeOK
    <3> HIDE DEF new
    <3> QED
      BY <2>4, <3>2, <3>3, Jobs DEF InstanceAnswer, GoesOn, TypeOK
  <2>5. CASE EvolveAnswer(f)
    BY <2>5 DEF EvolveAnswer, Ends, TypeOK
  <2>6. CASE PrintRpcAnswer(f)
    BY <2>6, Jobs DEF PrintRpcAnswer, GoesOn, TypeOK
  <2>7. CASE ProofAnswer(f)
    BY <2>7 DEF ProofAnswer, Ends, TypeOK
  <2>8. CASE RequestFails(f)
    BY <2>8 DEF RequestFails, Ends, TypeOK
  <2> QED
    BY <1>4, <2>1, <2>2, <2>3, <2>4, <2>5, <2>6, <2>7, <2>8 DEF Answer
<1>5. ASSUME NEW e \in evolutions, Apply(e) PROVE TypeOK'
  <2>1. e \in Evolution
    BY <1>5 DEF TypeOK
  <2>2. darcs' \in [Chain -> [version : 0 .. MaxVersion, rules : SUBSET Grant]]
    BY <1>5, <2>1 DEF Apply, Evolution, TypeOK
  <2> QED
    BY <1>5, <2>2 DEF Apply, TypeOK
<1>6. CASE UNCHANGED vars
  BY <1>6 DEF vars, TypeOK
<1> QED
  BY <1>1, <1>2, <1>3, <1>4, <1>5, <1>6 DEF Next

\* Only RosterAnswer, DarcAnswer and SetSigner load something, and nothing is
\* ever unloaded.
LEMMA LoadingKept ==
    TypeOK /\ LoadedInOrder /\ Launched /\ [Next]_vars
        => LoadedInOrder' /\ Launched'
<1> SUFFICES ASSUME TypeOK, LoadedInOrder, Launched, [Next]_vars
             PROVE  LoadedInOrder' /\ Launched'
  OBVIOUS
<1> USE HandlersAssumption DEF HandlersAssumption, handler, ledger
<1>1. CASE LoadMalformed \/ UNCHANGED vars \/ \E e \in evolutions : Apply(e)
  BY <1>1 DEF LoadMalformed, Apply, vars, LoadedInOrder, Launched, Does
<1>2. CASE SetSigner
  BY <1>2 DEF SetSigner, LoadedInOrder, Launched, Does
<1>3. ASSUME NEW f \in Flow, Call(f) PROVE LoadedInOrder' /\ Launched'
  <2>1. UNCHANGED handler
    BY <1>3 DEF Call, LoadRoster, SetDarc, AddRule, PrintWebPage
  <2>2. LoadedInOrder'
    BY <2>1 DEF LoadedInOrder
  <2>3. CASE LoadRoster(f)
    BY <2>1, <2>2, <2>3 DEF LoadRoster, Begins, Launched, Does, TypeOK
  <2>4. CASE SetDarc(f)
    BY <2>1, <2>2, <2>4 DEF SetDarc, Begins, Launched, Does, TypeOK
  <2>5. CASE AddRule(f)
    BY <2>1, <2>2, <2>5 DEF AddRule, Ready, Begins, Launched, Does, TypeOK
  <2>6. CASE PrintWebPage(f)
    BY <2>1, <2>2, <2>6 DEF PrintWebPage, Begins, Launched, Does, TypeOK
  <2> QED
    BY <1>3, <2>2, <2>3, <2>4, <2>5, <2>6 DEF Call
<1>4. ASSUME NEW f \in Flow, Answer(f) PROVE LoadedInOrder' /\ Launched'
  <2>1. CASE RosterAnswer(f)
    <3>1. roster # None => roster' # None
      BY <2>1, JobShapes DEF RosterAnswer
    <3> QED
      BY <2>1, <3>1 DEF RosterAnswer, Ends, LoadedInOrder, Launched, Does, TypeOK
  <2>2. CASE DarcAnswer(f)
    <3>1. flow[f].chain \in Chain /\ roster # None
      BY <2>2, JobShapes DEF DarcAnswer, Launched
    <3> QED
      BY <2>2, <3>1 DEF DarcAnswer, Ends, LoadedInOrder, Launched, Does, TypeOK
  <2>3. CASE RuleRpcAnswer(f)
    BY <2>3 DEF RuleRpcAnswer, GoesOn, LoadedInOrder, Launched, Does, TypeOK
  <2>4. CASE InstanceAnswer(f)
    BY <2>4 DEF InstanceAnswer, GoesOn, LoadedInOrder, Launched, Does, TypeOK
  <2>5. CASE PrintRpcAnswer(f)
    BY <2>5 DEF PrintRpcAnswer, GoesOn, LoadedInOrder, Launched, Does, TypeOK
  <2>6. CASE EvolveAnswer(f) \/ ProofAnswer(f) \/ RequestFails(f)
    BY <2>6 DEF EvolveAnswer, ProofAnswer, RequestFails, Ends, LoadedInOrder, Launched,
       Does, TypeOK
  <2> QED
    BY <1>4, <2>1, <2>2, <2>3, <2>4, <2>5, <2>6 DEF Answer
<1> QED
  BY <1>1, <1>2, <1>3, <1>4 DEF Next

\* The jobs of the other functions are what they were.
LEMMA OneFunction ==
    ASSUME TypeOK, NEW f \in Flow, NEW job, flow' = [flow EXCEPT ![f] = job]
    PROVE  flow'[f] = job /\ \A g \in Flow \ {f} : flow'[g] = flow[g]
BY DEF TypeOK

\* Loading and printing go on with jobs of their own.
LEMMA LoadingJob ==
    ASSUME NEW f \in Flow,
           LoadRoster(f) \/ SetDarc(f) \/ PrintWebPage(f) \/ PrintRpcAnswer(f)
    PROVE  \E job \in Job : /\ flow' = [flow EXCEPT ![f] = job]
                           /\ job.does \notin {"rule", "instance"}
<1>1. CASE LoadRoster(f)
  <2>1. PICK r \in Roster : flow' = [flow EXCEPT ![f] = [does |-> "roster", roster |-> r]]
    BY <1>1 DEF LoadRoster, Begins
  <2> QED
    BY <2>1, Jobs
<1>2. CASE SetDarc(f)
  <2>1. PICK x \in Chain : flow' = [flow EXCEPT ![f] = [does |-> "darc", chain |-> x]]
    BY <1>2 DEF SetDarc, Begins
  <2> QED
    BY <2>1, Jobs
<1>3. CASE PrintWebPage(f)
  BY <1>3, Jobs DEF PrintWebPage, Begins
<1>4. CASE PrintRpcAnswer(f)
  BY <1>4, Jobs DEF PrintRpcAnswer, GoesOn
<1> QED
  BY <1>1, <1>2, <1>3, <1>4

\* What is asked is never forgotten.
LEMMA ReasonedKept ==
    TypeOK /\ LoadedInOrder /\ Reasoned /\ [Next]_vars => Reasoned'
<1> SUFFICES ASSUME TypeOK, LoadedInOrder, Reasoned, [Next]_vars PROVE Reasoned'
  OBVIOUS
<1> USE DEF handler, ledger
<1>1. CASE LoadMalformed \/ SetSigner \/ UNCHANGED vars
  BY <1>1 DEF LoadMalformed, SetSigner, vars, Reasoned, Explained, RulesWhereAsked, Does
<1>2. ASSUME NEW f \in Flow, AddRule(f) PROVE Reasoned'
  <2>1. PICK rule \in Rule :
            /\ flow' = [flow EXCEPT ![f] = [does |-> "rule", chain |-> scid, rule |-> rule]]
            /\ asked' = asked \cup {<<scid, rule>>}
    BY <1>2 DEF AddRule, Begins
  <2>2. /\ flow'[f] = [does |-> "rule", chain |-> scid, rule |-> rule]
        /\ \A g \in Flow \ {f} : flow'[g] = flow[g]
    BY <2>1, OneFunction
  <2>3. UNCHANGED ledger
    BY <1>2 DEF AddRule
  <2> QED
    BY <2>1, <2>2, <2>3 DEF Reasoned, Explained, RulesWhereAsked, Does
<1>3. ASSUME NEW f \in Flow, LoadRoster(f) \/ SetDarc(f) \/ PrintWebPage(f) \/ PrintRpcAnswer(f)
      PROVE  Reasoned'
  <2>1. PICK job \in Job : /\ flow' = [flow EXCEPT ![f] = job]
                          /\ job.does \notin {"rule", "instance"}
    BY <1>3, LoadingJob
  <2>2. flow'[f] = job /\ \A g \in Flow \ {f} : flow'[g] = flow[g]
    BY <2>1, OneFunction
  <2>3. UNCHANGED <<ledger, asked>>
    BY <1>3 DEF LoadRoster, SetDarc, PrintWebPage, PrintRpcAnswer
  <2> QED
    BY <2>1, <2>2, <2>3 DEF Reasoned, Explained, RulesWhereAsked, Does
<1>4. ASSUME NEW f \in Flow,
             RosterAnswer(f) \/ DarcAnswer(f) \/ EvolveAnswer(f) \/ ProofAnswer(f) \/ RequestFails(f)
      PROVE  Reasoned'
  <2>1. flow' = [flow EXCEPT ![f] = Idle] /\ UNCHANGED <<ledger, asked>>
    BY <1>4 DEF RosterAnswer, DarcAnswer, EvolveAnswer, ProofAnswer, RequestFails, Ends
  <2>2. flow'[f] = Idle /\ \A g \in Flow \ {f} : flow'[g] = flow[g]
    BY <2>1, OneFunction
  <2> QED
    BY <2>1, <2>2 DEF Reasoned, Explained, RulesWhereAsked, Does
<1>5. ASSUME NEW f \in Flow, RuleRpcAnswer(f) PROVE Reasoned'
  <2> DEFINE job == [does |-> "instance", rule |-> flow[f].rule, darc |-> DarcOf(flow[f])]
  <2>1. flow' = [flow EXCEPT ![f] = job] /\ UNCHANGED <<ledger, asked>>
    BY <1>5 DEF RuleRpcAnswer, GoesOn
  <2>2. flow'[f] = job /\ \A g \in Flow \ {f} : flow'[g] = flow[g]
    BY <2>1, OneFunction
  <2>3. flow[f].chain \in Chain /\ <<flow[f].chain, flow[f].rule>> \in asked
    BY <1>5, JobShapes DEF RuleRpcAnswer, Reasoned
  <2>4. Explained(DarcOf(flow[f]))
    BY <2>3 DEF Explained, DarcOf, Reasoned, RulesWhereAsked
  <2>5. job.darc = DarcOf(flow[f]) /\ job.rule = flow[f].rule /\ job.does = "instance"
        /\ DarcOf(flow[f]).chain = flow[f].chain
    BY DEF DarcOf
  <2> HIDE DEF job
  <2> QED
    BY <2>1, <2>2, <2>3, <2>4, <2>5 DEF Reasoned, Explained, RulesWhereAsked, Does
<1>6. ASSUME NEW f \in Flow, InstanceAnswer(f) PROVE Reasoned'
  <2> DEFINE old == flow[f].darc
             new == [old EXCEPT !.rules = WithIdentity(old.rules, flow[f].rule)]
  <2>1. /\ flow' = [flow EXCEPT ![f] = [does |-> "evolve", darc |-> new]]
        /\ evolutions' \subseteq evolutions \cup {new}
        /\ UNCHANGED <<darcs, asked>>
    BY <1>6 DEF InstanceAnswer, GoesOn
  <2>2. flow'[f] = [does |-> "evolve", darc |-> new] /\ \A g \in Flow \ {f} : flow'[g] = flow[g]
    BY <2>1, OneFunction
  <2>3. old \in Evolution /\ <<old.chain, flow[f].rule>> \in asked /\ Explained(old)
    BY <1>6, JobShapes DEF InstanceAnswer, Reasoned
  <2>4. new.chain = old.chain /\ new.rules = old.rules \cup {<<flow[f].rule, signer>>}
    BY <2>3 DEF WithIdentity, Evolution
  <2>5. Explained(new)
    BY <2>3, <2>4 DEF Explained
  <2>6. \A e \in evolutions' : Explained(e)'
    BY <2>1, <2>5 DEF Reasoned, Explained
  <2> HIDE DEF new, old
  <2> QED
    BY <2>1, <2>2, <2>6 DEF Reasoned, Explained, RulesWhereAsked, Does
<1>7. ASSUME NEW e \in evolutions, Apply(e) PROVE Reasoned'
  <2>1. e \in Evolution /\ Explained(e)
    BY DEF TypeOK, Reasoned
  <2>2. \A x \in Chain : darcs'[x].rules = darcs[x].rules \/ (x = e.chain /\ darcs'[x].rules = e.rules)
    BY <1>7, <2>1 DEF Apply, Evolution, TypeOK
  <2>3. RulesWhereAsked'
    BY <1>7, <2>1, <2>2 DEF Apply, Reasoned, RulesWhereAsked, Explained
  <2> QED
    BY <1>7, <2>3 DEF Apply, Reasoned, Explained, Does
<1> QED
  BY <1>1, <1>2, <1>3, <1>4, <1>5, <1>6, <1>7 DEF Next, Call, Answer

\* An evolution is made of the latest darc, and grows; a darc that is replaced
\* leaves every other evolution outdated.
LEMMA CurrentKept ==
    TypeOK /\ Current /\ [Next]_vars => Current'
<1> SUFFICES ASSUME TypeOK, Current, [Next]_vars PROVE Current'
  OBVIOUS
<1> USE DEF handler, ledger
<1>1. CASE LoadMalformed \/ SetSigner \/ UNCHANGED vars
  BY <1>1 DEF LoadMalformed, SetSigner, vars, Current, UpToDate, Does
<1>2. ASSUME NEW f \in Flow, AddRule(f) PROVE Current'
  <2>1. PICK rule \in Rule :
            flow' = [flow EXCEPT ![f] = [does |-> "rule", chain |-> scid, rule |-> rule]]
    BY <1>2 DEF AddRule, Begins
  <2>2. /\ flow'[f] = [does |-> "rule", chain |-> scid, rule |-> rule]
        /\ \A g \in Flow \ {f} : flow'[g] = flow[g]
    BY <2>1, OneFunction
  <2>3. UNCHANGED ledger
    BY <1>2 DEF AddRule
  <2> QED
    BY <2>2, <2>3 DEF Current, UpToDate, Does
<1>3. ASSUME NEW f \in Flow, LoadRoster(f) \/ SetDarc(f) \/ PrintWebPage(f) \/ PrintRpcAnswer(f)
      PROVE  Current'
  <2>1. PICK job \in Job : /\ flow' = [flow EXCEPT ![f] = job]
                          /\ job.does \notin {"rule", "instance"}
    BY <1>3, LoadingJob
  <2>2. flow'[f] = job /\ \A g \in Flow \ {f} : flow'[g] = flow[g]
    BY <2>1, OneFunction
  <2>3. UNCHANGED ledger
    BY <1>3 DEF LoadRoster, SetDarc, PrintWebPage, PrintRpcAnswer
  <2> QED
    BY <2>1, <2>2, <2>3 DEF Current, UpToDate, Does
<1>4. ASSUME NEW f \in Flow,
             RosterAnswer(f) \/ DarcAnswer(f) \/ EvolveAnswer(f) \/ ProofAnswer(f) \/ RequestFails(f)
      PROVE  Current'
  <2>1. flow' = [flow EXCEPT ![f] = Idle] /\ UNCHANGED ledger
    BY <1>4 DEF RosterAnswer, DarcAnswer, EvolveAnswer, ProofAnswer, RequestFails, Ends
  <2>2. flow'[f] = Idle /\ \A g \in Flow \ {f} : flow'[g] = flow[g]
    BY <2>1, OneFunction
  <2> QED
    BY <2>1, <2>2 DEF Current, UpToDate, Does
<1>5. ASSUME NEW f \in Flow, RuleRpcAnswer(f) PROVE Current'
  <2> DEFINE job == [does |-> "instance", rule |-> flow[f].rule, darc |-> DarcOf(flow[f])]
  <2>1. flow' = [flow EXCEPT ![f] = job] /\ UNCHANGED ledger
    BY <1>5 DEF RuleRpcAnswer, GoesOn
  <2>2. flow'[f] = job /\ \A g \in Flow \ {f} : flow'[g] = flow[g]
    BY <2>1, OneFunction
  <2>3. flow[f].chain \in Chain
    BY <1>5, JobShapes DEF RuleRpcAnswer
  <2>4. UpToDate(DarcOf(flow[f]))
    BY <2>3 DEF UpToDate, DarcOf, TypeOK
  <2>5. job.darc = DarcOf(flow[f]) /\ job.does = "instance"
    OBVIOUS
  <2> HIDE DEF job
  <2> QED
    BY <2>1, <2>2, <2>4, <2>5 DEF Current, UpToDate, Does
<1>6. ASSUME NEW f \in Flow, InstanceAnswer(f) PROVE Current'
  <2> DEFINE old == flow[f].darc
             new == [old EXCEPT !.rules = WithIdentity(old.rules, flow[f].rule)]
  <2>1. /\ flow' = [flow EXCEPT ![f] = [does |-> "evolve", darc |-> new]]
        /\ evolutions' \subseteq evolutions \cup {new}
        /\ UNCHANGED darcs
    BY <1>6 DEF InstanceAnswer, GoesOn
  <2>2. flow'[f] = [does |-> "evolve", darc |-> new] /\ \A g \in Flow \ {f} : flow'[g] = flow[g]
    BY <2>1, OneFunction
  <2>3. old \in Evolution /\ UpToDate(old)
    BY <1>6, JobShapes DEF InstanceAnswer, Current
  <2>4. /\ new.chain = old.chain /\ new.from = old.from
        /\ new.rules = old.rules \cup {<<flow[f].rule, signer>>}
    BY <2>3 DEF WithIdentity, Evolution
  <2>5. UpToDate(new)
    BY <2>3, <2>4 DEF UpToDate
  <2> HIDE DEF new, old
  <2>6. \A e \in evolutions' : UpToDate(e)'
    BY <2>1, <2>5 DEF Current, UpToDate
  <2> QED
    BY <2>1, <2>2, <2>6 DEF Current, UpToDate, Does
<1>7. ASSUME NEW e \in evolutions, Apply(e) PROVE Current'
  <2>1. e \in Evolution
    BY DEF TypeOK
  <2>2. ASSUME NEW d \in Evolution, UpToDate(d) PROVE UpToDate(d)'
    <3>1. CASE darcs[e.chain].version = e.from /\ d.chain = e.chain
      <4>1. darcs'[d.chain].version = e.from + 1 /\ e.from \in Nat /\ d.from \in Nat
        BY <1>7, <2>1, <2>2, <3>1, HandlersAssumption
           DEF Apply, Evolution, TypeOK, HandlersAssumption
      <4>2. d.from <= e.from
        BY <2>2, <3>1 DEF UpToDate
      <4> QED
        BY <4>1, <4>2 DEF UpToDate
    <3>2. CASE ~(darcs[e.chain].version = e.from /\ d.chain = e.chain)
      <4>1. darcs'[d.chain] = darcs[d.chain]
        BY <1>7, <2>1, <2>2, <3>2 DEF Apply, Evolution, TypeOK
      <4> QED
        BY <2>2, <4>1 DEF UpToDate
    <3> QED
      BY <3>1, <3>2
  <2>3. \A g \in evolutions' : UpToDate(g)'
    BY <1>7, <2>2 DEF Apply, Current, TypeOK
  <2>4. \A f \in Flow : Does(f, "instance") => flow[f].darc \in Evolution
    BY JobShapes
  <2>5. \A f \in Flow : Does(f, "instance")' => UpToDate(flow[f].darc)'
    BY <1>7, <2>2, <2>4 DEF Apply, Current, UpToDate, Does
  <2> QED
    BY <2>3, <2>5 DEF Current
<1> QED
  BY <1>1, <1>2, <1>3, <1>4, <1>5, <1>6, <1>7 DEF Next, Call, Answer

\* A function that begins or goes on runs, and one that ends stops the loader.
LEMMA LoaderKept ==
    TypeOK /\ LoadedInOrder /\ Launched /\ LoaderStops /\ [Next]_vars => LoaderStops'
<1> SUFFICES ASSUME TypeOK, LoadedInOrder, Launched, LoaderStops, [Next]_vars
             PROVE  LoaderStops'
  OBVIOUS
<1>1. CASE LoadMalformed \/ SetSigner \/ UNCHANGED vars \/ \E e \in evolutions : Apply(e)
  BY <1>1 DEF LoadMalformed, SetSigner, Apply, vars, LoaderStops
<1>2. ASSUME NEW f \in Flow, NEW job \in Job, flow' = [flow EXCEPT ![f] = job]
      PROVE  LoaderStops'
  <2>1. flow'[f] = job
    BY <1>2, OneFunction
  <2> QED
    BY <2>1, IdleAssumption DEF LoaderStops
<1>3. ASSUME NEW f \in Flow, Ends(f) PROVE LoaderStops'
  BY <1>3 DEF Ends, LoaderStops
<1>4. ASSUME NEW f \in Flow,
             LoadRoster(f) \/ SetDarc(f) \/ PrintWebPage(f) \/ PrintRpcAnswer(f)
      PROVE  LoaderStops'
  BY <1>2, <1>4, LoadingJob
<1>5. ASSUME NEW f \in Flow, AddRule(f) PROVE LoaderStops'
  <2>1. PICK rule \in Rule :
            flow' = [flow EXCEPT ![f] = [does |-> "rule", chain |-> scid, rule |-> rule]]
    BY <1>5 DEF AddRule, Begins
  <2>2. scid \in Chain
    BY <1>5 DEF AddRule, Ready, LoadedInOrder, TypeOK
  <2> QED
    BY <1>2, <2>1, <2>2, Jobs
<1>6. ASSUME NEW f \in Flow, RuleRpcAnswer(f) PROVE LoaderStops'
  <2>1. flow[f].chain \in Chain /\ flow[f].rule \in Rule
    BY <1>6, JobShapes DEF RuleRpcAnswer
  <2>2. DarcOf(flow[f]) \in Evolution
    BY <1>6, <2>1, HandlersAssumption
       DEF RuleRpcAnswer, DarcOf, Evolution, TypeOK
  <2>3. flow' = [flow EXCEPT ![f] = [does |-> "instance", rule |-> flow[f].rule,
                                     darc |-> DarcOf(flow[f])]]
    BY <1>6 DEF RuleRpcAnswer, GoesOn
  <2> QED
    BY <1>2, <2>1, <2>2, <2>3, Jobs
<1>7. ASSUME NEW f \in Flow, InstanceAnswer(f) PROVE LoaderStops'
  <2> DEFINE new == [flow[f].darc EXCEPT !.rules = WithIdentity(flow[f].darc.rules, flow[f].rule)]
  <2>1. flow[f].darc \in Evolution /\ flow[f].rule \in Rule /\ signer \in Signer
    BY <1>7, JobShapes DEF InstanceAnswer, Launched, TypeOK
  <2>2. new \in Evolution
    BY <2>1 DEF WithIdentity, Evolution, Grant
  <2>3. flow' = [flow EXCEPT ![f] = [does |-> "evolve", darc |-> new]]
    BY <1>7 DEF InstanceAnswer, GoesOn
  <2> HIDE DEF new
  <2> QED
    BY <1>2, <2>2, <2>3, Jobs
<1>8. ASSUME NEW f \in Flow,
             RosterAnswer(f) \/ DarcAnswer(f) \/ EvolveAnswer(f) \/ ProofAnswer(f)
               \/ RequestFails(f)
      PROVE  LoaderStops'
  BY <1>3, <1>8 DEF RosterAnswer, DarcAnswer, EvolveAnswer, ProofAnswer, RequestFails
<1> QED
  BY <1>1, <1>4, <1>5, <1>6, <1>7, <1>8 DEF Next, Call, Answer

LEMMA InvKept == Inv /\ [Next]_vars => Inv'
BY TypeKept, LoadingKept, ReasonedKept, CurrentKept, LoaderKept DEF Inv

LEMMA InvHolds == Spec => []Inv
BY Initially, InvKept, PTL DEF Spec

\* The handlers keep their variables, and what each awaits, in their types.
THEOREM HandlersTypeCorrect == Spec => []TypeOK
<1>1. Inv => TypeOK
  BY DEF Inv
<1> QED
  BY <1>1, InvHolds, PTL

\* Whatever loads run beside each other and fail, what is loaded was loaded on
\* what it needs, and the darc is that of the skipchain (getDarc, loadSigner
\* and SetDarc).
THEOREM LoadsInOrder == Spec => []LoadedInOrder
<1>1. Inv => LoadedInOrder
  BY DEF Inv
<1> QED
  BY <1>1, InvHolds, PTL

\* When no function runs, nothing is shown to load, on every path of the nested
\* handlers, unless a file was malformed (AddRule, PrintWebPage, LoadRoster).
THEOREM LoaderIsStopped == Spec => []LoaderStops
<1>1. Inv => LoaderStops
  BY DEF Inv
<1> QED
  BY <1>1, InvHolds, PTL

\* A rule is only ever in the darc that was loaded when it was asked for,
\* although AddRule goes on when another one may be loaded.
THEOREM RulesAreWhereAsked == Spec => []RulesWhereAsked
<1>1. Inv => RulesWhereAsked
  BY DEF Inv, Reasoned
<1> QED
  BY <1>1, InvHolds, PTL

\* A step that replaces a darc keeps its rules, although AddRule evolves a darc
\* that it read two answers ago.
THEOREM NoRuleIsLost == Spec => RulesKept
<1> DEFINE Kept == \A x \in Chain : darcs[x].rules \subseteq darcs'[x].rules
<1>1. Inv /\ [Next]_vars => [Kept]_vars
  <2> SUFFICES ASSUME Inv, Next PROVE Kept
    BY DEF Kept, vars
  <2> USE DEF Inv, handler, ledger
  <2>1. ASSUME NEW e \in evolutions, Apply(e) PROVE Kept
    <3>1. e \in Evolution /\ UpToDate(e)
      BY DEF TypeOK, Current
    <3>2. \A x \in Chain : darcs'[x].rules = darcs[x].rules
            \/ (x = e.chain /\ darcs[x].version = e.from /\ darcs'[x].rules = e.rules)
      BY <2>1, <3>1 DEF Apply, Evolution, TypeOK
    <3> QED
      BY <3>1, <3>2 DEF UpToDate
  <2>2. CASE LoadMalformed \/ SetSigner
    BY <2>2 DEF LoadMalformed, SetSigner
  <2>3. ASSUME NEW f \in Flow, Call(f) PROVE Kept
    BY <2>3 DEF Call, LoadRoster, SetDarc, AddRule, PrintWebPage
  <2>4. ASSUME NEW f \in Flow, Answer(f) PROVE Kept
    BY <2>4 DEF Answer, RosterAnswer, DarcAnswer, RuleRpcAnswer, InstanceAnswer, EvolveAnswer,
       PrintRpcAnswer, ProofAnswer, RequestFails
  <2> QED
    BY <2>1, <2>2, <2>3, <2>4 DEF Next
<1> QED
  BY <1>1, InvHolds, PTL DEF Spec, RulesKept
=============================================================================
