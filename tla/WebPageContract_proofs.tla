---------------------- MODULE WebPageContract_proofs ----------------------
(***************************************************************************)
(* What holds of the webPage contract for every set of nodes, quorums,     *)
(* pages, documents and transactions.                                      *)
(*                                                                         *)
(* The runs of the correct nodes are the link between a transaction and    *)
(* the ledger: a quorum has a correct node, its outcome is what the block  *)
(* holds, and its run explains that outcome by the request, the counter,   *)
(* the web and the ledger.  The invariant says so of every run.            *)
(***************************************************************************)
EXTENDS WebPageContract, SequenceTheorems, TLAPS

\* Requests are made of the arguments their transaction takes, and a block
\* is made of a request.
RequestsWellFormed ==
    /\ \A t \in SpawnTx : tx[t] # NotSent => tx[t].body \in Args \cup {BadArgs}
    /\ \A t \in DeleteTx : tx[t] # NotSent => tx[t].body \in SpawnTx
    /\ block # NoBlock => tx[block.tx] # NotSent

\* Nothing runs without a block, and what runs has the right of its block.
RunsMatchBlock ==
    \A n \in Correct :
        /\ block = NoBlock => fetched[n] = Unfetched /\ verdict[n] = Pending
        /\ fetched[n] # Unfetched =>
              /\ block.tx \in SpawnTx
              /\ Authorised
              /\ tx[block.tx].body \in Args
        /\ verdict[n] \in Instance =>
              /\ block.tx \in SpawnTx
              /\ Authorised
              /\ verdict[n].args = tx[block.tx].body
        /\ verdict[n] = Removed =>
              /\ block.tx \in DeleteTx
              /\ Authorised
              /\ ledger[tx[block.tx].body] # NoInstance

\* The web that is being served is part of what was ever served.
ServedNow == Views(web, clock) \subseteq served

\* What a node fetched was served no later than the node's day, and what it
\* attests is genuine and dated no later than its day.
RunsGenuine ==
    \A n \in Correct :
        /\ fetched[n] # Unfetched =>
              \E view \in served :
                  /\ view[1] = tx[block.tx].body.url
                  /\ view[3] <= clock[n]
                  /\ fetched[n] = Extract(view[2], tx[block.tx].body)
        /\ verdict[n] \in Instance =>
              Genuine(verdict[n]) /\ verdict[n].date <= clock[n]

\* An applied Delete took away an attestation that had been spawned.
WithdrawnWasApplied ==
    \A d \in DeleteTx \cap Applied : tx[d].body \in Applied

RunInv == TypeOK /\ RequestsWellFormed /\ RunsMatchBlock

GenuineInv == ServedNow /\ RunsGenuine /\ LedgerGenuine /\ NotPostdated

LedgerInv == AppliedOnce /\ WithdrawnWasApplied /\ LedgerExplained /\ AnswersRequest

IInv == RunInv /\ GenuineInv /\ LedgerInv

-----------------------------------------------------------------------------
(* Lemmas about the data.                                                  *)

\* What Spawn extracts from a document is content.
LEMMA ExtractType ==
    ASSUME NEW doc \in Doc, NEW args \in Args
    PROVE  Extract(doc, args) \in Content
<1>1. doc[args.selector] \in Section
  BY DataAssumption DEF Args
<1>2. QED
  BY <1>1, DataAssumption DEF Extract, Args

\* What Spawn makes of content on a day is an instance with matching hash.
LEMMA AttestationType ==
    ASSUME NEW args \in Args, NEW content \in Content, NEW date \in Day
    PROVE  /\ Attestation(args, content, date) \in Instance
           /\ Attestation(args, content, date).args = args
           /\ Attestation(args, content, date).content = content
           /\ Attestation(args, content, date).date = date
           /\ Attestation(args, content, date).hash = Hash(content, date)
  BY DEF Attestation, Instance, Hash, Hashes

\* What is being served is a view of the web.
LEMMA ViewsType ==
    ASSUME NEW w, NEW c \in [Correct -> Day]
    PROVE  Views(w, c) \subseteq Page \X Doc \X Day
  BY DEF Views

-----------------------------------------------------------------------------
(* Types, requests and runs.                                               *)

LEMMA InitRunInv == Init => RunInv
<1> SUFFICES ASSUME Init PROVE RunInv
  OBVIOUS
<1>1. TypeOK
  <2>1. clock \in [Correct -> Day]
    BY DEF Init
  <2>2. served \subseteq Page \X Doc \X Day
    BY <2>1, ViewsType DEF Init
  <2>3. log \in Seq(Tx)
    BY DEF Init
  <2>4. QED
    BY <2>1, <2>2, <2>3 DEF Init, TypeOK
<1>2. RequestsWellFormed
  BY MarkerAssumption DEF Init, RequestsWellFormed, Tx
<1>3. RunsMatchBlock
  BY OutcomeAssumption DEF Init, RunsMatchBlock
<1>4. QED
  BY <1>1, <1>2, <1>3 DEF RunInv

\* The world outside changes neither requests nor runs.
LEMMA WorldRunInv ==
    RunInv /\ ((\E p \in Page : Serve(p)) \/ (\E n \in Correct : NewDay(n)))
      => RunInv'
<1> SUFFICES ASSUME RunInv,
                    (\E p \in Page : Serve(p)) \/ (\E n \in Correct : NewDay(n))
             PROVE  RunInv'
  OBVIOUS
<1> USE DEF RunInv
<1>1. UNCHANGED <<tx, ledger, log, block, fetched, verdict>>
  BY DEF Serve, NewDay, chain
<1>2. clock' \in [Correct -> Day] /\ web' \in [Page -> Doc \cup {Unreachable, Hanging}]
  BY DEF Serve, NewDay, TypeOK
<1>3. served' \subseteq Page \X Doc \X Day
  <2>1. served' = served \cup Views(web', clock')
    BY DEF Serve, NewDay
  <2>2. QED
    BY <2>1, <1>2, ViewsType DEF TypeOK
<1>4. TypeOK'
  BY <1>1, <1>2, <1>3 DEF TypeOK
<1>5. RequestsWellFormed'
  BY <1>1 DEF RequestsWellFormed
<1>6. RunsMatchBlock'
  BY <1>1 DEF RunsMatchBlock, Authorised, NextCounter
<1>7. QED
  BY <1>4, <1>5, <1>6

LEMMA SubmitRunInv ==
    ASSUME RunInv, NEW t \in Tx, Submit(t)
    PROVE  RunInv'
<1> USE DEF RunInv
<1>1. PICK body \in (IF t \in SpawnTx THEN Args \cup {BadArgs} ELSE SpawnTx),
           c \in 1 .. NextCounter :
        tx' = [tx EXCEPT ![t] = [body |-> body, counter |-> c]]
  BY DEF Submit
<1>2. UNCHANGED <<web, clock, served, ledger, log, block, fetched, verdict>>
  BY DEF Submit, environment, chain
<1>3. [body |-> body, counter |-> c] \in Instruction
  BY DEF Instruction
<1>4. TypeOK'
  BY <1>1, <1>2, <1>3 DEF TypeOK
<1>5. tx'[t].body = body /\ \A u \in Tx \ {t} : tx'[u] = tx[u]
  BY <1>1 DEF TypeOK
<1>6. RequestsWellFormed'
  <2>1. block # NoBlock => block.tx # t /\ block.tx \in Tx
    BY DEF RequestsWellFormed, Submit, TypeOK, Block
  <2>2. QED
    BY <1>1, <1>2, <1>5, <2>1, TxAssumption DEF RequestsWellFormed, Tx
<1>7. RunsMatchBlock'
  <2>1. ASSUME block # NoBlock PROVE tx'[block.tx] = tx[block.tx]
    BY <2>1, <1>5 DEF RequestsWellFormed, Submit, TypeOK, Block
  <2>2. QED
    BY <1>2, <2>1, OutcomeAssumption DEF RunsMatchBlock, Authorised, NextCounter
<1>8. QED
  BY <1>4, <1>6, <1>7

\* Facts that every step of a run on node n starts from.
LEMMA RunFacts ==
    ASSUME RunInv, NEW n \in Correct, Run(n)
    PROVE  /\ block \in Block /\ block # NoBlock
           /\ tx[block.tx] \in Instruction
           /\ verdict[n] = Pending
           /\ UNCHANGED <<web, clock, served, tx, ledger, log, block>>
<1> USE DEF RunInv
<1>1. block # NoBlock /\ verdict[n] = Pending
  BY DEF Run, SpawnFails, SpawnFetch, SpawnCreates, Delete, Runs
<1>2. block \in Block /\ tx[block.tx] \in Instruction
  BY <1>1 DEF TypeOK, RequestsWellFormed, Block
<1>3. UNCHANGED <<web, clock, served, tx, ledger, log, block>>
  BY DEF Run, SpawnFails, SpawnFetch, SpawnCreates, Delete, Conclude,
         environment, chain
<1>4. QED
  BY <1>1, <1>2, <1>3

\* A node concludes only with an outcome that its block has a right to.
LEMMA ConcludeRunInv ==
    ASSUME RunInv, NEW n \in Correct, NEW o \in Outcome,
           block # NoBlock,
           UNCHANGED <<web, clock, served, tx, ledger, log, block, fetched>>,
           verdict' = [verdict EXCEPT ![n] = o],
           o \in Instance => /\ block.tx \in SpawnTx
                             /\ Authorised
                             /\ o.args = tx[block.tx].body,
           o = Removed => /\ block.tx \in DeleteTx
                          /\ Authorised
                          /\ ledger[tx[block.tx].body] # NoInstance
    PROVE  RunInv'
<1> USE DEF RunInv
<1>1. TypeOK'
  BY DEF TypeOK
<1>2. RequestsWellFormed'
  BY DEF RequestsWellFormed
<1>3. verdict'[n] = o /\ \A m \in Correct \ {n} : verdict'[m] = verdict[m]
  BY DEF TypeOK
<1>4. RunsMatchBlock'
  BY <1>3 DEF RunsMatchBlock, Authorised, NextCounter
<1>5. QED
  BY <1>1, <1>2, <1>4

LEMMA RunRunInv ==
    ASSUME RunInv, NEW n \in Correct, Run(n)
    PROVE  RunInv'
<1> USE RunFacts DEF RunInv
<1>1. CASE SpawnFails(n)
  <2>1. Refused \in Outcome /\ Refused \notin Instance /\ Refused # Removed
    BY OutcomeAssumption DEF Outcome
  <2>2. UNCHANGED fetched /\ verdict' = [verdict EXCEPT ![n] = Refused]
    BY <1>1 DEF SpawnFails, Conclude
  <2>3. QED
    BY <2>1, <2>2, ConcludeRunInv
<1>2. CASE SpawnFetch(n)
  <2> DEFINE args == tx[block.tx].body
             content == Extract(web[args.url], args)
  <2>1. /\ block.tx \in SpawnTx /\ Authorised /\ args \in Args
        /\ web[args.url] \in Doc
        /\ fetched' = [fetched EXCEPT ![n] = content]
        /\ UNCHANGED verdict
    BY <1>2 DEF SpawnFetch
  <2>2. content \in Content
    BY <2>1, ExtractType
  <2>3. TypeOK'
    BY <2>1, <2>2 DEF TypeOK
  <2>4. RequestsWellFormed'
    BY DEF RequestsWellFormed
  <2>5. \A m \in Correct \ {n} : fetched'[m] = fetched[m]
    BY <2>1 DEF TypeOK
  <2>6. RunsMatchBlock'
    BY <2>1, <2>5 DEF RunsMatchBlock, Authorised, NextCounter
  <2>7. QED
    BY <2>3, <2>4, <2>6
<1>3. CASE SpawnCreates(n)
  <2> DEFINE o == Attestation(tx[block.tx].body, fetched[n], clock[n])
  <2>1. /\ block.tx \in SpawnTx /\ Authorised
        /\ tx[block.tx].body \in Args
        /\ fetched[n] \in Content
        /\ clock[n] \in Day
    BY <1>3 DEF SpawnCreates, RunsMatchBlock, TypeOK
  <2>2. o \in Instance /\ o.args = tx[block.tx].body
    BY <2>1, AttestationType
  <2>3. o \in Outcome /\ o # Removed
    BY <2>2, OutcomeAssumption DEF Outcome
  <2>4. UNCHANGED fetched /\ verdict' = [verdict EXCEPT ![n] = o]
    BY <1>3 DEF SpawnCreates, Conclude
  <2> HIDE DEF o
  <2>5. QED
    BY <2>1, <2>2, <2>3, <2>4, ConcludeRunInv
<1>4. CASE Delete(n)
  <2>1. Refused \in Outcome /\ Refused \notin Instance /\ Refused # Removed
    BY OutcomeAssumption DEF Outcome
  <2>2. Removed \in Outcome /\ Removed \notin Instance
    BY OutcomeAssumption DEF Outcome
  <2>3. CASE Authorised /\ ledger[tx[block.tx].body] # NoInstance
    <3>1. UNCHANGED fetched /\ verdict' = [verdict EXCEPT ![n] = Removed]
      BY <1>4, <2>3 DEF Delete, Conclude
    <3>2. block.tx \in DeleteTx
      BY <1>4 DEF Delete
    <3>3. QED
      BY <2>2, <2>3, <3>1, <3>2, ConcludeRunInv
  <2>4. CASE ~(Authorised /\ ledger[tx[block.tx].body] # NoInstance)
    <3>1. UNCHANGED fetched /\ verdict' = [verdict EXCEPT ![n] = Refused]
      BY <1>4, <2>4 DEF Delete, Conclude
    <3>2. QED
      BY <2>1, <3>1, ConcludeRunInv
  <2>5. QED
    BY <2>3, <2>4
<1>5. QED
  BY <1>1, <1>2, <1>3, <1>4 DEF Run

\* Blocks are started for transactions that were sent, and filled with
\* outcomes.
LEMMA BlockRunInv ==
    ASSUME RunInv,
           \/ \E n \in Node, t \in Tx : StartBlock(n, t)
           \/ \E n \in Node : Propose(n)
    PROVE  RunInv'
<1> USE DEF RunInv
<1>1. UNCHANGED <<web, clock, served, tx, ledger, log, fetched, verdict>>
  BY DEF StartBlock, Propose, environment, chain
<1>2. CASE \E n \in Node, t \in Tx : StartBlock(n, t)
  <2>1. PICK n \in Node, t \in Tx : StartBlock(n, t)
    BY <1>2
  <2>2. block = NoBlock /\ tx[t] # NotSent
        /\ block' = [tx |-> t, leader |-> n, outcome |-> Pending]
    BY <2>1 DEF StartBlock
  <2>3. block' \in Block /\ block'.tx = t
    BY <2>2 DEF Block
  <2>4. TypeOK'
    BY <1>1, <2>3 DEF TypeOK
  <2>5. RequestsWellFormed'
    BY <1>1, <2>2, <2>3 DEF RequestsWellFormed
  <2>6. RunsMatchBlock'
    BY <1>1, <2>2, OutcomeAssumption DEF RunsMatchBlock
  <2>7. QED
    BY <2>4, <2>5, <2>6
<1>3. CASE \E n \in Node : Propose(n)
  <2>1. PICK n \in Node : Propose(n)
    BY <1>3
  <2>2. PICK o \in (IF n \in Correct THEN {verdict[n]} \ {Pending} ELSE Arbitrary) :
          block' = [block EXCEPT !.outcome = o]
    BY <2>1 DEF Propose
  <2>3. block # NoBlock /\ block \in Block
    BY <2>1 DEF Propose, TypeOK
  <2>4. o \in Outcome
    BY <2>2, OutcomeAssumption DEF TypeOK
  <2>5. block' \in Block /\ block'.tx = block.tx /\ block' # NoBlock
    BY <2>2, <2>3, <2>4, MarkerAssumption DEF Block
  <2>6. TypeOK'
    BY <1>1, <2>5 DEF TypeOK
  <2>7. RequestsWellFormed'
    BY <1>1, <2>3, <2>5 DEF RequestsWellFormed
  <2>8. RunsMatchBlock'
    BY <1>1, <2>3, <2>5 DEF RunsMatchBlock, Authorised, NextCounter
  <2>9. QED
    BY <2>6, <2>7, <2>8
<1>4. QED
  BY <1>2, <1>3

\* When a block ends, so do all runs.
LEMMA EndRunInv ==
    ASSUME RunInv, (\E Q \in Quorum : Commit(Q)) \/ Abandon
    PROVE  RunInv'
<1> USE DEF RunInv
<1>1. block # NoBlock /\ block \in Block
  BY DEF Commit, Abandon, TypeOK
<1>2. /\ block' = NoBlock /\ Idle
      /\ UNCHANGED <<web, clock, served, tx>>
  BY DEF Commit, Abandon, environment, chain
<1>3. ledger' \in [SpawnTx -> Instance \cup {NoInstance}] /\ log' \in Seq(Tx)
  <2>1. CASE UNCHANGED chain
    BY <2>1 DEF chain, TypeOK
  <2>2. block.tx \in Tx /\ Append(log, block.tx) \in Seq(Tx)
    BY <1>1, AppendProperties DEF TypeOK, Block
  <2>3. CASE /\ ledger' = [ledger EXCEPT ![tx[block.tx].body] = NoInstance]
             /\ log' = Append(log, block.tx)
    <3>1. ledger' \in [SpawnTx -> Instance \cup {NoInstance}]
      BY <2>3 DEF TypeOK
    <3>2. QED
      BY <2>2, <2>3, <3>1
  <2>4. CASE /\ block.outcome \in Instance
             /\ ledger' = [ledger EXCEPT ![block.tx] = block.outcome]
             /\ log' = Append(log, block.tx)
    <3>1. ledger' \in [SpawnTx -> Instance \cup {NoInstance}]
      BY <2>4 DEF TypeOK
    <3>2. QED
      BY <2>2, <2>4, <3>1
  <2>5. QED
    BY <2>1, <2>3, <2>4 DEF Commit, Abandon, chain
<1>4. TypeOK'
  BY <1>2, <1>3 DEF TypeOK, Idle
<1>5. RequestsWellFormed'
  BY <1>2 DEF RequestsWellFormed
<1>6. RunsMatchBlock'
  BY <1>2, OutcomeAssumption DEF RunsMatchBlock, Idle
<1>7. QED
  BY <1>4, <1>5, <1>6

LEMMA RunInvariant == Spec => []RunInv
<1>1. RunInv /\ [Next]_vars => RunInv'
  <2> SUFFICES ASSUME RunInv, [Next]_vars PROVE RunInv'
    OBVIOUS
  <2>1. CASE UNCHANGED vars
    BY <2>1 DEF vars, RunInv, TypeOK, RequestsWellFormed, RunsMatchBlock,
                Authorised, NextCounter
  <2>2. CASE Next
    BY <2>2, WorldRunInv, SubmitRunInv, RunRunInv, BlockRunInv, EndRunInv
       DEF Next
  <2>3. QED
    BY <2>1, <2>2
<1>2. QED
  BY InitRunInv, <1>1, PTL DEF Spec

\* The type invariant, for every instance.
THEOREM TypeCorrect == Spec => []TypeOK
BY RunInvariant, PTL DEF RunInv

-----------------------------------------------------------------------------
(* Attestations are genuine.                                               *)

\* Days can be compared.
LEMMA ClockNat ==
    ASSUME RunInv, NEW n \in Correct
    PROVE  clock[n] \in Day /\ clock[n] \in Nat /\ clock[n] <= clock[n]
<1>1. clock[n] \in Day
  BY DEF RunInv, TypeOK
<1>2. clock[n] \in Nat
  BY <1>1, DataAssumption
<1>3. QED
  BY <1>1, <1>2

\* An instance of what a page served by its date is genuine.
LEMMA AttestationGenuine ==
    ASSUME NEW args \in Args, NEW content \in Content, NEW date \in Day,
           NEW view \in served,
           view[1] = args.url, view[3] <= date, content = Extract(view[2], args)
    PROVE  Genuine(Attestation(args, content, date))
<1> DEFINE o == Attestation(args, content, date)
<1>1. o.args = args /\ o.content = content /\ o.date = date /\ o.hash = Hash(content, date)
  BY DEF Attestation
<1>2. view[1] = o.args.url /\ view[3] <= o.date /\ o.content = Extract(view[2], o.args)
  BY <1>1
<1>3. o.hash = Hash(o.content, o.date)
  BY <1>1
<1> HIDE DEF o
<1>4. Genuine(o)
  BY <1>2, <1>3 DEF Genuine
<1>5. QED
  BY <1>4 DEF o

LEMMA InitGenuineInv == Init => GenuineInv
<1> SUFFICES ASSUME Init PROVE GenuineInv
  OBVIOUS
<1>1. ServedNow
  BY DEF Init, ServedNow
<1>2. RunsGenuine
  BY OutcomeAssumption DEF Init, RunsGenuine
<1>3. LedgerGenuine /\ NotPostdated
  BY DEF Init, LedgerGenuine, NotPostdated
<1>4. QED
  BY <1>1, <1>2, <1>3 DEF GenuineInv

\* The web serves more and clocks go forward: what was genuine remains so.
LEMMA WorldGenuineInv ==
    ASSUME RunInv, GenuineInv,
           (\E p \in Page : Serve(p)) \/ (\E n \in Correct : NewDay(n))
    PROVE  GenuineInv'
<1> USE DEF GenuineInv
<1>1. UNCHANGED <<tx, ledger, log, block, fetched, verdict>>
  BY DEF Serve, NewDay, chain
<1>2. served' = served \cup Views(web', clock')
  BY DEF Serve, NewDay
<1>3. \A n \in Correct : clock[n] \in Nat /\ clock'[n] \in Nat /\ clock[n] <= clock'[n]
  <2> SUFFICES ASSUME NEW n \in Correct
               PROVE  clock'[n] \in Nat /\ clock[n] <= clock'[n]
    BY ClockNat
  <2>1. CASE \E p \in Page : Serve(p)
    BY <2>1, ClockNat DEF Serve
  <2>2. CASE \E m \in Correct : NewDay(m)
    <3>1. PICK m \in Correct : clock' = [clock EXCEPT ![m] = clock[m] + 1]
      BY <2>2 DEF NewDay
    <3>2. clock'[n] = IF n = m THEN clock[n] + 1 ELSE clock[n]
      BY <3>1 DEF RunInv, TypeOK
    <3>3. QED
      BY <3>2, ClockNat
  <2>3. QED
    BY <2>1, <2>2
<1>4. ServedNow'
  BY <1>2 DEF ServedNow, Views
<1>5. ASSUME NEW view \in served, NEW n \in Correct, view[3] <= clock[n]
      PROVE  view \in served' /\ view[3] <= clock'[n]
  <2>1. view[3] \in Nat
    BY DataAssumption DEF RunInv, TypeOK
  <2>2. QED
    BY <1>2, <1>3, <1>5, <2>1
<1>6. ASSUME NEW instance, Genuine(instance) PROVE Genuine(instance)'
  BY <1>2, <1>6 DEF Genuine
<1>7. RunsGenuine'
  <2> SUFFICES ASSUME NEW n \in Correct
               PROVE  /\ fetched[n] # Unfetched =>
                            \E view \in served' :
                                /\ view[1] = tx[block.tx].body.url
                                /\ view[3] <= clock'[n]
                                /\ fetched[n] = Extract(view[2], tx[block.tx].body)
                      /\ verdict[n] \in Instance =>
                            Genuine(verdict[n])' /\ verdict[n].date <= clock'[n]
    BY <1>1 DEF RunsGenuine
  <2>1. fetched[n] # Unfetched =>
          \E view \in served' :
              /\ view[1] = tx[block.tx].body.url
              /\ view[3] <= clock'[n]
              /\ fetched[n] = Extract(view[2], tx[block.tx].body)
    BY <1>5 DEF RunsGenuine
  <2>2. ASSUME verdict[n] \in Instance
        PROVE  Genuine(verdict[n])' /\ verdict[n].date <= clock'[n]
    <3>1. verdict[n].date \in Nat /\ verdict[n].date <= clock[n] /\ Genuine(verdict[n])
      BY <2>2, DataAssumption DEF RunsGenuine, Instance
    <3>2. Genuine(verdict[n])'
      BY <1>1, <1>2, <3>1 DEF Genuine
    <3>3. QED
      BY <1>3, <3>1, <3>2
  <2>3. QED
    BY <2>1, <2>2
<1>8. LedgerGenuine'
  BY <1>1, <1>2 DEF LedgerGenuine, Genuine
<1>9. NotPostdated'
  <2> SUFFICES ASSUME NEW id \in SpawnTx, ledger[id] # NoInstance
               PROVE  \E n \in Correct : ledger[id].date <= clock'[n]
    BY <1>1 DEF NotPostdated
  <2>1. PICK n \in Correct : ledger[id].date <= clock[n]
    BY DEF NotPostdated
  <2>2. ledger[id].date \in Nat
    BY DataAssumption DEF RunInv, TypeOK, Instance
  <2>3. QED
    BY <1>3, <2>1, <2>2
<1>10. QED
  BY <1>4, <1>7, <1>8, <1>9

LEMMA SubmitGenuineInv ==
    ASSUME RunInv, GenuineInv, NEW t \in Tx, Submit(t)
    PROVE  GenuineInv'
<1>1. /\ tx[t] = NotSent
      /\ UNCHANGED <<web, clock, served, ledger, log, block, fetched, verdict>>
  BY DEF Submit, environment, chain
<1>2. ASSUME block # NoBlock PROVE tx'[block.tx] = tx[block.tx]
  BY <1>1, <1>2 DEF RunInv, RequestsWellFormed, Submit, TypeOK, Block
<1>3. ServedNow' /\ LedgerGenuine' /\ NotPostdated'
  BY <1>1 DEF GenuineInv, ServedNow, Views, LedgerGenuine, NotPostdated, Genuine
<1>4. RunsGenuine'
  BY <1>1, <1>2 DEF GenuineInv, RunInv, RunsMatchBlock, RunsGenuine, Genuine
<1>5. QED
  BY <1>3, <1>4 DEF GenuineInv

\* A node fetches what is being served, and dates it with its own clock.
LEMMA RunGenuineInv ==
    ASSUME RunInv, GenuineInv, NEW n \in Correct, Run(n)
    PROVE  GenuineInv'
<1> USE RunFacts
<1>1. ServedNow' /\ LedgerGenuine' /\ NotPostdated'
  BY DEF GenuineInv, ServedNow, Views, LedgerGenuine, NotPostdated, Genuine
<1> SUFFICES RunsGenuine'
  BY <1>1 DEF GenuineInv
<1>2. ASSUME UNCHANGED fetched,
             NEW o, verdict' = [verdict EXCEPT ![n] = o],
             o \in Instance => Genuine(o) /\ o.date <= clock[n]
      PROVE  RunsGenuine'
  <2>1. verdict'[n] = o /\ \A m \in Correct \ {n} : verdict'[m] = verdict[m]
    BY <1>2 DEF RunInv, TypeOK
  <2>2. QED
    BY <1>2, <2>1 DEF GenuineInv, RunsGenuine, Genuine
<1>3. CASE SpawnFails(n)
  BY <1>2, <1>3, OutcomeAssumption DEF SpawnFails, Conclude
<1>4. CASE SpawnFetch(n)
  <2> DEFINE args == tx[block.tx].body
             view == <<args.url, web[args.url], clock[n]>>
  <2>1. /\ args \in Args /\ web[args.url] \in Doc
        /\ fetched' = [fetched EXCEPT ![n] = Extract(web[args.url], args)]
        /\ UNCHANGED verdict
    BY <1>4 DEF SpawnFetch
  <2>2. view \in served
    BY <2>1 DEF GenuineInv, ServedNow, Views, Args
  <2>3. clock[n] <= clock[n]
    BY ClockNat
  <2>4. /\ fetched'[n] = Extract(view[2], args)
        /\ \A m \in Correct \ {n} : fetched'[m] = fetched[m]
    BY <2>1 DEF RunInv, TypeOK
  <2>5. QED
    BY <1>1, <2>1, <2>2, <2>3, <2>4 DEF GenuineInv, RunsGenuine, Genuine
<1>5. CASE SpawnCreates(n)
  <2> DEFINE args == tx[block.tx].body
             o == Attestation(args, fetched[n], clock[n])
  <2>1. /\ args \in Args
        /\ fetched[n] \in Content /\ fetched[n] # Unfetched
        /\ clock[n] \in Day
    BY <1>5 DEF SpawnCreates, RunInv, RunsMatchBlock, TypeOK
  <2>2. PICK view \in served : /\ view[1] = args.url
                               /\ view[3] <= clock[n]
                               /\ fetched[n] = Extract(view[2], args)
    BY <2>1 DEF GenuineInv, RunsGenuine
  <2>3. Genuine(o)
    BY <2>1, <2>2, AttestationGenuine
  <2>4. o.date <= clock[n]
    <3>1. o.date = clock[n]
      BY <2>1, AttestationType
    <3>2. QED
      BY <3>1, ClockNat
  <2>5. UNCHANGED fetched /\ verdict' = [verdict EXCEPT ![n] = o]
    BY <1>5 DEF SpawnCreates, Conclude
  <2> HIDE DEF o
  <2>6. QED
    BY <1>2, <2>3, <2>4, <2>5
<1>6. CASE Delete(n)
  BY <1>2, <1>6, OutcomeAssumption DEF Delete, Conclude
<1>7. QED
  BY <1>3, <1>4, <1>5, <1>6 DEF Run

LEMMA BlockGenuineInv ==
    ASSUME RunInv, GenuineInv,
           \/ \E n \in Node, t \in Tx : StartBlock(n, t)
           \/ \E n \in Node : Propose(n)
    PROVE  GenuineInv'
<1>1. UNCHANGED <<web, clock, served, tx, ledger, log, fetched, verdict>>
  BY DEF StartBlock, Propose, environment, chain
<1>2. block # NoBlock => block'.tx = block.tx
  <2>1. CASE \E n \in Node, t \in Tx : StartBlock(n, t)
    BY <2>1 DEF StartBlock
  <2>2. CASE \E n \in Node : Propose(n)
    <3>1. PICK o : block \in Block /\ block' = [block EXCEPT !.outcome = o]
      BY <2>2 DEF Propose, RunInv, TypeOK
    <3>2. QED
      BY <3>1 DEF Block
  <2>3. QED
    BY <2>1, <2>2
<1>3. ServedNow' /\ LedgerGenuine' /\ NotPostdated'
  BY <1>1 DEF GenuineInv, ServedNow, Views, LedgerGenuine, NotPostdated, Genuine
<1>4. RunsGenuine'
  BY <1>1, <1>2 DEF GenuineInv, RunInv, RunsMatchBlock, RunsGenuine, Genuine
<1>5. QED
  BY <1>3, <1>4 DEF GenuineInv

\* A quorum has a correct node, and its run explains what is committed.
LEMMA CommitFacts ==
    ASSUME RunInv, NEW Q \in Quorum, Commit(Q)
    PROVE  \E n \in Correct :
              /\ block \in Block /\ block # NoBlock
              /\ block.tx \in Tx /\ tx[block.tx] \in Instruction
              /\ verdict[n] = block.outcome
              /\ \/ UNCHANGED chain
                 \/ /\ verdict[n] = Removed
                    /\ block.tx \in DeleteTx
                    /\ Authorised
                    /\ tx[block.tx].body \in SpawnTx
                    /\ ledger[tx[block.tx].body] # NoInstance
                    /\ ledger' = [ledger EXCEPT ![tx[block.tx].body] = NoInstance]
                    /\ log' = Append(log, block.tx)
                 \/ /\ verdict[n] \in Instance
                    /\ block.tx \in SpawnTx
                    /\ Authorised
                    /\ verdict[n].args = tx[block.tx].body
                    /\ ledger' = [ledger EXCEPT ![block.tx] = verdict[n]]
                    /\ log' = Append(log, block.tx)
<1>1. PICK n \in Correct : n \in Q /\ verdict[n] = block.outcome
  BY NodeAssumption DEF Commit, Agree
<1>2. /\ block \in Block /\ block # NoBlock
      /\ block.tx \in Tx /\ tx[block.tx] # NotSent /\ tx[block.tx] \in Instruction
  BY DEF Commit, RunInv, TypeOK, RequestsWellFormed, Block
<1>3. CASE UNCHANGED chain
  BY <1>1, <1>2, <1>3
<1>4. CASE /\ block.outcome = Removed
           /\ ledger' = [ledger EXCEPT ![tx[block.tx].body] = NoInstance]
           /\ log' = Append(log, block.tx)
  <2>1. /\ block.tx \in DeleteTx /\ Authorised
        /\ ledger[tx[block.tx].body] # NoInstance
    BY <1>1, <1>4 DEF RunInv, RunsMatchBlock
  <2>2. tx[block.tx].body \in SpawnTx
    BY <1>2, <2>1 DEF RunInv, RequestsWellFormed
  <2>3. QED
    BY <1>1, <1>2, <1>4, <2>1, <2>2
<1>5. CASE /\ block.outcome \in Instance
           /\ ledger' = [ledger EXCEPT ![block.tx] = block.outcome]
           /\ log' = Append(log, block.tx)
  <2>1. /\ block.tx \in SpawnTx /\ Authorised
        /\ verdict[n].args = tx[block.tx].body
    BY <1>1, <1>5 DEF RunInv, RunsMatchBlock
  <2>2. QED
    BY <1>1, <1>2, <1>5, <2>1
<1>6. QED
  BY <1>3, <1>4, <1>5 DEF Commit

LEMMA EndGenuineInv ==
    ASSUME RunInv, GenuineInv, (\E Q \in Quorum : Commit(Q)) \/ Abandon
    PROVE  GenuineInv'
<1>1. Idle /\ UNCHANGED <<web, clock, served, tx>>
  BY DEF Commit, Abandon, environment, chain
<1>2. ServedNow'
  BY <1>1 DEF GenuineInv, ServedNow, Views
<1>3. RunsGenuine'
  BY <1>1, OutcomeAssumption DEF RunsGenuine, Idle
<1>4. LedgerGenuine' /\ NotPostdated'
  <2>1. CASE UNCHANGED chain
    BY <1>1, <2>1 DEF chain, GenuineInv, LedgerGenuine, NotPostdated, Genuine
  <2>2. ASSUME NEW id \in SpawnTx,
               \A i \in SpawnTx \ {id} : ledger'[i] = ledger[i],
               \/ ledger'[id] = NoInstance
               \/ \E n \in Correct : /\ ledger'[id] = verdict[n]
                                     /\ verdict[n] \in Instance
        PROVE  LedgerGenuine' /\ NotPostdated'
    BY <1>1, <2>2 DEF GenuineInv, RunsGenuine, LedgerGenuine, NotPostdated, Genuine
  <2>3. CASE \E Q \in Quorum : Commit(Q)
    <3>1. PICK Q \in Quorum : Commit(Q)
      BY <2>3
    <3>2. PICK n \in Correct :
             \/ UNCHANGED chain
             \/ /\ tx[block.tx].body \in SpawnTx
                /\ ledger' = [ledger EXCEPT ![tx[block.tx].body] = NoInstance]
             \/ /\ verdict[n] \in Instance
                /\ block.tx \in SpawnTx
                /\ ledger' = [ledger EXCEPT ![block.tx] = verdict[n]]
      BY <3>1, CommitFacts
    <3>3. QED
      BY <2>1, <2>2, <3>2 DEF RunInv, TypeOK
  <2>4. QED
    BY <2>1, <2>3 DEF Abandon
<1>5. QED
  BY <1>2, <1>3, <1>4 DEF GenuineInv

LEMMA GenuineInvariant == Spec => []GenuineInv
<1>1. RunInv /\ GenuineInv /\ [Next]_vars => GenuineInv'
  <2> SUFFICES ASSUME RunInv, GenuineInv, [Next]_vars PROVE GenuineInv'
    OBVIOUS
  <2>1. CASE UNCHANGED vars
    BY <2>1 DEF vars, GenuineInv, ServedNow, Views, RunsGenuine,
                LedgerGenuine, NotPostdated, Genuine
  <2>2. CASE Next
    BY <2>2, WorldGenuineInv, SubmitGenuineInv, RunGenuineInv, BlockGenuineInv,
       EndGenuineInv DEF Next
  <2>3. QED
    BY <2>1, <2>2
<1>2. QED
  BY InitGenuineInv, RunInvariant, <1>1, PTL DEF Spec

\* Whatever pages, clocks and faulty nodes do, what the ledger holds is of
\* content that the page served, no later than its date.
THEOREM LedgerIsGenuine == Spec => []LedgerGenuine
BY GenuineInvariant, PTL DEF GenuineInv

\* No attestation is dated later than every correct node's clock.
THEOREM NoneIsPostdated == Spec => []NotPostdated
BY GenuineInvariant, PTL DEF GenuineInv

-----------------------------------------------------------------------------
(* The ledger is what the applied transactions made of it.                 *)

\* Appending to the log adds one applied transaction.
LEMMA AppendApplied ==
    ASSUME RunInv, NEW t \in Tx, log' = Append(log, t)
    PROVE  /\ Applied' = Applied \cup {t}
           /\ Len(log) \in Nat /\ Len(log') = Len(log) + 1
           /\ \A i \in 1 .. Len(log) : log'[i] = log[i]
           /\ log'[Len(log) + 1] = t
<1>1. log \in Seq(Tx)
  BY DEF RunInv, TypeOK
<1>2. /\ Len(log) \in Nat /\ Len(log') = Len(log) + 1
      /\ \A i \in 1 .. Len(log) : log'[i] = log[i]
      /\ log'[Len(log) + 1] = t
  BY <1>1, AppendProperties
<1>3. Applied' = Applied \cup {t}
  <2>1. 1 .. Len(log') = (1 .. Len(log)) \cup {Len(log) + 1}
    BY <1>2
  <2>2. QED
    BY <1>2, <2>1 DEF Applied
<1>4. QED
  BY <1>2, <1>3

\* Applied transactions have been sent, and lie behind the next counter.
LEMMA AppliedSent ==
    ASSUME RunInv, AppliedOnce, NEW t \in Applied
    PROVE  t \in Tx /\ tx[t] # NotSent /\ tx[t].counter # NextCounter
<1>1. log \in Seq(Tx) /\ Len(log) \in Nat
  BY DEF RunInv, TypeOK
<1>2. PICK i \in 1 .. Len(log) : t = log[i]
  BY DEF Applied
<1>3. tx[t] # NotSent /\ tx[t].counter = i
  BY <1>2 DEF AppliedOnce
<1>4. QED
  BY <1>1, <1>2, <1>3 DEF NextCounter

\* A step that leaves the chain and the requests alone.
LEMMA ChainStays ==
    ASSUME LedgerInv, UNCHANGED <<ledger, log, tx>>
    PROVE  LedgerInv'
BY DEF LedgerInv, AppliedOnce, WithdrawnWasApplied, LedgerExplained,
       AnswersRequest, Withdrawn, Applied

LEMMA SubmitLedgerInv ==
    ASSUME RunInv, LedgerInv, NEW t \in Tx, Submit(t)
    PROVE  LedgerInv'
<1> USE DEF LedgerInv
<1>1. tx[t] = NotSent /\ UNCHANGED <<ledger, log>> /\ UNCHANGED Applied
  BY DEF Submit, chain, Applied
<1>2. ASSUME NEW u \in Applied PROVE tx'[u] = tx[u]
  <2>1. u \in Tx /\ u # t
    BY <1>1, AppliedSent
  <2>2. QED
    BY <2>1 DEF Submit, RunInv, TypeOK
<1>3. AppliedOnce'
  BY <1>1, <1>2 DEF AppliedOnce, Applied
<1>4. WithdrawnWasApplied'
  BY <1>1, <1>2 DEF WithdrawnWasApplied
<1>5. \A id \in SpawnTx : Withdrawn(id)' <=> Withdrawn(id)
  BY <1>1, <1>2 DEF Withdrawn
<1>6. LedgerExplained'
  BY <1>1, <1>5 DEF LedgerExplained
<1>7. AnswersRequest'
  BY <1>1, <1>2 DEF AnswersRequest, LedgerExplained
<1>8. QED
  BY <1>3, <1>4, <1>6, <1>7

LEMMA CommitLedgerInv ==
    ASSUME RunInv, LedgerInv, NEW Q \in Quorum, Commit(Q)
    PROVE  LedgerInv'
<1> USE DEF LedgerInv
<1> DEFINE t == block.tx
           id0 == tx[t].body
<1>1. UNCHANGED tx
  BY DEF Commit
<1>2. PICK n \in Correct :
        /\ t \in Tx /\ tx[t] # NotSent
        /\ \/ UNCHANGED chain
           \/ /\ t \in DeleteTx /\ Authorised
              /\ id0 \in SpawnTx /\ ledger[id0] # NoInstance
              /\ ledger' = [ledger EXCEPT ![id0] = NoInstance]
              /\ log' = Append(log, t)
           \/ /\ verdict[n] \in Instance
              /\ t \in SpawnTx /\ Authorised
              /\ verdict[n].args = id0
              /\ ledger' = [ledger EXCEPT ![t] = verdict[n]]
              /\ log' = Append(log, t)
  BY CommitFacts, MarkerAssumption
<1>3. CASE UNCHANGED chain
  BY <1>1, <1>3, ChainStays DEF chain
<1> SUFFICES ASSUME Authorised, log' = Append(log, t) PROVE LedgerInv'
  BY <1>2, <1>3
<1>4. /\ Applied' = Applied \cup {t}
      /\ Len(log) \in Nat /\ Len(log') = Len(log) + 1
      /\ \A i \in 1 .. Len(log) : log'[i] = log[i]
      /\ log'[Len(log) + 1] = t
  BY <1>2, AppendApplied
<1>5. t \notin Applied
  BY AppliedSent DEF Authorised
<1>6. AppliedOnce'
  <2> SUFFICES ASSUME NEW i \in 1 .. Len(log')
               PROVE  tx[log'[i]] # NotSent /\ tx[log'[i]].counter = i
    BY <1>1 DEF AppliedOnce
  <2>1. CASE i \in 1 .. Len(log)
    BY <1>4, <2>1 DEF AppliedOnce
  <2>2. CASE i = Len(log) + 1
    BY <1>2, <1>4, <2>2 DEF Authorised, NextCounter
  <2>3. QED
    BY <1>4, <2>1, <2>2
<1>7. CASE /\ t \in DeleteTx
           /\ id0 \in SpawnTx /\ ledger[id0] # NoInstance
           /\ ledger' = [ledger EXCEPT ![id0] = NoInstance]
  <2>1. id0 \in Applied /\ t \notin SpawnTx
    BY <1>7, TxAssumption DEF LedgerExplained
  <2>2. WithdrawnWasApplied'
    BY <1>1, <1>4, <2>1 DEF WithdrawnWasApplied
  <2>3. \A id \in SpawnTx : Withdrawn(id)' <=> (Withdrawn(id) \/ id = id0)
    BY <1>1, <1>4, <1>7 DEF Withdrawn
  <2>4. \A id \in SpawnTx : ledger'[id] = IF id = id0 THEN NoInstance ELSE ledger[id]
    BY <1>7 DEF RunInv, TypeOK
  <2>5. LedgerExplained'
    BY <1>4, <2>1, <2>3, <2>4 DEF LedgerExplained
  <2>6. AnswersRequest'
    BY <1>1, <2>4 DEF AnswersRequest
  <2>7. QED
    BY <1>6, <2>2, <2>5, <2>6
<1>8. CASE /\ verdict[n] \in Instance
           /\ t \in SpawnTx
           /\ verdict[n].args = id0
           /\ ledger' = [ledger EXCEPT ![t] = verdict[n]]
  <2>1. t \notin DeleteTx /\ verdict[n] # NoInstance
    BY <1>8, TxAssumption
  <2>2. WithdrawnWasApplied'
    BY <1>1, <1>4, <2>1 DEF WithdrawnWasApplied
  <2>3. \A id \in SpawnTx : Withdrawn(id)' <=> Withdrawn(id)
    BY <1>1, <1>4, <2>1 DEF Withdrawn
  <2>4. ~Withdrawn(t)
    BY <1>5 DEF Withdrawn, WithdrawnWasApplied
  <2>5. \A id \in SpawnTx : ledger'[id] = IF id = t THEN verdict[n] ELSE ledger[id]
    BY <1>8 DEF RunInv, TypeOK
  <2>6. LedgerExplained'
    BY <1>4, <1>8, <2>1, <2>3, <2>4, <2>5 DEF LedgerExplained
  <2>7. AnswersRequest'
    BY <1>1, <1>8, <2>5 DEF AnswersRequest
  <2>8. QED
    BY <1>6, <2>2, <2>6, <2>7
<1>9. QED
  BY <1>2, <1>3, <1>7, <1>8

LEMMA LedgerInvariant == Spec => []LedgerInv
<1>1. Init => LedgerInv
  BY DEF Init, LedgerInv, AppliedOnce, WithdrawnWasApplied, LedgerExplained,
         AnswersRequest, Applied
<1>2. RunInv /\ LedgerInv /\ [Next]_vars => LedgerInv'
  <2> SUFFICES ASSUME RunInv, LedgerInv, [Next]_vars PROVE LedgerInv'
    OBVIOUS
  <2>1. CASE UNCHANGED vars
    BY <2>1, ChainStays DEF vars
  <2>2. CASE (\E p \in Page : Serve(p)) \/ (\E n \in Correct : NewDay(n))
    BY <2>2, ChainStays DEF Serve, NewDay, chain
  <2>3. CASE \E t \in Tx : Submit(t)
    BY <2>3, SubmitLedgerInv
  <2>4. CASE \E n \in Correct : Run(n)
    BY <2>4, RunFacts, ChainStays
  <2>5. CASE \/ \E n \in Node, t \in Tx : StartBlock(n, t)
             \/ \E n \in Node : Propose(n)
             \/ Abandon
    BY <2>5, ChainStays DEF StartBlock, Propose, Abandon, chain
  <2>6. CASE \E Q \in Quorum : Commit(Q)
    BY <2>6, CommitLedgerInv
  <2>7. QED
    BY <2>1, <2>2, <2>3, <2>4, <2>5, <2>6 DEF Next
<1>3. QED
  BY <1>1, <1>2, RunInvariant, PTL DEF Spec

\* Whatever is delivered again or signed with the same counter, a
\* transaction takes effect once.
THEOREM NoReplay == Spec => []AppliedOnce
BY LedgerInvariant, PTL DEF LedgerInv

\* The ledger holds the attestations that were spawned and not deleted.
THEOREM LedgerIsExplained == Spec => []LedgerExplained
BY LedgerInvariant, PTL DEF LedgerInv

\* The ledger answers what was asked.
THEOREM RequestIsAnswered == Spec => []AnswersRequest
BY LedgerInvariant, PTL DEF LedgerInv

-----------------------------------------------------------------------------
(* Attestations only end, and the contract implements the registry.        *)

\* The chain changes in a Commit only.
LEMMA ChainChange ==
    ASSUME RunInv, [Next]_vars
    PROVE  UNCHANGED chain \/ \E Q \in Quorum : Commit(Q)
<1>1. CASE UNCHANGED vars
  BY <1>1 DEF vars, chain
<1>2. CASE \E n \in Correct : Run(n)
  BY <1>2, RunFacts DEF chain
<1>3. CASE Next /\ ~(\E n \in Correct : Run(n)) /\ ~(\E Q \in Quorum : Commit(Q))
  BY <1>3 DEF Next, Serve, NewDay, Submit, StartBlock, Propose, Abandon
<1>4. QED
  BY <1>1, <1>2, <1>3

\* An attestation never changes, and one that was removed stays removed.
THEOREM AttestationsAreImmutable == Spec => AttestationsOnlyEnd
<1>1. RunInv /\ LedgerInv /\ [Next]_vars =>
        [\A id \in Applied \cap SpawnTx : ledger'[id] \in {ledger[id], NoInstance}]_vars
  <2> SUFFICES ASSUME RunInv, LedgerInv, [Next]_vars,
                      NEW id \in Applied \cap SpawnTx
               PROVE  ledger'[id] \in {ledger[id], NoInstance}
    OBVIOUS
  <2>1. CASE UNCHANGED chain
    BY <2>1 DEF chain
  <2>2. CASE \E Q \in Quorum : Commit(Q)
    <3>1. PICK Q \in Quorum : Commit(Q)
      BY <2>2
    <3>2. PICK n \in Correct :
             \/ UNCHANGED chain
             \/ /\ tx[block.tx].body \in SpawnTx
                /\ ledger' = [ledger EXCEPT ![tx[block.tx].body] = NoInstance]
             \/ /\ block.tx \in SpawnTx /\ Authorised
                /\ ledger' = [ledger EXCEPT ![block.tx] = verdict[n]]
      BY <3>1, CommitFacts
    <3>3. Authorised => block.tx # id
      BY AppliedSent DEF LedgerInv, Authorised
    <3>4. QED
      BY <2>1, <3>2, <3>3 DEF RunInv, TypeOK
  <2>3. QED
    BY <2>1, <2>2, ChainChange
<1>2. QED
  BY <1>1, RunInvariant, LedgerInvariant, PTL DEF Spec, AttestationsOnlyEnd

\* A step of the cothority is a step of the registry, or none of its business.
LEMMA StepRefines ==
    ASSUME RunInv, RunInv', GenuineInv, LedgerInv, [Next]_vars
    PROVE  [RegistryNext]_rvars
<1>1. CASE UNCHANGED vars
  BY <1>1 DEF vars, rvars
<1>2. CASE (\E p \in Page : Serve(p)) \/ (\E n \in Correct : NewDay(n))
  <2>1. served \subseteq served' /\ UNCHANGED <<ledger, log>>
    BY <1>2 DEF Serve, NewDay, chain
  <2>2. served' \in SUBSET (Page \X Doc \X Day)
    BY DEF RunInv, TypeOK
  <2>3. QED
    BY <2>1, <2>2 DEF RegistryNext, Publish
<1>3. CASE \E n \in Correct : Run(n)
  BY <1>3, RunFacts DEF rvars
<1>4. CASE \/ \E t \in Tx : Submit(t)
           \/ \E n \in Node, t \in Tx : StartBlock(n, t)
           \/ \E n \in Node : Propose(n)
           \/ Abandon
  BY <1>4 DEF Submit, StartBlock, Propose, Abandon, environment, chain, rvars
<1>5. CASE \E Q \in Quorum : Commit(Q)
  <2> DEFINE t == block.tx
             id0 == tx[t].body
  <2>1. PICK Q \in Quorum : Commit(Q)
    BY <1>5
  <2>2. UNCHANGED served
    BY <2>1 DEF Commit, environment
  <2>3. PICK n \in Correct :
           \/ UNCHANGED chain
           \/ /\ t \in DeleteTx /\ Authorised
              /\ id0 \in SpawnTx /\ ledger[id0] # NoInstance
              /\ ledger' = [ledger EXCEPT ![id0] = NoInstance]
              /\ log' = Append(log, t)
           \/ /\ verdict[n] \in Instance
              /\ t \in SpawnTx /\ Authorised
              /\ ledger' = [ledger EXCEPT ![t] = verdict[n]]
              /\ log' = Append(log, t)
    BY <2>1, CommitFacts
  <2>4. Authorised => t \notin Applied
    BY AppliedSent DEF LedgerInv, Authorised
  <2>5. verdict[n] \in Instance => Genuine(verdict[n])
    BY DEF GenuineInv, RunsGenuine
  <2>6. CASE UNCHANGED chain
    BY <2>2, <2>6 DEF chain, rvars
  <2>7. CASE /\ t \in DeleteTx /\ Authorised
             /\ id0 \in SpawnTx /\ ledger[id0] # NoInstance
             /\ ledger' = [ledger EXCEPT ![id0] = NoInstance]
             /\ log' = Append(log, t)
    <3>1. Withdraw(t)
      BY <2>2, <2>4, <2>7 DEF Withdraw
    <3>2. QED
      BY <2>7, <3>1 DEF RegistryNext
  <2>8. CASE /\ verdict[n] \in Instance
             /\ t \in SpawnTx /\ Authorised
             /\ ledger' = [ledger EXCEPT ![t] = verdict[n]]
             /\ log' = Append(log, t)
    <3>1. Attest(t)
      BY <2>2, <2>4, <2>5, <2>8 DEF Attest
    <3>2. QED
      BY <2>8, <3>1 DEF RegistryNext
  <2>9. QED
    BY <2>3, <2>6, <2>7, <2>8
<1>6. QED
  BY <1>1, <1>2, <1>3, <1>4, <1>5 DEF Next

\* The cothority implements the registry of attestations.
THEOREM ImplementsRegistry == Spec => RegistrySpec
<1>1. Init => RegistryInit
  BY InitRunInv DEF RunInv, TypeOK, Init, RegistryInit
<1>2. RunInv /\ RunInv' /\ GenuineInv /\ LedgerInv /\ [Next]_vars => [RegistryNext]_rvars
  BY StepRefines
<1>3. QED
  BY <1>1, <1>2, RunInvariant, GenuineInvariant, LedgerInvariant, PTL
     DEF Spec, RegistrySpec
=============================================================================
