-------------------------- MODULE WebPageContract --------------------------
(***************************************************************************)
(* The webPage contract run by a cothority.                                *)
(*                                                                         *)
(* A client's transaction asks to attest a section of a page (Spawn) or to *)
(* delete an attestation (Delete).  The leader of a block runs the         *)
(* contract, proposes what came out, and every other node runs the         *)
(* contract again and compares.  Running the contract is not one step: the *)
(* node fetches the page itself, and only then reads its own clock, while  *)
(* the page and the clocks of the other nodes move on.                     *)
(*                                                                         *)
(* ByzCoin, the ledger under the contract, is not in this repository: its  *)
(* part (blocks, counters, agreement) is modelled from what the contract,  *)
(* its test and its documentation rely on.  Faulty nodes have no state:    *)
(* as leaders they may propose any outcome of Arbitrary, and they agree to *)
(* whatever is proposed.  A block holds one transaction.                   *)
(***************************************************************************)
EXTENDS AttestationRegistry

CONSTANTS
    Correct,     \* the nodes that run the contract of this repository
    Faulty,      \* the nodes that may do anything, or nothing
    Quorum,      \* sets of nodes whose agreement makes a block
    Arbitrary,   \* outcomes a faulty leader may propose
    NotSent, BadArgs, Unreachable, Hanging, Unfetched, Pending,
    Refused, Removed, NoBlock

Node == Correct \cup Faulty
Outcome == Instance \cup {Refused, Removed}
Instruction == [body : Args \cup {BadArgs} \cup SpawnTx, counter : Nat]
Block == [tx : Tx, leader : Node, outcome : Outcome \cup {Pending}]

ASSUME NodeAssumption ==
    /\ Correct \cap Faulty = {}
    /\ \A Q \in Quorum : Q \subseteq Node /\ Q \cap Correct # {}

ASSUME OutcomeAssumption ==
    /\ Arbitrary \subseteq Outcome
    /\ Refused \notin Instance \cup {Removed, Pending}
    /\ Removed \notin Instance \cup {Pending}
    /\ Pending \notin Instance
    /\ NoInstance \notin Instance

ASSUME MarkerAssumption ==
    /\ NotSent \notin Instruction
    /\ NoBlock \notin Block
    /\ Unfetched \notin Content
    /\ {Unreachable, Hanging} \cap Doc = {}
    /\ (Args \cup SpawnTx) \cap {BadArgs} = {} /\ Args \cap SpawnTx = {}

VARIABLES
    web,         \* what each page serves at the moment
    clock,       \* the day on each correct node's clock, in its time zone
    tx,          \* the transactions clients sent; one that was sent stays
                 \* in the network and can be delivered again
    block,       \* the block being made
    fetched,     \* per correct node, the content its running Spawn extracted
    verdict      \* per correct node, what its run of the contract gave

vars == <<web, clock, served, tx, ledger, log, block, fetched, verdict>>

environment == <<web, clock, served>>
chain == <<ledger, log>>

NextCounter == Len(log) + 1

\* What the pages serve, with the days on the clocks while they serve it.
Views(w, c) ==
    {<<p, w[p], c[n]>> : p \in {q \in Page : w[q] \in Doc}, n \in Correct}

TypeOK ==
    /\ web \in [Page -> Doc \cup {Unreachable, Hanging}]
    /\ clock \in [Correct -> Day]
    /\ served \subseteq Page \X Doc \X Day
    /\ tx \in [Tx -> Instruction \cup {NotSent}]
    /\ ledger \in [SpawnTx -> Instance \cup {NoInstance}]
    /\ log \in Seq(Tx)
    /\ block \in Block \cup {NoBlock}
    /\ fetched \in [Correct -> Content \cup {Unfetched}]
    /\ verdict \in [Correct -> Outcome \cup {Pending}]

Idle == /\ fetched' = [n \in Correct |-> Unfetched]
        /\ verdict' = [n \in Correct |-> Pending]

Init ==
    /\ web \in [Page -> Doc \cup {Unreachable}]
    /\ \E d \in Day : clock = [n \in Correct |-> d]
    /\ served = Views(web, clock)
    /\ tx = [t \in Tx |-> NotSent]
    /\ ledger = [t \in SpawnTx |-> NoInstance]
    /\ log = <<>>
    /\ block = NoBlock
    /\ fetched = [n \in Correct |-> Unfetched]
    /\ verdict = [n \in Correct |-> Pending]

-----------------------------------------------------------------------------
(* The world outside.                                                      *)

\* A page serves something else, or stops answering.
Serve(p) ==
    /\ \E s \in Doc \cup {Unreachable, Hanging} : web' = [web EXCEPT ![p] = s]
    /\ served' = served \cup Views(web', clock)
    /\ UNCHANGED <<clock, tx, chain, block, fetched, verdict>>

\* Midnight at a node.  The clocks of two nodes are less than a day apart.
NewDay(n) ==
    /\ \A m \in Correct : clock[n] <= clock[m]
    /\ clock[n] + 1 \in Day
    /\ clock' = [clock EXCEPT ![n] = clock[n] + 1]
    /\ served' = served \cup Views(web, clock')
    /\ UNCHANGED <<web, tx, chain, block, fetched, verdict>>

\* A client reads the counter of the signer and signs a transaction with the
\* next one.  Between the two, and with several clients that share the
\* signer, other transactions may be applied: the counter may be outdated.
Submit(t) ==
    /\ tx[t] = NotSent
    /\ \E body \in IF t \in SpawnTx THEN Args \cup {BadArgs} ELSE SpawnTx,
          c \in 1 .. NextCounter :
          tx' = [tx EXCEPT ![t] = [body |-> body, counter |-> c]]
    /\ UNCHANGED <<environment, chain, block, fetched, verdict>>

-----------------------------------------------------------------------------
(* Running the contract on one node.                                       *)

\* The leader runs the contract to make the block, the others to check it.
Runs(n) ==
    /\ block # NoBlock
    /\ n = block.leader \/ block.outcome # Pending
    /\ verdict[n] = Pending

\* Mutant: any counter that was once right is accepted again.
AuthorisedAgain == tx[block.tx].counter <= NextCounter

Authorised == tx[block.tx].counter = NextCounter

Conclude(n, outcome) ==
    /\ verdict' = [verdict EXCEPT ![n] = outcome]
    /\ UNCHANGED <<environment, tx, chain, block, fetched>>

\* Spawn fails: the signature is refused, an argument is missing or cannot
\* be decoded, or the page cannot be fetched.
SpawnFails(n) ==
    /\ Runs(n) /\ block.tx \in SpawnTx /\ fetched[n] = Unfetched
    /\ \/ ~Authorised
       \/ tx[block.tx].body = BadArgs
       \/ /\ tx[block.tx].body \in Args
          /\ web[tx[block.tx].body.url] = Unreachable
    /\ Conclude(n, Refused)

\* Mutant: the text is asked for, and the markup taken.
SpawnFetchMarkup(n) ==
    /\ Runs(n) /\ block.tx \in SpawnTx /\ fetched[n] = Unfetched
    /\ Authorised
    /\ tx[block.tx].body \in Args
    /\ LET args == [tx[block.tx].body EXCEPT !.textOnly = FALSE] IN
         /\ web[args.url] \in Doc
         /\ fetched' = [fetched EXCEPT ![n] = Extract(web[args.url], args)]
    /\ UNCHANGED <<environment, tx, chain, block, verdict>>

\* Spawn fetches the page and extracts the selected content.  There is no
\* timeout: the step waits for as long as the page hangs.
SpawnFetch(n) ==
    /\ Runs(n) /\ block.tx \in SpawnTx /\ fetched[n] = Unfetched
    /\ Authorised
    /\ tx[block.tx].body \in Args
    /\ LET args == tx[block.tx].body IN
         /\ web[args.url] \in Doc
         /\ fetched' = [fetched EXCEPT ![n] = Extract(web[args.url], args)]
    /\ UNCHANGED <<environment, tx, chain, block, verdict>>

\* Mutant: the selection is used before the document is loaded.
SpawnCreatesEarly(n) ==
    /\ Runs(n) /\ block.tx \in SpawnTx
    /\ Conclude(n, Attestation(tx[block.tx].body, fetched[n], clock[n]))

\* Mutant: the date is the next day's.
SpawnCreatesTomorrow(n) ==
    /\ Runs(n) /\ block.tx \in SpawnTx /\ fetched[n] # Unfetched
    /\ Conclude(n, Attestation(tx[block.tx].body, fetched[n], clock[n] + 1))

\* Mutant: a flag that is not set is read as set.
SpawnCreatesText(n) ==
    /\ Runs(n) /\ block.tx \in SpawnTx /\ fetched[n] # Unfetched
    /\ Conclude(n, Attestation([tx[block.tx].body EXCEPT !.textOnly = TRUE],
                               fetched[n], clock[n]))

\* Mutant: every node salts the hash.
SpawnCreatesSalted(n) ==
    /\ Runs(n) /\ block.tx \in SpawnTx /\ fetched[n] # Unfetched
    /\ Conclude(n, [Attestation(tx[block.tx].body, fetched[n], clock[n])
                      EXCEPT !.hash = Hash(n, clock[n])])

\* Spawn reads the clock, hashes, and returns the instance to create.
SpawnCreates(n) ==
    /\ Runs(n) /\ block.tx \in SpawnTx /\ fetched[n] # Unfetched
    /\ Conclude(n, Attestation(tx[block.tx].body, fetched[n], clock[n]))

\* Mutant: Delete does not look the instance up.
DeleteBlindly(n) ==
    /\ Runs(n) /\ block.tx \in DeleteTx
    /\ IF Authorised THEN Conclude(n, Removed) ELSE Conclude(n, Refused)

\* Delete returns the instance to remove, or fails when it does not exist.
Delete(n) ==
    /\ Runs(n) /\ block.tx \in DeleteTx
    /\ IF Authorised /\ ledger[tx[block.tx].body] # NoInstance
         THEN Conclude(n, Removed)
         ELSE Conclude(n, Refused)

-----------------------------------------------------------------------------
(* ByzCoin.                                                                *)

\* A node starts a block with a transaction that it holds.
StartBlock(n, t) ==
    /\ block = NoBlock
    /\ tx[t] # NotSent
    /\ block' = [tx |-> t, leader |-> n, outcome |-> Pending]
    /\ UNCHANGED <<environment, tx, chain, fetched, verdict>>

Propose(n) ==
    /\ block # NoBlock /\ block.leader = n /\ block.outcome = Pending
    /\ \E o \in IF n \in Correct THEN {verdict[n]} \ {Pending} ELSE Arbitrary :
          block' = [block EXCEPT !.outcome = o]
    /\ UNCHANGED <<environment, tx, chain, fetched, verdict>>

Agree(n) == verdict[n] = block.outcome

\* A quorum agrees, and the outcome becomes part of the chain.
Commit(Q) ==
    /\ block # NoBlock /\ block.outcome # Pending
    /\ \A n \in Q \cap Correct : Agree(n)
    /\ LET t == block.tx IN
         \/ /\ block.outcome = Refused
            /\ UNCHANGED chain
         \/ /\ block.outcome = Removed
            /\ ledger' = [ledger EXCEPT ![tx[t].body] = NoInstance]
            /\ log' = Append(log, t)
         \/ /\ block.outcome \in Instance
            /\ ledger' = [ledger EXCEPT ![t] = block.outcome]
            /\ log' = Append(log, t)
    /\ block' = NoBlock
    /\ Idle
    /\ UNCHANGED <<environment, tx>>

\* The block is given up: its leader is faulty, or a node disagrees with it.
Abandon ==
    /\ block # NoBlock
    /\ \/ block.leader \in Faulty
       \/ /\ block.outcome # Pending
          /\ \E n \in Correct : verdict[n] # Pending /\ ~Agree(n)
    /\ block' = NoBlock
    /\ Idle
    /\ UNCHANGED <<environment, tx, chain>>

-----------------------------------------------------------------------------
Run(n) == SpawnFails(n) \/ SpawnFetch(n) \/ SpawnCreates(n) \/ Delete(n)

Next ==
    \/ \E p \in Page : Serve(p)
    \/ \E n \in Correct : NewDay(n)
    \/ \E t \in Tx : Submit(t)
    \/ \E n \in Correct : Run(n)
    \/ \E n \in Node, t \in Tx : StartBlock(n, t)
    \/ \E n \in Node : Propose(n)
    \/ \E Q \in Quorum : Commit(Q)
    \/ Abandon

Spec == Init /\ [][Next]_vars

\* Correct nodes keep running, every pending transaction is again and again
\* taken up by a correct leader, and a block on which a quorum of correct nodes
\* agrees, or on which they cannot agree, is not left open for ever.
Fairness ==
    /\ \A n \in Correct : WF_vars(Run(n)) /\ WF_vars(Propose(n))
    /\ \A n \in Correct, t \in Tx : SF_vars(StartBlock(n, t))
    /\ \A Q \in Quorum : Q \subseteq Correct => WF_vars(Commit(Q))
    /\ WF_vars(Abandon)

FairSpec == Spec /\ Fairness

-----------------------------------------------------------------------------
(* Properties.                                                             *)

\* Every attestation on the ledger is of content that a page did serve, no
\* later than the date it carries, although nodes fetch at different times
\* and a faulty leader proposes what it likes (Spawn, lines 59-101).
LedgerGenuine ==
    \A id \in SpawnTx : ledger[id] # NoInstance => Genuine(ledger[id])

\* No attestation carries a date that no correct node has reached.
NotPostdated ==
    \A id \in SpawnTx : ledger[id] # NoInstance =>
        \E n \in Correct : ledger[id].date <= clock[n]

\* An attestation is of the URL, the selector and the textOnly flag of the
\* transaction that its id is derived from (Spawn, lines 41-57 and 94-111).
AnswersRequest ==
    \A id \in SpawnTx : ledger[id] # NoInstance => ledger[id].args = tx[id].body

\* A transaction is applied at most once, although it stays in the network
\* and is delivered again, and of transactions signed with the same counter
\* one at most is applied.
AppliedOnce ==
    \A i \in 1 .. Len(log) : tx[log[i]] # NotSent /\ tx[log[i]].counter = i

\* An attestation is on the ledger exactly when its Spawn was applied and no
\* Delete of it was: none is lost, and none comes back.
Withdrawn(id) == \E d \in DeleteTx \cap Applied : tx[d].body = id

LedgerExplained ==
    \A id \in SpawnTx :
        ledger[id] # NoInstance <=> id \in Applied /\ ~Withdrawn(id)

\* An attestation never changes (there is no Invoke): a step keeps it, or
\* removes it, and one that was removed stays removed.
AttestationsOnlyEnd ==
    [][\A id \in Applied \cap SpawnTx : ledger'[id] \in {ledger[id], NoInstance}]_vars

\* A contract must give the same output on every node: correct nodes that
\* create an instance for the same transaction create the same one.
SameOutcome ==
    \A n, m \in Correct : {verdict[n], verdict[m]} \subseteq Instance
                            => verdict[n] = verdict[m]

\* Every page answers and ends up serving the same, and no midnight lies
\* between the clocks.
Calm ==
    /\ <>[](\A p \in Page : web[p] \in Doc)
    /\ <>[][UNCHANGED web]_vars
    /\ <>[](\A n, m \in Correct : clock[n] = clock[m])

Usable(t) == tx[t] # NotSent /\ tx[t].body \in Args
Settled(t) == tx[t] # NotSent /\ tx[t].counter < NextCounter

\* When the world stays calm, the cothority comes to an agreement: a usable
\* transaction is applied, or loses its counter to another one.
EventuallySettled ==
    Calm => \A t \in Tx :
        Usable(t) ~> Settled(t)
=============================================================================
