------------------------ MODULE AttestationRegistry ------------------------
(***************************************************************************)
(* What the cothority promises to the users of ALINE, without nodes,       *)
(* blocks or votes: a registry of attestations.  An attestation enters the *)
(* registry at most once, is of content that the page really did serve no  *)
(* later than the day written on it, never changes, and leaves the         *)
(* registry only when its deletion is ordered.                             *)
(***************************************************************************)
EXTENDS WebPageData, Sequences

CONSTANTS
    SpawnTx,     \* transactions that spawn an attestation; its instance id
                 \* is derived from the transaction, and is named by it
    DeleteTx,    \* transactions that delete one
    NoInstance   \* what the ledger holds for an id that does not exist

Tx == SpawnTx \cup DeleteTx

ASSUME TxAssumption ==
    /\ SpawnTx \cap DeleteTx = {}
    /\ NoInstance \notin Instance

VARIABLES
    served,      \* every <<page, document, day>> the web ever served
    ledger,      \* [SpawnTx -> Instance \cup {NoInstance}]
    log          \* the transactions applied so far, in order

rvars == <<served, ledger, log>>

Applied == {log[i] : i \in 1..Len(log)}

\* The instance is of content that its page served, no later than its date.
Genuine(instance) ==
    /\ instance.hash = Hash(instance.content, instance.date)
    /\ \E view \in served :
          /\ view[1] = instance.args.url
          /\ view[3] <= instance.date
          /\ instance.content = Extract(view[2], instance.args)

RegistryInit ==
    /\ served \subseteq Page \X Doc \X Day
    /\ ledger = [t \in SpawnTx |-> NoInstance]
    /\ log = <<>>

\* The web moves on: a page serves another document, or a day begins.
Publish ==
    /\ served' \in SUBSET (Page \X Doc \X Day)
    /\ served \subseteq served'
    /\ UNCHANGED <<ledger, log>>

\* A new attestation is registered.
Attest(t) ==
    /\ t \notin Applied
    /\ \E instance \in Instance :
          /\ Genuine(instance)
          /\ ledger' = [ledger EXCEPT ![t] = instance]
    /\ log' = Append(log, t)
    /\ UNCHANGED served

\* An existing attestation is deleted.
Withdraw(t) ==
    /\ t \notin Applied
    /\ \E id \in SpawnTx :
          /\ ledger[id] # NoInstance
          /\ ledger' = [ledger EXCEPT ![id] = NoInstance]
    /\ log' = Append(log, t)
    /\ UNCHANGED served

RegistryNext ==
    \/ Publish
    \/ \E t \in SpawnTx : Attest(t)
    \/ \E t \in DeleteTx : Withdraw(t)

RegistrySpec == RegistryInit /\ [][RegistryNext]_rvars
=============================================================================
