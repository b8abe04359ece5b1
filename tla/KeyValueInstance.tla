-------------------------- MODULE KeyValueInstance --------------------------
(***************************************************************************)
(* The Java client of keyValue instances.                                  *)
(*                                                                         *)
(* A KeyValueInstance object keeps a copy of one instance of the ledger:   *)
(* the instance itself, with its id, and the values parsed from it.  The   *)
(* object is filled from a proof: one that the caller has, which may be    *)
(* old, or one that it asks for.  It writes to the instance whose id it    *)
(* holds.  Several programs have objects of the same instance.             *)
(*                                                                         *)
(* The ledger and its keyValue contract are not in this repository.  They  *)
(* apply transactions in the order of the signer's counter; a write makes  *)
(* a new version of the instance, and values are known by the version they *)
(* are from.  Which versions have data that KeyValueData cannot parse (a    *)
(* contract of another release may write such) is a parameter.             *)
(***************************************************************************)
EXTENDS Naturals, Sequences, FiniteSets

CONSTANTS
    Client,      \* the KeyValueInstance objects
    Tx,          \* transactions; the id of an instance is derived from its
                 \* spawn transaction, and is called by the same name
    Foreign,     \* ids of instances of other contracts
    Garbled,     \* the versions of instances whose data do not parse
    NoTx, NotSent, Nothing

Id == Tx \cup Foreign

ASSUME KeyValueAssumption ==
    /\ Foreign \cap Tx = {} /\ NoTx \notin Tx
    /\ IsFiniteSet(Tx)

VARIABLES
    tx,          \* the transactions sent: the instance, and the counter
    log,         \* the transactions applied, in order
    instance,    \* per object, the id and version of its instance
    keyValues,   \* per object, the id and version its values are of, and
                 \* whether the caller has changed them
    call,        \* per object, the method that runs: what it awaits
    rejected,    \* history: the last proof was refused by update
    returned     \* history: per object, the last write whose end it awaited

ledger == <<tx, log>>
objects == <<instance, keyValues, rejected>>
vars == <<ledger, objects, call, returned>>

Copy == [id : Id, version : 1 .. Cardinality(Tx)]
Values == [id : Tx, version : 1 .. Cardinality(Tx), edited : BOOLEAN]

\* NotSent stands for no transaction.
ASSUME NotSentAssumption == NotSent \notin [id : Id, counter : 1 .. Cardinality(Tx)]

\* A method awaits that its transaction is applied, or a proof.
Ready == [awaits |-> "nothing", id |-> Nothing, tx |-> NoTx]

TypeOK ==
    /\ tx \in [Tx -> [id : Id, counter : 1 .. Cardinality(Tx)] \cup {NotSent}]
    /\ log \in Seq(Tx) /\ Len(log) <= Cardinality(Tx)
    /\ instance \in [Client -> Copy \cup {Nothing}]
    /\ keyValues \in [Client -> Values \cup {Nothing}]
    /\ call \in [Client -> [awaits : {"nothing", "block", "proof"},
                            id : Id \cup {Nothing}, tx : Tx \cup {NoTx}]]
    /\ rejected \in [Client -> BOOLEAN]
    /\ returned \in [Client -> Tx \cup {NoTx}]

Init ==
    /\ tx = [t \in Tx |-> NotSent]
    /\ log = <<>>
    /\ instance = [c \in Client |-> Nothing]
    /\ keyValues = [c \in Client |-> Nothing]
    /\ call = [c \in Client |-> Ready]
    /\ rejected = [c \in Client |-> FALSE]
    /\ returned = [c \in Client |-> NoTx]

\* The version of an instance after the first i transactions; 0 is none.
VersionAt(id, i) ==
    IF id \in Foreign THEN 1 ELSE Cardinality({j \in 1 .. i : tx[log[j]].id = id})

Latest(id) == VersionAt(id, Len(log))

Constructed(c) == instance[c] # Nothing
Idle(c) == call[c] = Ready

-----------------------------------------------------------------------------
(* update(Proof).                                                          *)

Holds(c, id, version) ==
    instance' = [instance EXCEPT ![c] = [id |-> id, version |-> version]]

Parsed(id, version) == [id |-> id, version |-> version, edited |-> FALSE]

\* The contract of the instance is keyValue, and its data parse.
Readable(id, version) ==
    id \in Tx /\ [id |-> id, version |-> version] \notin Garbled

\* Mutant: values of an instance that is held already are not parsed again.
ParsesOnce(c, id, version) ==
    /\ Readable(id, version)
    /\ Holds(c, id, version)
    /\ keyValues' = [keyValues EXCEPT ![c] =
                       IF @ # Nothing /\ @.id = id THEN @ ELSE Parsed(id, version)]
    /\ rejected' = [rejected EXCEPT ![c] = FALSE]

\* Mutant: the contract of the instance is not looked at.
ParsesAny(c, id, version) ==
    /\ Holds(c, id, version)
    /\ keyValues' = [keyValues EXCEPT ![c] = Parsed(id, version)]
    /\ rejected' = [rejected EXCEPT ![c] = FALSE]

Parses(c, id, version) ==
    /\ Readable(id, version)
    /\ Holds(c, id, version)
    /\ keyValues' = [keyValues EXCEPT ![c] = Parsed(id, version)]
    /\ rejected' = [rejected EXCEPT ![c] = FALSE]

\* The instance is replaced before its contract is looked at and its data are
\* parsed.  When either fails, the values stay as they were, and an exception
\* is thrown; an object under construction is then lost.
Refuses(c, id, version) ==
    /\ ~Readable(id, version)
    /\ \/ /\ Constructed(c)
          /\ Holds(c, id, version)
          /\ rejected' = [rejected EXCEPT ![c] = TRUE]
       \/ /\ ~Constructed(c)
          /\ UNCHANGED <<instance, rejected>>
    /\ UNCHANGED keyValues

Takes(c, id, version) == Parses(c, id, version) \/ Refuses(c, id, version)

-----------------------------------------------------------------------------
(* The calls of a program.                                                 *)

\* The constructor with a proof, and update(Proof): the proof is of a version
\* that the instance has, or had.  One that does not match changes nothing.
GivenProof(c) ==
    /\ Idle(c)
    /\ \E id \in Id : \E version \in 1 .. Latest(id) : Takes(c, id, version)
    /\ UNCHANGED <<ledger, call, returned>>

Awaits(c, what, id, t) ==
    /\ Idle(c)
    /\ call' = [call EXCEPT ![c] = [awaits |-> what, id |-> id, tx |-> t]]

\* The constructor with an id, and update(InstanceId).
AskFor(c) ==
    /\ \E id \in Id : Awaits(c, "proof", id, NoTx)
    /\ UNCHANGED <<ledger, objects, returned>>

\* update()
Update(c) ==
    /\ Constructed(c)
    /\ Awaits(c, "proof", instance[c].id, NoTx)
    /\ UNCHANGED <<ledger, objects, returned>>

\* The caller gives the counter, which may be outdated.
Sends(t, id) ==
    /\ tx[t] = NotSent
    /\ \E counter \in 1 .. Len(log) + 1 :
          tx' = [tx EXCEPT ![t] = [id |-> id, counter |-> counter]]

\* The constructor that spawns an instance.
Spawn(c, t) ==
    /\ ~Constructed(c)
    /\ Sends(t, t)
    /\ Awaits(c, "block", t, t)
    /\ UNCHANGED <<log, objects, returned>>

\* updateKeyValue: sent, and not waited for.
UpdateKeyValue(c, t) ==
    /\ Idle(c) /\ Constructed(c)
    /\ Sends(t, instance[c].id)
    /\ UNCHANGED <<log, objects, call, returned>>

\* Mutant: the instance is read again at once.
UpdateAndRead(c, t) ==
    /\ Constructed(c)
    /\ Sends(t, instance[c].id)
    /\ Awaits(c, "proof", instance[c].id, t)
    /\ UNCHANGED <<log, objects, returned>>

\* updateKeyValueAndWait
UpdateKeyValueAndWait(c, t) ==
    /\ Constructed(c)
    /\ Sends(t, instance[c].id)
    /\ Awaits(c, "block", instance[c].id, t)
    /\ UNCHANGED <<log, objects, returned>>

\* The caller changes a KeyValue of the list that getKeyValues gave it: the
\* list is a copy, its elements are not, and the object, and whoever reads it
\* next, has the change too, until values are parsed again.
SetValue(c) ==
    /\ Idle(c) /\ Constructed(c)
    /\ keyValues' = [keyValues EXCEPT ![c].edited = TRUE]
    /\ UNCHANGED <<ledger, instance, rejected, call, returned>>

-----------------------------------------------------------------------------
(* Answers.                                                                *)

\* The transaction is in a block: the instance is read.
InBlock(c) ==
    /\ call[c].awaits = "block"
    /\ \E i \in 1 .. Len(log) : log[i] = call[c].tx
    /\ call' = [call EXCEPT ![c].awaits = "proof"]
    /\ UNCHANGED <<ledger, objects, returned>>

\* The proof is of the latest version.  An id that does not exist gives a
\* proof that does not match.
ProofAnswer(c) ==
    /\ call[c].awaits = "proof"
    /\ LET id == call[c].id IN
         \/ /\ Latest(id) # 0
            /\ Takes(c, id, Latest(id))
            /\ returned' = IF call[c].tx = NoTx \/ ~Readable(id, Latest(id)) THEN returned
                           ELSE [returned EXCEPT ![c] = call[c].tx]
         \/ /\ Latest(id) = 0
            /\ UNCHANGED <<objects, returned>>
    /\ call' = [call EXCEPT ![c] = Ready]
    /\ UNCHANGED ledger

\* A request fails, or the block does not come in time, and the exception is
\* passed on.  The transaction may still be applied.
Fails(c) ==
    /\ ~Idle(c)
    /\ call' = [call EXCEPT ![c] = Ready]
    /\ UNCHANGED <<ledger, objects, returned>>

\* The ledger: the contract spawns, or updates an instance of its own.
Apply(t) ==
    /\ tx[t] # NotSent /\ tx[t].counter = Len(log) + 1
    /\ tx[t].id = t \/ (tx[t].id \in Tx /\ Latest(tx[t].id) # 0)
    /\ log' = Append(log, t)
    /\ UNCHANGED <<tx, objects, call, returned>>

Next ==
    \/ \E c \in Client :
          \/ GivenProof(c) \/ AskFor(c) \/ Update(c) \/ SetValue(c)
          \/ InBlock(c) \/ ProofAnswer(c) \/ Fails(c)
          \/ \E t \in Tx : Spawn(c, t) \/ UpdateKeyValue(c, t) \/ UpdateKeyValueAndWait(c, t)
    \/ \E t \in Tx : Apply(t)

Spec == Init /\ [][Next]_vars

-----------------------------------------------------------------------------
(* Properties.                                                             *)

\* What the caller reads, unless a caller has edited it, are values that the
\* instance has or had; and it is the same version of the same instance that it
\* reads and then writes to, whatever was updated, written and lost before,
\* unless the last update was refused after it had replaced the instance
\* (KeyValueInstance.java, lines 112-127 and 197-203).
ReadsWhatItHolds ==
    \A c \in Client : Constructed(c) /\ ~keyValues[c].edited =>
        /\ keyValues[c].version <= Latest(keyValues[c].id)
        /\ \/ rejected[c]
           \/ /\ keyValues[c].id = instance[c].id
              /\ keyValues[c].version = instance[c].version

Position(t) == CHOOSE i \in 1 .. Len(log) : log[i] = t

\* Who waits for a write reads a version that has it, whatever others write to
\* the same instance, and whatever the caller did to the values it was given
\* (updateKeyValueAndWait, lines 179-185).
WriteIsRead ==
    [][\A c \in Client : returned'[c] # returned[c] =>
          LET t == returned'[c] IN
            /\ \E i \in 1 .. Len(log) : log[i] = t
            /\ keyValues'[c].id = tx[t].id /\ ~keyValues'[c].edited
            /\ keyValues'[c].version >= VersionAt(tx[t].id, Position(t))]_vars
=============================================================================
