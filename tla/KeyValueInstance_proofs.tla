---------------------- MODULE KeyValueInstance_proofs ----------------------
(***************************************************************************)
(* The Java objects of keyValue instances, for any number of objects and   *)
(* transactions.                                                           *)
(*                                                                         *)
(* A version is a number of writes, so that versions are compared as the   *)
(* sets of positions in the log at which the instance was written: these   *)
(* sets only grow, because what is in the log was sent once and for all.   *)
(***************************************************************************)
EXTENDS KeyValueInstance, FiniteSetTheorems, SequenceTheorems, TLAPS

\* The i-th transaction applied was signed with the counter i: none is applied
\* twice.
Numbered ==
    \A i \in 1 .. Len(log) : tx[log[i]] # NotSent /\ tx[log[i]].counter = i

InLog(t) == \E i \in 1 .. Len(log) : log[i] = t

\* A method that waits for a write knows where it went, and asks for the
\* instance when the write is there.
WaitsInv ==
    \A c \in Client :
        /\ call[c].awaits # "nothing" => call[c].id \in Id
        /\ call[c].awaits = "block" => call[c].tx # NoTx
        /\ call[c].tx # NoTx => /\ tx[call[c].tx] # NotSent
                                /\ tx[call[c].tx].id = call[c].id
        /\ call[c].tx # NoTx /\ call[c].awaits = "proof" => InLog(call[c].tx)

\* Who holds an instance has values, since a refused proof is of no use to a
\* constructor.
HeldInv == \A c \in Client : Constructed(c) => keyValues[c] \in Values

Inv == TypeOK /\ Numbered /\ WaitsInv /\ HeldInv /\ ReadsWhatItHolds

-----------------------------------------------------------------------------
(* Lemmas about the log and the versions.                                  *)

CT == Cardinality(Tx)

LEMMA TxCount == CT \in Nat /\ IsFiniteSet(Tx)
BY KeyValueAssumption, FS_CardinalityType DEF CT

\* What was not applied leaves room in the log.
LEMMA LogHasRoom ==
    ASSUME TypeOK, Numbered, NEW t \in Tx, ~InLog(t)
    PROVE  Len(log) + 1 <= CT
<1>1. Len(log) \in Nat /\ \A i \in 1 .. Len(log) : log[i] \in Tx
  BY DEF TypeOK
<1> DEFINE at == [i \in 1 .. Len(log) |-> log[i]]
<1>2. at \in Injection(1 .. Len(log), Tx \ {t})
  <2>1. at \in [1 .. Len(log) -> Tx \ {t}]
    BY <1>1 DEF InLog
  <2>2. \A i, j \in 1 .. Len(log) : at[i] = at[j] => i = j
    BY <1>1 DEF Numbered
  <2> QED
    BY <2>1, <2>2 DEF Injection, IsInjective
<1>3. IsFiniteSet(Tx \ {t}) /\ Cardinality(Tx \ {t}) = CT - 1
  BY TxCount, FS_RemoveElement DEF CT
<1>4. Cardinality(1 .. Len(log)) <= CT - 1
  BY <1>2, <1>3, FS_Injection
<1>5. Cardinality(1 .. Len(log)) = Len(log)
  <2>1. ASSUME NEW n \in Nat PROVE Cardinality(1 .. n) = n
    BY FS_Interval
  <2> QED
    BY <1>1, <2>1
<1> QED
  BY <1>1, <1>4, <1>5, TxCount

\* The positions at which an instance was written.
Writes(id, i) == {j \in 1 .. i : tx[log[j]].id = id}

LEMMA Versions ==
    ASSUME NEW id \in Tx, NEW i \in Nat, NEW j \in Nat, i <= j
    PROVE  /\ VersionAt(id, i) \in 0 .. i
           /\ VersionAt(id, i) <= VersionAt(id, j)
<1>1. id \notin Foreign
  BY KeyValueAssumption
<1>2. VersionAt(id, i) = Cardinality(Writes(id, i)) /\ VersionAt(id, j) = Cardinality(Writes(id, j))
  BY <1>1 DEF VersionAt, Writes
<1>3. /\ IsFiniteSet(1 .. i) /\ Cardinality(1 .. i) = i
      /\ IsFiniteSet(1 .. j)
  BY FS_Interval
<1>4. Writes(id, i) \in SUBSET (1 .. i) /\ Writes(id, j) \in SUBSET (1 .. j)
  BY DEF Writes
<1>5. /\ IsFiniteSet(Writes(id, i)) /\ Cardinality(Writes(id, i)) <= i
      /\ IsFiniteSet(Writes(id, j))
  BY <1>3, <1>4, FS_Subset
<1>6. Writes(id, i) \in SUBSET Writes(id, j)
  BY DEF Writes
<1>7. Cardinality(Writes(id, i)) <= Cardinality(Writes(id, j))
  BY <1>5, <1>6, FS_Subset
<1>8. Cardinality(Writes(id, i)) \in Nat
  BY <1>5, FS_CardinalityType
<1> QED
  BY <1>2, <1>5, <1>7, <1>8

\* The log grows, and what is in it stays what was sent.
LogStays ==
    /\ Len(log') \in Nat /\ Len(log) <= Len(log')
    /\ \A i \in 1 .. Len(log) : log'[i] = log[i] /\ tx'[log[i]] = tx[log[i]]

LEMMA VersionsStay ==
    ASSUME TypeOK, LogStays, NEW id \in Tx
    PROVE  /\ Latest(id) \in 0 .. CT /\ Latest(id)' \in Nat
           /\ Latest(id) <= Latest(id)'
<1>1. Len(log) \in Nat /\ Len(log) <= CT /\ Len(log') \in Nat /\ Len(log) <= Len(log')
      /\ CT \in Nat
  BY TxCount DEF TypeOK, LogStays, CT
<1>2. id \notin Foreign
  BY KeyValueAssumption
<1>3. Latest(id) \in 0 .. Len(log)
  BY <1>1, Versions DEF Latest
<1> DEFINE old == {j \in 1 .. Len(log) : tx[log[j]].id = id}
           new == {j \in 1 .. Len(log') : tx'[log'[j]].id = id}
<1>5. Latest(id) = Cardinality(old) /\ Latest(id)' = Cardinality(new)
  BY <1>2 DEF Latest, VersionAt
<1>6. old \in SUBSET new
  BY <1>1 DEF LogStays
<1>7. IsFiniteSet(new)
  <2>1. IsFiniteSet(1 .. Len(log'))
    BY <1>1, FS_Interval
  <2>2. new \in SUBSET (1 .. Len(log'))
    OBVIOUS
  <2> QED
    BY <2>1, <2>2, FS_Subset
<1>8. Cardinality(old) <= Cardinality(new) /\ Cardinality(new) \in Nat
  BY <1>6, <1>7, FS_Subset, FS_CardinalityType
<1> QED
  BY <1>1, <1>3, <1>5, <1>8

\* The version of an id that can be held.
LEMMA LatestType ==
    ASSUME TypeOK, NEW id \in Id
    PROVE  /\ id \in Tx => Latest(id) \in 0 .. CT
           /\ id \in Foreign => Latest(id) = 1
<1>1. Len(log) \in Nat /\ Len(log) <= CT /\ CT \in Nat
  BY TxCount DEF TypeOK, CT
<1>2. id \in Tx => Latest(id) \in 0 .. Len(log)
  BY <1>1, Versions DEF Latest
<1>3. id \in Foreign => Latest(id) = 1
  BY DEF Latest, VersionAt
<1> QED
  BY <1>1, <1>2, <1>3

-----------------------------------------------------------------------------
(* What the steps do to the log.                                           *)

\* A transaction that is sent is not in the log, nor awaited.
LEMMA SendingStays ==
    ASSUME TypeOK, Numbered, WaitsInv, NEW t \in Tx, NEW id \in Id, Sends(t, id), UNCHANGED log
    PROVE  /\ tx' \in [Tx -> [id : Id, counter : 1 .. Cardinality(Tx)] \cup {NotSent}]
           /\ tx'[t] # NotSent /\ tx'[t].id = id
           /\ \A u \in Tx \ {t} : tx'[u] = tx[u]
           /\ ~InLog(t) /\ \A c \in Client : call[c].tx # t
           /\ LogStays /\ Numbered'
<1>1. Len(log) \in Nat /\ \A i \in 1 .. Len(log) : log[i] \in Tx
  BY DEF TypeOK
<1>2. tx[t] = NotSent
  BY DEF Sends
<1>3. ~InLog(t) /\ \A c \in Client : call[c].tx # t
  BY <1>2, KeyValueAssumption DEF InLog, Numbered, WaitsInv
<1>4. Len(log) + 1 <= CT
  BY <1>3, LogHasRoom
<1>5. PICK counter \in 1 .. Len(log) + 1 : tx' = [tx EXCEPT ![t] = [id |-> id, counter |-> counter]]
  BY DEF Sends
<1>6. counter \in 1 .. Cardinality(Tx)
  BY <1>1, <1>4, TxCount DEF CT
<1>7. [id |-> id, counter |-> counter] \in [id : Id, counter : 1 .. Cardinality(Tx)]
  BY <1>6
<1>8. tx' \in [Tx -> [id : Id, counter : 1 .. Cardinality(Tx)] \cup {NotSent}]
  BY <1>5, <1>7 DEF TypeOK
<1>9. tx'[t] = [id |-> id, counter |-> counter] /\ \A u \in Tx \ {t} : tx'[u] = tx[u]
  BY <1>5 DEF TypeOK
<1>10. tx'[t] # NotSent /\ tx'[t].id = id
  BY <1>7, <1>9, NotSentAssumption
<1>11. \A i \in 1 .. Len(log) : tx'[log[i]] = tx[log[i]]
  BY <1>1, <1>3, <1>9 DEF InLog
<1>12. LogStays
  BY <1>1, <1>11 DEF LogStays
<1>13. Numbered'
  BY <1>11 DEF Numbered
<1> QED
  BY <1>3, <1>8, <1>9, <1>10, <1>12, <1>13

\* A transaction that is applied is appended to the log.
LEMMA ApplyingStays ==
    ASSUME TypeOK, Numbered, NEW t \in Tx, Apply(t)
    PROVE  /\ log' \in Seq(Tx) /\ Len(log') <= Cardinality(Tx)
           /\ LogStays /\ Numbered'
           /\ \A u : InLog(u) => InLog(u)'
<1>1. Len(log) \in Nat /\ log \in Seq(Tx)
  BY DEF TypeOK
<1>2. log' = Append(log, t) /\ UNCHANGED tx /\ tx[t] # NotSent /\ tx[t].counter = Len(log) + 1
  BY DEF Apply
<1>3. /\ log' \in Seq(Tx) /\ Len(log') = Len(log) + 1 /\ log'[Len(log) + 1] = t
      /\ \A i \in 1 .. Len(log) : log'[i] = log[i]
  BY <1>1, <1>2
<1>4. tx[t].counter \in 1 .. Cardinality(Tx)
  BY <1>2 DEF TypeOK
<1>5. Len(log') <= Cardinality(Tx)
  BY <1>1, <1>2, <1>3, <1>4, TxCount DEF CT
<1>6. LogStays
  BY <1>1, <1>2, <1>3 DEF LogStays
<1>7. Numbered'
  <2> SUFFICES ASSUME NEW i \in 1 .. Len(log')
               PROVE  tx'[log'[i]] # NotSent /\ tx'[log'[i]].counter = i
    BY DEF Numbered
  <2>1. CASE i = Len(log) + 1
    BY <1>2, <1>3, <2>1
  <2>2. CASE i # Len(log) + 1
    <3>1. i \in 1 .. Len(log)
      BY <1>1, <1>3, <2>2
    <3> QED
      BY <1>2, <1>3, <3>1 DEF Numbered
  <2> QED
    BY <2>1, <2>2
<1>8. \A u : InLog(u) => InLog(u)'
  BY <1>1, <1>3 DEF InLog
<1> QED
  BY <1>3, <1>5, <1>6, <1>7, <1>8

-----------------------------------------------------------------------------
(* What the steps do to the objects.                                       *)

\* Whatever happens on the ledger, what an object has read stays what it was.
LEMMA ReadStays ==
    ASSUME TypeOK, HeldInv, ReadsWhatItHolds, LogStays, UNCHANGED objects
    PROVE  HeldInv' /\ ReadsWhatItHolds'
<1>1. UNCHANGED instance /\ UNCHANGED keyValues /\ UNCHANGED rejected
  BY DEF objects
<1>2. HeldInv'
  BY <1>1 DEF HeldInv, Constructed, Values
<1>3. ASSUME NEW c \in Client, Constructed(c), ~keyValues[c].edited
      PROVE  keyValues[c].version <= Latest(keyValues[c].id)'
  <2>1. keyValues[c].id \in Tx /\ keyValues[c].version \in Nat
    BY <1>3, TxCount DEF HeldInv, Values, CT
  <2>2. keyValues[c].version <= Latest(keyValues[c].id)
    BY <1>3 DEF ReadsWhatItHolds
  <2>3. /\ Latest(keyValues[c].id) \in Nat /\ Latest(keyValues[c].id)' \in Nat
        /\ Latest(keyValues[c].id) <= Latest(keyValues[c].id)'
    <3> DEFINE id == keyValues[c].id
    <3>1. id' = id
      BY <1>1
    <3>2. ASSUME NEW x \in Tx PROVE /\ Latest(x) \in 0 .. CT /\ Latest(x)' \in Nat
                                   /\ Latest(x) <= Latest(x)'
      BY VersionsStay
    <3> QED
      BY <2>1, <3>1, <3>2, TxCount
  <2> QED
    BY <2>1, <2>2, <2>3
<1> QED
  BY <1>1, <1>2, <1>3 DEF ReadsWhatItHolds, Constructed

ObjectsTyped ==
    /\ instance \in [Client -> Copy \cup {Nothing}]
    /\ keyValues \in [Client -> Values \cup {Nothing}]
    /\ rejected \in [Client -> BOOLEAN]

\* A proof of a version of an instance of the contract is parsed as a whole;
\* one of another contract, or that does not parse, replaces the instance only.
LEMMA TakenProof ==
    ASSUME TypeOK, HeldInv, ReadsWhatItHolds, NEW c \in Client, NEW id \in Id,
           NEW version \in 1 .. Latest(id), Takes(c, id, version), UNCHANGED ledger
    PROVE  ObjectsTyped' /\ HeldInv' /\ ReadsWhatItHolds'
<1>1. \A x : Latest(x)' = Latest(x)
  BY DEF Latest, VersionAt, ledger
<1>2. ObjectsTyped
  BY DEF TypeOK, ObjectsTyped
<1>3. CASE Parses(c, id, version)
  <2>1. id \in Tx /\ version \in 1 .. CT
    BY <1>3, LatestType, TxCount DEF Parses, Readable
  <2> DEFINE held == [id |-> id, version |-> version]
             read == Parsed(id, version)
  <2>2. held \in Copy /\ read \in Values
    BY <2>1 DEF Copy, Values, Parsed, CT
  <2>3. /\ read.id = id /\ read.version = version /\ held.id = id /\ held.version = version
    BY DEF Parsed
  <2>4. /\ instance' = [instance EXCEPT ![c] = held]
        /\ keyValues' = [keyValues EXCEPT ![c] = read]
        /\ rejected' = [rejected EXCEPT ![c] = FALSE]
    BY <1>3 DEF Parses, Holds
  <2> HIDE DEF held, read
  <2>5. ObjectsTyped'
    BY <1>2, <2>2, <2>4 DEF ObjectsTyped
  <2>6. HeldInv'
    BY <1>2, <2>2, <2>4 DEF ObjectsTyped, HeldInv, Constructed
  <2>7. ReadsWhatItHolds'
    <3> SUFFICES ASSUME NEW d \in Client, Constructed(d)', ~keyValues'[d].edited
                 PROVE  /\ keyValues'[d].version <= Latest(keyValues'[d].id)
                        /\ \/ rejected'[d]
                           \/ /\ keyValues'[d].id = instance'[d].id
                              /\ keyValues'[d].version = instance'[d].version
      BY <1>1 DEF ReadsWhatItHolds
    <3>1. CASE d = c
      BY <1>2, <2>3, <2>4, <3>1 DEF ObjectsTyped
    <3>2. CASE d # c
      BY <1>2, <2>4, <3>2 DEF ObjectsTyped, ReadsWhatItHolds, Constructed
    <3> QED
      BY <3>1, <3>2
  <2> QED
    BY <2>5, <2>6, <2>7
<1>4. CASE Refuses(c, id, version) /\ Constructed(c)
  <2>1. id \in Tx => version \in 1 .. CT
    BY LatestType, TxCount
  <2>2. instance[c] \in Copy
    BY <1>2, <1>4 DEF ObjectsTyped, Constructed
  <2>3. 1 \in 1 .. CT
    BY <2>2, TxCount DEF Copy, CT
  <2>9. id \in Foreign => version = 1
    BY LatestType
  <2> DEFINE held == [id |-> id, version |-> version]
  <2>4. held \in Copy
    BY <2>1, <2>3, <2>9 DEF Copy, CT, Id
  <2>5. /\ instance' = [instance EXCEPT ![c] = held]
        /\ rejected' = [rejected EXCEPT ![c] = TRUE] /\ UNCHANGED keyValues
    BY <1>4 DEF Refuses, Holds
  <2> HIDE DEF held
  <2>6. ObjectsTyped'
    BY <1>2, <2>4, <2>5 DEF ObjectsTyped
  <2>7. HeldInv'
    BY <1>2, <1>4, <2>5 DEF ObjectsTyped, HeldInv, Constructed
  <2>8. ReadsWhatItHolds'
    BY <1>1, <1>2, <1>4, <2>5 DEF ObjectsTyped, ReadsWhatItHolds, Constructed
  <2> QED
    BY <2>6, <2>7, <2>8
<1>5. CASE Refuses(c, id, version) /\ ~Constructed(c)
  <2>1. UNCHANGED instance /\ UNCHANGED keyValues /\ UNCHANGED rejected
    BY <1>5 DEF Refuses
  <2> QED
    BY <1>1, <1>2, <2>1 DEF ObjectsTyped, HeldInv, ReadsWhatItHolds, Constructed
<1> QED
  BY <1>3, <1>4, <1>5 DEF Takes

-----------------------------------------------------------------------------
(* The invariant.                                                          *)

LEMMA Initially == Init => Inv
<1> SUFFICES ASSUME Init PROVE Inv
  OBVIOUS
<1>1. Len(log) = 0 /\ log \in Seq(Tx) /\ \A c \in Client : ~Constructed(c)
  BY DEF Init, Constructed
<1>2. TypeOK
  BY <1>1, TxCount DEF Init, TypeOK, Ready, CT
<1>3. Numbered
  BY <1>1 DEF Numbered
<1>4. WaitsInv
  BY DEF Init, WaitsInv, Ready
<1>5. HeldInv /\ ReadsWhatItHolds
  BY <1>1 DEF HeldInv, ReadsWhatItHolds
<1> QED
  BY <1>2, <1>3, <1>4, <1>5 DEF Inv

CallTyped == call \in [Client -> [awaits : {"nothing", "block", "proof"},
                                  id : Id \cup {Nothing}, tx : Tx \cup {NoTx}]]

\* A method that begins.
LEMMA Begun ==
    ASSUME TypeOK, NEW c \in Client, NEW what \in {"block", "proof"}, NEW id \in Id,
           NEW t \in Tx \cup {NoTx}, Awaits(c, what, id, t)
    PROVE  /\ CallTyped' /\ call'[c].awaits = what /\ call'[c].id = id /\ call'[c].tx = t
           /\ \A d \in Client \ {c} : call'[d] = call[d]
BY DEF TypeOK, Awaits, CallTyped

\* A method that ends.
LEMMA Over ==
    ASSUME TypeOK, NEW c \in Client, call' = [call EXCEPT ![c] = Ready]
    PROVE  /\ CallTyped' /\ call'[c].awaits = "nothing" /\ call'[c].tx = NoTx
           /\ \A d \in Client \ {c} : call'[d] = call[d]
BY DEF TypeOK, Ready, CallTyped

LEMMA SameLedger ==
    ASSUME TypeOK, Numbered, UNCHANGED ledger
    PROVE  LogStays /\ Numbered' /\ \A t : InLog(t)' <=> InLog(t)
<1>1. UNCHANGED tx /\ UNCHANGED log /\ Len(log) \in Nat
  BY DEF ledger, TypeOK
<1> QED
  BY <1>1 DEF LogStays, Numbered, InLog

\* Steps that read nothing: only what is awaited changes.
LEMMA AskingKeeps ==
    ASSUME Inv, NEW c \in Client, AskFor(c) \/ Update(c) \/ InBlock(c) \/ Fails(c)
    PROVE  Inv'
<1> USE DEF Inv
<1>1. UNCHANGED <<ledger, objects, returned>>
  BY DEF AskFor, Update, InBlock, Fails
<1>2. LogStays /\ Numbered' /\ \A t : InLog(t)' <=> InLog(t)
  BY <1>1, SameLedger
<1>3. HeldInv' /\ ReadsWhatItHolds'
  BY <1>1, <1>2, ReadStays
<1>4. /\ CallTyped' /\ \A d \in Client \ {c} : call'[d] = call[d]
      /\ \/ call'[c].awaits = "nothing" /\ call'[c].tx = NoTx
         \/ call'[c].awaits = "proof" /\ call'[c].tx = NoTx /\ call'[c].id \in Id
         \/ /\ call[c].awaits = "block" /\ call'[c].awaits = "proof"
            /\ call'[c].tx = call[c].tx /\ call'[c].id = call[c].id
            /\ InLog(call[c].tx)
  <2>1. CASE AskFor(c)
    <3>1. PICK id \in Id : Awaits(c, "proof", id, NoTx)
      BY <2>1 DEF AskFor
    <3> QED
      BY <3>1, Begun
  <2>2. CASE Update(c)
    <3>1. instance[c].id \in Id /\ Awaits(c, "proof", instance[c].id, NoTx)
      BY <2>2 DEF Update, Constructed, TypeOK, Copy
    <3> QED
      BY <3>1, Begun
  <2>3. CASE InBlock(c)
    BY <2>3, KeyValueAssumption DEF InBlock, InLog, TypeOK, CallTyped
  <2>4. CASE Fails(c)
    BY <2>4, Over DEF Fails
  <2> QED
    BY <2>1, <2>2, <2>3, <2>4
<1>5. WaitsInv'
  <2>1. UNCHANGED tx
    BY <1>1 DEF ledger
  <2>2. \/ call'[c].awaits = "nothing"
        \/ call'[c].id \in Id
    BY <1>4 DEF WaitsInv
  <2> QED
    BY <1>2, <1>4, <2>1, <2>2 DEF WaitsInv
<1>6. TypeOK'
  BY <1>1, <1>4 DEF TypeOK, CallTyped, ledger, objects
<1> QED
  BY <1>2, <1>3, <1>5, <1>6

\* Steps that send: who waits for the block knows what was sent.
LEMMA SendingKeeps ==
    ASSUME Inv, NEW c \in Client, NEW t \in Tx,
           Spawn(c, t) \/ UpdateKeyValue(c, t) \/ UpdateKeyValueAndWait(c, t)
    PROVE  Inv'
<1> USE DEF Inv
<1>1. UNCHANGED log /\ UNCHANGED objects /\ UNCHANGED returned
  BY DEF Spawn, UpdateKeyValue, UpdateKeyValueAndWait
<1>2. PICK id \in Id : /\ Sends(t, id)
                       /\ UNCHANGED call \/ Awaits(c, "block", id, t)
  <2>1. CASE Spawn(c, t)
    BY <2>1 DEF Spawn, Id
  <2>2. CASE UpdateKeyValue(c, t) \/ UpdateKeyValueAndWait(c, t)
    <3>1. instance[c].id \in Id
      BY <2>2 DEF UpdateKeyValue, UpdateKeyValueAndWait, Constructed, TypeOK, Copy
    <3> QED
      BY <2>2, <3>1 DEF UpdateKeyValue, UpdateKeyValueAndWait
  <2> QED
    BY <2>1, <2>2
<1>3. /\ tx' \in [Tx -> [id : Id, counter : 1 .. Cardinality(Tx)] \cup {NotSent}]
      /\ tx'[t] # NotSent /\ tx'[t].id = id
      /\ \A u \in Tx \ {t} : tx'[u] = tx[u]
      /\ \A d \in Client : call[d].tx # t
      /\ LogStays /\ Numbered'
  BY <1>1, <1>2, SendingStays
<1>4. /\ CallTyped'
      /\ \A d \in Client :
            \/ call'[d] = call[d]
            \/ d = c /\ call'[c].awaits = "block" /\ call'[c].id = id /\ call'[c].tx = t
  <2>1. CASE UNCHANGED call
    BY <2>1 DEF TypeOK, CallTyped
  <2>2. CASE Awaits(c, "block", id, t)
    BY <2>2, Begun
  <2> QED
    BY <1>2, <2>1, <2>2
<1>5. WaitsInv'
  <2> SUFFICES ASSUME NEW d \in Client
               PROVE  /\ call'[d].awaits # "nothing" => call'[d].id \in Id
                      /\ call'[d].awaits = "block" => call'[d].tx # NoTx
                      /\ call'[d].tx # NoTx => /\ tx'[call'[d].tx] # NotSent
                                               /\ tx'[call'[d].tx].id = call'[d].id
                      /\ call'[d].tx # NoTx /\ call'[d].awaits = "proof" => InLog(call[d].tx)'
    BY DEF WaitsInv
  <2>1. CASE call'[d] = call[d]
    <3>1. call[d].tx \in Tx \cup {NoTx}
      BY DEF TypeOK
    <3>2. \A u : InLog(u)' <=> InLog(u)
      BY <1>1 DEF InLog
    <3> QED
      BY <1>3, <2>1, <3>1, <3>2 DEF WaitsInv
  <2>2. CASE d = c /\ call'[c].awaits = "block" /\ call'[c].id = id /\ call'[c].tx = t
    BY <1>3, <2>2, KeyValueAssumption
  <2> QED
    BY <1>4, <2>1, <2>2
<1>6. HeldInv' /\ ReadsWhatItHolds'
  BY <1>1, <1>3, ReadStays
<1>7. TypeOK'
  BY <1>1, <1>3, <1>4 DEF TypeOK, CallTyped, objects
<1> QED
  BY <1>3, <1>5, <1>6, <1>7

\* Steps that read a proof.
LEMMA ReadingKeeps ==
    ASSUME Inv, NEW c \in Client, GivenProof(c) \/ ProofAnswer(c)
    PROVE  Inv'
<1> USE DEF Inv
<1>1. UNCHANGED ledger
  BY DEF GivenProof, ProofAnswer
<1>2. LogStays /\ Numbered' /\ \A t : InLog(t)' <=> InLog(t)
  BY <1>1, SameLedger
<1>3. ObjectsTyped' /\ HeldInv' /\ ReadsWhatItHolds'
  <2>1. CASE GivenProof(c)
    <3>1. PICK id \in Id : \E version \in 1 .. Latest(id) : Takes(c, id, version)
      BY <2>1 DEF GivenProof
    <3>2. PICK version \in 1 .. Latest(id) : Takes(c, id, version)
      BY <3>1
    <3> QED
      BY <1>1, <3>2, TakenProof
  <2>2. CASE ProofAnswer(c) /\ UNCHANGED objects
    <3>1. HeldInv' /\ ReadsWhatItHolds'
      BY <1>2, <2>2, ReadStays
    <3> QED
      BY <2>2, <3>1 DEF TypeOK, ObjectsTyped, objects
  <2>3. CASE ProofAnswer(c) /\ ~UNCHANGED objects
    <3> DEFINE id == call[c].id
    <3>1. Latest(id) # 0 /\ Takes(c, id, Latest(id))
      BY <2>3 DEF ProofAnswer
    <3>2. id \in Id
      BY <2>3 DEF ProofAnswer, WaitsInv
    <3>3. Latest(id) \in 1 .. Latest(id)
      BY <3>1, <3>2, LatestType, TxCount DEF Id
    <3> HIDE DEF id
    <3> QED
      BY <1>1, <3>1, <3>2, <3>3, TakenProof
  <2> QED
    BY <2>1, <2>2, <2>3
<1>4. /\ CallTyped'
      /\ \A d \in Client :
            \/ call'[d] = call[d]
            \/ call'[d].awaits = "nothing" /\ call'[d].tx = NoTx
  <2>1. CASE UNCHANGED call
    BY <2>1 DEF TypeOK, CallTyped
  <2>2. CASE call' = [call EXCEPT ![c] = Ready]
    BY <2>2, Over
  <2> QED
    BY <2>1, <2>2 DEF GivenProof, ProofAnswer
<1>5. WaitsInv'
  BY <1>1, <1>2, <1>4 DEF WaitsInv, ledger
<1>6. returned' \in [Client -> Tx \cup {NoTx}]
  <2>1. CASE UNCHANGED returned
    BY <2>1 DEF TypeOK
  <2>2. CASE returned' = [returned EXCEPT ![c] = call[c].tx]
    BY <2>2 DEF TypeOK
  <2> QED
    BY <2>1, <2>2 DEF GivenProof, ProofAnswer
<1>7. TypeOK'
  BY <1>1, <1>3, <1>4, <1>6 DEF TypeOK, CallTyped, ObjectsTyped, ledger
<1> QED
  BY <1>2, <1>3, <1>5, <1>7

\* The caller edits what it was given.
LEMMA EditingKeeps ==
    ASSUME Inv, NEW c \in Client, SetValue(c)
    PROVE  Inv'
<1> USE DEF Inv
<1>1. /\ UNCHANGED tx /\ UNCHANGED log /\ UNCHANGED instance /\ UNCHANGED rejected
      /\ UNCHANGED call /\ UNCHANGED returned /\ Constructed(c)
      /\ keyValues' = [keyValues EXCEPT ![c].edited = TRUE]
  BY DEF SetValue, ledger
<1>2. \A t : Latest(t)' = Latest(t)
  BY <1>1 DEF Latest, VersionAt
<1>3. Numbered' /\ WaitsInv'
  BY <1>1 DEF Numbered, WaitsInv, InLog
<1>4. keyValues[c] \in Values
  BY <1>1 DEF HeldInv
<1>5. /\ keyValues'[c] \in Values /\ keyValues'[c].id = keyValues[c].id
      /\ keyValues'[c].version = keyValues[c].version /\ keyValues'[c].edited
      /\ \A d \in Client \ {c} : keyValues'[d] = keyValues[d]
      /\ keyValues' \in [Client -> Values \cup {Nothing}]
  BY <1>1, <1>4 DEF TypeOK, Values
<1>6. HeldInv'
  BY <1>1, <1>5 DEF HeldInv, Constructed
<1>7. ReadsWhatItHolds'
  <2> SUFFICES ASSUME NEW d \in Client, Constructed(d)', ~keyValues'[d].edited
               PROVE  /\ keyValues'[d].version <= Latest(keyValues'[d].id)
                      /\ \/ rejected'[d]
                         \/ /\ keyValues'[d].id = instance'[d].id
                            /\ keyValues'[d].version = instance'[d].version
    BY <1>2 DEF ReadsWhatItHolds
  <2>1. d # c
    BY <1>5
  <2>2. keyValues'[d] = keyValues[d]
    BY <1>5, <2>1
  <2> QED
    BY <1>1, <2>2 DEF ReadsWhatItHolds, Constructed
<1>8. TypeOK'
  BY <1>1, <1>5 DEF TypeOK
<1> QED
  BY <1>3, <1>6, <1>7, <1>8

LEMMA ApplyingKeeps ==
    ASSUME Inv, NEW t \in Tx, Apply(t)
    PROVE  Inv'
<1> USE DEF Inv
<1>1. UNCHANGED tx /\ UNCHANGED objects /\ UNCHANGED call /\ UNCHANGED returned
  BY DEF Apply
<1>2. /\ log' \in Seq(Tx) /\ Len(log') <= Cardinality(Tx)
      /\ LogStays /\ Numbered' /\ \A u : InLog(u) => InLog(u)'
  BY ApplyingStays
<1>3. HeldInv' /\ ReadsWhatItHolds'
  BY <1>1, <1>2, ReadStays
<1>4. WaitsInv'
  BY <1>1, <1>2 DEF WaitsInv
<1>5. TypeOK'
  BY <1>1, <1>2 DEF TypeOK, objects
<1> QED
  BY <1>2, <1>3, <1>4, <1>5

LEMMA InvKept == Inv /\ [Next]_vars => Inv'
<1> SUFFICES ASSUME Inv, [Next]_vars PROVE Inv'
  OBVIOUS
<1>1. CASE UNCHANGED vars
  <2>1. UNCHANGED ledger /\ UNCHANGED objects /\ UNCHANGED call /\ UNCHANGED returned
    BY <1>1 DEF vars
  <2>2. LogStays /\ Numbered' /\ \A t : InLog(t)' <=> InLog(t)
    BY <2>1, SameLedger DEF Inv
  <2>3. HeldInv' /\ ReadsWhatItHolds'
    BY <2>1, <2>2, ReadStays DEF Inv
  <2>4. WaitsInv' /\ TypeOK'
    BY <2>1, <2>2 DEF Inv, WaitsInv, TypeOK, ledger, objects
  <2> QED
    BY <2>2, <2>3, <2>4 DEF Inv
<1> QED
  BY <1>1, AskingKeeps, SendingKeeps, ReadingKeeps, EditingKeeps, ApplyingKeeps DEF Next

LEMMA InvHolds == Spec => []Inv
BY Initially, InvKept, PTL DEF Spec

-----------------------------------------------------------------------------
(* Theorems.                                                               *)

\* Objects, calls and the ledger keep their types; the log has no more
\* transactions than there are.
THEOREM KeyValueTypeCorrect == Spec => []TypeOK
<1>1. Inv => TypeOK
  BY DEF Inv
<1> QED
  BY <1>1, InvHolds, PTL

\* What an object's caller reads, and no caller edited, are values the instance
\* has or had, of the instance and the version that the object holds and writes
\* to, unless the last update was refused (KeyValueInstance.java, lines 112-127
\* and 197-203).
THEOREM ReadsAreHeld == Spec => []ReadsWhatItHolds
<1>1. Inv => ReadsWhatItHolds
  BY DEF Inv
<1> QED
  BY <1>1, InvHolds, PTL

\* A step at which a write returns: the object has read a version with it.
LEMMA ReturnReads ==
    ASSUME Inv, NEW c \in Client, ProofAnswer(c), NEW d \in Client, returned'[d] # returned[d]
    PROVE  LET t == returned'[d] IN
             /\ \E i \in 1 .. Len(log) : log[i] = t
             /\ keyValues'[d].id = tx[t].id /\ ~keyValues'[d].edited
             /\ keyValues'[d].version >= VersionAt(tx[t].id, Position(t))
<1> USE DEF Inv
<1> DEFINE id == call[c].id
           t == call[c].tx
<1>1. /\ call[c].awaits = "proof" /\ t # NoTx /\ Readable(id, Latest(id))
      /\ Takes(c, id, Latest(id))
      /\ returned' = [returned EXCEPT ![c] = t]
  BY DEF ProofAnswer
<1>2. d = c /\ returned'[c] = t
  BY <1>1 DEF TypeOK
<1>3. InLog(t) /\ tx[t].id = id
  BY <1>1 DEF WaitsInv
<1>4. id \in Tx /\ keyValues'[c] = Parsed(id, Latest(id))
  BY <1>1 DEF Takes, Parses, Refuses, Readable, TypeOK
<1>5. Position(t) \in 1 .. Len(log)
  BY <1>3 DEF InLog, Position
<1>6. VersionAt(id, Position(t)) <= Latest(id)
  <2>1. Len(log) \in Nat
    BY DEF TypeOK
  <2>2. Position(t) \in Nat /\ Position(t) <= Len(log)
    BY <1>5, <2>1
  <2> HIDE DEF id, t
  <2> QED
    BY <1>4, <2>1, <2>2, Versions DEF Latest
<1>7. Latest(id) \in Nat /\ VersionAt(id, Position(t)) \in Nat
  <2>1. Len(log) \in Nat /\ Position(t) \in Nat
    BY <1>5 DEF TypeOK
  <2> HIDE DEF id, t
  <2> QED
    BY <1>4, <2>1, Versions DEF Latest
<1>8. keyValues'[c].id = id /\ ~keyValues'[c].edited /\ keyValues'[c].version = Latest(id)
  BY <1>4 DEF Parsed
<1> HIDE DEF id, t
<1> QED
  BY <1>2, <1>3, <1>6, <1>7, <1>8 DEF InLog

\* Who waits for a write reads a version that has it, whatever others write
\* and whatever the caller did to the values it had (updateKeyValueAndWait,
\* lines 179-185).
THEOREM WritesAreRead == Spec => WriteIsRead
<1> DEFINE Reads(c) ==
      LET t == returned'[c] IN
        /\ \E i \in 1 .. Len(log) : log[i] = t
        /\ keyValues'[c].id = tx[t].id /\ ~keyValues'[c].edited
        /\ keyValues'[c].version >= VersionAt(tx[t].id, Position(t))
<1>1. ASSUME Inv, [Next]_vars, NEW d \in Client, returned'[d] # returned[d]
      PROVE  Reads(d)
  <2>1. ~UNCHANGED returned
    BY <1>1
  <2>2. Next
    BY <1>1, <2>1 DEF vars
  <2>3. PICK c \in Client : ProofAnswer(c)
    BY <2>1, <2>2 DEF Next, GivenProof, AskFor, Update, SetValue, InBlock, Fails, Spawn,
                      UpdateKeyValue, UpdateKeyValueAndWait, Apply
  <2> QED
    BY <1>1, <2>3, ReturnReads
<1>2. Inv /\ [Next]_vars => [\A c \in Client : returned'[c] # returned[c] => Reads(c)]_vars
  BY <1>1
<1>3. Spec => [][\A c \in Client : returned'[c] # returned[c] => Reads(c)]_vars
  BY <1>2, InvHolds, PTL DEF Spec
<1> QED
  BY <1>3 DEF WriteIsRead
=============================================================================
