------------------------ MODULE ClockService_proofs ------------------------
(***************************************************************************)
(* The counter of the Template service, for any number of requests and of  *)
(* crashes.  Counts are compared with cardinalities: every step adds at    *)
(* most one request to the sets that the invariant counts.                 *)
(***************************************************************************)
EXTENDS ClockService, FiniteSetTheorems, TLAPS

\* Fields that are not counts.
Shape ==
    /\ up \in BOOLEAN
    /\ count \in Nat /\ disk \in Nat
    /\ at \in [Call -> {"new", "counted", "saved", "refused", "running", "over"}]
    /\ written \subseteq Call
    /\ crashes \in 0 .. MaxCrash

\* While the conode is down nothing runs in it, and memory is empty.
DownIsEmpty == ~up => count = 0 /\ Unsaved = {} /\ crashes # 0

\* What the code counts are the calls, the refused ones with the others.
CallsCounted ==
    /\ count <= Cardinality(Called) /\ disk <= Cardinality(Called)
    /\ crashes = 0 => count = Cardinality(Called)

Inv == Shape /\ DownIsEmpty /\ WrittenIsKept /\ CallsCounted

\* Sets of requests are finite, and their cardinalities are numbers.
LEMMA RequestSets ==
    ASSUME NEW S, S \subseteq Call
    PROVE  IsFiniteSet(S) /\ Cardinality(S) \in Nat /\ Cardinality(S) <= Cardinality(Call)
BY FS_Subset, FS_CardinalityType, ServiceAssumption DEF ServiceAssumption

\* A larger set of requests has no smaller cardinality.
LEMMA RequestSetsGrow ==
    ASSUME NEW S, NEW T, S \subseteq T, T \subseteq Call
    PROVE  Cardinality(S) <= Cardinality(T)
BY RequestSets, FS_Subset

\* One request more is one more.
LEMMA OneRequestMore ==
    ASSUME NEW S, S \subseteq Call, NEW c \in Call
    PROVE  /\ Cardinality(S \cup {c}) <= Cardinality(S) + 1
           /\ c \notin S => Cardinality(S \cup {c}) = Cardinality(S) + 1
BY RequestSets, FS_AddElement

LEMMA InvInitially == Init => Inv
<1> SUFFICES ASSUME Init PROVE Inv
  OBVIOUS
<1>1. Shape /\ DownIsEmpty
  BY ServiceAssumption DEF Init, Shape, DownIsEmpty, ServiceAssumption
<1>2. Called = {} /\ Unsaved = {} /\ written = {}
  BY DEF Init, Called, Unsaved
<1>3. Cardinality({}) = 0
  BY FS_EmptySet
<1> QED
  BY <1>1, <1>2, <1>3 DEF Inv, Init, WrittenIsKept, CallsCounted

\* Every step of a request, and of the conode, preserves the invariant.
LEMMA InvPreserved == Inv /\ [Next]_vars => Inv'
<1> SUFFICES ASSUME Inv, [Next]_vars PROVE Inv'
  OBVIOUS
<1> USE ServiceAssumption DEF ServiceAssumption
<1>0. /\ Called \subseteq Call /\ Unsaved \subseteq Call /\ written \subseteq Call
      /\ written \cup Unsaved \subseteq Call
      /\ Cardinality(Called) \in Nat /\ Cardinality(written) \in Nat
      /\ Cardinality(written \cup Unsaved) \in Nat
  BY RequestSets DEF Inv, Shape, Called, Unsaved
<1>1. ASSUME NEW c \in Call, Increment(c) PROVE Inv'
  <2>1. Shape'
    BY <1>1 DEF Inv, Shape, Increment, Goes
  <2>2. Called' = Called \cup {c} /\ c \notin Called
    BY <1>1 DEF Inv, Shape, Increment, Goes, Called
  <2>3. Unsaved' = Unsaved \cup {c} /\ written' = written
    BY <1>1 DEF Inv, Shape, Increment, Goes, Unsaved
  <2>4. Cardinality(Called') = Cardinality(Called) + 1
    BY <2>2, <1>0, OneRequestMore
  <2>5. Cardinality((written \cup Unsaved)') <= Cardinality(written \cup Unsaved) + 1
    <3>1. (written \cup Unsaved)' = (written \cup Unsaved) \cup {c}
      BY <2>3
    <3> QED
      BY <3>1, <1>0, OneRequestMore
  <2>6. Cardinality((written \cup Unsaved)') \in Nat
    BY <2>1, RequestSets DEF Shape, Unsaved
  <2>7. WrittenIsKept'
    BY <1>1, <2>1, <2>3, <2>5, <2>6, <1>0
       DEF Inv, Shape, WrittenIsKept, Increment, Goes
  <2>8. CallsCounted'
    BY <1>1, <2>4, <1>0 DEF Inv, Shape, CallsCounted, Increment
  <2> QED
    BY <1>1, <2>1, <2>7, <2>8 DEF Inv, DownIsEmpty, Increment, Goes
<1>2. ASSUME NEW c \in Call, Save(c) PROVE Inv'
  <2>1. Shape'
    BY <1>2 DEF Inv, Shape, Save, Goes
  <2>2. Called' = Called
    BY <1>2 DEF Inv, Shape, Save, Goes, Called
  <2>3. c \in Unsaved /\ Unsaved' = Unsaved \ {c}
    BY <1>2 DEF Inv, Shape, Save, Goes, Unsaved
  <2>4. written' \subseteq written \cup Unsaved
        /\ (written \cup Unsaved)' \subseteq written \cup Unsaved
    BY <1>2, <2>3 DEF Save
  <2>5. /\ Cardinality(written') <= Cardinality(written \cup Unsaved)
        /\ Cardinality((written \cup Unsaved)') <= Cardinality(written \cup Unsaved)
    BY <2>4, <1>0, RequestSetsGrow
  <2>6. Cardinality(written') \in Nat /\ Cardinality((written \cup Unsaved)') \in Nat
    BY <2>1, RequestSets DEF Shape, Unsaved
  <2>7. WrittenIsKept'
    BY <1>2, <2>5, <2>6, <1>0 DEF Inv, Shape, WrittenIsKept, Save, Goes
  <2>8. CallsCounted'
    BY <1>2, <2>2, <1>0 DEF Inv, Shape, CallsCounted, Save
  <2> QED
    BY <1>2, <2>1, <2>7, <2>8 DEF Inv, DownIsEmpty, Save, Goes
<1>3. ASSUME NEW c \in Call, NoProtocol(c) \/ RunProtocol(c) \/ Answer(c) PROVE Inv'
  <2>1. Shape'
    BY <1>3 DEF Inv, Shape, NoProtocol, RunProtocol, Answer, Goes
  <2>2. Called' = Called /\ Unsaved' = Unsaved
    BY <1>3 DEF Inv, Shape, NoProtocol, RunProtocol, Answer, Goes, Called, Unsaved
  <2>3. UNCHANGED <<up, count, disk, written, crashes>>
    BY <1>3 DEF NoProtocol, RunProtocol, Answer
  <2> QED
    BY <2>1, <2>2, <2>3 DEF Inv, DownIsEmpty, WrittenIsKept, CallsCounted
<1>4. CASE Crash
  <2>1. Shape'
    <3>1. at' \in [Call -> {"new", "counted", "saved", "refused", "running", "over"}]
      BY <1>4 DEF Crash
    <3>2. /\ up' = FALSE /\ count' = 0 /\ crashes' = crashes + 1 /\ crashes < MaxCrash
          /\ UNCHANGED <<disk, written>>
      BY <1>4 DEF Crash
    <3>3. crashes' \in 0 .. MaxCrash
      BY <3>2 DEF Inv, Shape
    <3> QED
      BY <3>1, <3>2, <3>3 DEF Inv, Shape
  <2>2. Called' = Called /\ Unsaved' = {}
    BY <1>4 DEF Inv, Shape, Crash, Called, Unsaved
  <2> QED
    BY <1>4, <2>1, <2>2, <1>0
       DEF Inv, Shape, DownIsEmpty, WrittenIsKept, CallsCounted, Crash
<1>5. CASE Restart
  <2>1. Shape'
    BY <1>5 DEF Inv, Shape, Restart
  <2>2. Called' = Called /\ Unsaved' = Unsaved /\ Unsaved = {}
    BY <1>5 DEF Inv, DownIsEmpty, Restart, Called, Unsaved
  <2>3. (written \cup Unsaved)' = written
    BY <1>5, <2>2 DEF Restart
  <2> QED
    BY <1>5, <2>1, <2>2, <2>3, <1>0
       DEF Inv, Shape, DownIsEmpty, WrittenIsKept, CallsCounted, Restart
<1>6. CASE UNCHANGED vars
  BY <1>6 DEF Inv, Shape, DownIsEmpty, WrittenIsKept, CallsCounted, Called, Unsaved, vars
<1> QED
  BY <1>1, <1>2, <1>3, <1>4, <1>5, <1>6 DEF Next, Clock

LEMMA InvAlways == Spec => []Inv
<1> QED
  BY InvInitially, InvPreserved, PTL DEF Spec

\* The counter never exceeds the number of requests, in memory or on disk
\* (service.go, lines 45-56).
THEOREM CountTypeCorrect == Spec => []TypeOK
<1>1. Inv => TypeOK
  <2> SUFFICES ASSUME Inv PROVE TypeOK
    OBVIOUS
  <2>1. Called \subseteq Call
    BY DEF Called
  <2>2. /\ Cardinality(Called) \in Nat /\ Cardinality(Call) \in Nat
        /\ Cardinality(Called) <= Cardinality(Call)
    BY <2>1, RequestSets
  <2> QED
    BY <2>2 DEF Inv, Shape, CallsCounted, TypeOK
<1> QED
  BY <1>1, InvAlways, PTL

\* A request whose save succeeded stays counted, however requests and crashes
\* interleave (service.go, lines 52-55 and 93-119).
THEOREM NothingWrittenIsLost == Spec => []WrittenIsKept
<1>1. Inv => WrittenIsKept
  BY DEF Inv
<1> QED
  BY <1>1, InvAlways, PTL

\* No call is counted twice, and until the conode crashes every call is
\* counted that was not refused (api.go, lines 48-57; struct.go, line 37).
THEOREM RunsAreCounted == Spec => []CountsRuns
<1>1. Inv => CountsRuns
  <2> SUFFICES ASSUME Inv PROVE CountsRuns
    OBVIOUS
  <2>1. Called \subseteq Call /\ Called \ Refused \subseteq Called
    BY DEF Called
  <2>2. /\ Cardinality(Called) \in Nat /\ Cardinality(Called \ Refused) \in Nat
        /\ Cardinality(Called \ Refused) <= Cardinality(Called)
    BY <2>1, RequestSets, RequestSetsGrow
  <2> QED
    BY <2>2 DEF Inv, Shape, CallsCounted, CountsRuns
<1> QED
  BY <1>1, InvAlways, PTL
=============================================================================
