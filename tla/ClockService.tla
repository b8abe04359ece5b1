---------------------------- MODULE ClockService ----------------------------
(***************************************************************************)
(* The Template service of one conode: requests to Clock each run the      *)
(* protocol of CountProtocol, and the service counts them, in memory and   *)
(* in the database of the conode.                                          *)
(*                                                                         *)
(* onet serves every request in a goroutine of its own.  Clock increments  *)
(* the counter under the lock, releases it, and takes it again to save:    *)
(* other requests come between, and a crash of the conode ends them all    *)
(* wherever they are.                                                      *)
(***************************************************************************)
EXTENDS Integers, FiniteSets

CONSTANTS
    Call,        \* requests to Clock
    MaxCrash     \* bound on the crashes

ASSUME ServiceAssumption == IsFiniteSet(Call) /\ MaxCrash \in Nat

VARIABLES
    up,          \* the conode runs
    count,       \* storage.Count in memory
    disk,        \* storage.Count in the database
    at,          \* where each request is in Clock
    written,     \* history: the requests whose save succeeded
    crashes

vars == <<up, count, disk, at, written, crashes>>

TypeOK ==
    /\ up \in BOOLEAN
    /\ count \in 0 .. Cardinality(Call) /\ disk \in 0 .. Cardinality(Call)
    /\ at \in [Call -> {"new", "counted", "saved", "refused", "running", "over"}]
    /\ written \subseteq Call
    /\ crashes \in 0 .. MaxCrash

Init ==
    /\ up = TRUE
    /\ count = 0 /\ disk = 0
    /\ at = [c \in Call |-> "new"]
    /\ written = {}
    /\ crashes = 0

Goes(c, from, to) == up /\ at[c] = from /\ at' = [at EXCEPT ![c] = to]

-----------------------------------------------------------------------------
(* Clock.                                                                  *)

\* Mutant: the counter goes on from what the database holds.
IncrementStored(c) ==
    /\ Goes(c, "new", "counted")
    /\ count' = disk + 1
    /\ UNCHANGED <<up, disk, written, crashes>>

Increment(c) ==
    /\ Goes(c, "new", "counted")
    /\ count' = count + 1
    /\ UNCHANGED <<up, disk, written, crashes>>

\* save: what is in memory now, which other requests may have incremented
\* since.  An error is logged, and the request goes on.
Save(c) ==
    /\ Goes(c, "counted", "saved")
    /\ \/ disk' = count /\ written' = written \cup {c}
       \/ UNCHANGED <<disk, written>>
    /\ UNCHANGED <<up, count, crashes>>

\* The conode is not in the roster, so that there is no tree, or onet refuses
\* to create the protocol.  The request stays counted.
NoProtocol(c) ==
    /\ Goes(c, "saved", "refused")
    /\ UNCHANGED <<up, count, disk, written, crashes>>

\* Mutant: the run is counted too.
RunProtocolCounted(c) ==
    /\ Goes(c, "saved", "running")
    /\ count' = count + 1
    /\ UNCHANGED <<up, disk, written, crashes>>

\* CreateProtocol and Start.
RunProtocol(c) ==
    /\ Goes(c, "saved", "running")
    /\ UNCHANGED <<up, count, disk, written, crashes>>

\* The count of the children comes out of the channel, and is the answer.
Answer(c) ==
    /\ Goes(c, "running", "over")
    /\ UNCHANGED <<up, count, disk, written, crashes>>

-----------------------------------------------------------------------------
(* The conode.                                                             *)

Crash ==
    /\ up /\ crashes < MaxCrash
    /\ up' = FALSE /\ crashes' = crashes + 1
    /\ count' = 0
    /\ at' = [c \in Call |-> IF at[c] \in {"new", "refused"} THEN at[c] ELSE "over"]
    /\ UNCHANGED <<disk, written>>

\* Mutant: the service starts with an empty storage.
RestartAfresh ==
    /\ ~up /\ up' = TRUE
    /\ count' = 0
    /\ UNCHANGED <<disk, at, written, crashes>>

\* newService and tryLoad.
Restart ==
    /\ ~up /\ up' = TRUE
    /\ count' = disk
    /\ UNCHANGED <<disk, at, written, crashes>>

Clock(c) == Increment(c) \/ Save(c) \/ NoProtocol(c) \/ RunProtocol(c) \/ Answer(c)

Next == Crash \/ Restart \/ \E c \in Call : Clock(c)

Spec == Init /\ [][Next]_vars

-----------------------------------------------------------------------------
(* Properties.                                                             *)

Called == {c \in Call : at[c] # "new"}

\* The requests that are counted and not yet saved.
Unsaved == {c \in Call : at[c] = "counted"}

\* However requests and crashes interleave, a request whose save succeeded
\* stays counted: saves overwrite each other in an order that the lock does
\* not fix, and none takes a count back (service.go, lines 52-55 and 93-119).
WrittenIsKept ==
    /\ disk >= Cardinality(written)
    /\ up => count >= Cardinality(written \cup Unsaved)

\* The requests that were answered with an error before any protocol ran.
Refused == {c \in Call : at[c] = "refused"}

\* The counter lies between two readings of what it counts.  For api.go, lines
\* 48-57, it is the number of calls to Clock; for struct.go, lines 37 and 41,
\* and service.go, line 73, the number of times the protocol was run.  The
\* readings differ by the refused requests, which the code counts and these
\* comments do not: the property leaves open whether they are.  Every other
\* call is counted until the conode crashes, and no call is counted twice.
CountsRuns ==
    /\ count <= Cardinality(Called) /\ disk <= Cardinality(Called)
    /\ crashes = 0 => count >= Cardinality(Called \ Refused)
=============================================================================
