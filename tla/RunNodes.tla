------------------------------ MODULE RunNodes ------------------------------
(***************************************************************************)
(* run_nodes.sh: the conodes of a cothority on one machine.                *)
(*                                                                         *)
(* A run of the script starts, for every conode, a loop in the background  *)
(* that starts it again whenever it ends, as long as the file "running" is *)
(* there.  Once all are started, the script waits for Ctrl-C, and then     *)
(* removes the file and kills the conodes.  Loops run beside the script    *)
(* and ignore Ctrl-C; Ctrl-C before the trap is set ends the script and    *)
(* nothing else.  The user may run the script again at once, while loops   *)
(* of the run before are still there.                                      *)
(*                                                                         *)
(* The script runs with "set -e", and so do its loops: where the output of *)
(* a conode goes through tee, the status of the conode is not seen; where  *)
(* it goes into a file (-q, all conodes but the first), a conode that      *)
(* fails ends its loop.                                                    *)
(***************************************************************************)
EXTENDS Naturals, Sequences

CONSTANTS
    N,           \* nbr_nodes
    MaxRun,      \* bound on the runs of the script
    MaxCrash     \* bound on the crashes of conodes

ASSUME RunAssumption == N \in Nat \ {0} /\ MaxRun \in Nat /\ MaxCrash \in Nat

Conode == 1 .. N
Run == 1 .. MaxRun

VARIABLES
    running,     \* the file "running" exists
    public,      \* the conodes listed in public.toml
    script,      \* where each run of the script is
    quiet,       \* the runs with -q
    next,        \* the conode that the script starts next
    loop,        \* where the loop of each run for each conode is
    late,        \* history: the loops about to start a conode when Ctrl-C
                 \* killed the others
    crashes

vars == <<running, public, script, quiet, next, loop, late, crashes>>

TypeOK ==
    /\ running \in BOOLEAN
    /\ public \in Seq(Conode) /\ Len(public) <= N
    /\ script \in [Run -> {"new", "starting", "waiting", "stopping", "interrupted", "over"}]
    /\ quiet \subseteq Run
    /\ next \in 0 .. N
    /\ loop \in [Run \X Conode -> {"none", "testing", "starting", "serving",
                                   "sleeping", "ended"}]
    /\ late \subseteq Run \X Conode
    /\ crashes \in 0 .. MaxCrash

Init ==
    /\ running = FALSE
    /\ public = <<>>
    /\ script = [k \in Run |-> "new"]
    /\ quiet = {}
    /\ next = 0
    /\ loop = [l \in Run \X Conode |-> "none"]
    /\ late = {}
    /\ crashes = 0

ScriptGoes(k, from, to) == script[k] = from /\ script' = [script EXCEPT ![k] = to]
LoopGoes(l, from, to) == loop[l] = from /\ loop' = [loop EXCEPT ![l] = to]

\* Where a loop is once its conode has failed or was killed.
Failed(l) == IF l[1] \in quiet /\ l[2] # 1 THEN "ended" ELSE "sleeping"

Ended(k) == script[k] \in {"interrupted", "over"}

-----------------------------------------------------------------------------
(* The script.                                                             *)

\* Mutant: the list of the run before is kept.
BeginAppending(k) ==
    /\ ScriptGoes(k, "new", "starting")
    /\ \A j \in 1 .. k - 1 : Ended(j)
    /\ running' = TRUE
    /\ quiet' \in {quiet, quiet \cup {k}}
    /\ next' = N
    /\ UNCHANGED <<public, loop, late, crashes>>

Begin(k) ==
    /\ ScriptGoes(k, "new", "starting")
    /\ \A j \in 1 .. k - 1 : Ended(j)
    /\ public' = <<>>
    /\ running' = TRUE
    /\ quiet' \in {quiet, quiet \cup {k}}
    /\ next' = N
    /\ UNCHANGED <<loop, late, crashes>>

\* The last conode is started first.
StartLoop(k) ==
    /\ script[k] = "starting" /\ next # 0
    /\ LoopGoes(<<k, next>>, "none", "testing")
    /\ public' = Append(public, next)
    /\ next' = next - 1
    /\ UNCHANGED <<running, script, quiet, late, crashes>>

SetTrap(k) ==
    /\ ScriptGoes(k, "starting", "waiting") /\ next = 0
    /\ UNCHANGED <<running, public, quiet, next, loop, late, crashes>>

\* Ctrl-C before the trap is set: the file stays.
Interrupt(k) ==
    /\ ScriptGoes(k, "starting", "interrupted")
    /\ UNCHANGED <<running, public, quiet, next, loop, late, crashes>>

\* Mutant: the file is left.
CtrlCKeepsFile(k) ==
    /\ ScriptGoes(k, "waiting", "stopping")
    /\ UNCHANGED <<running, public, quiet, next, loop, late, crashes>>

\* ctrl_c, the first line.
CtrlC(k) ==
    /\ ScriptGoes(k, "waiting", "stopping")
    /\ running' = FALSE
    /\ UNCHANGED <<public, quiet, next, loop, late, crashes>>

\* ctrl_c, the second line: pkill ends the conodes that run, of whichever run
\* of the script.  The sleep that Ctrl-C ended makes the script exit.
Stop(k) ==
    /\ ScriptGoes(k, "stopping", "over")
    /\ loop' = [l \in Run \X Conode |-> IF loop[l] = "serving" THEN Failed(l) ELSE loop[l]]
    /\ late' = {l \in Run \X Conode : loop[l] = "starting"}
    /\ UNCHANGED <<running, public, quiet, next, crashes>>

-----------------------------------------------------------------------------
(* The loops.                                                              *)

Unscripted == UNCHANGED <<running, public, script, quiet, next, late>>

\* Mutant: the loop goes on whether the file is there or not.
TestNothing(l) ==
    /\ LoopGoes(l, "testing", "starting")
    /\ Unscripted /\ UNCHANGED crashes

Test(l) ==
    /\ \/ running /\ LoopGoes(l, "testing", "starting")
       \/ ~running /\ LoopGoes(l, "testing", "ended")
    /\ Unscripted /\ UNCHANGED crashes

Serving(n) == \E k \in Run : loop[<<k, n>>] = "serving"

\* The conode starts; it ends at once when another one has its port.
Serve(l) ==
    /\ \/ ~Serving(l[2]) /\ LoopGoes(l, "starting", "serving")
       \/ Serving(l[2]) /\ LoopGoes(l, "starting", Failed(l))
    /\ Unscripted /\ UNCHANGED crashes

\* Mutant: the status of a conode is not hidden by tee.
CrashEnds(l) ==
    /\ crashes < MaxCrash /\ crashes' = crashes + 1
    /\ LoopGoes(l, "serving", "ended")
    /\ Unscripted

Crash(l) ==
    /\ crashes < MaxCrash /\ crashes' = crashes + 1
    /\ LoopGoes(l, "serving", Failed(l))
    /\ Unscripted

Sleep(l) ==
    /\ LoopGoes(l, "sleeping", "testing")
    /\ Unscripted /\ UNCHANGED crashes

Script(k) == StartLoop(k) \/ SetTrap(k) \/ Stop(k)
Loop(l) == Test(l) \/ Serve(l) \/ Sleep(l)

Next ==
    \/ \E k \in Run : Begin(k) \/ Script(k) \/ Interrupt(k) \/ CtrlC(k)
    \/ \E l \in Run \X Conode : Loop(l) \/ Crash(l)

Spec == Init /\ [][Next]_vars

\* Processes keep running; whether the user types Ctrl-C is open.
Fairness ==
    /\ \A k \in Run : WF_vars(Script(k))
    /\ \A l \in Run \X Conode : WF_vars(Loop(l))

FairSpec == Spec /\ Fairness

-----------------------------------------------------------------------------
(* Properties.                                                             *)

Began == {k \in Run : script[k] # "new"}

\* After Ctrl-C, the only conodes that run were about to be started when the
\* others were killed: a loop that had found the file (lines 73 and 90-93).
OnlyLateServe ==
    (\E k \in Began : script[k] = "over" /\ \A j \in Began : j <= k)
        => \A l \in Run \X Conode : loop[l] = "serving" => l \in late

\* Every loop ends once the file is gone for good, but for those that serve
\* late.
LoopsEnd ==
    <>[](~running) =>
        <>[](\A l \in Run \X Conode : loop[l] \in {"none", "ended"} \/ l \in late)

\* As long as the file stays, a conode that crashed comes back, also when
\* loops of two runs compete for its port; with -q only the first one does.
ComesBack ==
    \A k \in Run :
        <>[](script[k] = "waiting") =>
            \A n \in Conode : <>[](n = 1 \/ k \notin quiet => Serving(n))
=============================================================================
