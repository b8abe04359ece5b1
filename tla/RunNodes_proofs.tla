-------------------------- MODULE RunNodes_proofs --------------------------
(***************************************************************************)
(* run_nodes.sh, for any number of conodes, runs and crashes.              *)
(*                                                                         *)
(* The user runs the script again only when it has ended, so that one run  *)
(* at most is under way and it is the newest.  The file is gone from the   *)
(* Ctrl-C of the newest run on, and without it no loop starts a conode     *)
(* unless it had found the file before: these loops are what "late" is.    *)
(***************************************************************************)
EXTENDS RunNodes, TLAPS

\* One run at a time.
Ordered == \A j, k \in Run : j < k /\ script[k] # "new" => Ended(j)

\* Run k is the last that was begun.
Newest(k) == \A j \in Run : j > k => script[j] = "new"

FileGone ==
    \A k \in Run : script[k] \in {"stopping", "over"} /\ Newest(k) => ~running

OnlyLateStart ==
    \A k \in Run : script[k] = "over" /\ Newest(k) =>
        \A l \in Run \X Conode : loop[l] \in {"starting", "serving"} => l \in late

\* The conodes are listed from the last one on; public.toml is empty when a run
\* begins, so that it never lists more than there are.
Listed ==
    /\ Len(public) + next <= N
    /\ \A k \in Run : script[k] \in {"starting", "waiting", "stopping"} =>
          /\ Len(public) + next = N
          /\ \A i \in 1 .. Len(public) : public[i] = N + 1 - i
    /\ \A k \in Run : script[k] \in {"waiting", "stopping"} => next = 0

Inv == TypeOK /\ Ordered /\ FileGone /\ OnlyLateStart /\ Listed

-----------------------------------------------------------------------------
(* Lemmas.                                                                 *)

\* While a run is under way, none is over and the newest.
LEMMA OneRun ==
    ASSUME Ordered, NEW k \in Run, script[k] \in {"starting", "waiting", "stopping"}
    PROVE  \A j \in Run \ {k} :
              /\ script[j] \notin {"starting", "waiting", "stopping"}
              /\ ~(script[j] = "over" /\ Newest(j))
<1> SUFFICES ASSUME NEW j \in Run \ {k}
             PROVE  /\ script[j] \notin {"starting", "waiting", "stopping"}
                    /\ ~(script[j] = "over" /\ Newest(j))
  OBVIOUS
<1>1. Run \subseteq Nat
  BY DEF Run
<1>2. j < k \/ k < j
  BY <1>1
<1>3. CASE j < k
  BY <1>3 DEF Ordered, Ended, Newest
<1>4. CASE k < j
  BY <1>4 DEF Ordered, Ended, Newest
<1> QED
  BY <1>2, <1>3, <1>4

LEMMA FailedType == \A l : Failed(l) \in {"ended", "sleeping"}
BY DEF Failed

LEMMA Initially == Init => Inv
<1> SUFFICES ASSUME Init PROVE Inv
  OBVIOUS
<1>1. Len(<<>>) = 0 /\ <<>> \in Seq(Conode)
  OBVIOUS
<1>2. TypeOK
  <2>1. public \in Seq(Conode) /\ Len(public) <= N
    BY <1>1, RunAssumption DEF Init
  <2>2. next \in 0 .. N /\ crashes \in 0 .. MaxCrash
    BY RunAssumption DEF Init
  <2> QED
    BY <2>1, <2>2 DEF Init, TypeOK
<1>3. Ordered /\ FileGone /\ OnlyLateStart
  BY DEF Init, Ordered, FileGone, OnlyLateStart
<1>4. Listed
  BY <1>1, RunAssumption DEF Init, Listed
<1> QED
  BY <1>2, <1>3, <1>4 DEF Inv

\* A new run: those before have ended, and none after it has begun.
LEMMA Beginning ==
    ASSUME Inv, NEW k \in Run, Begin(k)
    PROVE  Inv'
<1> USE DEF Inv
<1>1. /\ script[k] = "new" /\ script' = [script EXCEPT ![k] = "starting"]
      /\ \A j \in 1 .. k - 1 : Ended(j)
      /\ public' = <<>> /\ running' = TRUE /\ next' = N
      /\ UNCHANGED loop /\ UNCHANGED late /\ UNCHANGED crashes
      /\ quiet' \subseteq Run
  BY DEF Begin, ScriptGoes, TypeOK
<1>2. k \in Nat \ {0} /\ Run \subseteq Nat \ {0}
  BY DEF Run
<1>3. \A j \in Run : j # k => script'[j] = script[j]
  BY <1>1 DEF TypeOK
<1>4. script'[k] = "starting"
  BY <1>1 DEF TypeOK
<1>5. TypeOK'
  BY <1>1, RunAssumption DEF TypeOK
<1>6. \A j \in Run : j # k =>
          /\ script[j] \notin {"starting", "waiting", "stopping"}
          /\ j > k => script[j] = "new"
  <2> SUFFICES ASSUME NEW j \in Run, j # k
               PROVE  /\ script[j] \notin {"starting", "waiting", "stopping"}
                      /\ j > k => script[j] = "new"
    OBVIOUS
  <2>1. CASE j < k
    BY <1>1, <1>2, <2>1 DEF Ended
  <2>2. CASE j > k
    BY <1>1, <2>2 DEF Ordered, Ended
  <2> QED
    BY <1>2, <2>1, <2>2
<1>7. Ordered'
  <2> SUFFICES ASSUME NEW i \in Run, NEW j \in Run, i < j, script'[j] # "new"
               PROVE  Ended(i)'
    BY DEF Ordered
  <2>1. CASE j = k
    BY <1>1, <1>2, <1>3, <2>1 DEF Ended
  <2>2. CASE j # k
    <3>1. script[j] # "new" /\ j < k
      BY <1>2, <1>3, <1>6, <2>2
    <3>2. Ended(i) /\ i # k
      BY <1>2, <3>1 DEF Ordered
    <3> QED
      BY <1>3, <3>2 DEF Ended
  <2> QED
    BY <2>1, <2>2
<1>8. \A j \in Run : ~(script'[j] \in {"stopping", "over"} /\ Newest(j)')
  <2> SUFFICES ASSUME NEW j \in Run, script'[j] \in {"stopping", "over"}, Newest(j)'
               PROVE  FALSE
    OBVIOUS
  <2>1. j # k /\ ~(k > j)
    BY <1>4 DEF Newest
  <2>2. j > k
    BY <1>2, <2>1
  <2> QED
    BY <1>3, <1>6, <2>1, <2>2
<1>9. FileGone' /\ OnlyLateStart'
  BY <1>8 DEF FileGone, OnlyLateStart
<1>10. Listed'
  BY <1>1, <1>3, <1>4, <1>6, RunAssumption DEF Listed
<1> QED
  BY <1>5, <1>7, <1>9, <1>10

\* A step of the run under way leaves the runs in order.
LEMMA OrderKept ==
    ASSUME Inv, NEW k \in Run, script[k] \in {"starting", "waiting", "stopping"},
           NEW to \in {"starting", "waiting", "stopping", "interrupted", "over"},
           script' = [script EXCEPT ![k] = to]
    PROVE  /\ Ordered' /\ script' \in [Run -> {"new", "starting", "waiting", "stopping",
                                                "interrupted", "over"}]
           /\ script'[k] = to /\ \A j \in Run : j # k => script'[j] = script[j]
           /\ \A j \in Run : Newest(j)' => Newest(j)
<1> USE DEF Inv
<1>1. script'[k] = to /\ \A j \in Run : j # k => script'[j] = script[j]
  BY DEF TypeOK
<1>2. \A j \in Run : (script'[j] = "new" <=> script[j] = "new") /\ (Ended(j) => j # k)
  BY <1>1 DEF Ended
<1>3. Ordered'
  BY <1>1, <1>2 DEF Ordered, Ended
<1>4. script' \in [Run -> {"new", "starting", "waiting", "stopping", "interrupted", "over"}]
  BY DEF TypeOK
<1>5. \A j \in Run : Newest(j)' => Newest(j)
  BY <1>2 DEF Newest
<1> QED
  BY <1>1, <1>3, <1>4, <1>5

LEMMA Starting ==
    ASSUME Inv, NEW k \in Run, StartLoop(k)
    PROVE  Inv'
<1> USE DEF Inv
<1>1. /\ script[k] = "starting" /\ next # 0
      /\ loop' = [loop EXCEPT ![<<k, next>>] = "testing"]
      /\ public' = Append(public, next) /\ next' = next - 1
      /\ UNCHANGED running /\ UNCHANGED script /\ UNCHANGED quiet /\ UNCHANGED late
      /\ UNCHANGED crashes
  BY DEF StartLoop, LoopGoes
<1>2. /\ next \in 1 .. N /\ next' \in 0 .. N /\ N \in Nat
      /\ public \in Seq(Conode) /\ Len(public) \in Nat /\ Len(public) + next = N
  BY <1>1, RunAssumption DEF TypeOK, Listed
<1>3. /\ public' \in Seq(Conode) /\ Len(public') = Len(public) + 1
      /\ \A i \in 1 .. Len(public) : public'[i] = public[i]
      /\ public'[Len(public) + 1] = next
  BY <1>1, <1>2 DEF Conode
<1>4. TypeOK'
  <2>1. loop' \in [Run \X Conode -> {"none", "testing", "starting", "serving", "sleeping", "ended"}]
    BY <1>1 DEF TypeOK
  <2> QED
    BY <1>1, <1>2, <1>3, <2>1 DEF TypeOK
<1>5. Listed'
  <2>1. \A i \in 1 .. Len(public') : public'[i] = N + 1 - i
    <3> SUFFICES ASSUME NEW i \in 1 .. Len(public') PROVE public'[i] = N + 1 - i
      OBVIOUS
    <3>1. CASE i = Len(public) + 1
      BY <1>2, <1>3, <3>1
    <3>2. CASE i \in 1 .. Len(public)
      BY <1>1, <1>3, <3>2 DEF Listed
    <3> QED
      BY <1>2, <1>3, <3>1, <3>2
  <2>2. \A j \in Run : script[j] \notin {"waiting", "stopping"}
    BY <1>1, OneRun
  <2> QED
    BY <1>1, <1>2, <1>3, <2>1, <2>2 DEF Listed
<1>6. \A j \in Run : script[j] # "stopping" /\ ~(script[j] = "over" /\ Newest(j))
  BY <1>1, OneRun
<1>7. Ordered' /\ FileGone' /\ OnlyLateStart'
  BY <1>1, <1>6 DEF Ordered, Ended, FileGone, OnlyLateStart, Newest
<1> QED
  BY <1>4, <1>5, <1>7

\* The trap is set, or Ctrl-C comes before it is.
LEMMA Trapping ==
    ASSUME Inv, NEW k \in Run, SetTrap(k) \/ Interrupt(k)
    PROVE  Inv'
<1> USE DEF Inv
<1>1. PICK to \in {"waiting", "interrupted"} :
          /\ script[k] = "starting" /\ script' = [script EXCEPT ![k] = to]
          /\ to = "waiting" => next = 0
  BY DEF SetTrap, Interrupt, ScriptGoes
<1>2. /\ UNCHANGED running /\ UNCHANGED public /\ UNCHANGED quiet /\ UNCHANGED next
      /\ UNCHANGED loop /\ UNCHANGED late /\ UNCHANGED crashes
  BY DEF SetTrap, Interrupt
<1>3. /\ Ordered' /\ script' \in [Run -> {"new", "starting", "waiting", "stopping",
                                           "interrupted", "over"}]
      /\ script'[k] = to /\ \A j \in Run : j # k => script'[j] = script[j]
      /\ \A j \in Run : Newest(j)' => Newest(j)
  BY <1>1, OrderKept
<1>4. TypeOK'
  BY <1>2, <1>3 DEF TypeOK
<1>5. \A j \in Run \ {k} : /\ script[j] \notin {"starting", "waiting", "stopping"}
                            /\ ~(script[j] = "over" /\ Newest(j))
  BY <1>1, OneRun
<1>6. FileGone' /\ OnlyLateStart'
  BY <1>3, <1>5 DEF FileGone, OnlyLateStart
<1>7. Listed'
  BY <1>1, <1>2, <1>3, <1>5 DEF Listed
<1> QED
  BY <1>3, <1>4, <1>6, <1>7

\* ctrl_c: from its first line on, the file is gone.
LEMMA RemovingTheFile ==
    ASSUME Inv, NEW k \in Run, CtrlC(k)
    PROVE  Inv'
<1> USE DEF Inv
<1>1. /\ script[k] = "waiting" /\ script' = [script EXCEPT ![k] = "stopping"]
      /\ running' = FALSE
      /\ UNCHANGED public /\ UNCHANGED quiet /\ UNCHANGED next /\ UNCHANGED loop
      /\ UNCHANGED late /\ UNCHANGED crashes
  BY DEF CtrlC, ScriptGoes
<1>2. /\ Ordered' /\ script' \in [Run -> {"new", "starting", "waiting", "stopping",
                                           "interrupted", "over"}]
      /\ script'[k] = "stopping" /\ \A j \in Run : j # k => script'[j] = script[j]
      /\ \A j \in Run : Newest(j)' => Newest(j)
  BY <1>1, OrderKept
<1>3. TypeOK'
  BY <1>1, <1>2 DEF TypeOK
<1>4. \A j \in Run \ {k} : /\ script[j] \notin {"starting", "waiting", "stopping"}
                            /\ ~(script[j] = "over" /\ Newest(j))
  BY <1>1, OneRun
<1>5. FileGone' /\ OnlyLateStart'
  BY <1>1, <1>2, <1>4 DEF FileGone, OnlyLateStart
<1>6. Listed'
  BY <1>1, <1>2, <1>4 DEF Listed
<1> QED
  BY <1>2, <1>3, <1>5, <1>6

\* pkill leaves no conode that runs: who is to start is what "late" records.
LEMMA Killing ==
    ASSUME Inv, NEW k \in Run, Stop(k)
    PROVE  Inv'
<1> USE DEF Inv
<1>1. /\ script[k] = "stopping" /\ script' = [script EXCEPT ![k] = "over"]
      /\ loop' = [l \in Run \X Conode |-> IF loop[l] = "serving" THEN Failed(l) ELSE loop[l]]
      /\ late' = {l \in Run \X Conode : loop[l] = "starting"}
      /\ UNCHANGED running /\ UNCHANGED public /\ UNCHANGED quiet /\ UNCHANGED next
      /\ UNCHANGED crashes
  BY DEF Stop, ScriptGoes
<1>2. /\ Ordered' /\ script' \in [Run -> {"new", "starting", "waiting", "stopping",
                                           "interrupted", "over"}]
      /\ script'[k] = "over" /\ \A j \in Run : j # k => script'[j] = script[j]
      /\ \A j \in Run : Newest(j)' => Newest(j)
  BY <1>1, OrderKept
<1>3. \A l \in Run \X Conode : loop'[l] \in {"none", "testing", "starting", "sleeping", "ended"}
                               /\ (loop'[l] = "starting" => l \in late')
  BY <1>1, FailedType DEF TypeOK
<1>4. TypeOK'
  BY <1>1, <1>2, <1>3 DEF TypeOK
<1>5. \A j \in Run \ {k} : /\ script[j] \notin {"starting", "waiting", "stopping"}
                            /\ ~(script[j] = "over" /\ Newest(j))
  BY <1>1, OneRun
<1>6. FileGone'
  BY <1>1, <1>2, <1>5 DEF FileGone
<1>7. OnlyLateStart'
  BY <1>3 DEF OnlyLateStart
<1>8. Listed'
  BY <1>1, <1>2, <1>5 DEF Listed
<1> QED
  BY <1>2, <1>4, <1>6, <1>7, <1>8

\* A loop starts a conode only when it finds the file.
LEMMA Looping ==
    ASSUME Inv, NEW l \in Run \X Conode, Loop(l) \/ Crash(l)
    PROVE  Inv'
<1> USE DEF Inv
<1>1. /\ UNCHANGED running /\ UNCHANGED public /\ UNCHANGED script /\ UNCHANGED quiet
      /\ UNCHANGED next /\ UNCHANGED late
  BY DEF Loop, Crash, Test, Serve, Sleep, Unscripted
<1>2. crashes' \in 0 .. MaxCrash
  BY RunAssumption DEF Loop, Crash, Test, Serve, Sleep, TypeOK
<1>3. \E to \in {"testing", "starting", "serving", "sleeping", "ended"} :
          /\ loop' = [loop EXCEPT ![l] = to]
          /\ to = "starting" => running
          /\ to = "serving" => loop[l] = "starting"
  <2>1. CASE Test(l)
    BY <2>1 DEF Test, LoopGoes
  <2>2. CASE Serve(l)
    BY <2>2, FailedType DEF Serve, LoopGoes
  <2>3. CASE Sleep(l)
    BY <2>3 DEF Sleep, LoopGoes
  <2>4. CASE Crash(l)
    BY <2>4, FailedType DEF Crash, LoopGoes
  <2> QED
    BY <2>1, <2>2, <2>3, <2>4 DEF Loop
<1>4. /\ loop' \in [Run \X Conode -> {"none", "testing", "starting", "serving", "sleeping", "ended"}]
      /\ \A m \in Run \X Conode : loop'[m] \in {"starting", "serving"} =>
            \/ loop[m] \in {"starting", "serving"}
            \/ running
  BY <1>3 DEF TypeOK
<1>5. TypeOK'
  BY <1>1, <1>2, <1>4 DEF TypeOK
<1>6. Ordered' /\ FileGone' /\ Listed'
  BY <1>1 DEF Ordered, Ended, FileGone, Newest, Listed
<1>7. OnlyLateStart'
  BY <1>1, <1>4 DEF OnlyLateStart, FileGone, Newest
<1> QED
  BY <1>5, <1>6, <1>7

LEMMA InvKept == Inv /\ [Next]_vars => Inv'
<1> SUFFICES ASSUME Inv, [Next]_vars PROVE Inv'
  OBVIOUS
<1>1. CASE UNCHANGED vars
  BY <1>1 DEF vars, Inv, TypeOK, Ordered, Ended, FileGone, OnlyLateStart, Newest, Listed
<1>2. CASE \E k \in Run : Begin(k) \/ Script(k) \/ Interrupt(k) \/ CtrlC(k)
  BY <1>2, Beginning, Starting, Trapping, Killing, RemovingTheFile DEF Script
<1>3. CASE \E l \in Run \X Conode : Loop(l) \/ Crash(l)
  BY <1>3, Looping
<1> QED
  BY <1>1, <1>2, <1>3 DEF Next

LEMMA InvHolds == Spec => []Inv
BY Initially, InvKept, PTL DEF Spec

-----------------------------------------------------------------------------
(* Theorems.                                                               *)

\* The script and its loops keep their types; public.toml never lists more
\* conodes than there are, however often the script ran before.
THEOREM RunNodesTypeCorrect == Spec => []TypeOK
<1>1. Inv => TypeOK
  BY DEF Inv
<1> QED
  BY <1>1, InvHolds, PTL

\* After the Ctrl-C of the last run, the only conodes that run were about to be
\* started when the others were killed, whichever run their loop is of and
\* however the runs before it ended (run_nodes.sh, lines 73 and 90-93).
THEOREM StoppedButForLateOnes == Spec => []OnlyLateServe
<1>1. Inv => OnlyLateServe
  <2> SUFFICES ASSUME Inv, NEW k \in Began, script[k] = "over", \A j \in Began : j <= k
               PROVE  \A l \in Run \X Conode : loop[l] = "serving" => l \in late
    BY DEF OnlyLateServe
  <2>1. k \in Run /\ Newest(k)
    BY DEF Began, Newest, Run
  <2> QED
    BY <2>1 DEF Inv, OnlyLateStart
<1> QED
  BY <1>1, InvHolds, PTL

\* While the script waits for Ctrl-C, public.toml lists every conode, the last
\* one first, and none of a run before.
RosterComplete ==
    \A k \in Run : script[k] = "waiting" => public = [i \in 1 .. N |-> N + 1 - i]

\* The list of conodes that run_nodes.sh leaves for clients is the one of this
\* run, also after a run that Ctrl-C ended before its trap was set (lines 60
\* and 83).
THEOREM RosterIsOfThisRun == Spec => []RosterComplete
<1>1. Inv => RosterComplete
  <2> SUFFICES ASSUME Inv, NEW k \in Run, script[k] = "waiting"
               PROVE  public = [i \in 1 .. N |-> N + 1 - i]
    BY DEF RosterComplete
  <2>1. Len(public) = N /\ \A i \in 1 .. Len(public) : public[i] = N + 1 - i
    BY RunAssumption DEF Inv, Listed, TypeOK
  <2>2. public = [i \in 1 .. Len(public) |-> public[i]]
    BY DEF Inv, TypeOK
  <2> QED
    BY <2>1, <2>2
<1> QED
  BY <1>1, InvHolds, PTL
=============================================================================
