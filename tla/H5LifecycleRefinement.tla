------------------------ MODULE H5LifecycleRefinement ------------------------
(***************************************************************************)
(* Proof that the life cycle of H5.c implements the promised state machine *)
(* H5LibraryState under the mapping LibState of H5Lifecycle, for every     *)
(* number of threads and callbacks and every bound.  The argument: a       *)
(* termination is entered only from an idle, initialised library, and      *)
(* while H5_TERM_GLOBAL is set the lock holder is in the atclose walk, in  *)
(* the shutdown loop, or has aborted (TermInv); so each step of the code   *)
(* either leaves both flags and the end of the process alone or makes one  *)
(* of the abstract transitions.                                            *)
(***************************************************************************)
EXTENDS H5LifecycleProofs

(* H5_TERM_GLOBAL is set exactly while a termination is under way or has  *)
(* aborted: the walk and the loop run with it set, and an idle library or *)
(* one that is initialising has it clear.                                 *)
TermInv ==
    /\ lpc \in {"drain", "loop"} => libterm
    /\ libterm => lpc \in {"drain", "loop", "aborted"}

(* The abstract step that a concrete step maps to, or a stutter.         *)
AbsStep == [LibState!Next]_LibState!absVars

LEMMA AbsStutter ==
    ASSUME UNCHANGED <<libinit, libterm, lpc>> PROVE AbsStep
  BY DEF AbsStep, LibState!absVars

-----------------------------------------------------------------------------
(* One lemma per kind of entry point; each gives TermInv' and the step.  *)
LEMMA EnterApiRefines ==
    ASSUME TermInv, NEW t \in Threads, NEW c \in Calls, EnterApi(t, c)
    PROVE  TermInv' /\ AbsStep
<1>1. lpc = "idle" /\ ~libterm
  BY DEF EnterApi, Idle, TermInv
<1>2. CASE ~libinit /\ ~libterm
  <2>1. libinit' = TRUE /\ lpc' = "initsub" /\ libterm' = libterm
    BY <1>2 DEF EnterApi
  <2>2. LibState!Initialize
    BY <1>1, <1>2, <2>1 DEF LibState!Initialize
  <2>3. QED
    BY <1>1, <2>1, <2>2 DEF TermInv, AbsStep, LibState!Next
<1>3. CASE ~(~libinit /\ ~libterm)
  <2>1. UNCHANGED <<libinit, libterm, lpc>>
    BY <1>3 DEF EnterApi
  <2>2. QED
    BY <1>1, <2>1, AbsStutter DEF TermInv
<1>4. QED
  BY <1>2, <1>3

LEMMA DontAtexitRefines ==
    ASSUME TermInv, NEW t \in Threads, H5dont_atexit(t)
    PROVE  TermInv' /\ AbsStep
<1>1. UNCHANGED <<libinit, libterm, lpc>>
  BY DEF H5dont_atexit
<1>2. QED
  BY <1>1, AbsStutter DEF TermInv

LEMMA TermLibraryRefines ==
    ASSUME TermInv, NEW t \in Threads, NEW c \in Calls, TermLibrary(t, c)
    PROVE  TermInv' /\ AbsStep
<1>1. lpc = "idle" /\ ~libterm
  BY DEF TermLibrary, Idle, TermInv
<1>2. CASE libinit
  <2>1. libterm' = TRUE /\ lpc' = "drain" /\ libinit' = libinit
    BY <1>2 DEF TermLibrary
  <2>2. LibState!BeginTerm
    BY <1>1, <1>2, <2>1 DEF LibState!BeginTerm
  <2>3. QED
    BY <2>1, <2>2 DEF TermInv, AbsStep, LibState!Next
<1>3. CASE ~libinit
  <2>1. /\ lpc' = IF c.api = "exit" THEN "exited" ELSE "idle"
        /\ UNCHANGED <<libinit, libterm>>
    BY <1>3 DEF TermLibrary
  <2>2. TermInv'
    BY <1>1, <2>1 DEF TermInv
  <2>3. CASE c.api = "exit"
    <3>1. LibState!Exit
      BY <1>1, <1>3, <2>1, <2>3 DEF LibState!Exit
    <3>2. QED
      BY <2>2, <3>1 DEF AbsStep, LibState!Next
  <2>4. CASE c.api # "exit"
    <3>1. UNCHANGED <<libinit, libterm, lpc>>
      BY <1>1, <2>1, <2>4
    <3>2. QED
      BY <2>2, <3>1, AbsStutter
  <2>5. QED
    BY <2>2, <2>3, <2>4
<1>4. QED
  BY <1>2, <1>3

LEMMA ProcessExitRefines ==
    ASSUME TermInv, NEW t \in Threads, ProcessExit(t)
    PROVE  TermInv' /\ AbsStep
<1>1. CASE atexitRegs > 0
  <2>1. [api |-> "exit", cb |-> NoCb] \in Calls
    BY DEF Calls, Apis
  <2>2. QED
    BY <1>1, <2>1, TermLibraryRefines DEF ProcessExit
<1>2. CASE ~(atexitRegs > 0)
  <2>1. lpc = "idle" /\ ~libterm /\ lpc' = "exited"
        /\ UNCHANGED <<libinit, libterm>>
    BY <1>2 DEF ProcessExit, Idle, TermInv
  <2>2. LibState!Exit
    BY <2>1 DEF LibState!Exit
  <2>3. QED
    BY <2>1, <2>2 DEF TermInv, AbsStep, LibState!Next
<1>3. QED
  BY <1>1, <1>2

-----------------------------------------------------------------------------
(* The steps inside a call.                                               *)
LEMMA InitSubsystemRefines ==
    ASSUME TermInv, InitSubsystem PROVE TermInv' /\ AbsStep
<1>1. lpc = "initsub" /\ ~libterm /\ lpc' \in {"initsub", "idle"}
      /\ UNCHANGED <<libinit, libterm>>
  BY DEF InitSubsystem, TermInv
<1>2. QED
  BY <1>1 DEF TermInv, AbsStep, LibState!absVars

LEMMA AtcloseRefines ==
    ASSUME TermInv, AtcloseCallback \/ AtcloseDone \/ ShutdownStep
    PROVE  TermInv' /\ AbsStep
<1>1. lpc \in {"drain", "loop"} /\ lpc' \in {"drain", "loop"}
      /\ UNCHANGED <<libinit, libterm>>
  BY DEF AtcloseCallback, AtcloseDone, ShutdownStep, libVars
<1>2. QED
  BY <1>1 DEF TermInv, AbsStep, LibState!absVars

LEMMA TermFinishRefines ==
    ASSUME TermInv, TermFinish PROVE TermInv' /\ AbsStep
<1>1. lpc = "loop" /\ libterm
  BY DEF TermFinish, TermInv
<1>2. PICK func \in BOOLEAN :
        IF pending # 0 /\ func /\ DebugBuild
        THEN /\ lpc' = "aborted"
             /\ UNCHANGED <<libinit, libterm, streams, subsInit, owner, ret>>
        ELSE /\ streams' = 0
             /\ libterm' = FALSE
             /\ libinit' = FALSE
             /\ subsInit' = 0
             /\ owner' = NoThread
             /\ lpc' = IF call.api = "exit" THEN "exited" ELSE "idle"
             /\ ret' = "SUCCEED"
  BY DEF TermFinish
<1>3. CASE pending # 0 /\ func /\ DebugBuild
  <2>1. lpc' = "aborted" /\ UNCHANGED <<libinit, libterm>>
    BY <1>2, <1>3
  <2>2. LibState!AbortTerm
    BY <1>1, <2>1 DEF LibState!AbortTerm
  <2>3. QED
    BY <2>1, <2>2 DEF TermInv, AbsStep, LibState!Next
<1>4. CASE ~(pending # 0 /\ func /\ DebugBuild)
  <2>1. /\ libterm' = FALSE /\ libinit' = FALSE
        /\ lpc' \in {"exited", "idle"}
    BY <1>2, <1>4
  <2>2. LibState!EndTerm
    BY <1>1, <2>1 DEF LibState!EndTerm
  <2>3. QED
    BY <2>1, <2>2 DEF TermInv, AbsStep, LibState!Next
<1>5. QED
  BY <1>3, <1>4

-----------------------------------------------------------------------------
(* Every step keeps TermInv and maps to an abstract step or a stutter.    *)
LEMMA RefineStep == TermInv /\ [Next]_vars => TermInv' /\ AbsStep
<1> SUFFICES ASSUME TermInv, [Next]_vars PROVE TermInv' /\ AbsStep
  OBVIOUS
<1>1. ASSUME NEW t \in Threads, H5open(t) PROVE TermInv' /\ AbsStep
  <2>1. [api |-> "H5open", cb |-> NoCb] \in Calls
    BY DEF Calls, Apis
  <2>2. QED
    BY <1>1, <2>1, EnterApiRefines DEF H5open
<1>2. ASSUME NEW t \in Threads, NEW cb \in Callbacks, H5atclose(t, cb)
      PROVE TermInv' /\ AbsStep
  <2>1. [api |-> "H5atclose", cb |-> cb] \in Calls
    BY DEF Calls, Apis
  <2>2. QED
    BY <1>2, <2>1, EnterApiRefines DEF H5atclose
<1>3. ASSUME NEW t \in Threads, H5close(t) PROVE TermInv' /\ AbsStep
  <2>1. [api |-> "H5close", cb |-> NoCb] \in Calls
    BY DEF Calls, Apis
  <2>2. QED
    BY <1>3, <2>1, TermLibraryRefines DEF H5close
<1>4. ASSUME ProcessEnded \/ UNCHANGED vars PROVE TermInv' /\ AbsStep
  <2>1. UNCHANGED <<libinit, libterm, lpc>>
    BY <1>4 DEF ProcessEnded, vars, libVars
  <2>2. QED
    BY <2>1, AbsStutter DEF TermInv
<1>5. QED
  BY <1>1, <1>2, <1>3, <1>4, DontAtexitRefines, ProcessExitRefines,
     InitSubsystemRefines, AtcloseRefines, TermFinishRefines
     DEF Next

(* The life cycle of H5.c implements H5LibraryState (LibraryStateRefined): *)
(* initialisation, H5close, the atexit hook and the end of the shutdown    *)
(* loop move the flags only along the promised transitions.                *)
THEOREM LibraryStateRefinedHolds == Spec => LibraryStateRefined
<1>1. Init => TermInv /\ LibState!Init
  BY DEF Init, TermInv, LibState!Init
<1>2. TermInv /\ [Next]_vars => TermInv' /\ AbsStep
  BY RefineStep
<1>3. QED
  BY <1>1, <1>2, PTL DEF Spec, LibraryStateRefined, LibState!Spec, AbsStep
=============================================================================
