------------------------- MODULE H5LifecycleProofs -------------------------
(***************************************************************************)
(* Proofs about the life cycle of the library, for every number of threads *)
(* and callbacks, every bound on the atclose list and every HDF5_DEBUG:    *)
(* the type invariant, and that the atexit hook is installed at most once *)
(* and no debug stream outlives a reset of the library.                   *)
(***************************************************************************)
EXTENDS H5Lifecycle, H5TermEngineProofs

(* A call being executed that registers a callback names a real one.      *)
CallOK == call.api = "H5atclose" => call.cb \in Callbacks

(* The inductive strengthening of AtexitOnce and NoStreamLeak.  The hook  *)
(* is installed only while H5_dont_atexit_g is clear and the flag is never *)
(* cleared again; and while the lock holder is inside an initialisation   *)
(* or a termination, H5_INIT_GLOBAL is set, so the streams opened by the  *)
(* debug mask are never opened with the flag clear.                       *)
LifeInv ==
    /\ TypeOK
    /\ CallOK
    /\ atexitRegs \in 0..1
    /\ atexitRegs = 1 => dontAtexit
    /\ lpc \in {"initsub", "drain", "loop"} => libinit
    /\ NoStreamLeak

-----------------------------------------------------------------------------
(* A step that leaves the loop's variables alone keeps their type.        *)
LEMMA EngineUnchanged ==
    ASSUME EngineTypeOK, UNCHANGED engineVars PROVE EngineTypeOK'
  BY DEF engineVars, EngineTypeOK

(* Entering the loop with a work vector of WorkInit gives it its type.    *)
LEMMA StartLoopType ==
    ASSUME NEW w \in WorkInit, StartLoop(w) PROVE EngineTypeOK'
  BY WorkInitAssumption DEF StartLoop, EngineTypeOK, Done, NCalls, NotCalled

(* The body of H5atclose keeps the list and the history well typed.      *)
LEMMA ApiBodyType ==
    ASSUME NEW c \in Calls, c.api = "H5atclose" => c.cb \in Callbacks,
           atclose \in Seq(Callbacks), registered \in Seq(Callbacks),
           ApiBody(c)
    PROVE  atclose' \in Seq(Callbacks) /\ registered' \in Seq(Callbacks)
<1>1. CASE c.api = "H5atclose"
  <2>1. c.cb \in Callbacks
    BY <1>1
  <2>2. atclose' = <<c.cb>> \o atclose /\ registered' = Append(registered, c.cb)
    BY <1>1 DEF ApiBody
  <2>3. QED
    BY <2>1, <2>2
<1>2. CASE c.api # "H5atclose"
  BY <1>2 DEF ApiBody
<1>3. QED
  BY <1>1, <1>2

LEMMA LifeInvInit == Init => LifeInv
<1> SUFFICES ASSUME Init PROVE LifeInv
  OBVIOUS
<1>1. EngineTypeOK
  BY MaxWorkAssumption, WorkInitAssumption
     DEF Init, EngineInit, EngineTypeOK, Done, NCalls, NotCalled
<1>2. call \in Calls /\ CallOK
  BY DEF Init, Calls, Apis, CallOK
<1>3. libinit \in BOOLEAN /\ libterm \in BOOLEAN /\ dontAtexit \in BOOLEAN
  BY DEF Init
<1>6. atexitRegs \in Nat /\ streams \in 0..DebugFds /\ subsInit \in 0..NInits
  BY DebugFdsAssumption DEF Init, NInits
<1>7. atclose \in Seq(Callbacks) /\ drain \in Seq(Callbacks)
      /\ ran \in Seq(Callbacks) /\ registered \in Seq(Callbacks)
  BY DEF Init
<1>8. owner \in Threads \cup {NoThread} /\ lpc \in Lpcs /\ ret \in Rets
  BY DEF Init, Lpcs, Rets
<1>4. /\ atexitRegs \in 0..1 /\ (atexitRegs = 1 => dontAtexit)
      /\ (lpc \in {"initsub", "drain", "loop"} => libinit)
      /\ NoStreamLeak
  BY DEF Init, NoStreamLeak
<1>5. QED
  BY <1>1, <1>2, <1>3, <1>4, <1>6, <1>7, <1>8 DEF LifeInv, TypeOK

(* An entry point that may initialise the library keeps LifeInv.          *)
LEMMA EnterApiStep ==
    ASSUME LifeInv, NEW t \in Threads, NEW c \in Calls,
           c.api = "H5atclose" => c.cb \in Callbacks,
           EnterApi(t, c)
    PROVE  LifeInv'
<1> USE DEF LifeInv, TypeOK, CallOK, NoStreamLeak
<1>1. EngineTypeOK'
  BY EngineUnchanged DEF EnterApi
<1>2. CASE ~libinit /\ ~libterm
  <2>1. /\ libinit' = TRUE /\ streams' = 0 /\ subsInit' = 0 /\ owner' = t
        /\ lpc' = "initsub" /\ call' = c /\ ret' = "none"
        /\ IF ~dontAtexit
           THEN atexitRegs' = atexitRegs + 1 /\ dontAtexit' = TRUE
           ELSE UNCHANGED <<atexitRegs, dontAtexit>>
        /\ UNCHANGED <<libterm, atclose, drain, ran, registered>>
    BY <1>2 DEF EnterApi
  <2>2. atexitRegs' \in 0..1 /\ (atexitRegs' = 1 => dontAtexit') /\ dontAtexit' \in BOOLEAN
    <3>1. CASE ~dontAtexit
      <4>1. atexitRegs = 0
        BY <3>1
      <4>2. atexitRegs' = atexitRegs + 1 /\ dontAtexit' = TRUE
        BY <2>1, <3>1
      <4>3. QED
        BY <4>1, <4>2
    <3>2. CASE dontAtexit
      <4>1. UNCHANGED <<atexitRegs, dontAtexit>>
        BY <2>1, <3>2
      <4>2. QED
        BY <3>2, <4>1
    <3>3. QED
      BY <3>1, <3>2
  <2>3. streams' \in 0..DebugFds /\ subsInit' \in 0..NInits
    BY <2>1, DebugFdsAssumption DEF NInits
  <2>4. lpc' \in Lpcs /\ ret' \in Rets /\ owner' \in Threads \cup {NoThread}
    BY <2>1 DEF Lpcs, Rets
  <2>5. QED
    BY <1>1, <2>1, <2>2, <2>3, <2>4
<1>3. CASE ~(~libinit /\ ~libterm)
  <2>1. /\ ApiBody(c) /\ ret' = "SUCCEED" /\ call' = c
        /\ UNCHANGED <<libinit, libterm, dontAtexit, atexitRegs, drain,
                       streams, subsInit, owner, lpc, ran>>
    BY <1>3 DEF EnterApi
  <2>2. atclose' \in Seq(Callbacks) /\ registered' \in Seq(Callbacks)
    BY <2>1, ApiBodyType
  <2>3. QED
    BY <1>1, <2>1, <2>2 DEF Rets
<1>4. QED
  BY <1>2, <1>3

(* H5dont_atexit only sets the flag, which the invariant allows.         *)
LEMMA DontAtexitStep ==
    ASSUME LifeInv, NEW t \in Threads, H5dont_atexit(t) PROVE LifeInv'
<1> USE DEF LifeInv, TypeOK, CallOK, NoStreamLeak
<1>1. EngineTypeOK'
  BY EngineUnchanged DEF H5dont_atexit
<1>2. /\ dontAtexit' \in BOOLEAN /\ (dontAtexit => dontAtexit') /\ ret' \in Rets
      /\ call' \in Calls /\ call'.api # "H5atclose"
  BY DEF H5dont_atexit, Rets, Calls, Apis
<1>3. QED
  BY <1>1, <1>2 DEF H5dont_atexit

(* H5_term_library entered by H5close or by the atexit hook.             *)
LEMMA TermLibraryStep ==
    ASSUME LifeInv, NEW t \in Threads, NEW c \in Calls, c.api # "H5atclose",
           TermLibrary(t, c)
    PROVE  LifeInv'
<1> USE DEF LifeInv, TypeOK, CallOK, NoStreamLeak
<1>1. EngineTypeOK'
  BY EngineUnchanged DEF TermLibrary
<1>2. CASE libinit
  <2>1. /\ libterm' = TRUE /\ owner' = t /\ lpc' = "drain" /\ drain' = atclose
        /\ ran' = <<>> /\ ret' = "none" /\ call' = c
        /\ UNCHANGED <<libinit, dontAtexit, atexitRegs, atclose, streams,
                       subsInit, registered>>
    BY <1>2 DEF TermLibrary
  <2>2. QED
    BY <1>1, <1>2, <2>1 DEF Lpcs, Rets
<1>3. CASE ~libinit
  <2>1. /\ lpc' \in {"exited", "idle"} /\ ret' = "SUCCEED" /\ call' = c
        /\ UNCHANGED <<libinit, libterm, owner, drain, ran, dontAtexit,
                       atexitRegs, atclose, streams, subsInit, registered>>
    BY <1>3 DEF TermLibrary
  <2>2. QED
    BY <1>1, <1>3, <2>1 DEF Lpcs, Rets
<1>4. QED
  BY <1>2, <1>3

LEMMA ProcessExitStep ==
    ASSUME LifeInv, NEW t \in Threads, ProcessExit(t) PROVE LifeInv'
<1> DEFINE c == [api |-> "exit", cb |-> NoCb]
<1>1. c \in Calls /\ c.api # "H5atclose"
  BY DEF Calls, Apis
<1>2. CASE atexitRegs > 0
  BY <1>1, <1>2, TermLibraryStep DEF ProcessExit
<1>3. CASE ~(atexitRegs > 0)
  <2>1. /\ lpc' = "exited"
        /\ UNCHANGED <<libinit, libterm, dontAtexit, atexitRegs, atclose, drain,
                       streams, subsInit, owner, call, ret, ran, registered>>
        /\ UNCHANGED engineVars
    BY <1>3 DEF ProcessExit
  <2>2. QED
    BY <2>1, EngineUnchanged
       DEF LifeInv, TypeOK, CallOK, NoStreamLeak, Lpcs
<1>4. QED
  BY <1>2, <1>3

(* A subsystem init runs with H5_INIT_GLOBAL set, so a nested entry does   *)
(* not begin a second initialisation; the debug mask opens streams only   *)
(* then.                                                                   *)
LEMMA InitSubsystemStep ==
    ASSUME LifeInv, InitSubsystem PROVE LifeInv'
<1> USE DEF LifeInv, TypeOK, CallOK, NoStreamLeak
<1>1. EngineTypeOK'
  BY EngineUnchanged DEF InitSubsystem
<1>2. libinit
  BY DEF InitSubsystem
<1>3. UNCHANGED <<libinit, libterm, dontAtexit, atexitRegs, drain, call, ran>>
  BY DEF InitSubsystem
<1>4. CASE /\ subsInit + 1 < NInits
           /\ subsInit' = subsInit + 1
           /\ UNCHANGED <<streams, owner, lpc, ret, atclose, registered>>
  <2>1. subsInit' \in 0..NInits
    BY <1>4 DEF NInits
  <2>2. QED
    BY <1>1, <1>2, <1>3, <1>4, <2>1
<1>5. CASE /\ subsInit + 1 = NInits
           /\ subsInit' = NInits
           /\ streams' \in 0..DebugFds
           /\ ApiBody(call)
           /\ ret' = "SUCCEED"
           /\ owner' = NoThread
           /\ lpc' = "idle"
  <2>1. atclose' \in Seq(Callbacks) /\ registered' \in Seq(Callbacks)
    BY <1>5, ApiBodyType
  <2>2. subsInit' \in 0..NInits /\ ret' \in Rets /\ lpc' \in Lpcs
        /\ owner' \in Threads \cup {NoThread}
    BY <1>5 DEF NInits, Rets, Lpcs
  <2>3. QED
    BY <1>1, <1>2, <1>3, <1>5, <2>1, <2>2
<1>6. CASE /\ ret' = "FAIL"
           /\ owner' = NoThread
           /\ lpc' = "idle"
           /\ UNCHANGED <<subsInit, streams, atclose, registered>>
  BY <1>1, <1>2, <1>3, <1>6 DEF Lpcs, Rets
<1>7. QED
  BY <1>4, <1>5, <1>6 DEF InitSubsystem

(* One atclose callback: it may register another one.                    *)
LEMMA AtcloseCallbackStep ==
    ASSUME LifeInv, AtcloseCallback PROVE LifeInv'
<1> USE DEF LifeInv, TypeOK, CallOK, NoStreamLeak
<1>1. EngineTypeOK'
  BY EngineUnchanged DEF AtcloseCallback
<1>2. ran' \in Seq(Callbacks) /\ drain' \in Seq(Callbacks)
  BY DEF AtcloseCallback
<1>3. atclose' \in Seq(Callbacks) /\ registered' \in Seq(Callbacks)
  <2>1. PICK act \in CbActs :
          IF act = "register"
          THEN \E cb \in Callbacks : ApiBody([api |-> "H5atclose", cb |-> cb])
          ELSE UNCHANGED <<atclose, registered>>
    BY DEF AtcloseCallback
  <2>2. CASE act = "register"
    <3>1. PICK cb \in Callbacks : ApiBody([api |-> "H5atclose", cb |-> cb])
      BY <2>1, <2>2
    <3>2. [api |-> "H5atclose", cb |-> cb] \in Calls
      BY DEF Calls, Apis
    <3>3. QED
      BY <3>1, <3>2, ApiBodyType
  <2>3. CASE act # "register"
    BY <2>1, <2>3
  <2>4. QED
    BY <2>2, <2>3
<1>4. QED
  BY <1>1, <1>2, <1>3 DEF AtcloseCallback

(* The end of the walk enters the shutdown loop.                         *)
LEMMA AtcloseDoneStep ==
    ASSUME LifeInv, AtcloseDone PROVE LifeInv'
<1> USE DEF LifeInv, TypeOK, CallOK, NoStreamLeak
<1>1. EngineTypeOK'
  BY StartLoopType DEF AtcloseDone
<1>2. QED
  BY <1>1 DEF AtcloseDone, Lpcs

(* A step of the shutdown loop touches only the loop's variables.        *)
LEMMA ShutdownStepStep ==
    ASSUME LifeInv, ShutdownStep PROVE LifeInv'
<1> USE DEF LifeInv, TypeOK, CallOK, NoStreamLeak
<1>1. EngineTypeOK'
  BY EngineTypeStep DEF ShutdownStep, EngineNext
<1>2. UNCHANGED libVars
  BY DEF ShutdownStep
<1>3. QED
  BY <1>1, <1>2 DEF libVars

(* The end of H5_term_library: abort, or close the streams and reset.    *)
LEMMA TermFinishStep ==
    ASSUME LifeInv, TermFinish PROVE LifeInv'
<1> USE DEF LifeInv, TypeOK, CallOK, NoStreamLeak
<1>1. EngineTypeOK'
  BY EngineUnchanged DEF TermFinish
<1>2. UNCHANGED <<dontAtexit, atexitRegs, atclose, drain, call, ran, registered>>
  BY DEF TermFinish
<1>3. PICK func \in BOOLEAN :
        IF pending # 0 /\ func /\ DebugBuild
        THEN /\ lpc' = "aborted"
             /\ UNCHANGED <<libinit, libterm, streams, subsInit, owner, ret>>
        ELSE /\ streams' = 0
             /\ libterm' = FALSE
             /\ libinit' = FALSE
             /\ subsInit' = 0
             /\ owner' = NoThread
             /\ lpc' = IF call.api = "exit" THEN "exited" ELSE "idle"
             /\ ret' = "SUCCEED"
  BY DEF TermFinish
<1>4. CASE pending # 0 /\ func /\ DebugBuild
  BY <1>1, <1>2, <1>3, <1>4 DEF Lpcs
<1>5. CASE ~(pending # 0 /\ func /\ DebugBuild)
  <2>1. /\ streams' = 0 /\ libterm' = FALSE /\ libinit' = FALSE
        /\ subsInit' = 0 /\ owner' = NoThread /\ ret' = "SUCCEED"
        /\ lpc' = IF call.api = "exit" THEN "exited" ELSE "idle"
    BY <1>3, <1>5
  <2>2. /\ streams' \in 0..DebugFds /\ subsInit' \in 0..NInits
        /\ lpc' \in Lpcs /\ ret' \in Rets /\ owner' \in Threads \cup {NoThread}
        /\ ~(lpc' \in {"initsub", "drain", "loop"})
    BY <2>1, DebugFdsAssumption DEF Lpcs, Rets, NInits
  <2>3. QED
    BY <1>1, <1>2, <2>1, <2>2
<1>6. QED
  BY <1>4, <1>5

LEMMA StutterStep ==
    ASSUME LifeInv, UNCHANGED vars PROVE LifeInv'
  BY EngineUnchanged
     DEF vars, libVars, LifeInv, TypeOK, CallOK, NoStreamLeak

-----------------------------------------------------------------------------
(* Every step of the life cycle keeps LifeInv: one case per action.      *)
LEMMA LifeInvStep == LifeInv /\ [Next]_vars => LifeInv'
<1> SUFFICES ASSUME LifeInv, [Next]_vars PROVE LifeInv'
  OBVIOUS
<1>1. ASSUME NEW t \in Threads, H5open(t) PROVE LifeInv'
  <2>1. [api |-> "H5open", cb |-> NoCb] \in Calls
    BY DEF Calls, Apis
  <2>2. QED
    BY <1>1, <2>1, EnterApiStep DEF H5open
<1>2. ASSUME NEW t \in Threads, NEW cb \in Callbacks, H5atclose(t, cb)
      PROVE LifeInv'
  <2>1. [api |-> "H5atclose", cb |-> cb] \in Calls
    BY DEF Calls, Apis
  <2>2. QED
    BY <1>2, <2>1, EnterApiStep DEF H5atclose
<1>3. ASSUME NEW t \in Threads, H5close(t) PROVE LifeInv'
  <2>1. [api |-> "H5close", cb |-> NoCb] \in Calls
    BY DEF Calls, Apis
  <2>2. QED
    BY <1>3, <2>1, TermLibraryStep DEF H5close
<1>4. QED
  BY <1>1, <1>2, <1>3, DontAtexitStep, ProcessExitStep, InitSubsystemStep,
     AtcloseCallbackStep, AtcloseDoneStep, ShutdownStepStep, TermFinishStep,
     StutterStep
     DEF Next, ProcessEnded

(* The life cycle keeps its variables in their types.                    *)
THEOREM TypeCorrect == Spec => []TypeOK
  BY LifeInvInit, LifeInvStep, PTL DEF Spec, LifeInv

(* However often the library is initialised and closed, H5_term_library   *)
(* is handed to atexit() at most once (AtexitOnce).                       *)
THEOREM AtexitOnceHolds == Spec => []AtexitOnce
<1>1. LifeInv => AtexitOnce
  BY DEF LifeInv, AtexitOnce
<1>2. QED
  BY <1>1, LifeInvInit, LifeInvStep, PTL DEF Spec

(* No debug stream is open while the library is not initialised, so the  *)
(* memset of H5_debug_g in H5_init_library leaks none (NoStreamLeak).     *)
THEOREM NoStreamLeakHolds == Spec => []NoStreamLeak
  BY LifeInvInit, LifeInvStep, PTL DEF Spec, LifeInv

=============================================================================
