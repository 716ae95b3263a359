---------------------------- MODULE H5Lifecycle ----------------------------
(***************************************************************************)
(* The library's life cycle (src/src/H5.c): H5_init_library run on entry   *)
(* to the API, H5atclose, H5dont_atexit, H5close and the atexit hook, and  *)
(* H5_term_library, which drains the 'atclose' list, runs the shutdown     *)
(* loop of H5TermEngine and resets the library.                            *)
(*                                                                         *)
(* Threads call the API under the process-wide API lock (a threadsafe      *)
(* build), so one call at a time makes progress; an initialisation or a   *)
(* termination is a sequence of steps of the lock holder, between which    *)
(* user code runs: plugins loaded by the subsystem inits, and the atclose  *)
(* callbacks, which may call back into the API on the same thread.         *)
(***************************************************************************)
EXTENDS H5TermEngine

CONSTANTS
    Threads,     \* application threads calling the API
    NoThread,    \* the lock has no owner
    Callbacks,   \* the (func, ctx) pairs an application may register
    NoCb,        \* no callback argument
    CbActs,      \* what an atclose callback may do inside the API
    MaxAtclose,  \* bound on the length of the 'atclose' list
    DebugFds,    \* number of file descriptors named in HDF5_DEBUG
    DebugBuild   \* TRUE when NDEBUG is not defined

(* The subsystem initialisations of H5_init_library, in code order.       *)
InitCalls == <<"E", "FD", "VL1", "P1", "L", "O", "FS", "S", "T", "P2", "VL2">>
NInits == 11

(* A sequence read from its last element to its first.                   *)
Reverse(s) == [i \in 1..Len(s) |-> s[Len(s) - i + 1]]

(* The entry points that change the library's state.                      *)
Apis == {"H5open", "H5atclose", "H5dont_atexit", "H5close", "exit"}

(* What a callback may do: return at once, register another atclose       *)
(* callback, or ask H5is_library_terminating.                            *)
AllCbActs == {"return", "register", "query"}

ASSUME NoThreadAssumption == NoThread \notin Threads
ASSUME NoCbAssumption == NoCb \notin Callbacks
ASSUME CbActsAssumption == CbActs \subseteq AllCbActs /\ CbActs # {}
ASSUME MaxAtcloseAssumption == MaxAtclose \in Nat
ASSUME DebugFdsAssumption == DebugFds \in Nat
ASSUME DebugBuildAssumption == DebugBuild \in BOOLEAN

VARIABLES
    libinit,     \* H5_INIT_GLOBAL (H5_libinit_g)
    libterm,     \* H5_TERM_GLOBAL (H5_libterm_g)
    dontAtexit,  \* H5_dont_atexit_g
    atexitRegs,  \* times H5_term_library was given to atexit()
    atclose,     \* the list at H5_atclose_head, head first
    drain,       \* the nodes the running drain loop has still to visit
    streams,     \* length of the H5_debug_g.open_stream list
    subsInit,    \* subsystem inits completed since the library was reset
    owner,       \* holder of the API lock
    lpc,         \* where the lock holder is in its call
    call,        \* the call the lock holder is executing
    ret,         \* what the last call that returned returned
    ran,         \* history: callbacks run by the current termination
    registered   \* history: registrations since the last drain

libVars == <<libinit, libterm, dontAtexit, atexitRegs, atclose, drain, streams,
             subsInit, owner, lpc, call, ret, ran, registered>>
vars == <<libVars, engineVars>>

Calls == [api : Apis, cb : Callbacks \cup {NoCb}]
Lpcs == {"idle", "initsub", "drain", "loop", "exited", "aborted"}
Rets == {"none", "SUCCEED", "FAIL"}

TypeOK ==
    /\ EngineTypeOK
    /\ libinit \in BOOLEAN
    /\ libterm \in BOOLEAN
    /\ dontAtexit \in BOOLEAN
    /\ atexitRegs \in Nat
    /\ atclose \in Seq(Callbacks)
    /\ drain \in Seq(Callbacks)
    /\ streams \in 0..DebugFds
    /\ subsInit \in 0..NInits
    /\ owner \in Threads \cup {NoThread}
    /\ lpc \in Lpcs
    /\ call \in Calls
    /\ ret \in Rets
    /\ ran \in Seq(Callbacks)
    /\ registered \in Seq(Callbacks)

-----------------------------------------------------------------------------
(* Mutant: H5atclose appending the node at the tail of the list.          *)
ApiBodyAppend(c) ==
    IF c.api = "H5atclose"
    THEN /\ Len(atclose) < MaxAtclose
         /\ atclose' = Append(atclose, c.cb)
         /\ registered' = Append(registered, c.cb)
    ELSE UNCHANGED <<atclose, registered>>

(* The library-level work of an entry point once the library is           *)
(* initialised: H5open does nothing more; H5atclose prepends a node to     *)
(* the list (its NULL-func and allocation failures are not modelled).      *)
ApiBody(c) ==
    IF c.api = "H5atclose"
    THEN /\ Len(atclose) < MaxAtclose
         /\ atclose' = <<c.cb>> \o atclose
         /\ registered' = Append(registered, c.cb)
    ELSE UNCHANGED <<atclose, registered>>

(* The lock is free and nobody is in a call: a thread may enter the API.  *)
Idle == lpc = "idle" /\ owner = NoThread

(* Mutant: H5_dont_atexit_g is not set once the hook is installed.       *)
EnterApiNoDontAtexit(t, c) ==
    /\ Idle
    /\ IF ~libinit /\ ~libterm
       THEN /\ libinit' = TRUE
            /\ streams' = 0
            /\ IF ~dontAtexit
               THEN atexitRegs' = atexitRegs + 1 /\ UNCHANGED dontAtexit
               ELSE UNCHANGED <<atexitRegs, dontAtexit>>
            /\ subsInit' = 0
            /\ owner' = t
            /\ lpc' = "initsub"
            /\ call' = c
            /\ ret' = "none"
            /\ UNCHANGED <<libterm, atclose, drain, ran, registered>>
       ELSE /\ ApiBody(c)
            /\ ret' = "SUCCEED"
            /\ call' = c
            /\ UNCHANGED <<libinit, libterm, dontAtexit, atexitRegs, drain,
                           streams, subsInit, owner, lpc, ran>>
    /\ UNCHANGED engineVars

(* An entry point that initialises the library first (FUNC_ENTER_API and   *)
(* H5__init_package): if neither H5_INIT_GLOBAL nor H5_TERM_GLOBAL is set, *)
(* H5_init_library checks the version (its own numbers: it passes), sets   *)
(* H5_INIT_GLOBAL before anything else, clears H5_debug_g, installs the    *)
(* atexit hook unless H5dont_atexit was called (and then marks it so), and *)
(* goes on to the subsystem inits.  Otherwise the call runs at once.      *)
EnterApi(t, c) ==
    /\ Idle
    /\ IF ~libinit /\ ~libterm
       THEN /\ libinit' = TRUE
            /\ streams' = 0
            /\ IF ~dontAtexit
               THEN atexitRegs' = atexitRegs + 1 /\ dontAtexit' = TRUE
               ELSE UNCHANGED <<atexitRegs, dontAtexit>>
            /\ subsInit' = 0
            /\ owner' = t
            /\ lpc' = "initsub"
            /\ call' = c
            /\ ret' = "none"
            /\ UNCHANGED <<libterm, atclose, drain, ran, registered>>
       ELSE /\ ApiBody(c)
            /\ ret' = "SUCCEED"
            /\ call' = c
            /\ UNCHANGED <<libinit, libterm, dontAtexit, atexitRegs, drain,
                           streams, subsInit, owner, lpc, ran>>
    /\ UNCHANGED engineVars

H5open(t) == EnterApi(t, [api |-> "H5open", cb |-> NoCb])

H5atclose(t, cb) == EnterApi(t, [api |-> "H5atclose", cb |-> cb])

(* Mutant: one subsystem init too many before the debug mask is parsed.  *)
InitSubsystemOverrun ==
    /\ lpc = "initsub"
    /\ \/ /\ subsInit <= NInits
          /\ subsInit' = subsInit + 1
          /\ UNCHANGED <<streams, owner, lpc, ret, atclose, registered>>
       \/ /\ subsInit + 1 = NInits
          /\ subsInit' = NInits
          /\ streams' \in 0..DebugFds
          /\ ApiBody(call)
          /\ ret' = "SUCCEED"
          /\ owner' = NoThread
          /\ lpc' = "idle"
       \/ /\ ret' = "FAIL"
          /\ owner' = NoThread
          /\ lpc' = "idle"
          /\ UNCHANGED <<subsInit, streams, atclose, registered>>
    /\ UNCHANGED <<libinit, libterm, dontAtexit, atexitRegs, drain, call, ran>>
    /\ UNCHANGED engineVars

(* One subsystem init of H5_init_library.  A failing init makes the whole  *)
(* call fail, leaving H5_INIT_GLOBAL set.  After the last one, the         *)
(* debug mask is parsed ("-all", then HDF5_DEBUG: some of its descriptors  *)
(* are opened) and the call itself runs.                                   *)
InitSubsystem ==
    /\ lpc = "initsub"
    /\ \/ /\ subsInit + 1 < NInits
          /\ subsInit' = subsInit + 1
          /\ UNCHANGED <<streams, owner, lpc, ret, atclose, registered>>
       \/ /\ subsInit + 1 = NInits
          /\ subsInit' = NInits
          /\ streams' \in 0..DebugFds
          /\ ApiBody(call)
          /\ ret' = "SUCCEED"
          /\ owner' = NoThread
          /\ lpc' = "idle"
       \/ /\ ret' = "FAIL"
          /\ owner' = NoThread
          /\ lpc' = "idle"
          /\ UNCHANGED <<subsInit, streams, atclose, registered>>
    /\ UNCHANGED <<libinit, libterm, dontAtexit, atexitRegs, drain, call, ran>>
    /\ UNCHANGED engineVars

(* H5dont_atexit: fails if the flag is already set (by an earlier call,   *)
(* or because the atexit hook has already been installed).                *)
H5dont_atexit(t) ==
    /\ Idle
    /\ IF dontAtexit
       THEN ret' = "FAIL" /\ UNCHANGED dontAtexit
       ELSE ret' = "SUCCEED" /\ dontAtexit' = TRUE
    /\ call' = [api |-> "H5dont_atexit", cb |-> NoCb]
    /\ UNCHANGED <<libinit, libterm, atexitRegs, atclose, drain, streams,
                   subsInit, owner, lpc, ran, registered>>
    /\ UNCHANGED engineVars

(* H5_term_library, entered by H5close or by the atexit hook: take the     *)
(* API lock; nothing to do if the library is not initialised; otherwise    *)
(* set H5_TERM_GLOBAL and start walking the atclose list from its head.   *)
TermLibrary(t, c) ==
    /\ Idle
    /\ call' = c
    /\ IF libinit
       THEN /\ libterm' = TRUE
            /\ owner' = t
            /\ lpc' = "drain"
            /\ drain' = atclose
            /\ ran' = <<>>
            /\ ret' = "none"
       ELSE /\ lpc' = IF c.api = "exit" THEN "exited" ELSE "idle"
            /\ ret' = "SUCCEED"
            /\ UNCHANGED <<libterm, owner, drain, ran>>
    /\ UNCHANGED <<libinit, dontAtexit, atexitRegs, atclose, streams, subsInit,
                   registered>>
    /\ UNCHANGED engineVars

H5close(t) == TermLibrary(t, [api |-> "H5close", cb |-> NoCb])

(* The process exits (exit() or a return from main) on thread t: the      *)
(* atexit hook runs H5_term_library if it was installed.                  *)
ProcessExit(t) ==
    IF atexitRegs > 0
    THEN TermLibrary(t, [api |-> "exit", cb |-> NoCb])
    ELSE /\ Idle
         /\ lpc' = "exited"
         /\ UNCHANGED <<libinit, libterm, dontAtexit, atexitRegs, atclose, drain,
                        streams, subsInit, owner, call, ret, ran, registered>>
         /\ UNCHANGED engineVars

(* One iteration of the atclose loop: run the callback of the current node *)
(* between H5_BEFORE_USER_CB and H5_AFTER_USER_CB, then step to the next   *)
(* node and free this one.  The callback may call H5atclose (the library   *)
(* is initialised, so the node is just prepended to H5_atclose_head) or    *)
(* H5is_library_terminating (which changes nothing).                      *)
AtcloseCallback ==
    /\ lpc = "drain"
    /\ drain # <<>>
    /\ ran' = Append(ran, Head(drain))
    /\ drain' = Tail(drain)
    /\ \E act \in CbActs :
          IF act = "register"
          THEN \E cb \in Callbacks : ApiBody([api |-> "H5atclose", cb |-> cb])
          ELSE UNCHANGED <<atclose, registered>>
    /\ UNCHANGED <<libinit, libterm, dontAtexit, atexitRegs, streams, subsInit,
                   owner, lpc, call, ret>>
    /\ UNCHANGED engineVars

(* The walk has reached the end: H5_atclose_head is reset to NULL and the  *)
(* shutdown loop starts, with whatever work the subsystems hold.          *)
AtcloseDone ==
    /\ lpc = "drain"
    /\ drain = <<>>
    /\ atclose' = <<>>
    /\ registered' = <<>>
    /\ lpc' = "loop"
    /\ \E w \in WorkInit : StartLoop(w)
    /\ UNCHANGED <<libinit, libterm, dontAtexit, atexitRegs, drain, streams,
                   subsInit, owner, call, ret, ran>>

(* A step of the shutdown loop.                                           *)
ShutdownStep ==
    /\ lpc = "loop"
    /\ EngineStep
    /\ UNCHANGED libVars

(* Mutant: the debug streams are closed only when the loop converged.    *)
TermFinishStreamsOnConvergence ==
    /\ lpc = "loop"
    /\ pc = Done
    /\ \E func \in BOOLEAN :
          IF pending # 0 /\ func /\ DebugBuild
          THEN /\ lpc' = "aborted"
               /\ UNCHANGED <<libinit, libterm, streams, subsInit, owner, ret>>
          ELSE /\ streams' = IF pending = 0 THEN 0 ELSE streams
               /\ libterm' = FALSE
               /\ libinit' = FALSE
               /\ subsInit' = 0
               /\ owner' = NoThread
               /\ lpc' = IF call.api = "exit" THEN "exited" ELSE "idle"
               /\ ret' = "SUCCEED"
    /\ UNCHANGED <<dontAtexit, atexitRegs, atclose, drain, call, ran, registered>>
    /\ UNCHANGED engineVars

(* Mutant: H5_INIT_GLOBAL is not reset at the end of H5_term_library.    *)
TermFinishNoInitReset ==
    /\ lpc = "loop"
    /\ pc = Done
    /\ \E func \in BOOLEAN :
          IF pending # 0 /\ func /\ DebugBuild
          THEN /\ lpc' = "aborted"
               /\ UNCHANGED <<libinit, libterm, streams, subsInit, owner, ret>>
          ELSE /\ streams' = 0
               /\ libterm' = FALSE
               /\ UNCHANGED libinit
               /\ subsInit' = 0
               /\ owner' = NoThread
               /\ lpc' = IF call.api = "exit" THEN "exited" ELSE "idle"
               /\ ret' = "SUCCEED"
    /\ UNCHANGED <<dontAtexit, atexitRegs, atclose, drain, call, ran, registered>>
    /\ UNCHANGED engineVars

(* After the loop: if work is still pending and error reporting is on, a   *)
(* debug build aborts; otherwise the debug streams are closed, both flags  *)
(* are reset and the API lock is released.                                *)
TermFinish ==
    /\ lpc = "loop"
    /\ pc = Done
    /\ \E func \in BOOLEAN :
          IF pending # 0 /\ func /\ DebugBuild
          THEN /\ lpc' = "aborted"
               /\ UNCHANGED <<libinit, libterm, streams, subsInit, owner, ret>>
          ELSE /\ streams' = 0
               /\ libterm' = FALSE
               /\ libinit' = FALSE
               /\ subsInit' = 0
               /\ owner' = NoThread
               /\ lpc' = IF call.api = "exit" THEN "exited" ELSE "idle"
               /\ ret' = "SUCCEED"
    /\ UNCHANGED <<dontAtexit, atexitRegs, atclose, drain, call, ran, registered>>
    /\ UNCHANGED engineVars

(* The process has ended (exit or abort): nothing happens any more.       *)
ProcessEnded == lpc \in {"exited", "aborted"} /\ UNCHANGED vars

Init ==
    /\ EngineInit
    /\ libinit = FALSE
    /\ libterm = FALSE
    /\ dontAtexit = FALSE
    /\ atexitRegs = 0
    /\ atclose = <<>>
    /\ drain = <<>>
    /\ streams = 0
    /\ subsInit = 0
    /\ owner = NoThread
    /\ lpc = "idle"
    /\ call = [api |-> "H5open", cb |-> NoCb]
    /\ ret = "none"
    /\ ran = <<>>
    /\ registered = <<>>

Next ==
    \/ \E t \in Threads :
          \/ H5open(t)
          \/ \E cb \in Callbacks : H5atclose(t, cb)
          \/ H5dont_atexit(t)
          \/ H5close(t)
          \/ ProcessExit(t)
    \/ InitSubsystem
    \/ AtcloseCallback
    \/ AtcloseDone
    \/ ShutdownStep
    \/ TermFinish
    \/ ProcessEnded

Spec == Init /\ [][Next]_vars

-----------------------------------------------------------------------------
(* H5_term_library is handed to atexit() at most once in the life of the  *)
(* process, however many times the library is initialised and closed:     *)
(* H5_init_library sets H5_dont_atexit_g after installing it.             *)
AtexitOnce == atexitRegs <= 1

(* No debug stream is left open while the library is not initialised, so  *)
(* the memset of H5_debug_g on the next initialisation loses none: every   *)
(* path out of H5_term_library that resets the flags closes them, the      *)
(* give-up path of the shutdown loop included.                            *)
NoStreamLeak == ~libinit => streams = 0

(* The atclose callbacks run in reverse order of registration: when the    *)
(* walk of H5_term_library is over, it has run exactly the callbacks       *)
(* registered since the last walk, newest first.                          *)
AtcloseLIFO == (lpc = "drain" /\ drain = <<>>) => ran = Reverse(registered)


(* The spec: initialisation "succeeds unless ... a subsystem init fails":  *)
(* an H5open that returns success finds every subsystem initialised.      *)
OpenMeansReady == (ret = "SUCCEED" /\ call.api = "H5open") => subsInit = NInits

-----------------------------------------------------------------------------
(* The library's flags implement the promised state machine of            *)
(* H5LibraryState: H5_TERM_GLOBAL set means terminating, otherwise         *)
(* H5_INIT_GLOBAL set means initialised; the process has ended once it     *)
(* exited or aborted.                                                      *)
LibState == INSTANCE H5LibraryState
              WITH lib   <- IF libterm THEN "term"
                            ELSE IF libinit THEN "init" ELSE "uninit",
                   ended <- lpc \in {"exited", "aborted"}

(* Every step of init, H5close, the atexit hook, the atclose walk and the  *)
(* shutdown loop is a step of H5LibraryState or leaves its state alone:    *)
(* termination only starts from an initialised library and always ends by  *)
(* resetting both flags or by aborting.                                    *)
LibraryStateRefined == LibState!Spec

=============================================================================
