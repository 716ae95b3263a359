---------------------------- MODULE H5TermEngine ----------------------------
(***************************************************************************)
(* The dependency-ordered shutdown loop of H5_term_library                 *)
(* (src/src/H5.c, lines 354-463).                                          *)
(*                                                                         *)
(* One step is one expansion of the DOWN(F) macro (one call of a           *)
(* subsystem's H5F_term_package and the bookkeeping of the 'loop' report   *)
(* buffer), one skipped 'if (pending == 0)' block, or the test of the      *)
(* do-while condition.  The subsystems themselves are external: each       *)
(* holds 'work' (open IDs, files, cache entries ...) and its               *)
(* term_package, when called, either reports 0 (quiesced, nothing done) or *)
(* releases one unit of its work, possibly handing work to a subsystem in  *)
(* Feeds[s] (closing a dataset ID leaves a file to close), and reports a   *)
(* positive count.                                                         *)
(***************************************************************************)
EXTENDS Integers, Sequences

CONSTANTS
    MaxTries,   \* the retry cap of 'while (pending && ntries++ < 100)'
    MaxWork,    \* bound on the units of work one subsystem can hold
    Feeds,      \* Feeds[s]: subsystems to which s's shutdown may hand work
    WorkInit,   \* the work vectors the subsystems may hold at shutdown
    LoopSize    \* sizeof loop: the report buffer, 1024 bytes in the code

(* The calls of the loop body in the order the code makes them: the names  *)
(* given to DOWN(), and strlen of each name as sprintf writes it.          *)
Name == <<"ES", "L", "A_top", "D_top", "G_top", "M_top", "S_top", "T_top",
          "F", "P", "A", "D", "G", "M", "S", "T",
          "AC", "Z", "FD", "VL", "PL", "E", "I", "SL", "FL", "CX">>
NameLen == <<2, 1, 5, 5, 5, 5, 5, 5, 1, 1, 1, 1, 1, 1, 1, 1,
             2, 1, 2, 2, 2, 1, 1, 2, 2, 2>>
NCalls == 26

(* The calls that open an 'if (pending == 0)' block: L (the block with the *)
(* "top" shutdowns), F, P, A (the "bottom" block), AC (the low-level       *)
(* block) and, nested in it, PL, E, I, SL, FL and CX.                      *)
GateAt == {2, 9, 10, 11, 17, 21, 22, 23, 24, 25, 26}

Subsys == {Name[i] : i \in 1..NCalls}

(* pc = NCalls + 1 is the do-while test; pc = Done is after the loop.     *)
EndOfSweep == NCalls + 1
Done == NCalls + 2

(* What res records for a subsystem not called yet in the current sweep.  *)
NotCalled == -1

(* The text DOWN appends when the name does not fit any more.             *)
Ellipsis == "..."

ASSUME MaxTriesAssumption == MaxTries \in Nat
ASSUME MaxWorkAssumption == MaxWork \in Nat
ASSUME FeedsAssumption == Feeds \in [Subsys -> SUBSET Subsys]
ASSUME WorkInitAssumption == WorkInit \subseteq [Subsys -> 0..MaxWork]
ASSUME LoopSizeAssumption == LoopSize \in Nat

VARIABLES
    work,     \* work[s]: units of work subsystem s still holds
    pending,  \* 'pending' of H5_term_library
    ntries,   \* 'ntries'
    pc,       \* the next call of the loop body, or EndOfSweep, or Done
    res,      \* res[s]: what s's term_package returned in this sweep
    loop,     \* the report buffer 'loop', as the list of names written to it
    at        \* 'at': the number of characters written to 'loop'

engineVars == <<work, pending, ntries, pc, res, loop, at>>

EngineTypeOK ==
    /\ work \in [Subsys -> 0..MaxWork]
    /\ pending \in Nat
    /\ ntries \in Nat
    /\ pc \in 1..Done
    /\ res \in [Subsys -> {NotCalled, 0, 1}]
    /\ loop \in Seq(Subsys \cup {Ellipsis})
    /\ at \in Nat

-----------------------------------------------------------------------------
(* Entering the loop, with the work the subsystems hold at that moment:    *)
(* 'int pending, ntries = 0; size_t at = 0;' and the first 'pending = 0'.  *)
StartLoop(w) ==
    /\ work' = w
    /\ pending' = 0
    /\ ntries' = 0
    /\ pc' = 1
    /\ res' = [s \in Subsys |-> NotCalled]
    /\ loop' = <<>>
    /\ at' = 0

(* What H5F_term_package returns: 0 when s holds no work, else a         *)
(* positive count of what it closed.                                      *)
TermResult(s) == IF work[s] = 0 THEN 0 ELSE 1

(* Mutant: a term_package that releases work without checking it has any. *)
TermPackageNoGuard(s) ==
    \/ work' = [work EXCEPT ![s] = @ - 1]
    \/ \E t \in Feeds[s] \ {s} :
          /\ work[t] < MaxWork
          /\ work' = [work EXCEPT ![s] = @ - 1, ![t] = @ + 1]

(* What term_package of s does: nothing when s holds no work; otherwise   *)
(* it releases a unit and possibly hands one to a subsystem of Feeds[s].  *)
TermPackage(s) ==
    IF work[s] = 0
    THEN UNCHANGED work
    ELSE \/ work' = [work EXCEPT ![s] = @ - 1]
         \/ \E t \in Feeds[s] \ {s} :
               /\ work[t] < MaxWork
               /\ work' = [work EXCEPT ![s] = @ - 1, ![t] = @ + 1]

(* The report bookkeeping of DOWN(F) after 'n = H5F_term_package()'.      *)
Report(i, n) ==
    IF n # 0 /\ at + 8 < LoopSize
    THEN /\ loop' = Append(loop, Name[i])
         /\ at' = at + NameLen[i] + (IF at > 0 THEN 1 ELSE 0)
    ELSE IF n > 0 /\ at + 5 < LoopSize
         THEN /\ loop' = Append(loop, Ellipsis)
              /\ at' = at + 3
         ELSE UNCHANGED <<loop, at>>

(* Mutant: a DOWN(F) moved out of its 'if (pending == 0)' block.          *)
DownNoGate ==
    /\ pc \in 1..NCalls
    /\ LET n == TermResult(Name[pc])
       IN /\ TermPackage(Name[pc])
          /\ pending' = pending + n
          /\ res' = [res EXCEPT ![Name[pc]] = n]
          /\ Report(pc, n)
    /\ pc' = pc + 1
    /\ UNCHANGED ntries

(* Mutant: 'pending = DOWN(F)' in place of 'pending += DOWN(F)'.          *)
DownOverwrite ==
    /\ pc \in 1..NCalls
    /\ pc \in GateAt => pending = 0
    /\ LET n == TermResult(Name[pc])
       IN /\ TermPackage(Name[pc])
          /\ pending' = n
          /\ res' = [res EXCEPT ![Name[pc]] = n]
          /\ Report(pc, n)
    /\ pc' = pc + 1
    /\ UNCHANGED ntries

(* 'pending += DOWN(F)': the call at pc, when its block has been entered. *)
Down ==
    /\ pc \in 1..NCalls
    /\ pc \in GateAt => pending = 0
    /\ LET n == TermResult(Name[pc])
       IN /\ TermPackage(Name[pc])
          /\ pending' = pending + n
          /\ res' = [res EXCEPT ![Name[pc]] = n]
          /\ Report(pc, n)
    /\ pc' = pc + 1
    /\ UNCHANGED ntries

(* 'if (pending == 0)' failing: the rest of the sweep is not executed     *)
(* (pending stays nonzero, so every later test in the sweep fails too).   *)
SkipBlock ==
    /\ pc \in GateAt
    /\ pending # 0
    /\ pc' = EndOfSweep
    /\ UNCHANGED <<work, pending, ntries, res, loop, at>>

(* Mutant: 'while (pending)', without the retry cap.                     *)
LoopTestNoCap ==
    /\ pc = EndOfSweep
    /\ IF pending = 0
       THEN /\ pc' = Done
            /\ UNCHANGED <<pending, ntries, res>>
       ELSE /\ pc' = 1
            /\ pending' = 0
            /\ res' = [s \in Subsys |-> NotCalled]
            /\ UNCHANGED ntries
    /\ UNCHANGED <<work, loop, at>>

(* Mutant: 'ntries++ <= 100', one retry too many.                        *)
LoopTestOffByOne ==
    /\ pc = EndOfSweep
    /\ IF pending = 0
       THEN /\ pc' = Done
            /\ UNCHANGED <<pending, ntries, res>>
       ELSE /\ ntries' = ntries + 1
            /\ IF ntries <= MaxTries
               THEN /\ pc' = 1
                    /\ pending' = 0
                    /\ res' = [s \in Subsys |-> NotCalled]
               ELSE /\ pc' = Done
                    /\ UNCHANGED <<pending, res>>
    /\ UNCHANGED <<work, loop, at>>

(* 'while (pending && ntries++ < 100)': a new sweep resets pending.       *)
LoopTest ==
    /\ pc = EndOfSweep
    /\ IF pending = 0
       THEN /\ pc' = Done
            /\ UNCHANGED <<pending, ntries, res>>
       ELSE /\ ntries' = ntries + 1
            /\ IF ntries < MaxTries
               THEN /\ pc' = 1
                    /\ pending' = 0
                    /\ res' = [s \in Subsys |-> NotCalled]
               ELSE /\ pc' = Done
                    /\ UNCHANGED <<pending, res>>
    /\ UNCHANGED <<work, loop, at>>

EngineStep == Down \/ SkipBlock \/ LoopTest

(* The loop on its own, entered with any of the work vectors of WorkInit. *)
EngineInit ==
    /\ work \in WorkInit
    /\ pending = 0
    /\ ntries = 0
    /\ pc = 1
    /\ res = [s \in Subsys |-> NotCalled]
    /\ loop = <<>>
    /\ at = 0

(* After the loop the engine has stopped for good.                        *)
EngineFinished == pc = Done /\ UNCHANGED engineVars

EngineNext == EngineStep \/ EngineFinished

EngineSpec == EngineInit /\ [][EngineNext]_engineVars /\ WF_engineVars(EngineStep)

-----------------------------------------------------------------------------
(* Once the loop has ended without pending work, every subsystem has      *)
(* released everything: H5_term_library only reports a clean shutdown     *)
(* when all 26 term_package calls of the last sweep reported 0.           *)
CleanShutdown ==
    (pc = Done /\ pending = 0) => \A s \in Subsys : work[s] = 0

(* The shutdown loop always ends, even when subsystems keep handing work  *)
(* to each other for ever: the ntries cap of the do-while test.           *)
LoopEnds == <>(pc = Done)

(* The phases of the shutdown as the spec lists them (section 4.7): event  *)
(* sets; links; the "top" of A, D, G, M, S, T; files; property lists; the  *)
(* "bottom" of A, D, G, M, S, T; AC, Z, FD, VL; then PL, E, I, SL, FL and  *)
(* CX, each in a phase of its own.                                         *)
SpecPhase == <<1, 2, 3, 3, 3, 3, 3, 3, 4, 5, 6, 6, 6, 6, 6, 6,
               7, 7, 7, 7, 8, 9, 10, 11, 12, 13>>

(* The spec: "a later phase is only attempted if every earlier phase in   *)
(* that same sweep reported 0": every term_package call is made only     *)
(* after every call of an earlier phase in the sweep returned 0.          *)
PhaseOrder ==
    [][\A i \in 1..NCalls :
         (pc = i /\ res'[Name[i]] # NotCalled) =>
            \A j \in 1..(i - 1) : SpecPhase[j] < SpecPhase[i] => res[Name[j]] = 0
      ]_engineVars

(* The code's gates: a term_package is called only when, for every       *)
(* 'if (pending == 0)' block enclosing or preceding it in the sweep, every *)
(* call made before that block's gate reported 0 in this sweep.  pending  *)
(* is the only link between the calls and the gates, so this fails if a   *)
(* DOWN is moved out of its block or pending loses a result.              *)
GateHonoured ==
    [][\A i \in 1..NCalls :
         (pc = i /\ res'[Name[i]] # NotCalled) =>
            \A g \in GateAt : g <= i =>
               \A j \in 1..(g - 1) : res[Name[j]] = 0
      ]_engineVars

(* The spec: a subsystem that never quiesces "causes the engine to stop   *)
(* after exactly 100 sweeps": the loop never begins more than MaxTries    *)
(* sweeps.  While a sweep runs, ntries + 1 sweeps have begun: every      *)
(* test that starts another sweep increments ntries.                      *)
SweepCap == pc # Done => ntries + 1 <= MaxTries

(* The spec: on non-convergence the report names "which subsystems        *)
(* remained non-quiescent": no subsystem named in 'loop' reported 0 in the *)
(* last sweep.                                                             *)
ReportNamesStuck ==
    (pc = Done /\ pending # 0) =>
        \A k \in 1..Len(loop) : loop[k] # Ellipsis => res[loop[k]] # 0

-----------------------------------------------------------------------------
(* The loop seen as H5ShutdownLoop: the sweeps begun are ntries + 1 while *)
(* a sweep runs or after a clean end; giving up takes the increment of    *)
(* the failing test, which begins no sweep.                               *)
SweepsBegun == IF pc = Done /\ pending # 0 THEN ntries ELSE ntries + 1

LoopOutcome == IF pc # Done THEN "running"
               ELSE IF pending = 0 THEN "clean" ELSE "gaveup"

Shutdown == INSTANCE H5ShutdownLoop
              WITH sweeps <- SweepsBegun, outcome <- LoopOutcome

(* The loop of H5_term_library keeps the promise of H5ShutdownLoop: work  *)
(* changes only by a term_package release while the loop runs, at most    *)
(* MaxTries + 1 sweeps begin, it reports a clean shutdown only when no     *)
(* subsystem holds work, and it gives up only at the end of the last      *)
(* sweep the cap allows.                                                  *)
ShutdownLoopRefined == Shutdown!Spec

=============================================================================
