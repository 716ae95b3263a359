------------------------- MODULE H5TermEngineProofs -------------------------
(***************************************************************************)
(* Proofs about the shutdown loop of H5_term_library, for every value of   *)
(* the constants: its type invariant, that a loop which ends with         *)
(* pending = 0 leaves every subsystem without work, and that the loop     *)
(* refines the abstract shutdown loop H5ShutdownLoop.                      *)
(***************************************************************************)
EXTENDS H5TermEngine, TLAPS

(* Facts about the call table, used by both proofs.                        *)
LEMMA NameType == \A i \in 1..NCalls : Name[i] \in Subsys
  BY DEF Subsys

LEMMA NameLenType == \A i \in 1..NCalls : NameLen[i] \in Nat
  BY DEF NameLen, NCalls

LEMMA GateRange == GateAt \subseteq 1..NCalls
  BY DEF GateAt, NCalls

(* Moving one unit of work from a to b keeps a bounded work vector bounded. *)
LEMMA MoveWork ==
    ASSUME NEW S, NEW M \in Nat, NEW f \in [S -> 0..M],
           NEW a \in S, NEW b \in S, f[a] # 0, f[b] < M
    PROVE  [f EXCEPT ![a] = @ - 1, ![b] = @ + 1] \in [S -> 0..M]
  OBVIOUS

(* Every step of the loop keeps each variable in its type.                 *)
LEMMA EngineTypeStep == EngineTypeOK /\ [EngineNext]_engineVars => EngineTypeOK'
<1> SUFFICES ASSUME EngineTypeOK, [EngineNext]_engineVars PROVE EngineTypeOK'
  OBVIOUS
<1> USE MaxWorkAssumption, FeedsAssumption, LoopSizeAssumption
<1>1. CASE Down
  <2> DEFINE s == Name[pc]
  <2>1. pc \in 1..NCalls /\ s \in Subsys /\ NameLen[pc] \in Nat
    BY <1>1, NameType, NameLenType DEF Down
  <2> DEFINE n == TermResult(s)
  <2>2. /\ TermPackage(s)
        /\ pending' = pending + n
        /\ res' = [res EXCEPT ![s] = n]
        /\ Report(pc, n)
        /\ n \in {0, 1}
    BY <1>1 DEF Down, TermResult
  <2>3. work' \in [Subsys -> 0..MaxWork]
    <3>1. CASE work[s] = 0
      BY <2>2, <3>1 DEF TermPackage, EngineTypeOK
    <3>2. CASE work[s] # 0 /\ work' = [work EXCEPT ![s] = @ - 1]
      BY <2>1, <3>2 DEF EngineTypeOK
    <3>3. CASE work[s] # 0 /\ \E t \in Feeds[s] \ {s} :
                                /\ work[t] < MaxWork
                                /\ work' = [work EXCEPT ![s] = @ - 1, ![t] = @ + 1]
      <4>1. PICK t \in Feeds[s] \ {s} :
                  /\ work[t] < MaxWork
                  /\ work' = [work EXCEPT ![s] = @ - 1, ![t] = @ + 1]
        BY <3>3
      <4>2. t \in Subsys
        BY <2>1, <4>1
      <4>3. QED
        BY <2>1, <3>3, <4>1, <4>2, MaxWorkAssumption, MoveWork DEF EngineTypeOK
    <3>4. QED
      BY <2>2, <3>1, <3>2, <3>3 DEF TermPackage
  <2>4. loop' \in Seq(Subsys \cup {Ellipsis}) /\ at' \in Nat
    <3>1. CASE n # 0 /\ at + 8 < LoopSize
      <4>1. loop' = Append(loop, s) /\ at' = at + NameLen[pc] + (IF at > 0 THEN 1 ELSE 0)
        BY <2>2, <3>1, Zenon DEF Report
      <4>2. QED
        BY <2>1, <4>1 DEF EngineTypeOK
    <3>2. CASE ~(n # 0 /\ at + 8 < LoopSize) /\ n > 0 /\ at + 5 < LoopSize
      <4>1. loop' = Append(loop, Ellipsis) /\ at' = at + 3
        BY <2>2, <3>2, Zenon DEF Report
      <4>2. QED
        BY <4>1 DEF EngineTypeOK
    <3>3. CASE ~(n # 0 /\ at + 8 < LoopSize) /\ ~(n > 0 /\ at + 5 < LoopSize)
      BY <2>2, <3>3 DEF Report, EngineTypeOK
    <3>4. QED
      BY <3>1, <3>2, <3>3
  <2>5. pending' \in Nat /\ res' \in [Subsys -> {NotCalled, 0, 1}]
    BY <2>1, <2>2 DEF EngineTypeOK
  <2>6. pc' \in 1..Done /\ ntries' \in Nat
    BY <1>1, <2>1 DEF Down, Done, NCalls, EngineTypeOK
  <2>7. QED
    BY <2>3, <2>4, <2>5, <2>6 DEF EngineTypeOK
<1>2. CASE SkipBlock
  BY <1>2, GateRange DEF SkipBlock, EngineTypeOK, EndOfSweep, Done, NCalls
<1>3. CASE LoopTest
  BY <1>3 DEF LoopTest, EngineTypeOK, EndOfSweep, Done, NCalls, NotCalled
<1>4. CASE EngineFinished
  BY <1>4 DEF EngineFinished, engineVars, EngineTypeOK
<1>5. CASE UNCHANGED engineVars
  BY <1>5 DEF engineVars, EngineTypeOK
<1>6. QED
  BY <1>1, <1>2, <1>3, <1>4, <1>5 DEF EngineNext, EngineStep

(* The shutdown loop keeps its variables in their types.                   *)
THEOREM EngineTypeCorrect == EngineSpec => []EngineTypeOK
<1>1. EngineInit => EngineTypeOK
  BY MaxWorkAssumption, WorkInitAssumption
     DEF EngineInit, EngineTypeOK, Done, NCalls, NotCalled
<1>2. QED
  BY <1>1, EngineTypeStep, PTL DEF EngineSpec

-----------------------------------------------------------------------------
(* The inductive strengthening of CleanShutdown: while no call of the      *)
(* current sweep has reported work, every subsystem called so far in the   *)
(* sweep holds none.  A call reporting 0 changes no work, and one          *)
(* reporting work makes pending nonzero until the next sweep resets it.    *)
CleanInv ==
    pending = 0 => \A j \in 1..NCalls : j < pc => work[Name[j]] = 0

LEMMA CleanInvInit == EngineInit => CleanInv
  BY DEF EngineInit, CleanInv

LEMMA CleanInvStep ==
    EngineTypeOK /\ CleanInv /\ [EngineNext]_engineVars => CleanInv'
<1> SUFFICES ASSUME EngineTypeOK, CleanInv, [EngineNext]_engineVars
             PROVE CleanInv'
  OBVIOUS
<1>1. CASE Down
  <2> DEFINE s == Name[pc]
  <2>1. pc \in 1..NCalls /\ s \in Subsys /\ pc' = pc + 1
    BY <1>1, NameType DEF Down
  <2>2. /\ TermPackage(s)
        /\ pending' = pending + TermResult(s)
    BY <1>1 DEF Down
  <2>3. CASE work[s] = 0
    <3>1. work' = work
      BY <2>2, <2>3 DEF TermPackage
    <3>2. pending' = pending
      BY <2>2, <2>3 DEF TermResult, EngineTypeOK
    <3>3. QED
      BY <2>1, <2>3, <3>1, <3>2 DEF CleanInv, EngineTypeOK
  <2>4. CASE work[s] # 0
    BY <2>2, <2>4 DEF CleanInv, EngineTypeOK, TermResult
  <2>5. QED
    BY <2>3, <2>4
<1>2. CASE SkipBlock
  BY <1>2 DEF SkipBlock, CleanInv
<1>3. CASE LoopTest
  BY <1>3 DEF LoopTest, CleanInv, EndOfSweep, Done, NCalls
<1>4. CASE EngineFinished
  BY <1>4 DEF EngineFinished, engineVars, CleanInv
<1>5. CASE UNCHANGED engineVars
  BY <1>5 DEF engineVars, CleanInv
<1>6. QED
  BY <1>1, <1>2, <1>3, <1>4, <1>5 DEF EngineNext, EngineStep

(* When H5_term_library leaves its loop with pending = 0, every subsystem  *)
(* has released all its work (CleanShutdown), whatever the number of       *)
(* subsystems' work units, the retry cap or the hand-offs between them.    *)
THEOREM CleanShutdownHolds == EngineSpec => []CleanShutdown
<1>1. CleanInv /\ EngineTypeOK => CleanShutdown
  <2> SUFFICES ASSUME CleanInv, EngineTypeOK, pc = Done, pending = 0,
                      NEW s \in Subsys
               PROVE work[s] = 0
    BY DEF CleanShutdown
  <2>1. PICK j \in 1..NCalls : s = Name[j]
    BY DEF Subsys
  <2>2. QED
    BY <2>1 DEF CleanInv, Done, NCalls
<1>2. QED
  BY <1>1, CleanInvInit, CleanInvStep, EngineTypeCorrect, EngineTypeStep, PTL
     DEF EngineSpec

-----------------------------------------------------------------------------
(* The loop as H5ShutdownLoop.  Besides CleanInv, the mapping needs that   *)
(* no sweep runs once the cap is spent: outside Done, ntries has not      *)
(* passed MaxTries, so a failing test with work pending gives up exactly   *)
(* after sweep MaxTries + 1.                                               *)
SweepInv == pc # Done => ntries <= MaxTries

RefInv == EngineTypeOK /\ CleanInv /\ SweepInv

LEMMA SweepInvStep ==
    EngineTypeOK /\ SweepInv /\ [EngineNext]_engineVars => SweepInv'
<1> SUFFICES ASSUME EngineTypeOK, SweepInv, [EngineNext]_engineVars
             PROVE SweepInv'
  OBVIOUS
<1>1. CASE Down \/ SkipBlock
  <2>1. pc \in 1..NCalls /\ UNCHANGED ntries
    BY <1>1, GateRange DEF Down, SkipBlock
  <2>2. QED
    BY <2>1 DEF SweepInv, Done, NCalls
<1>2. CASE LoopTest
  BY <1>2, MaxTriesAssumption DEF LoopTest, SweepInv, EngineTypeOK
<1>3. CASE EngineFinished \/ UNCHANGED engineVars
  BY <1>3 DEF EngineFinished, engineVars, SweepInv
<1>4. QED
  BY <1>1, <1>2, <1>3 DEF EngineNext, EngineStep

LEMMA RefInvInit == EngineInit => RefInv
  BY CleanInvInit, MaxTriesAssumption, MaxWorkAssumption, WorkInitAssumption
     DEF RefInv, SweepInv, EngineInit, EngineTypeOK, Done, NCalls, NotCalled

LEMMA RefInvStep == RefInv /\ [EngineNext]_engineVars => RefInv'
  BY EngineTypeStep, CleanInvStep, SweepInvStep DEF RefInv

(* A step that leaves the work, ntries and both ends of the loop alone is  *)
(* a stutter of the abstract loop.                                        *)
LEMMA ShutdownStutter ==
    ASSUME pc # Done, pc' # Done, UNCHANGED <<work, ntries>>
    PROVE  UNCHANGED Shutdown!loopVars
  BY DEF Shutdown!loopVars, SweepsBegun, LoopOutcome

LEMMA LoopRefinementStep ==
    RefInv /\ [EngineNext]_engineVars => [Shutdown!Next]_Shutdown!loopVars
<1> SUFFICES ASSUME RefInv, [EngineNext]_engineVars
             PROVE  [Shutdown!Next]_Shutdown!loopVars
  OBVIOUS
<1>0. EngineTypeOK /\ CleanInv /\ SweepInv
  BY DEF RefInv
<1>1. CASE Down
  <2> DEFINE s == Name[pc]
  <2>1. pc \in 1..NCalls /\ s \in Subsys /\ pc' = pc + 1 /\ UNCHANGED ntries
        /\ TermPackage(s)
    BY <1>1, NameType DEF Down
  <2>2. pc # Done /\ pc' # Done
    BY <2>1 DEF Done, NCalls
  <2>3. CASE work[s] = 0
    <3>1. UNCHANGED work
      BY <2>1, <2>3 DEF TermPackage
    <3>2. QED
      BY <2>1, <2>2, <3>1, ShutdownStutter
  <2>4. CASE work[s] # 0
    <3>1. work[s] > 0
      BY <1>0, <2>1, <2>4 DEF EngineTypeOK
    <3>2. \/ work' = [work EXCEPT ![s] = @ - 1]
          \/ \E t \in Feeds[s] \ {s} :
                /\ work[t] < MaxWork
                /\ work' = [work EXCEPT ![s] = @ - 1, ![t] = @ + 1]
      BY <2>1, <2>4 DEF TermPackage
    <3>3. UNCHANGED <<SweepsBegun, LoopOutcome>>
      BY <2>1, <2>2 DEF SweepsBegun, LoopOutcome
    <3>4. Shutdown!Release
      BY <2>1, <2>2, <3>1, <3>2, <3>3 DEF Shutdown!Release, Shutdown!Running,
         LoopOutcome
    <3>5. QED
      BY <3>4 DEF Shutdown!Next
  <2>5. QED
    BY <2>3, <2>4
<1>2. CASE SkipBlock
  <2>1. pc \in 1..NCalls /\ pc' = EndOfSweep /\ UNCHANGED <<work, ntries>>
    BY <1>2, GateRange DEF SkipBlock
  <2>2. QED
    BY <2>1, ShutdownStutter DEF Done, EndOfSweep, NCalls
<1>3. CASE LoopTest
  <2>1. pc = EndOfSweep /\ pc # Done /\ UNCHANGED work
        /\ ntries \in Nat /\ pending \in Nat
    BY <1>0, <1>3 DEF LoopTest, EndOfSweep, Done, NCalls, EngineTypeOK
  <2>2. SweepsBegun = ntries + 1 /\ LoopOutcome = "running"
    BY <2>1 DEF SweepsBegun, LoopOutcome
  <2>3. CASE pending = 0
    <3>1. pc' = Done /\ pending' = 0 /\ UNCHANGED ntries
      BY <1>3, <2>3 DEF LoopTest
    <3>2. \A x \in Subsys : work[x] = 0
      <4> SUFFICES ASSUME NEW x \in Subsys PROVE work[x] = 0
        OBVIOUS
      <4>1. PICK j \in 1..NCalls : x = Name[j]
        BY DEF Subsys
      <4>2. QED
        BY <1>0, <2>1, <2>3, <4>1 DEF CleanInv, EndOfSweep, NCalls
    <3>3. Shutdown!FinishClean
      BY <2>1, <2>2, <3>1, <3>2 DEF Shutdown!FinishClean, Shutdown!Running,
         SweepsBegun, LoopOutcome
    <3>4. QED
      BY <3>3 DEF Shutdown!Next
  <2>4. CASE pending # 0 /\ ntries < MaxTries
    <3>1. pc' = 1 /\ ntries' = ntries + 1
      BY <1>3, <2>4 DEF LoopTest
    <3>2. Shutdown!NewSweep
      BY <2>1, <2>2, <2>4, <3>1, MaxTriesAssumption
         DEF Shutdown!NewSweep, Shutdown!Running,
         SweepsBegun, LoopOutcome, Done, NCalls
    <3>3. QED
      BY <3>2 DEF Shutdown!Next
  <2>5. CASE pending # 0 /\ ~(ntries < MaxTries)
    <3>1. ntries = MaxTries
      BY <1>0, <2>1, <2>5, MaxTriesAssumption DEF SweepInv
    <3>2. pc' = Done /\ ntries' = ntries + 1 /\ pending' = pending
      BY <1>3, <2>5 DEF LoopTest
    <3>3. Shutdown!GiveUp
      BY <2>1, <2>2, <2>5, <3>1, <3>2 DEF Shutdown!GiveUp, Shutdown!Running,
         SweepsBegun, LoopOutcome
    <3>4. QED
      BY <3>3 DEF Shutdown!Next
  <2>6. QED
    BY <2>3, <2>4, <2>5
<1>4. CASE EngineFinished \/ UNCHANGED engineVars
  BY <1>4 DEF EngineFinished, engineVars, Shutdown!loopVars, SweepsBegun,
     LoopOutcome
<1>5. QED
  BY <1>1, <1>2, <1>3, <1>4 DEF EngineNext, EngineStep

(* H5_term_library's loop keeps the promise of H5ShutdownLoop for every    *)
(* cap, work bound, hand-off graph and set of starting work: it releases   *)
(* work only while it runs, begins at most MaxTries + 1 sweeps, ends clean *)
(* only with no work left, and gives up only after its last sweep          *)
(* (ShutdownLoopRefined).                                                  *)
THEOREM ShutdownLoopRefinedHolds == EngineSpec => ShutdownLoopRefined
<1>1. EngineInit => Shutdown!Init
  BY MaxWorkAssumption, WorkInitAssumption
     DEF EngineInit, Shutdown!Init, SweepsBegun, LoopOutcome, Done, NCalls
<1>2. QED
  BY <1>1, RefInvInit, RefInvStep, LoopRefinementStep, PTL
     DEF EngineSpec, ShutdownLoopRefined, Shutdown!Spec


-----------------------------------------------------------------------------
(* The gates.  GateHonoured is an action property; it follows from three  *)
(* facts about a sweep in progress: with pending = 0 every call made so   *)
(* far reported 0; every gate already passed had only zero reports before *)
(* it; and no call at or after pc has been made in this sweep.            *)
ZeroSoFar == pending = 0 => \A j \in 1..NCalls : j < pc => res[Name[j]] = 0

GatesPassed ==
    pc \in 1..NCalls =>
        \A g \in GateAt : g < pc => \A j \in 1..(g - 1) : res[Name[j]] = 0

NotYetCalled ==
    pc \in 1..NCalls => \A j \in 1..NCalls : j >= pc => res[Name[j]] = NotCalled

GateInv == EngineTypeOK /\ ZeroSoFar /\ GatesPassed /\ NotYetCalled

(* The 26 calls name 26 different subsystems.                             *)
LEMMA NameInjective ==
    \A i, j \in 1..NCalls : i # j => Name[i] # Name[j]
  BY DEF Name, NCalls

LEMMA GateInvInit == EngineInit => GateInv
<1> SUFFICES ASSUME EngineInit PROVE GateInv
  OBVIOUS
<1>1. EngineTypeOK
  BY RefInvInit DEF RefInv
<1>2. pc = 1 /\ res = [s \in Subsys |-> NotCalled]
  BY DEF EngineInit
<1>3. GatesPassed
  BY <1>2, GateRange DEF GatesPassed
<1>4. NotYetCalled
  BY <1>2, NameType DEF NotYetCalled
<1>5. ZeroSoFar
  BY <1>2 DEF ZeroSoFar
<1>6. QED
  BY <1>1, <1>3, <1>4, <1>5 DEF GateInv

(* A call at pc changes only the result of Name[pc].                      *)
LEMMA DownResults ==
    ASSUME EngineTypeOK, Down
    PROVE  /\ pc \in 1..NCalls /\ pc' = pc + 1
           /\ pc \in GateAt => pending = 0
           /\ res' = [res EXCEPT ![Name[pc]] = TermResult(Name[pc])]
           /\ pending' = pending + TermResult(Name[pc])
           /\ \A j \in 1..NCalls : j # pc => res'[Name[j]] = res[Name[j]]
<1>1. /\ pc \in 1..NCalls /\ pc' = pc + 1
      /\ pc \in GateAt => pending = 0
      /\ res' = [res EXCEPT ![Name[pc]] = TermResult(Name[pc])]
      /\ pending' = pending + TermResult(Name[pc])
  BY DEF Down
<1>2. \A j \in 1..NCalls : j # pc => res'[Name[j]] = res[Name[j]]
  BY <1>1, NameInjective, NameType DEF EngineTypeOK
<1>3. QED
  BY <1>1, <1>2

LEMMA GateInvDown ==
    ASSUME GateInv, Down PROVE GateInv'
<1>1. EngineTypeOK /\ EngineTypeOK'
  BY EngineTypeStep DEF GateInv, EngineStep, EngineNext
<1>2. /\ pc \in 1..NCalls /\ pc' = pc + 1
      /\ pc \in GateAt => pending = 0
      /\ res' = [res EXCEPT ![Name[pc]] = TermResult(Name[pc])]
      /\ pending' = pending + TermResult(Name[pc])
      /\ \A j \in 1..NCalls : j # pc => res'[Name[j]] = res[Name[j]]
  BY <1>1, DownResults
<1>3. TermResult(Name[pc]) \in {0, 1} /\ pending \in Nat
  BY <1>1, <1>2 DEF TermResult, EngineTypeOK
<1>4. res'[Name[pc]] = TermResult(Name[pc])
  BY <1>1, <1>2, NameType DEF EngineTypeOK
<1>5. ZeroSoFar'
  <2> SUFFICES ASSUME pending' = 0, NEW j \in 1..NCalls, j < pc'
               PROVE  res'[Name[j]] = 0
    BY DEF ZeroSoFar
  <2>1. pending = 0 /\ TermResult(Name[pc]) = 0
    BY <1>2, <1>3
  <2>2. CASE j = pc
    BY <1>4, <2>1, <2>2
  <2>3. CASE j # pc
    BY <1>2, <2>1, <2>3 DEF GateInv, ZeroSoFar
  <2>4. QED
    BY <2>2, <2>3
<1>6. GatesPassed'
  <2> SUFFICES ASSUME pc' \in 1..NCalls, NEW g \in GateAt, g < pc',
                      NEW j \in 1..(g - 1)
               PROVE  res'[Name[j]] = 0
    BY DEF GatesPassed
  <2>0. g \in 1..NCalls /\ g <= pc
    BY <1>2, GateRange DEF NCalls
  <2>1. j \in 1..NCalls /\ j # pc /\ j < pc
    BY <1>2, <2>0 DEF NCalls
  <2>2. res'[Name[j]] = res[Name[j]]
    BY <1>2, <2>1
  <2>3. CASE g < pc
    BY <1>2, <2>1, <2>2, <2>3 DEF GateInv, GatesPassed
  <2>4. CASE g = pc
    BY <1>2, <2>1, <2>2, <2>4 DEF GateInv, ZeroSoFar
  <2>5. QED
    BY <1>2, <2>0, <2>3, <2>4 DEF NCalls
<1>7. NotYetCalled'
  BY <1>2 DEF GateInv, NotYetCalled
<1>8. QED
  BY <1>1, <1>5, <1>6, <1>7 DEF GateInv

LEMMA GateInvStep == GateInv /\ [EngineNext]_engineVars => GateInv'
<1> SUFFICES ASSUME GateInv, [EngineNext]_engineVars PROVE GateInv'
  OBVIOUS
<1>1. EngineTypeOK'
  BY EngineTypeStep DEF GateInv
<1>2. CASE Down
  BY <1>2, GateInvDown
<1>3. CASE SkipBlock
  BY <1>1, <1>3, GateRange
     DEF SkipBlock, GateInv, ZeroSoFar, GatesPassed, NotYetCalled, EndOfSweep, NCalls
<1>4. CASE LoopTest
  <2>2. CASE pending = 0
    BY <1>1, <1>4, <2>2 DEF LoopTest, GateInv, ZeroSoFar, GatesPassed,
       NotYetCalled, EndOfSweep, Done, NCalls
  <2>3. CASE pending # 0 /\ ntries < MaxTries
    <3>1. pc' = 1 /\ pending' = 0 /\ res' = [s \in Subsys |-> NotCalled]
      BY <1>4, <2>3 DEF LoopTest
    <3>2. ZeroSoFar' /\ GatesPassed'
      BY <3>1, GateRange DEF ZeroSoFar, GatesPassed
    <3>3. NotYetCalled'
      BY <3>1, NameType DEF NotYetCalled
    <3>4. QED
      BY <1>1, <3>2, <3>3 DEF GateInv
  <2>5. CASE pending # 0 /\ ~(ntries < MaxTries)
    <3>1. pc' = Done /\ pending' = pending
      BY <1>4, <2>5 DEF LoopTest
    <3>2. QED
      BY <1>1, <2>5, <3>1 DEF GateInv, ZeroSoFar, GatesPassed, NotYetCalled,
         Done, NCalls
  <2>4. QED
    BY <2>2, <2>3, <2>5
<1>5. CASE EngineFinished \/ UNCHANGED engineVars
  BY <1>1, <1>5 DEF EngineFinished, engineVars, GateInv, ZeroSoFar,
     GatesPassed, NotYetCalled
<1>6. QED
  BY <1>2, <1>3, <1>4, <1>5 DEF EngineNext, EngineStep

(* Only a call changes the result of the subsystem at pc, and a call      *)
(* honours every gate up to it.                                           *)
LEMMA GateStep ==
    GateInv /\ [EngineNext]_engineVars =>
        [\A i \in 1..NCalls :
            (pc = i /\ res'[Name[i]] # NotCalled) =>
               \A g \in GateAt : g <= i =>
                  \A j \in 1..(g - 1) : res[Name[j]] = 0]_engineVars
<1> SUFFICES ASSUME GateInv, [EngineNext]_engineVars,
                    NEW i \in 1..NCalls, pc = i, res'[Name[i]] # NotCalled,
                    NEW g \in GateAt, g <= i, NEW j \in 1..(g - 1)
             PROVE  res[Name[j]] = 0
  OBVIOUS
<1>1. res[Name[i]] = NotCalled
  BY DEF GateInv, NotYetCalled
<1>2. Down
  <2>1. CASE SkipBlock \/ EngineFinished \/ UNCHANGED engineVars
    BY <1>1, <2>1 DEF SkipBlock, EngineFinished, engineVars
  <2>2. CASE LoopTest
    BY <2>2 DEF LoopTest, EndOfSweep, NCalls
  <2>3. QED
    BY <2>1, <2>2 DEF EngineNext, EngineStep
<1>3. CASE g < i
  BY <1>3 DEF GateInv, GatesPassed
<1>4. CASE g = i
  <2>1. pending = 0
    BY <1>2, <1>4 DEF Down
  <2>2. j \in 1..NCalls /\ j < pc
    BY <1>4, GateRange DEF NCalls
  <2>3. QED
    BY <2>1, <2>2 DEF GateInv, ZeroSoFar
<1>5. QED
  BY <1>3, <1>4, GateRange DEF NCalls

(* Every term_package call of H5_term_library's loop honours the          *)
(* 'if (pending == 0)' gates: it is made only when every call before each *)
(* gate up to it reported 0 in the same sweep (GateHonoured).             *)
THEOREM GateHonouredHolds == EngineSpec => GateHonoured
  BY GateInvInit, GateInvStep, GateStep, PTL DEF EngineSpec, GateHonoured

=============================================================================
