-------------------------- MODULE H5VersionProofs --------------------------
(***************************************************************************)
(* Proofs about the version guard of H5.c for every library version,     *)
(* exceptions table, set of header numbers and override string: the one   *)
(* effective check decides by the policy (VerdictPolicy), and the guard   *)
(* refines the abstract one-decision guard H5VersionGuard, so the static  *)
(* 'checked' test at the top of H5_check_version (847) turns every later  *)
(* call, from H5_init_library or from H5check_version, into a no-op.      *)
(***************************************************************************)
EXTENDS H5Version, TLAPS

-----------------------------------------------------------------------------
(***************************************************************************)
(* VerdictPolicy is not inductive alone: a check that is not a cached     *)
(* no-op must start from a state with no verdict and no mismatch warning. *)
(* That holds because 'checked' or 'aborted' is set by every such check,  *)
(* and every entry point stops once either is set.                        *)
(***************************************************************************)
VerdictInv ==
    /\ firstHdr \in HeaderVersions \cup {Lib, NoHdr}
    /\ warned \subseteq Warnings
    /\ (firstHdr = NoHdr) <=> (~checked /\ ~aborted)
    /\ VerdictPolicy

\* The part of the state a completed check must never change again.
Verdict == <<checked, level, firstHdr, aborted, warned>>

(* With 'checked' set, a call of H5_check_version changes nothing of it.  *)
LEMMA CachedCheck ==
    ASSUME checked, NEW h, CheckVersion(h)
    PROVE  UNCHANGED Verdict
  BY DEF CheckVersion, Verdict

-----------------------------------------------------------------------------
(* The exception loop's verdict is membership of either release number in *)
(* the table.                                                             *)
LEMMA ReleaseExceptionIsMember ==
    ASSUME NEW h
    PROVE  ReleaseException(h) <=>
             h[3] # LibRelease /\ (h[3] \in ExceptionSet \/ LibRelease \in ExceptionSet)
<1>1. DOMAIN Exceptions = 1..Len(Exceptions)
  BY VersionAssumption
<1>2. QED
  BY <1>1 DEF ReleaseException, ExceptionSet

(* The two switches of H5_check_version decide the reference verdict.    *)
LEMMA IncompatibleIsCheck ==
    ASSUME NEW h
    PROVE  Incompatible(h) <=> MajMinMismatch(h) \/ ReleaseException(h)
  BY ReleaseExceptionIsMember DEF Incompatible

(* H5_init_library's own numbers pass, and are not the empty history.     *)
LEMMA LibPasses ==
    ~MajMinMismatch(Lib) /\ ~ReleaseException(Lib) /\ Lib # NoHdr
  BY DEF MajMinMismatch, ReleaseException, Lib, NoHdr

LEMMA HeaderNotEmpty ==
    ASSUME NEW h \in HeaderVersions PROVE h # NoHdr
<1>1. h \in Nat \X Nat \X Nat
  BY VersionAssumption
<1>2. DOMAIN h = 1..3
  BY <1>1
<1>3. QED
  BY <1>2 DEF NoHdr

(* A check that is not a cached no-op, from a state with no verdict.      *)
LEMMA FreshCheck ==
    ASSUME VerdictInv, ~checked, ~aborted,
           NEW h \in HeaderVersions \cup {Lib}, CheckVersionNoCache(h)
    PROVE  VerdictInv'
<1> DEFINE lvl == EnvLevel(level)
           mm  == MajMinMismatch(h)
           rx  == ReleaseException(h)
<1>1. firstHdr = NoHdr /\ warned \cap {"version", "release"} = {}
  BY DEF VerdictInv, VerdictPolicy
<1>2. h # NoHdr
  BY HeaderNotEmpty, LibPasses
<1>3. /\ level' = lvl /\ firstHdr' = h
      /\ aborted' = (lvl = 0 /\ (mm \/ rx))
      /\ checked' = ~(lvl = 0 /\ (mm \/ rx))
  BY DEF CheckVersionNoCache
<1>4. warned' = warned
                \cup (IF lvl <= 1 /\ mm THEN {"version"} ELSE {})
                \cup (IF lvl <= 1 /\ rx /\ ~(lvl = 0 /\ mm)
                      THEN {"release"} ELSE {})
                \cup (IF ~(lvl = 0 /\ (mm \/ rx)) /\ lvl = 0 /\ ~infoOK
                      THEN {"info"} ELSE {})
  BY DEF CheckVersionNoCache
<1>5. warned' \subseteq Warnings
  BY <1>4 DEF VerdictInv, Warnings
<1>6. (warned' \cap {"version", "release"} # {}) <=> (lvl <= 1 /\ (mm \/ rx))
  BY <1>1, <1>4
<1>7. Incompatible(h) <=> mm \/ rx
  BY IncompatibleIsCheck
<1>8. firstHdr' \in HeaderVersions \cup {Lib, NoHdr}
  BY <1>3
<1>9. QED
  BY <1>2, <1>3, <1>5, <1>6, <1>7, <1>8 DEF VerdictInv, VerdictPolicy

(* With 'checked' set a call changes nothing VerdictInv reads; otherwise  *)
(* it is a fresh check.                                                   *)
LEMMA CheckVersionStep ==
    ASSUME VerdictInv, ~aborted,
           NEW h \in HeaderVersions \cup {Lib}, CheckVersion(h)
    PROVE  VerdictInv'
<1>1. CASE checked
  <2>1. UNCHANGED Verdict
    BY <1>1, CachedCheck
  <2>2. QED
    BY <2>1 DEF Verdict, VerdictInv, VerdictPolicy
<1>2. CASE ~checked
  <2>1. CheckVersionNoCache(h)
    BY <1>2 DEF CheckVersion
  <2>2. QED
    BY <1>2, <2>1, FreshCheck
<1>3. QED
  BY <1>1, <1>2

LEMMA VerdictInvInit == Init => VerdictInv
  BY DEF Init, VerdictInv, VerdictPolicy

LEMMA VerdictInvStep == VerdictInv /\ [Next]_vars => VerdictInv'
<1> SUFFICES ASSUME VerdictInv, [Next]_vars PROVE VerdictInv'
  OBVIOUS
<1>1. CASE InitLibrary
  <2>1. Lib \in HeaderVersions \cup {Lib}
    OBVIOUS
  <2>2. QED
    BY <1>1, <2>1, CheckVersionStep DEF InitLibrary
<1>2. ASSUME NEW h \in HeaderVersions, H5check_version(h) PROVE VerdictInv'
  BY <1>2, CheckVersionStep DEF H5check_version
<1>3. CASE TermLibrary \/ ProcessAborted \/ UNCHANGED vars
  <2>1. UNCHANGED Verdict
    BY <1>3 DEF TermLibrary, ProcessAborted, vars, Verdict
  <2>2. QED
    BY <2>1 DEF Verdict, VerdictInv, VerdictPolicy
<1>4. QED
  BY <1>1, <1>2, <1>3 DEF Next

(* The process is aborted exactly when the one effective check saw an     *)
(* incompatible pair at level 0, and a mismatch warning is printed        *)
(* exactly when it saw one at level 0 or 1 (VerdictPolicy): the override  *)
(* switch, the exception loop and the 'checked' cache of H5_check_version *)
(* implement the three-level policy for every table and every override.  *)
THEOREM VerdictPolicyHolds == Spec => []VerdictPolicy
<1>1. VerdictInv => VerdictPolicy
  BY DEF VerdictInv
<1>2. QED
  BY <1>1, VerdictInvInit, VerdictInvStep, PTL DEF Spec
-----------------------------------------------------------------------------
(* Every step either leaves the decision alone or is a fresh check, made  *)
(* with 'checked' and 'aborted' both clear.                               *)
LEMMA StepKinds ==
    ASSUME [Next]_vars
    PROVE  \/ UNCHANGED Verdict
           \/ \E h \in HeaderVersions \cup {Lib} :
                 ~checked /\ ~aborted /\ CheckVersionNoCache(h)
<1>1. ASSUME ~aborted, NEW h \in HeaderVersions \cup {Lib}, CheckVersion(h)
      PROVE  \/ UNCHANGED Verdict
             \/ \E g \in HeaderVersions \cup {Lib} :
                   ~checked /\ ~aborted /\ CheckVersionNoCache(g)
  BY <1>1, CachedCheck DEF CheckVersion
<1>2. CASE InitLibrary
  BY <1>2, <1>1 DEF InitLibrary
<1>3. ASSUME NEW h \in HeaderVersions, H5check_version(h)
      PROVE  \/ UNCHANGED Verdict
             \/ \E g \in HeaderVersions \cup {Lib} :
                   ~checked /\ ~aborted /\ CheckVersionNoCache(g)
  BY <1>3, <1>1 DEF H5check_version
<1>4. CASE TermLibrary \/ ProcessAborted \/ UNCHANGED vars
  BY <1>4 DEF TermLibrary, ProcessAborted, vars, Verdict
<1>5. QED
  BY <1>2, <1>3, <1>4 DEF Next

(* A fresh check takes the guard's one decision.                          *)
LEMMA FreshDecides ==
    ASSUME VerdictInv, VerdictInv', ~checked, ~aborted,
           NEW h \in HeaderVersions \cup {Lib}, CheckVersionNoCache(h)
    PROVE  Guard!Decide
<1>1. VerdictOf = "none"
  BY DEF VerdictInv, VerdictOf
<1>2. firstHdr' = h /\ h # NoHdr
  BY HeaderNotEmpty, LibPasses DEF CheckVersionNoCache
<1>3. /\ aborted' <=> (level' = 0 /\ Incompatible(h))
      /\ (warned' \cap {"version", "release"} # {})
           <=> (level' <= 1 /\ Incompatible(h))
  BY <1>2 DEF VerdictInv, VerdictPolicy
<1>4. VerdictOf' = Guard!Outcome(h, level')
  BY <1>2, <1>3 DEF VerdictOf, Guard!Outcome
<1>5. QED
  BY <1>1, <1>2, <1>4 DEF Guard!Decide

LEMMA GuardStep ==
    ASSUME VerdictInv, [Next]_vars
    PROVE  [Guard!Decide]_Guard!guardVars
<1>1. VerdictInv'
  BY VerdictInvStep
<1>2. CASE UNCHANGED Verdict
  BY <1>2 DEF Verdict, VerdictOf, Guard!guardVars
<1>3. CASE \E h \in HeaderVersions \cup {Lib} :
              ~checked /\ ~aborted /\ CheckVersionNoCache(h)
  BY <1>1, <1>3, FreshDecides
<1>4. QED
  BY <1>2, <1>3, StepKinds

(* H5_check_version implements the promised guard (VersionGuardRefined):  *)
(* its first effective call decides once, by the three-level policy, and  *)
(* no later call from H5_init_library or H5check_version, before or after *)
(* H5close, changes the decision, its numbers or its level.               *)
THEOREM VersionGuardRefinedHolds == Spec => VersionGuardRefined
<1>1. Init => VerdictInv /\ Guard!Init
  BY VerdictInvInit DEF Init, Guard!Init, VerdictOf
<1>2. VerdictInv /\ [Next]_vars => VerdictInv' /\ [Guard!Decide]_Guard!guardVars
  BY VerdictInvStep, GuardStep
<1>3. QED
  BY <1>1, <1>2, PTL DEF Spec, VersionGuardRefined, Guard!Spec
=============================================================================
