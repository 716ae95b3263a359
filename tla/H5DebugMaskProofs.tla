------------------------- MODULE H5DebugMaskProofs -------------------------
(***************************************************************************)
(* Proofs about the debug configuration for every HDF5_DEBUG string, every *)
(* package table and every set of open descriptors: no stream fdopen'ed by *)
(* H5__debug_mask is lost, and until termination nothing refers to a       *)
(* stream that was fclose'd.  Both need the shape of the open list and of  *)
(* the stream numbers, collected in DebugInv.  Last, the parser and the    *)
(* close loop refine the stream contract H5DebugStreams, which also needs  *)
(* the open list to be free of duplicates (RegInv).                        *)
(***************************************************************************)
EXTENDS H5DebugMask, TLAPS

(* The shape the two properties rest on.                                  *)
ShapeOK ==
    /\ files \in Seq(Nat)
    /\ openList \in Seq(Nat)
    /\ closedFiles \subseteq Nat
    /\ fdOpen \subseteq Nat
    /\ phase \in Phases

DebugInv == ShapeOK /\ OpenStreamsTracked /\ StreamsOwned

Fn == INSTANCE Functions

(* For the registry: the list never holds a stream twice, it and the      *)
(* closed ones are streams fdopen made, and no listed stream is closed.   *)
RegInv ==
    /\ DebugInv
    /\ Fn!IsInjective(openList)
    /\ Range(openList) \subseteq 1..Len(files)
    /\ closedFiles \subseteq 1..Len(files)
    /\ Range(openList) \cap closedFiles = {}

-----------------------------------------------------------------------------
(* The elements of a non-empty sequence: its head and those of its tail.  *)
LEMMA RangeHeadTail ==
    ASSUME NEW s \in Seq(Nat), s # <<>>
    PROVE  Range(s) = {Head(s)} \cup Range(Tail(s))
<1>1. ASSUME NEW x \in Range(s) PROVE x = Head(s) \/ x \in Range(Tail(s))
  <2>1. PICK i \in DOMAIN s : x = s[i]
    BY DEF Range
  <2>2. CASE i = 1
    BY <2>1, <2>2
  <2>3. CASE i # 1
    <3>1. i - 1 \in DOMAIN Tail(s) /\ Tail(s)[i - 1] = s[i]
      BY <2>1, <2>3
    <3>2. QED
      BY <2>1, <3>1 DEF Range
  <2>4. QED
    BY <2>2, <2>3
<1>2. Head(s) \in Range(s)
  BY DEF Range
<1>3. ASSUME NEW x \in Range(Tail(s)) PROVE x \in Range(s)
  <2>1. PICK i \in DOMAIN Tail(s) : x = Tail(s)[i]
    BY DEF Range
  <2>2. i + 1 \in DOMAIN s /\ s[i + 1] = x
    BY <2>1
  <2>3. QED
    BY <2>2 DEF Range
<1>4. QED
  BY <1>1, <1>2, <1>3 DEF Range

(* Pushing an element on the front adds just that element.               *)
LEMMA RangeCons ==
    ASSUME NEW s \in Seq(Nat), NEW k \in Nat
    PROVE  Range(<<k>> \o s) = {k} \cup Range(s)
<1>1. <<k>> \o s \in Seq(Nat) /\ <<k>> \o s # <<>>
  OBVIOUS
<1>2. Head(<<k>> \o s) = k /\ Tail(<<k>> \o s) = s
  OBVIOUS
<1>3. QED
  BY <1>1, <1>2, RangeHeadTail

-----------------------------------------------------------------------------
LEMMA DebugInvInit == Init => DebugInv
  BY DebugMaskAssumption DEF Init, DebugInv, ShapeOK, OpenStreamsTracked, StreamsOwned, Range,
         Phases, MaskAll

(* A parser step that leaves the streams, the list and the files alone.  *)
LEMMA QuietStep ==
    ASSUME DebugInv,
           UNCHANGED <<openList, files, closedFiles, fdOpen>>,
           phase' \in Phases,
           cur' \in {cur, NullStream, StdErr},
           trace' \in {trace, cur, NullStream},
           Range(pkgStream') \subseteq Range(pkgStream) \cup {cur, NullStream},
           phase' \in {"mask_all", "mask_env", "live"}
             => phase \in {"mask_all", "mask_env", "live"}
    PROVE  DebugInv'
  BY DEF DebugInv, ShapeOK, OpenStreamsTracked, StreamsOwned

LEMMA ReturnFromMaskPhase ==
    ASSUME phase \in {"mask_all", "mask_env"}, ReturnFromMask
    PROVE  /\ phase' \in {"mask_env", "live"}
           /\ cur' \in {cur, StdErr}
  BY DEF ReturnFromMask

LEMMA EndOfStringStep ==
    ASSUME DebugInv, EndOfString PROVE DebugInv'
<1>1. phase \in {"mask_all", "mask_env"}
  BY DEF EndOfString, Parsing
<1>2. phase' \in {"mask_env", "live"} /\ cur' \in {cur, StdErr}
  BY <1>1, ReturnFromMaskPhase DEF EndOfString
<1>3. QED
  BY <1>1, <1>2, QuietStep DEF EndOfString, Phases

LEMMA SkipCharStep ==
    ASSUME DebugInv, SkipChar PROVE DebugInv'
  BY QuietStep DEF SkipChar, Parsing, DebugInv, ShapeOK, Phases

(* A name only ever stores the current stream or NULL.                  *)
LEMMA NameTokenStep ==
    ASSUME DebugInv, NameToken PROVE DebugInv'
<1>1. UNCHANGED <<phase, cur, openList, files, closedFiles, fdOpen>>
  BY DEF NameToken
<1>2. trace' \in {trace, cur, NullStream}
  BY DEF NameToken
<1>3. Range(pkgStream') \subseteq Range(pkgStream) \cup {cur, NullStream}
  <2> DEFINE clear  == input[pos] = "-"
             npos   == IF input[pos] \in Signs THEN pos + 1 ELSE pos
             named  == npos <= Len(input) /\ IsAlpha(input[npos])
             name   == IF named THEN input[npos] ELSE ""
             target == IF clear THEN NullStream ELSE cur
  <2>1. target \in {cur, NullStream}
    OBVIOUS
  <2>2. pkgStream' = CASE name = "all"  -> [p \in Pkgs |-> target]
                       [] name \in Pkgs -> [pkgStream EXCEPT ![name] = target]
                       [] OTHER         -> pkgStream
    BY DEF NameToken
  <2>3. CASE name = "all"
    <3>0. name \notin Pkgs
      BY <2>3, DebugMaskAssumption DEF Reserved
    <3>1. pkgStream' = [p \in Pkgs |-> target]
      BY <2>2, <2>3, <3>0
    <3>2. QED
      BY <2>1, <3>1 DEF Range
  <2>4. CASE name # "all" /\ name \in Pkgs
    <3>1. pkgStream' = [pkgStream EXCEPT ![name] = target]
      BY <2>2, <2>4
    <3>2. DOMAIN pkgStream' = DOMAIN pkgStream
      BY <3>1
    <3>3. QED
      BY <2>1, <3>1, <3>2 DEF Range
  <2>5. CASE name # "all" /\ name \notin Pkgs
    BY <2>2, <2>5 DEF Range
  <2>6. QED
    BY <2>3, <2>4, <2>5
<1>4. QED
  BY <1>1, <1>2, <1>3, QuietStep DEF DebugInv, ShapeOK

(* The descriptor branch: a new stream goes on the list or is closed.    *)
LEMMA FdTokenStep ==
    ASSUME DebugInv, FdToken PROVE DebugInv'
<1> DEFINE r == Strtol0(input, pos)
           k == Len(files) + 1
<1>1. phase \in {"mask_all", "mask_env"}
      /\ UNCHANGED <<pkgStream, trace>>
  BY DEF FdToken, Parsing
<1>2. CASE r.val \in fdOpen
  <2>1. r.val \in Nat
    BY <1>2 DEF DebugInv, ShapeOK
  <2>2. files' = Append(files, r.val)
    BY <1>2 DEF FdToken
  <2>6. files' \in Seq(Nat) /\ k \in Nat
        /\ 1..Len(files') = (1..Len(files)) \cup {k}
    BY <2>1, <2>2 DEF DebugInv, ShapeOK
  <2>3. CASE RecordAllocated(k, r.rest) /\ UNCHANGED <<phase, input>>
    <3>1. cur' = k /\ openList' = <<k>> \o openList
          /\ UNCHANGED <<closedFiles, fdOpen>>
      BY <2>3 DEF RecordAllocated
    <3>2. Range(openList') = {k} \cup Range(openList)
      BY <2>6, <3>1, RangeCons DEF DebugInv, ShapeOK
    <3>3. openList' \in Seq(Nat)
      BY <2>6, <3>1 DEF DebugInv, ShapeOK
    <3>4. QED
      BY <1>1, <2>6, <2>3, <3>1, <3>2, <3>3
         DEF DebugInv, ShapeOK, OpenStreamsTracked, StreamsOwned
  <2>4. CASE RecordAllocFailed(k, r)
    <3>1. closedFiles' = closedFiles \cup {k} /\ UNCHANGED openList
          /\ fdOpen' = fdOpen \ {r.val}
          /\ phase' \in {"mask_env", "live"} /\ cur' \in {cur, StdErr}
      BY <1>1, <2>4, ReturnFromMaskPhase DEF RecordAllocFailed
    <3>2. QED
      BY <1>1, <2>6, <3>1
         DEF DebugInv, ShapeOK, OpenStreamsTracked, StreamsOwned, Phases
  <2>5. QED
    BY <1>2, <2>3, <2>4 DEF FdToken
<1>3. CASE r.val \notin fdOpen
  <2>1. cur' = NullStream
        /\ UNCHANGED <<phase, openList, files, closedFiles, fdOpen>>
    BY <1>3 DEF FdToken
  <2>2. QED
    BY <1>1, <2>1, QuietStep DEF DebugInv, ShapeOK, Phases
<1>4. QED
  BY <1>2, <1>3

(* The close loop of H5_term_library moves the head to the closed ones.  *)
LEMMA CloseStreamStep ==
    ASSUME DebugInv, CloseStream PROVE DebugInv'
<1>1. openList # <<>> /\ openList \in Seq(Nat)
  BY DEF CloseStream, DebugInv, ShapeOK
<1>2. /\ closedFiles' = closedFiles \cup {Head(openList)}
      /\ fdOpen' \subseteq fdOpen
      /\ openList' = Tail(openList)
      /\ UNCHANGED <<phase, files>>
      /\ phase = "closing"
  BY DEF CloseStream
<1>3. Range(openList) = {Head(openList)} \cup Range(openList')
  BY <1>1, <1>2, RangeHeadTail
<1>4. Head(openList) \in Nat /\ openList' \in Seq(Nat)
  BY <1>1, <1>2
<1>5. QED
  BY <1>2, <1>3, <1>4
     DEF DebugInv, ShapeOK, OpenStreamsTracked, StreamsOwned

LEMMA PhaseStep ==
    ASSUME DebugInv, TermStart \/ CloseDone \/ Closed \/ UNCHANGED vars
    PROVE  DebugInv'
<1>1. UNCHANGED <<openList, files, closedFiles, fdOpen, cur, trace, pkgStream>>
      /\ phase' \in Phases
      /\ (phase' \in {"mask_all", "mask_env", "live"} => phase' = phase)
  BY DEF TermStart, CloseDone, Closed, vars, Phases, DebugInv, ShapeOK
<1>2. QED
  BY <1>1 DEF DebugInv, ShapeOK, OpenStreamsTracked, StreamsOwned

LEMMA DebugInvStep == DebugInv /\ [Next]_vars => DebugInv'
  BY EndOfStringStep, NameTokenStep, FdTokenStep, SkipCharStep,
     CloseStreamStep, PhaseStep DEF Next

-----------------------------------------------------------------------------
(* No stream H5__debug_mask fdopen'ed is lost: each is on the list that    *)
(* H5_term_library closes, or already closed (OpenStreamsTracked).         *)
THEOREM OpenStreamsTrackedHolds == Spec => []OpenStreamsTracked
<1>1. DebugInv => OpenStreamsTracked
  BY DEF DebugInv
<1>2. QED
  BY <1>1, DebugInvInit, DebugInvStep, PTL DEF Spec

(* Until termination starts, no debug setting and no running parse refers *)
(* to a stream that was fclose'd (StreamsOwned).                          *)
THEOREM StreamsOwnedHolds == Spec => []StreamsOwned
<1>1. DebugInv => StreamsOwned
  BY DEF DebugInv
<1>2. QED
  BY <1>1, DebugInvInit, DebugInvStep, PTL DEF Spec

-----------------------------------------------------------------------------
(* The registry: H5__debug_mask and H5_term_library refine H5DebugStreams. *)

(* Pushing a stream that is not on the list keeps the list duplicate-free. *)
LEMMA InjectiveCons ==
    ASSUME NEW s \in Seq(Nat), NEW k \in Nat, Fn!IsInjective(s), k \notin Range(s)
    PROVE  Fn!IsInjective(<<k>> \o s)
<1> DEFINE t == <<k>> \o s
<1>1. DOMAIN t = 1..(Len(s) + 1) /\ t[1] = k
      /\ \A i \in 2..(Len(s) + 1) : t[i] = s[i - 1]
  OBVIOUS
<1>2. \A i \in 2..(Len(s) + 1) : t[i] # k
  BY <1>1 DEF Range
<1>3. \A a, b \in 2..(Len(s) + 1) : t[a] = t[b] => a = b
  BY <1>1 DEF Fn!IsInjective
<1>4. QED
  BY <1>1, <1>2, <1>3 DEF Fn!IsInjective

(* Popping the head of a duplicate-free list leaves no other copy of it. *)
LEMMA InjectiveTail ==
    ASSUME NEW s \in Seq(Nat), s # <<>>, Fn!IsInjective(s)
    PROVE  /\ Fn!IsInjective(Tail(s))
           /\ Head(s) \notin Range(Tail(s))
           /\ Range(Tail(s)) = Range(s) \ {Head(s)}
<1>1. DOMAIN Tail(s) = 1..(Len(s) - 1)
      /\ \A i \in 1..(Len(s) - 1) : Tail(s)[i] = s[i + 1]
  OBVIOUS
<1>2. Fn!IsInjective(Tail(s))
  BY <1>1 DEF Fn!IsInjective
<1>3. Head(s) \notin Range(Tail(s))
  BY <1>1 DEF Fn!IsInjective, Range
<1>4. QED
  BY <1>2, <1>3, RangeHeadTail

LEMMA RegInvInit == Init => RegInv
  BY DebugInvInit DEF Init, RegInv, Fn!IsInjective, Range

(* Steps that leave the list, the files and the closed streams alone.   *)
LEMMA RegQuietStep ==
    ASSUME RegInv, DebugInv', UNCHANGED <<openList, files, closedFiles>>
    PROVE  RegInv'
  BY DEF RegInv

LEMMA RegFdTokenStep ==
    ASSUME RegInv, FdToken PROVE RegInv'
<1> DEFINE r == Strtol0(input, pos)
           k == Len(files) + 1
<1>1. DebugInv'
  BY FdTokenStep DEF RegInv
<1>2. files \in Seq(Nat) /\ openList \in Seq(Nat)
  BY DEF RegInv, DebugInv, ShapeOK
<1>3. k \notin Range(openList) /\ k \notin closedFiles /\ k \in Nat
  BY <1>2 DEF RegInv
<1>4. CASE r.val \in fdOpen
  <2>1. Len(files') = k
    BY <1>2, <1>4 DEF FdToken
  <2>2. CASE RecordAllocated(k, r.rest) /\ UNCHANGED <<phase, input>>
    <3>1. openList' = <<k>> \o openList /\ UNCHANGED closedFiles
      BY <2>2 DEF RecordAllocated
    <3>2. Range(openList') = {k} \cup Range(openList)
      BY <1>2, <1>3, <3>1, RangeCons
    <3>3. Fn!IsInjective(openList')
      BY <1>2, <1>3, <3>1, InjectiveCons DEF RegInv
    <3>4. QED
      BY <1>1, <1>3, <2>1, <3>1, <3>2, <3>3 DEF RegInv
  <2>3. CASE RecordAllocFailed(k, r)
    <3>1. closedFiles' = closedFiles \cup {k} /\ UNCHANGED openList
      BY <2>3 DEF RecordAllocFailed
    <3>2. Fn!IsInjective(openList')
      BY <3>1 DEF RegInv
    <3>3. Range(openList') = Range(openList)
      BY <3>1
    <3>4. 1..Len(files') = (1..Len(files)) \cup {k}
      BY <1>2, <2>1
    <3>5. QED
      BY <1>1, <1>3, <3>1, <3>2, <3>3, <3>4 DEF RegInv
  <2>4. QED
    BY <1>4, <2>2, <2>3 DEF FdToken
<1>5. CASE r.val \notin fdOpen
  BY <1>1, <1>5, RegQuietStep DEF FdToken
<1>6. QED
  BY <1>4, <1>5

LEMMA RegCloseStreamStep ==
    ASSUME RegInv, CloseStream PROVE RegInv'
<1>1. DebugInv'
  BY CloseStreamStep DEF RegInv
<1>2. openList \in Seq(Nat) /\ openList # <<>> /\ Fn!IsInjective(openList)
  BY DEF CloseStream, RegInv, DebugInv, ShapeOK
<1>3. /\ openList' = Tail(openList)
      /\ closedFiles' = closedFiles \cup {Head(openList)}
      /\ UNCHANGED files
  BY DEF CloseStream
<1>4. /\ Fn!IsInjective(openList')
      /\ Range(openList') = Range(openList) \ {Head(openList)}
  BY <1>2, <1>3, InjectiveTail
<1>5. Head(openList) \in Range(openList)
  BY <1>2 DEF Range
<1>6. QED
  BY <1>1, <1>3, <1>4, <1>5 DEF RegInv

LEMMA RegInvStep == RegInv /\ [Next]_vars => RegInv'
<1> SUFFICES ASSUME RegInv, [Next]_vars PROVE RegInv'
  OBVIOUS
<1>1. DebugInv'
  BY DebugInvStep DEF RegInv
<1>2. CASE FdToken
  BY <1>2, RegFdTokenStep
<1>3. CASE CloseStream
  BY <1>3, RegCloseStreamStep
<1>4. CASE EndOfString \/ NameToken \/ SkipChar \/ TermStart \/ CloseDone
           \/ Closed \/ UNCHANGED vars
  <2>1. UNCHANGED <<openList, files, closedFiles>>
    BY <1>4 DEF EndOfString, NameToken, SkipChar, TermStart, CloseDone,
               Closed, vars
  <2>2. QED
    BY <1>1, <2>1, RegQuietStep
<1>5. QED
  BY <1>2, <1>3, <1>4 DEF Next

(* Each step of the debug configuration is a registry step or a stutter. *)
LEMMA RegistryStep == RegInv /\ [Next]_vars
                        => [Registry!Next]_Registry!streamVars
<1> SUFFICES ASSUME RegInv, [Next]_vars
             PROVE  [Registry!Next]_Registry!streamVars
  OBVIOUS
<1>0. files \in Seq(Nat) /\ openList \in Seq(Nat)
  BY DEF RegInv, DebugInv, ShapeOK
<1>1. CASE FdToken
  <2> DEFINE r == Strtol0(input, pos)
             k == Len(files) + 1
  <2>1. k \notin 1..Len(files)
    OBVIOUS
  <2>2. CASE r.val \in fdOpen
    <3>1. 1..Len(files') = (1..Len(files)) \cup {k} /\ k \in 1..Len(files')
      BY <1>0, <1>1, <2>2 DEF FdToken
    <3>2. CASE RecordAllocated(k, r.rest) /\ UNCHANGED <<phase, input>>
      <4>1. Range(openList') = Range(openList) \cup {k} /\ UNCHANGED closedFiles
        BY <1>0, <3>2, RangeCons DEF RecordAllocated
      <4>2. Registry!Open(k)
        BY <2>1, <3>1, <4>1 DEF Registry!Open
      <4>3. QED
        BY <3>1, <4>2 DEF Registry!Next
    <3>3. CASE RecordAllocFailed(k, r)
      <4>1. closedFiles' = closedFiles \cup {k} /\ UNCHANGED openList
        BY <3>3 DEF RecordAllocFailed
      <4>2. Registry!OpenDropped(k)
        BY <2>1, <3>1, <4>1 DEF Registry!OpenDropped
      <4>3. QED
        BY <3>1, <4>2 DEF Registry!Next
    <3>4. QED
      BY <1>1, <2>2, <3>2, <3>3 DEF FdToken
  <2>3. CASE r.val \notin fdOpen
    BY <1>1, <2>3 DEF FdToken, Registry!streamVars
  <2>4. QED
    BY <2>2, <2>3
<1>2. CASE CloseStream
  <2> DEFINE h == Head(openList)
  <2>1. openList # <<>> /\ Fn!IsInjective(openList)
    BY <1>2 DEF CloseStream, RegInv
  <2>2. h \in Range(openList)
    BY <1>0, <2>1 DEF Range
  <2>3. Range(openList') = Range(openList) \ {h}
        /\ closedFiles' = closedFiles \cup {h} /\ UNCHANGED files
    BY <1>0, <1>2, <2>1, InjectiveTail DEF CloseStream
  <2>4. Registry!Release(h)
    BY <2>2, <2>3 DEF Registry!Release
  <2>5. QED
    BY <2>2, <2>4 DEF Registry!Next
<1>3. CASE EndOfString \/ NameToken \/ SkipChar \/ TermStart \/ CloseDone
           \/ Closed \/ UNCHANGED vars
  <2>1. UNCHANGED <<openList, files, closedFiles>>
    BY <1>3 DEF EndOfString, NameToken, SkipChar, TermStart, CloseDone,
               Closed, vars
  <2>2. QED
    BY <2>1 DEF Registry!streamVars
<1>4. QED
  BY <1>1, <1>2, <1>3 DEF Next

(* The streams of HDF5_DEBUG follow the registry's contract: each is      *)
(* opened once by H5__debug_mask, then owned until H5_term_library's one  *)
(* fclose releases it, or closed at once when H5MM_malloc fails; none is  *)
(* closed twice (StreamRegistryRefined).                                  *)
THEOREM StreamRegistryRefinedHolds == Spec => StreamRegistryRefined
<1>1. Init => Registry!Init
  BY DEF Init, Registry!Init, Range
<1>2. QED
  BY <1>1, RegInvInit, RegInvStep, RegistryStep, PTL
     DEF Spec, StreamRegistryRefined, Registry!Spec
=============================================================================
