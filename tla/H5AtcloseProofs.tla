--------------------------- MODULE H5AtcloseProofs ---------------------------
(***************************************************************************)
(* Proof that the atclose callbacks run newest first (AtcloseLIFO) for     *)
(* every number of threads and callbacks and every bound on the list, when *)
(* no callback registers another one during termination.  That condition  *)
(* is needed: a callback that calls H5atclose from the walk prepends a     *)
(* node in front of the walk's cursor, which is lost when H5_atclose_head  *)
(* is reset (run lifecycle_atclose_lost).                                  *)
(*                                                                         *)
(* The argument: H5atclose prepends, so the list at H5_atclose_head is     *)
(* always the registrations since the last walk in reverse; the walk      *)
(* starts from that head and moves one node at a time from the part still *)
(* to visit to the part already run.                                       *)
(***************************************************************************)
EXTENDS H5LifecycleProofs

\* The list is the reversed registrations, and the walk splits it in two.
LIFOInv ==
    /\ atclose = Reverse(registered)
    /\ lpc = "drain" => ran \o drain = atclose

IInv == LifeInv /\ LIFOInv

-----------------------------------------------------------------------------
(* Reversing the empty sequence.                                         *)
LEMMA ReverseEmpty == Reverse(<<>>) = <<>>
  BY DEF Reverse

(* Reversing after an append puts the new element in front: H5atclose's   *)
(* prepend matches the order of registration.                             *)
LEMMA ReverseAppend ==
    ASSUME NEW S, NEW r \in Seq(S), NEW x
    PROVE  Reverse(Append(r, x)) = <<x>> \o Reverse(r)
<1> DEFINE n == Len(r)
           f == [i \in 1..(n + 1) |-> IF i = 1 THEN x ELSE r[n - i + 2]]
<1>1. Reverse(Append(r, x)) = f
  BY DEF Reverse
<1>2. <<x>> \o Reverse(r) = f
  BY DEF Reverse
<1>3. QED
  BY <1>1, <1>2

(* One node moved from the part still to visit to the part already run.  *)
LEMMA ConcatMoveHead ==
    ASSUME NEW S, NEW a \in Seq(S), NEW d \in Seq(S), d # <<>>
    PROVE  Append(a, Head(d)) \o Tail(d) = a \o d
  OBVIOUS

LEMMA ConcatEmpty ==
    ASSUME NEW S, NEW a \in Seq(S)
    PROVE  a \o <<>> = a /\ <<>> \o a = a
  OBVIOUS

(* H5atclose's body keeps the list equal to the reversed registrations.  *)
LEMMA ApiBodyLIFO ==
    ASSUME registered \in Seq(Callbacks), atclose = Reverse(registered),
           NEW c, ApiBody(c)
    PROVE  atclose' = Reverse(registered')
<1>1. CASE c.api = "H5atclose"
  <2>1. atclose' = <<c.cb>> \o atclose /\ registered' = Append(registered, c.cb)
    BY <1>1 DEF ApiBody
  <2>2. QED
    BY <2>1, ReverseAppend
<1>2. CASE c.api # "H5atclose"
  BY <1>2 DEF ApiBody
<1>3. QED
  BY <1>1, <1>2

-----------------------------------------------------------------------------
LEMMA LIFOInvInit == Init => LIFOInv
  BY ReverseEmpty DEF Init, LIFOInv

(* No step that starts outside the walk enters it, except H5_term_library *)
(* taking the head; no step leaves the list alone while changing the      *)
(* registrations.  One lemma per entry point, then the inner steps.       *)
LEMMA EnterApiLIFO ==
    ASSUME LifeInv, LIFOInv, NEW t \in Threads, NEW c \in Calls, EnterApi(t, c)
    PROVE  LIFOInv'
<1>1. lpc = "idle"
  BY DEF EnterApi, Idle
<1>2. CASE ~libinit /\ ~libterm
  <2>1. UNCHANGED <<atclose, registered>> /\ lpc' = "initsub"
    BY <1>2 DEF EnterApi
  <2>2. QED
    BY <2>1 DEF LIFOInv
<1>3. CASE ~(~libinit /\ ~libterm)
  <2>1. ApiBody(c) /\ lpc' = lpc
    BY <1>3 DEF EnterApi
  <2>2. atclose' = Reverse(registered')
    BY <2>1, ApiBodyLIFO DEF LifeInv, TypeOK, LIFOInv
  <2>3. QED
    BY <1>1, <2>1, <2>2 DEF LIFOInv
<1>4. QED
  BY <1>2, <1>3

LEMMA TermLibraryLIFO ==
    ASSUME LifeInv, LIFOInv, NEW t \in Threads, NEW c \in Calls, TermLibrary(t, c)
    PROVE  LIFOInv'
<1>1. UNCHANGED <<atclose, registered>>
  BY DEF TermLibrary
<1>2. CASE libinit
  <2>1. lpc' = "drain" /\ drain' = atclose /\ ran' = <<>>
    BY <1>2 DEF TermLibrary
  <2>2. atclose \in Seq(Callbacks)
    BY DEF LifeInv, TypeOK
  <2>3. QED
    BY <1>1, <2>1, <2>2, ConcatEmpty DEF LIFOInv
<1>3. CASE ~libinit
  <2>1. lpc' \in {"exited", "idle"}
    BY <1>3 DEF TermLibrary
  <2>2. QED
    BY <1>1, <2>1 DEF LIFOInv
<1>4. QED
  BY <1>2, <1>3

LEMMA ProcessExitLIFO ==
    ASSUME LifeInv, LIFOInv, NEW t \in Threads, ProcessExit(t)
    PROVE  LIFOInv'
<1>1. CASE atexitRegs > 0
  <2>1. [api |-> "exit", cb |-> NoCb] \in Calls
    BY DEF Calls, Apis
  <2>2. QED
    BY <1>1, <2>1, TermLibraryLIFO DEF ProcessExit
<1>2. CASE ~(atexitRegs > 0)
  <2>1. UNCHANGED <<atclose, registered>> /\ lpc' = "exited"
    BY <1>2 DEF ProcessExit
  <2>2. QED
    BY <2>1 DEF LIFOInv
<1>3. QED
  BY <1>1, <1>2

LEMMA InitSubsystemLIFO ==
    ASSUME LifeInv, LIFOInv, InitSubsystem PROVE LIFOInv'
<1>1. lpc = "initsub" /\ lpc' \in {"initsub", "idle"}
  BY DEF InitSubsystem
<1>2. atclose' = Reverse(registered')
  <2>1. CASE ApiBody(call)
    BY <2>1, ApiBodyLIFO DEF LifeInv, TypeOK, LIFOInv
  <2>2. CASE UNCHANGED <<atclose, registered>>
    BY <2>2 DEF LIFOInv
  <2>3. QED
    BY <2>1, <2>2 DEF InitSubsystem
<1>3. QED
  BY <1>1, <1>2 DEF LIFOInv

(* A callback that does not register moves one node across the cursor.   *)
LEMMA AtcloseCallbackLIFO ==
    ASSUME "register" \notin CbActs, LifeInv, LIFOInv, AtcloseCallback
    PROVE  LIFOInv'
<1>1. /\ lpc = "drain" /\ lpc' = "drain" /\ drain # <<>>
      /\ ran' = Append(ran, Head(drain)) /\ drain' = Tail(drain)
  BY DEF AtcloseCallback
<1>2. UNCHANGED <<atclose, registered>>
  BY DEF AtcloseCallback
<1>3. ran \in Seq(Callbacks) /\ drain \in Seq(Callbacks)
  BY DEF LifeInv, TypeOK
<1>4. ran' \o drain' = ran \o drain
  BY <1>1, <1>3, ConcatMoveHead
<1>5. QED
  BY <1>1, <1>2, <1>4 DEF LIFOInv

LEMMA OtherStepsLIFO ==
    ASSUME LIFOInv,
           \/ \E t \in Threads : H5dont_atexit(t)
           \/ AtcloseDone \/ ShutdownStep \/ TermFinish \/ ProcessEnded
           \/ UNCHANGED vars
    PROVE  LIFOInv'
<1>1. CASE AtcloseDone
  BY <1>1, ReverseEmpty DEF AtcloseDone, LIFOInv
<1>2. CASE \E t \in Threads : H5dont_atexit(t)
  BY <1>2 DEF H5dont_atexit, LIFOInv
<1>3. CASE ShutdownStep
  BY <1>3 DEF ShutdownStep, libVars, LIFOInv
<1>4. CASE TermFinish
  <2>1. UNCHANGED <<atclose, registered>> /\ lpc' \in {"aborted", "exited", "idle"}
    BY <1>4 DEF TermFinish
  <2>2. QED
    BY <2>1 DEF LIFOInv
<1>5. CASE ProcessEnded \/ UNCHANGED vars
  BY <1>5 DEF ProcessEnded, vars, libVars, LIFOInv
<1>6. QED
  BY <1>1, <1>2, <1>3, <1>4, <1>5

LEMMA LIFOInvStep ==
    ASSUME "register" \notin CbActs
    PROVE  IInv /\ [Next]_vars => IInv'
<1> SUFFICES ASSUME LifeInv, LIFOInv, [Next]_vars PROVE IInv'
  BY DEF IInv
<1>1. LifeInv'
  BY LifeInvStep
<1>2. ASSUME NEW t \in Threads, H5open(t) PROVE LIFOInv'
  <2>1. [api |-> "H5open", cb |-> NoCb] \in Calls
    BY DEF Calls, Apis
  <2>2. QED
    BY <1>2, <2>1, EnterApiLIFO DEF H5open
<1>3. ASSUME NEW t \in Threads, NEW cb \in Callbacks, H5atclose(t, cb)
      PROVE LIFOInv'
  <2>1. [api |-> "H5atclose", cb |-> cb] \in Calls
    BY DEF Calls, Apis
  <2>2. QED
    BY <1>3, <2>1, EnterApiLIFO DEF H5atclose
<1>4. ASSUME NEW t \in Threads, H5close(t) PROVE LIFOInv'
  <2>1. [api |-> "H5close", cb |-> NoCb] \in Calls
    BY DEF Calls, Apis
  <2>2. QED
    BY <1>4, <2>1, TermLibraryLIFO DEF H5close
<1>5. LIFOInv'
  BY <1>2, <1>3, <1>4, ProcessExitLIFO, InitSubsystemLIFO,
     AtcloseCallbackLIFO, OtherStepsLIFO DEF Next
<1>6. QED
  BY <1>1, <1>5 DEF IInv

(* When no atclose callback registers another one, the walk of            *)
(* H5_term_library runs exactly the callbacks registered since the last   *)
(* walk, newest first (AtcloseLIFO), for every set of threads, callbacks  *)
(* and bound MaxAtclose.                                                   *)
THEOREM AtcloseLIFOHolds ==
    ASSUME "register" \notin CbActs
    PROVE  Spec => []AtcloseLIFO
<1>1. Init => IInv
  BY LifeInvInit, LIFOInvInit DEF IInv
<1>2. IInv /\ [Next]_vars => IInv'
  BY LIFOInvStep
<1>3. IInv => AtcloseLIFO
  <2> SUFFICES ASSUME IInv, lpc = "drain", drain = <<>>
               PROVE  ran = Reverse(registered)
    BY DEF AtcloseLIFO
  <2>1. ran \in Seq(Callbacks)
    BY DEF IInv, LifeInv, TypeOK
  <2>2. QED
    BY <2>1, ConcatEmpty DEF IInv, LIFOInv
<1>4. QED
  BY <1>1, <1>2, <1>3, PTL DEF Spec
=============================================================================
