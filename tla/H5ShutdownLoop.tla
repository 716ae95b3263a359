--------------------------- MODULE H5ShutdownLoop ---------------------------
(***************************************************************************)
(* What the shutdown loop of H5_term_library promises, with the order of   *)
(* the 26 calls, the gates and the report buffer left out: while it runs,  *)
(* subsystems release their work one unit at a time (possibly handing a    *)
(* unit on); it begins at most MaxTries + 1 sweeps; it ends clean only    *)
(* when no subsystem holds work, and gives up only in its last sweep.     *)
(***************************************************************************)
EXTENDS Naturals

CONSTANTS
    Subsys,     \* the subsystems the loop shuts down
    MaxTries,   \* the retry cap
    MaxWork,    \* bound on the units of work one subsystem can hold
    Feeds       \* Feeds[s]: subsystems to which s's shutdown may hand work

VARIABLES
    work,      \* work[s]: units of work subsystem s still holds
    sweeps,    \* sweeps begun
    outcome    \* "running", "clean" or "gaveup"

loopVars == <<work, sweeps, outcome>>

Running == outcome = "running"

Init ==
    /\ work \in [Subsys -> 0..MaxWork]
    /\ sweeps = 1
    /\ outcome = "running"

\* A subsystem with work releases one unit, or hands it to one it feeds.
Release ==
    /\ Running
    /\ \E s \in Subsys :
          /\ work[s] > 0
          /\ \/ work' = [work EXCEPT ![s] = @ - 1]
             \/ \E t \in Feeds[s] \ {s} :
                   /\ work[t] < MaxWork
                   /\ work' = [work EXCEPT ![s] = @ - 1, ![t] = @ + 1]
    /\ UNCHANGED <<sweeps, outcome>>

NewSweep ==
    /\ Running /\ sweeps <= MaxTries
    /\ sweeps' = sweeps + 1
    /\ UNCHANGED <<work, outcome>>

FinishClean ==
    /\ Running /\ \A s \in Subsys : work[s] = 0
    /\ outcome' = "clean"
    /\ UNCHANGED <<work, sweeps>>

GiveUp ==
    /\ Running /\ sweeps = MaxTries + 1
    /\ outcome' = "gaveup"
    /\ UNCHANGED <<work, sweeps>>

Next == Release \/ NewSweep \/ FinishClean \/ GiveUp

Spec == Init /\ [][Next]_loopVars
=============================================================================
