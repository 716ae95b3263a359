--------------------------- MODULE H5LibraryState ---------------------------
(***************************************************************************)
(* What the library promises about its global state (spec 3 and 5): it is *)
(* uninitialised, initialised or terminating.  Initialisation starts only  *)
(* from uninitialised; termination only from initialised, and it ends by   *)
(* returning to uninitialised (ready for a later re-init) or by aborting   *)
(* the process.  The process may also exit while the library is not        *)
(* terminating.  Once the process has ended nothing changes.               *)
(***************************************************************************)
VARIABLES
    lib,    \* "uninit", "init" or "term"
    ended   \* the process has exited or aborted

absVars == <<lib, ended>>

StateTypeOK == lib \in {"uninit", "init", "term"} /\ ended \in BOOLEAN

Init == lib = "uninit" /\ ended = FALSE

Initialize == ~ended /\ lib = "uninit" /\ lib' = "init" /\ UNCHANGED ended

BeginTerm == ~ended /\ lib = "init" /\ lib' = "term" /\ UNCHANGED ended

\* Termination completes; when the atexit hook ran it, the process then ends.
EndTerm == ~ended /\ lib = "term" /\ lib' = "uninit" /\ ended' \in BOOLEAN

\* A shutdown that did not converge aborts with the flags still set.
AbortTerm == ~ended /\ lib = "term" /\ ended' = TRUE /\ UNCHANGED lib

\* Process exit with no termination to run.
Exit == ~ended /\ lib \in {"uninit", "init"} /\ ended' = TRUE /\ UNCHANGED lib

Next == Initialize \/ BeginTerm \/ EndTerm \/ AbortTerm \/ Exit

Spec == Init /\ [][Next]_absVars

=============================================================================
