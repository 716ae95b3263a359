--------------------------- MODULE H5DebugStreams ---------------------------
(***************************************************************************)
(* What the debug configuration promises about the FILE streams it opens  *)
(* for HDF5_DEBUG: each is opened once; it is then owned by the library    *)
(* until one fclose releases it, or it is closed at once when it cannot be *)
(* kept; a closed stream is never owned or closed again.                   *)
(***************************************************************************)
VARIABLES
    opened,   \* streams ever opened
    owned,    \* streams the library holds and will close
    closed    \* streams that were fclose'd

streamVars == <<opened, owned, closed>>

Init == opened = {} /\ owned = {} /\ closed = {}

Open(k) ==
    /\ k \notin opened
    /\ opened' = opened \cup {k} /\ owned' = owned \cup {k}
    /\ UNCHANGED closed

\* Opened, then closed at once because it could not be recorded.
OpenDropped(k) ==
    /\ k \notin opened
    /\ opened' = opened \cup {k} /\ closed' = closed \cup {k}
    /\ UNCHANGED owned

Release(k) ==
    /\ k \in owned
    /\ owned' = owned \ {k} /\ closed' = closed \cup {k}
    /\ UNCHANGED opened

Next ==
    \/ \E k \in opened' : Open(k) \/ OpenDropped(k)
    \/ \E k \in owned : Release(k)

Spec == Init /\ [][Next]_streamVars
=============================================================================
