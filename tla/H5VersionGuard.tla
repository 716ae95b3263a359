--------------------------- MODULE H5VersionGuard ---------------------------
(***************************************************************************)
(* What the version guard promises (spec 4.1 and 5): one decision per      *)
(* process, taken on the first effective check, for the header numbers of  *)
(* that check and the override level then in force.  An incompatible pair *)
(* aborts at level 0, warns at level 1 and passes silently above; a        *)
(* compatible pair passes.  Once taken, the decision, the numbers it was   *)
(* taken for and the level never change.                                  *)
(***************************************************************************)
EXTENDS Naturals

CONSTANTS
    Hdrs,     \* the version triples a check may be made for
    NoHdr,    \* no check has been made
    Bad(_)    \* the pair of a triple and the library is incompatible

VARIABLES
    hdr,      \* the triple the decision was taken for
    lvl,      \* the override level it was taken under
    verdict   \* "none", "pass", "warned" or "aborted"

guardVars == <<hdr, lvl, verdict>>

\* Level 1 written as "<= 1" as the code's switch reads an unsigned: 0
\* aborts, 1 warns, anything else passes.
Outcome(h, l) ==
    IF ~Bad(h) THEN "pass"
    ELSE IF l = 0 THEN "aborted"
    ELSE IF l <= 1 THEN "warned"
    ELSE "pass"

Init == verdict = "none" /\ hdr = NoHdr /\ lvl = 0

\* The one decision; the level is whatever the environment gave.
Decide ==
    /\ verdict = "none"
    /\ hdr' \in Hdrs
    /\ verdict' = Outcome(hdr', lvl')

Spec == Init /\ [][Decide]_guardVars
=============================================================================
