--------------------------- MODULE MC_H5TermEngine ---------------------------
(* Small instances of the shutdown loop for TLC.                           *)
EXTENDS H5TermEngine

(* Closing dataset IDs (D_top) leaves a file for F to close; closing a     *)
(* file can leave dataset IDs and metadata cache entries behind: a soft    *)
(* cycle between D_top and F that may keep the loop busy for ever.        *)
MCFeeds ==
    [s \in Subsys |-> IF s = "D_top" THEN {"F"}
                      ELSE IF s = "F" THEN {"D_top", "AC"}
                      ELSE {}]

(* The subsystems that may hold work when the loop starts.                *)
MCBusy == {"L", "D_top", "F", "FL"}

MCWorkInit == {[s \in Subsys |-> IF s \in B THEN 1 ELSE 0] : B \in SUBSET MCBusy}
=============================================================================
