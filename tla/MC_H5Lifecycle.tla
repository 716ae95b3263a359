--------------------------- MODULE MC_H5Lifecycle ---------------------------
(* The life cycle on a small instance: two threads, two callbacks, an      *)
(* atclose list of at most two nodes, one debug descriptor, and a shutdown *)
(* loop entered either with nothing to do or with a file kept open by a    *)
(* dataset (D_top hands work to F), which one extra sweep cannot clear.   *)
EXTENDS H5Lifecycle, TLC

MCFeeds == [s \in Subsys |-> IF s = "D_top" THEN {"F"} ELSE {}]

MCWorkInit ==
    { [s \in Subsys |-> 0],
      [s \in Subsys |-> IF s \in {"D_top", "F"} THEN 1 ELSE 0] }

MCSymmetry == Permutations(Threads) \cup Permutations(Callbacks)
=============================================================================
