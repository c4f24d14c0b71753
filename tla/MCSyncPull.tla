----------------------------- MODULE MCSyncPull -----------------------------
(* The pull protocol on a ring of 5 frames whose pushes and pops overlap,  *)
(* with cycles of 1 or 2 frames (the drift compensation adds one every     *)
(* third cycle).  The tunings take both thresholds at zero, below a cycle, *)
(* between, and at the ring's capacity.                                    *)
EXTENDS RingPull

MCTunings == {[prefill |-> 0, rebuffer |-> 0], [prefill |-> 3, rebuffer |-> 4],
              [prefill |-> 5, rebuffer |-> 1]}
=============================================================================
