-------------------------- MODULE MCUnderrunWatch --------------------------
(* UnderrunWatch over the ring, cycles and thresholds of the SyncPull      *)
(* model: cycles of 1 or 2 frames, thresholds at zero, below a cycle,      *)
(* between, and at the ring's capacity.                                    *)
EXTENDS UnderrunWatch

MCTunings == {[prefill |-> 0, rebuffer |-> 0], [prefill |-> 2, rebuffer |-> 3],
              [prefill |-> 4, rebuffer |-> 1]}
=============================================================================
