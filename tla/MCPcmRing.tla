----------------------------- MODULE MCPcmRing -----------------------------
(* PcmRing on two geometries: frames of 3 bytes never divide the ring, so  *)
(* every frame size meets every wrap position; frames of 2 bytes leave one *)
(* slot of odd room.                                                       *)
EXTENDS PcmRing

MCGeometries == {[size |-> 8, bpf |-> 3], [size |-> 8, bpf |-> 2]}
=============================================================================
