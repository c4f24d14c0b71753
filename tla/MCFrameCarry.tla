---------------------------- MODULE MCFrameCarry ----------------------------
(* Mono S24_LE (packed from 4 bytes to 3), mono S24_3LE and mono DSD;      *)
(* packets from one byte to more than a frame and a half.                  *)
EXTENDS FrameCarry

MCFormats == {[src |-> 4, dst |-> 3, dsd |-> FALSE],
              [src |-> 3, dst |-> 3, dsd |-> FALSE],
              [src |-> 4, dst |-> 4, dsd |-> TRUE]}
=============================================================================
