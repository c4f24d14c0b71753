--------------------------- MODULE MCTransferMode ---------------------------
(* A link that takes jumbo packets and a standard one; SDKs whose real      *)
(* overhead is below, at and above what the code guesses (6 and 22), with   *)
(* each way of rounding a cycle; formats on both sides of the low-bitrate   *)
(* rule, two of DSD, the fastest among them, and one whose 100 us outgrow a *)
(* packet.                                                                  *)
EXTENDS TransferMode

MCMtus == {1500, 3824}
MCSdks == {[overhead |-> 2, rounding |-> "up", probes |-> {16, 24, 32}],
           [overhead |-> 22, rounding |-> "nearest", probes |-> {24, 32}],
           [overhead |-> 40, rounding |-> "bytes", probes |-> {16, 32}],
           [overhead |-> 30, rounding |-> "up", probes |-> {32}],
           [overhead |-> 6, rounding |-> "down", probes |-> {}],
           [overhead |-> 34, rounding |-> "up", probes |-> {}],
           [overhead |-> 35, rounding |-> "nearest", probes |-> {}]}
MCFormats == {[rate |-> 441, ch |-> 2, bits |-> 16, dsd |-> FALSE],
              [rate |-> 960, ch |-> 2, bits |-> 16, dsd |-> FALSE],
              [rate |-> 480, ch |-> 2, bits |-> 24, dsd |-> FALSE],
              [rate |-> 1920, ch |-> 2, bits |-> 32, dsd |-> FALSE],
              [rate |-> 882, ch |-> 2, bits |-> 32, dsd |-> TRUE],
              [rate |-> 7056, ch |-> 2, bits |-> 32, dsd |-> TRUE],
              [rate |-> 7680, ch |-> 8, bits |-> 32, dsd |-> FALSE]}
Plain(m, c) == [mode |-> m, cycle |-> c, hz |-> 0, limit |-> 0]
MCOptions ==
  {Plain(m, c) : m \in {"auto", "autofix", "varmax", "fixauto"}, c \in {0, 400, 3000, 10000}}
    \cup {[mode |-> "varprio", cycle |-> 0, hz |-> 700, limit |-> 0],
          [mode |-> "auto", cycle |-> 0, hz |-> 0, limit |-> 200]}

MCFrameSizes == {}
MCRawCycles == {}
MCByteRates == {}
=============================================================================
