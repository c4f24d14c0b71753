--------------------------- MODULE MCFormatSizing ---------------------------
(* The smallest and largest accepted rates and channel counts with refused  *)
(* values next to them, the extremes of both ranges of the command line,    *)
(* and a ring shorter than, as long as and longer than the prefill.         *)
EXTENDS FormatSizing

MCMultipliers == {0, 1, 3, 8, 16, 32, 147, 160, 4095}
MCSampleSizes == {0, 1, 8, 16, 24, 32}
MCChannels == {0, 1, 2, 3, 16, 255}
MCConfigs ==
  LET Tuned == [ring : {50, 93, 1000, 1500, 5000}, prefill : {0, 1, 93, 500, 1000, 5000}]
      Dsd(t) == [t EXCEPT !.prefill = IF @ = 500 THEN 93 ELSE @]
  IN  {[pcm |-> t, dsd |-> Dsd(t), rebuffer |-> r] : t \in Tuned, r \in {0, 95}}
=============================================================================
