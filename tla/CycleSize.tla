----------------------------- MODULE CycleSize -----------------------------
(***************************************************************************)
(* The bytes getNewStream() hands to the SDK, cycle after cycle.  The SDK  *)
(* asks for getCycleSize() bytes, which need not be whole frames;          *)
(* configureFormat() truncates the cycle and getNewStream() adds a frame   *)
(* whenever what was truncated adds up to one.                             *)
(***************************************************************************)
EXTENDS Integers

CONSTANTS FrameSizes,   \* bytes per frame
          RawCycles,    \* what getCycleSize() returns, 0 included
          ByteRates,    \* bytes per second
          MaxCycles     \* bound: cycles after configureFormat()

ASSUME CycleAssumption == /\ FrameSizes \subseteq Nat \ {0} /\ RawCycles \subseteq Nat
                          /\ ByteRates \subseteq Nat \ {0} /\ MaxCycles \in Nat

VARIABLES bpf,         \* m_bytesPerFrame, 0 before configureFormat()
          intended,    \* raw_cycle as configureFormat() leaves it
          streamBytes, \* m_streamBytes
          remainder,   \* m_cycleRemainder
          acc,         \* m_cycleRemainderAccumulator
          room,        \* m_streamData.size()
          want,        \* bytes of the last cycle
          cycles, given  \* history: cycles since configureFormat(), their bytes
config == <<bpf, intended, streamBytes, remainder, room>>
vars == <<config, acc, want, cycles, given>>

WholeFrames(bytes, b) == (bytes \div b) * b

Init == /\ bpf = 0 /\ intended = 0 /\ streamBytes = 0 /\ remainder = 0 /\ acc = 0
        /\ room = 0 /\ want = 0 /\ cycles = 0 /\ given = 0

\* Without a whole frame from the SDK: 1 ms of audio, or one frame.
Fallback(rate, b) == IF rate \div 1000 < b THEN b ELSE WholeFrames(rate \div 1000, b)

RoomExact(cycle, b) == cycle     \* mutant: no room for the added frame
Room(cycle, b) == cycle + b

configureFormat(b, raw, rate) ==
  LET whole == raw >= b
      cycle == IF whole THEN WholeFrames(raw, b) ELSE Fallback(rate, b)
  IN  /\ bpf' = b /\ streamBytes' = cycle
      /\ intended' = IF whole THEN raw ELSE cycle
      /\ remainder' = IF whole THEN raw - cycle ELSE 0
      /\ room' = Room(cycle, b)
      /\ acc' = 0 /\ want' = 0 /\ cycles' = 0 /\ given' = 0

CarriedNone(sum) == 0            \* mutant: the rest is dropped with the frame
CarriedAll(sum) == sum           \* mutant: the added frame is not paid back
Carried(sum) == IF sum >= bpf THEN sum - bpf ELSE sum

ExtraSplit(sum) == IF sum >= bpf THEN sum - bpf ELSE 0   \* mutant: odd bytes added
Extra(sum) == IF sum >= bpf THEN bpf ELSE 0

getNewStream ==
  LET sum == acc + remainder
  IN  /\ bpf > 0 /\ cycles < MaxCycles
      /\ want' = streamBytes + Extra(sum)
      /\ acc' = Carried(sum)
      /\ cycles' = cycles + 1 /\ given' = given + want'
      /\ UNCHANGED config

Next == \/ \E b \in FrameSizes, raw \in RawCycles, rate \in ByteRates : configureFormat(b, raw, rate)
        \/ getNewStream
Spec == Init /\ [][Next]_vars
-----------------------------------------------------------------------------
\* Type invariant: less than a frame is ever owed.
TypeOK == /\ bpf \in Nat /\ intended \in Nat /\ streamBytes \in Nat /\ room \in Nat
          /\ want \in Nat /\ given \in Nat /\ cycles \in 0..MaxCycles
          /\ bpf > 0 => remainder \in 0..(bpf - 1) /\ acc \in 0..(bpf - 1)
          /\ bpf = 0 => remainder = 0 /\ acc = 0

\* "Keeps the long-term average bytes-per-cycle equal to the SDK's intended
\* value": after any number of cycles the SDK has had less than one frame
\* fewer than it asked for, and never more (diretta_sync.cpp:224-242).
AverageKept == bpf > 0 => /\ given <= cycles * intended
                          /\ cycles * intended < given + bpf

Whole(bytes) == \E k \in 0..bytes : bytes = k * bpf
\* No frame is split between two cycles: channels never swap sides.
WholeFramesPopped == Whole(want)

\* "The extra frame fits in m_streamData" (diretta_sync.cpp:203-204).
ExtraFrameFits == want <= room

-----------------------------------------------------------------------------
\* What makes it so: what was truncated is either owed or has been given.
Accounts == /\ acc + given = cycles * intended
            /\ intended = streamBytes + remainder
            /\ bpf > 0 => room = streamBytes + bpf
            /\ Whole(streamBytes)
IInv == TypeOK /\ Accounts /\ WholeFramesPopped /\ ExtraFrameFits
=============================================================================
